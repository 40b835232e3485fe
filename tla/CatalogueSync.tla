--------------------------- MODULE CatalogueSync ---------------------------
(***************************************************************************)
(* services/woocommerce_sync.py, which copies the store's products into    *)
(* data/products.json: page by page while the store changes under it, and  *)
(* over the old file in place.  It runs beside the application, may die at *)
(* any point and is run again.                                             *)
(*                                                                         *)
(* The store is external.  A published product comes first in its          *)
(* listing, newest first, which is WooCommerce's default order; a retried  *)
(* request is one request, since it only reads.                            *)
(***************************************************************************)
EXTENDS Integers, Sequences, SequencesExt

CONSTANTS
  Product,
  Variations,   \* product -> its variations; none for a simple product
  NoPrice,      \* rows without a price: <<product, variation>>, 0 for a simple one
  PerPage,      \* PER_PAGE
  MaxChanges,   \* bound: changes of the store
  MaxSyncs      \* bound: syncs begun

ASSUME SyncAssumption ==
  /\ Variations \in [Product -> Nat]
  /\ PerPage \in Nat \ {0} /\ MaxChanges \in Nat /\ MaxSyncs \in Nat

VARIABLES
  store,     \* the published products, in listing order
  changes,   \* how often the store changed
  syncs,     \* how often a sync was begun
  sync,      \* the running sync
  file       \* data/products.json

syncVars == <<store, changes, syncs, sync, file>>

Rows(p) == IF Variations[p] = 0 THEN {<<p, 0>>} ELSE {p} \X (1 .. Variations[p])

\* One request without a page number: the first PerPage variations.
FetchVariations(p) ==
  IF Variations[p] = 0 THEN {<<p, 0>>} ELSE {r \in Rows(p) : r[2] <= PerPage}

\* Listing n of the store, PerPage products long; its last ones are shorter.
Page(n) == SubSeq(store, PerPage * (n - 1) + 1,
                  IF PerPage * n <= Len(store) THEN PerPage * n ELSE Len(store))

-----------------------------------------------------------------------------
\* "kept" is a history variable: the products published ever since the sync
\* began, without those that a removal made move up in the listing.
NotRunning == [pc |-> "off", page |-> 0, fetched |-> <<>>, rows |-> {}, kept |-> {}]

\* What is in the file when it is whole, and what the sync that wrote it could
\* have seen in every listing.
File(state, rows, kept) == [state |-> state, rows |-> rows, kept |-> kept]

SyncInit ==
  /\ store \in {s \in SeqOf(Product, 2 * PerPage) : IsInjective(s)}
  /\ changes = 0 /\ syncs = 0
  /\ sync = NotRunning
  /\ file = File("absent", {}, {})

StorePublishes(p) ==
  /\ changes < MaxChanges /\ p \notin ToSet(store)
  /\ store' = <<p>> \o store
  /\ changes' = changes + 1
  /\ UNCHANGED <<syncs, sync, file>>

StoreUnpublishes(i) ==
  /\ changes < MaxChanges
  /\ store' = RemoveAt(store, i)
  /\ changes' = changes + 1
  /\ sync' = [sync EXCEPT !.kept = @ \cap {store[j] : j \in 1 .. i - 1}]
  /\ UNCHANGED <<syncs, file>>

StartSync ==
  /\ sync.pc = "off" /\ syncs < MaxSyncs
  /\ syncs' = syncs + 1
  /\ sync' = [NotRunning EXCEPT !.pc = "pages", !.page = 1, !.kept = ToSet(store)]
  /\ UNCHANGED <<store, changes, file>>

\* mutant: a full page is taken for the last one
FetchPageStopsAtFull ==
  /\ sync.pc = "pages"
  /\ sync' = [sync EXCEPT !.fetched = @ \o Page(sync.page), !.page = @ + 1,
                          !.pc = IF Len(Page(sync.page)) <= PerPage THEN "variations" ELSE @]
  /\ UNCHANGED <<store, changes, syncs, file>>

\* _fetch_all_products(): the pages up to one that is short, or empty.
FetchPage ==
  /\ sync.pc = "pages"
  /\ sync' = [sync EXCEPT !.fetched = @ \o Page(sync.page), !.page = @ + 1,
                          !.pc = IF Len(Page(sync.page)) < PerPage THEN "variations" ELSE @]
  /\ UNCHANGED <<store, changes, syncs, file>>

\* mutant: an empty catalogue is written like any other
BuildEmptyCatalogue ==
  /\ sync.pc = "variations"
  /\ sync' = [sync EXCEPT !.pc = "open",
       !.rows = (UNION {FetchVariations(p) : p \in ToSet(sync.fetched)}) \ NoPrice]
  /\ UNCHANGED <<store, changes, syncs, file>>

\* build_catalogue(): one row for each variation, or for the simple product,
\* that has a price; then main(), which writes nothing over the old catalogue
\* when there is no row at all.
BuildCatalogue ==
  /\ sync.pc = "variations"
  /\ LET rows == (UNION {FetchVariations(p) : p \in ToSet(sync.fetched)}) \ NoPrice
     IN sync' = IF rows = {} THEN NotRunning
                ELSE [sync EXCEPT !.pc = "open", !.rows = rows]
  /\ UNCHANGED <<store, changes, syncs, file>>

\* Opening the file for writing empties it ...
OpenFile ==
  /\ sync.pc = "open"
  /\ file' = File("torn", {}, {})
  /\ sync' = [sync EXCEPT !.pc = "dump"]
  /\ UNCHANGED <<store, changes, syncs>>

\* ... and it is no JSON before the last bracket is out.
DumpFile ==
  /\ sync.pc = "dump"
  /\ file' = File("whole", sync.rows, sync.kept)
  /\ sync' = NotRunning
  /\ UNCHANGED <<store, changes, syncs>>

\* A request that failed its last attempt, or a crash.
SyncDies ==
  /\ sync.pc # "off"
  /\ sync' = NotRunning
  /\ UNCHANGED <<store, changes, syncs, file>>

SyncNext ==
  \/ \E p \in Product : StorePublishes(p)
  \/ \E i \in DOMAIN store : StoreUnpublishes(i)
  \/ StartSync \/ FetchPage \/ BuildCatalogue \/ OpenFile \/ DumpFile \/ SyncDies

-----------------------------------------------------------------------------
(* Properties.                                                             *)

\* Whatever is published between two pages, a catalogue that was written in
\* full lists every product published all through the sync, with each priced
\* variation.  Only a removal can pull a product onto a page already fetched,
\* and only a product with more variations than a page holds loses some
\* (_fetch_all_products(), _fetch_variations(), build_catalogue()).
CatalogueIsComplete ==
  file.state = "whole" =>
    \A p \in file.kept :
      Variations[p] <= PerPage => Rows(p) \ NoPrice \subseteq file.rows
=============================================================================
