-------------------------- MODULE SearchIndexProofs --------------------------
(***************************************************************************)
(* The catalogue file is complete and the index in memory is made of rows  *)
(* and embeddings that belong together, for any products, page length,     *)
(* number of changes, syncs, threads, searches and restarts.               *)
(***************************************************************************)
EXTENDS SearchIndex, TLAPS, SequenceTheorems

AllRows == UNION {Rows(p) : p \in Product}

\* What build_catalogue() makes of the products is all there.
Holds(rows, kept) == \A p \in kept : FetchVariations(p) \ NoPrice \subseteq rows

SyncTyped ==
  /\ store \in Seq(Product) /\ IsInjective(store)
  /\ sync \in [pc : {"off", "pages", "variations", "open", "dump"}, page : Nat,
               fetched : Seq(Product), rows : SUBSET AllRows, kept : SUBSET Product]
  /\ file \in [state : {"absent", "torn", "whole"}, rows : SUBSET AllRows,
               kept : SUBSET Product]

\* The products a sync has not fetched, it is still to meet: their places in
\* the listing are not before the next page.
Ahead(p) == \E j \in DOMAIN store : j > PerPage * (sync.page - 1) /\ store[j] = p

Listing ==
  /\ sync.page \in 1 .. Len(sync.fetched) + 1
  /\ \A p \in sync.kept : p \in ToSet(sync.fetched) \/ Ahead(p)

Paging ==
  /\ sync.page <= Len(sync.fetched) + 2
  /\ sync.pc = "pages" => Listing
  /\ sync.pc = "variations" => sync.kept \subseteq ToSet(sync.fetched)
  /\ sync.pc \in {"open", "dump"} => sync.rows # {} /\ Holds(sync.rows, sync.kept)

FileInv ==
  /\ (file.state = "whole") <=> (file.rows # {})
  /\ Holds(file.rows, file.kept)

SyncInv == SyncTyped /\ Paging /\ FileInv

IndexTyped ==
  /\ entries \in (SUBSET AllRows) \cup {None}
  /\ embeddings \in (SUBSET AllRows) \cup {None}
  /\ thread \in [Thread -> [pc : {"idle", "ensure", "read", "embed", "store", "query", "score"},
                            texts : SUBSET AllRows]]

\* Nobody embeds, and nothing has embeddings, before there are entries.
EntriesFirst ==
  /\ \A t \in Thread : thread[t].pc \in {"embed", "store"} => entries # None
  /\ embeddings # None => entries # None

\* Unless the file was written meanwhile, all that load read the same rows.
SameRows ==
  ~rewritten =>
    /\ entries # None /\ (\E t \in Thread : Loading(t)) => entries = file.rows
    /\ \A t \in Thread : thread[t].pc = "store" => thread[t].texts = entries
    /\ embeddings # None => embeddings = entries
    /\ answer # None => answer.rows = answer.scored

IndexInv == IndexTyped /\ EntriesFirst /\ SameRows /\ MissingEmbeddingsAreExplained

-----------------------------------------------------------------------------
(* The listing and its pages.                                              *)

LEMMA PageBounds ==
  ASSUME NEW n \in Nat \ {0}
  PROVE  /\ PerPage * (n - 1) \in Nat
         /\ PerPage * n = PerPage * (n - 1) + PerPage
BY SyncAssumption

\* What the page after n - 1 pages brings, and leaves for the pages after it.
LEMMA PageBrings ==
  ASSUME SyncTyped, NEW n \in Nat \ {0}
  PROVE  /\ Page(n) \in Seq(Product)
         /\ \A j \in DOMAIN store :
              j > PerPage * (n - 1) => store[j] \in ToSet(Page(n)) \/ j > PerPage * n
         /\ Len(Page(n)) < PerPage => \A j \in DOMAIN store : j <= PerPage * n
<1> DEFINE m == PerPage * (n - 1)
           e == PerPage * n
           k == IF e <= Len(store) THEN e ELSE Len(store)
<1>1. m \in Nat /\ e = m + PerPage /\ PerPage \in Nat \ {0}
      BY PageBounds, SyncAssumption
<1>2. store \in Seq(Product) /\ Len(store) \in Nat /\ DOMAIN store = 1 .. Len(store)
      BY DEF SyncTyped
<1>3. Page(n) = SubSeq(store, m + 1, k)
      BY DEF Page
<1> HIDE DEF m, e
<1>4. k \in Nat /\ k <= Len(store)
      BY <1>1, <1>2
<1>5. \A i \in m + 1 .. k : store[i] \in Product
      BY <1>1, <1>2, <1>4
<1>6. /\ SubSeq(store, m + 1, k) \in Seq(Product)
      /\ Len(SubSeq(store, m + 1, k)) = IF m + 1 <= k THEN k - (m + 1) + 1 ELSE 0
      /\ \A i \in 1 .. k - (m + 1) + 1 : SubSeq(store, m + 1, k)[i] = store[m + 1 + i - 1]
  <2>1. m + 1 \in Int /\ k \in Int
        BY <1>1, <1>4
  <2> HIDE DEF k
  <2>   QED
        BY <1>5, <2>1, SubSeqProperties
<1>7. ASSUME NEW j \in DOMAIN store, j > m
      PROVE  store[j] \in ToSet(Page(n)) \/ j > e
  <2>1. CASE j > k
        BY <1>1, <1>2, <2>1
  <2>2. CASE j <= k
    <3>1. j \in Nat
          BY <1>2
    <3>2. /\ j - m \in 1 .. k - (m + 1) + 1
          /\ m + 1 + (j - m) - 1 = j
          BY <1>1, <1>4, <1>7, <2>2, <3>1
    <3>3. SubSeq(store, m + 1, k)[j - m] = store[j]
          BY <1>6, <3>2
    <3>4. j - m \in DOMAIN Page(n)
          BY <1>1, <1>3, <1>4, <1>6, <1>7, <2>2, <3>1
    <3>   QED
          BY <1>3, <3>3, <3>4 DEF ToSet
  <2>   QED
        BY <1>2, <1>4, <2>1, <2>2
<1>8. ASSUME Len(Page(n)) < PerPage, NEW j \in DOMAIN store
      PROVE  j <= e
  <2>1. CASE e <= Len(store)
        BY <1>1, <1>3, <1>6, <1>8, <2>1
  <2>2. CASE ~ (e <= Len(store))
        BY <1>1, <1>2, <2>2
  <2>   QED
        BY <2>1, <2>2
<1>   QED
      BY <1>3, <1>6, <1>7, <1>8 DEF m, e

\* A product that is published is first; every other moves down one place.
LEMMA PublishedIsFirst ==
  ASSUME SyncTyped, NEW p \in Product
  PROVE  /\ <<p>> \o store \in Seq(Product)
         /\ Len(<<p>> \o store) = Len(store) + 1
         /\ (<<p>> \o store)[1] = p
         /\ \A j \in DOMAIN store : (<<p>> \o store)[j + 1] = store[j]
<1>1. store \in Seq(Product) /\ Len(store) \in Nat /\ DOMAIN store = 1 .. Len(store)
      BY DEF SyncTyped
<1>2. <<p>> \in Seq(Product) /\ Len(<<p>>) = 1 /\ <<p>>[1] = p
      OBVIOUS
<1>3. /\ <<p>> \o store \in Seq(Product)
      /\ Len(<<p>> \o store) = 1 + Len(store)
      /\ \A i \in 1 .. 1 + Len(store) :
           (<<p>> \o store)[i] = IF i <= 1 THEN <<p>>[i] ELSE store[i - 1]
  <2>1. /\ <<p>> \o store \in Seq(Product)
        /\ Len(<<p>> \o store) = Len(<<p>>) + Len(store)
        /\ \A i \in 1 .. Len(<<p>>) + Len(store) :
             (<<p>> \o store)[i] = IF i <= Len(<<p>>) THEN <<p>>[i] ELSE store[i - Len(<<p>>)]
        BY <1>1, <1>2, ConcatProperties
  <2>   QED
        BY <1>2, <2>1
<1>4. ASSUME NEW j \in DOMAIN store
      PROVE  (<<p>> \o store)[j + 1] = store[j]
  <2>1. j \in Nat /\ j + 1 \in 1 .. 1 + Len(store) /\ ~ (j + 1 <= 1) /\ j + 1 - 1 = j
        BY <1>1
  <2>   QED
        BY <1>3, <2>1
<1>   QED
      BY <1>1, <1>2, <1>3, <1>4

\* A removal leaves the places before it alone.
LEMMA RemovedMovesUp ==
  ASSUME SyncTyped, NEW i \in DOMAIN store
  PROVE  /\ RemoveAt(store, i) \in Seq(Product)
         /\ Len(RemoveAt(store, i)) = Len(store) - 1
         /\ \A j \in 1 .. Len(store) - 1 :
              RemoveAt(store, i)[j] = IF j < i THEN store[j] ELSE store[j + 1]
<1> DEFINE a == SubSeq(store, 1, i - 1)
           b == SubSeq(store, i + 1, Len(store))
<1>1. store \in Seq(Product) /\ Len(store) \in Nat /\ i \in 1 .. Len(store)
      BY DEF SyncTyped
<1>2. /\ a \in Seq(Product) /\ Len(a) = i - 1
      /\ \A j \in 1 .. i - 1 : a[j] = store[j]
  <2>1. \A j \in 1 .. i - 1 : store[j] \in Product
        BY <1>1
  <2>2. 1 \in Int /\ i - 1 \in Int
        BY <1>1
  <2>3. /\ a \in Seq(Product)
        /\ Len(a) = IF 1 <= i - 1 THEN i - 1 - 1 + 1 ELSE 0
        /\ \A j \in 1 .. i - 1 - 1 + 1 : a[j] = store[1 + j - 1]
        BY <2>1, <2>2, SubSeqProperties
  <2> HIDE DEF a
  <2>   QED
        BY <1>1, <2>3
<1>3. /\ b \in Seq(Product) /\ Len(b) = Len(store) - i
      /\ \A j \in 1 .. Len(store) - i : b[j] = store[i + j]
  <2>1. \A j \in i + 1 .. Len(store) : store[j] \in Product
        BY <1>1
  <2>2. i + 1 \in Int /\ Len(store) \in Int
        BY <1>1
  <2>3. /\ b \in Seq(Product)
        /\ Len(b) = IF i + 1 <= Len(store) THEN Len(store) - (i + 1) + 1 ELSE 0
        /\ \A j \in 1 .. Len(store) - (i + 1) + 1 : b[j] = store[i + 1 + j - 1]
        BY <2>1, <2>2, SubSeqProperties
  <2> HIDE DEF b
  <2>   QED
        BY <1>1, <2>3
<1> HIDE DEF a, b
<1>4. /\ a \o b \in Seq(Product)
      /\ Len(a \o b) = Len(a) + Len(b)
      /\ \A j \in 1 .. Len(a) + Len(b) : (a \o b)[j] = IF j <= Len(a) THEN a[j] ELSE b[j - Len(a)]
      BY <1>2, <1>3, ConcatProperties
<1>5. RemoveAt(store, i) = a \o b
      BY DEF RemoveAt, a, b
<1>6. ASSUME NEW j \in 1 .. Len(store) - 1
      PROVE  (a \o b)[j] = IF j < i THEN store[j] ELSE store[j + 1]
  <2>1. (a \o b)[j] = IF j <= i - 1 THEN a[j] ELSE b[j - (i - 1)]
    <3>1. j \in 1 .. Len(a) + Len(b)
          BY <1>1, <1>2, <1>3
    <3>2. (a \o b)[j] = IF j <= Len(a) THEN a[j] ELSE b[j - Len(a)]
          BY <1>4, <3>1
    <3>   QED
          BY <1>2, <3>2
  <2>2. CASE j < i
        BY <1>1, <1>2, <2>1, <2>2
  <2>3. CASE ~ (j < i)
    <3>1. j - (i - 1) \in 1 .. Len(store) - i /\ i + (j - (i - 1)) = j + 1
          BY <1>1, <2>3
    <3>   QED
          BY <1>1, <1>3, <2>1, <2>3, <3>1
  <2>   QED
        BY <2>2, <2>3
<1>7. Len(a \o b) = Len(store) - 1
      BY <1>1, <1>2, <1>3, <1>4
<1>   QED
      BY <1>4, <1>5, <1>6, <1>7

-----------------------------------------------------------------------------
(* The variations.                                                         *)

LEMMA FetchedVariations ==
  ASSUME NEW p \in Product
  PROVE  /\ FetchVariations(p) \subseteq AllRows
         /\ Variations[p] <= PerPage => Rows(p) \subseteq FetchVariations(p)
<1>1. FetchVariations(p) \subseteq Rows(p)
      BY DEF FetchVariations, Rows
<1>2. ASSUME Variations[p] <= PerPage, NEW r \in Rows(p)
      PROVE  r \in FetchVariations(p)
  <2>1. CASE Variations[p] = 0
        BY <1>2, <2>1 DEF Rows, FetchVariations
  <2>2. CASE Variations[p] # 0
    <3>1. r[2] \in 1 .. Variations[p] /\ Variations[p] \in Nat
          BY <1>2, <2>2, SyncAssumption DEF Rows
    <3>2. r[2] <= PerPage
          BY <1>2, <3>1, SyncAssumption
    <3>   QED
          BY <1>2, <2>2, <3>2 DEF FetchVariations
  <2>   QED
        BY <2>1, <2>2
<1>   QED
      BY <1>1, <1>2 DEF AllRows

LEMMA FetchedRows ==
  ASSUME NEW products \in SUBSET Product
  PROVE  LET rows == (UNION {FetchVariations(p) : p \in products}) \ NoPrice
         IN rows \in SUBSET AllRows /\ Holds(rows, products)
<1>1. \A p \in products : FetchVariations(p) \subseteq AllRows
      BY FetchedVariations
<1>   QED
      BY <1>1 DEF Holds

-----------------------------------------------------------------------------
(* The sync.                                                               *)

LEMMA ElementsAreProducts ==
  ASSUME NEW s \in Seq(Product)
  PROVE  ToSet(s) \in SUBSET Product
BY DEF ToSet

LEMMA SyncAtFirst == SyncInit => SyncInv
<1> SUFFICES ASSUME SyncInit
             PROVE  SyncInv
    OBVIOUS
<1>1. store \in Seq(Product) /\ IsInjective(store)
  <2>1. Seq(Product) = UNION {[1 .. n -> Product] : n \in Nat}
        BY SeqDef
  <2>2. \A m \in 0 .. 2 * PerPage : m \in Nat
        BY SyncAssumption
  <2>3. store \in UNION {[1 .. m -> Product] : m \in 0 .. 2 * PerPage} /\ IsInjective(store)
        BY DEF SyncInit, SeqOf
  <2>   QED
        BY <2>1, <2>2, <2>3
<1>2. sync = NotRunning /\ file = File("absent", {}, {})
      BY DEF SyncInit
<1>   QED
      BY <1>1, <1>2 DEF SyncInv, SyncTyped, Paging, FileInv, Holds, NotRunning, File

\* A sync that is off, or starts, has seen nothing yet.
LEMMA SyncAnew ==
  ASSUME SyncInv, UNCHANGED store, FileInv', SyncTyped',
         sync'.pc = "off", sync'.page = 0
  PROVE  SyncInv'
<1>1. sync'.page <= Len(sync'.fetched) + 2
      BY DEF SyncTyped
<1>   QED
      BY <1>1 DEF SyncInv, Paging

LEMMA PublishKeepsSync ==
  ASSUME SyncInv, NEW p \in Product, StorePublishes(p)
  PROVE  SyncInv'
<1>1. /\ store' = <<p>> \o store /\ p \notin ToSet(store)
      /\ UNCHANGED <<sync, file>>
      BY DEF StorePublishes
<1>2. SyncTyped /\ store \in Seq(Product) /\ DOMAIN store = 1 .. Len(store) /\ Len(store) \in Nat
      BY DEF SyncInv, SyncTyped
<1>3. /\ store' \in Seq(Product) /\ DOMAIN store' = 1 .. Len(store) + 1
      /\ store'[1] = p /\ \A j \in DOMAIN store : store'[j + 1] = store[j]
      BY <1>1, <1>2, PublishedIsFirst
<1>4. IsInjective(store')
  <2> SUFFICES ASSUME NEW i \in DOMAIN store', NEW j \in DOMAIN store', store'[i] = store'[j]
               PROVE  i = j
      BY DEF IsInjective
  <2>1. \A k \in DOMAIN store' :
          \/ k = 1 /\ store'[k] = p
          \/ k - 1 \in DOMAIN store /\ store'[k] = store[k - 1]
        BY <1>2, <1>3
  <2>2. \A k \in DOMAIN store : store[k] # p
        BY <1>1 DEF ToSet
  <2>3. \A k, l \in DOMAIN store : store[k] = store[l] => k = l
        BY DEF SyncInv, SyncTyped, IsInjective
  <2>4. CASE i = 1 \/ j = 1
        BY <1>2, <1>3, <2>1, <2>2, <2>4
  <2>5. CASE i # 1 /\ j # 1
    <3>1. i - 1 = j - 1
          BY <2>1, <2>3, <2>5
    <3>   QED
          BY <1>2, <1>3, <3>1
  <2>   QED
        BY <2>4, <2>5
<1>5. ASSUME NEW q, Ahead(q), sync.page \in Nat \ {0}
      PROVE  Ahead(q)'
  <2>1. PICK j \in DOMAIN store : j > PerPage * (sync.page - 1) /\ store[j] = q
        BY <1>5 DEF Ahead
  <2>2. PerPage * (sync.page - 1) \in Nat
        BY <1>5, PageBounds
  <2>3. j + 1 > PerPage * (sync.page - 1)
        BY <1>2, <2>1, <2>2
  <2>4. j + 1 \in DOMAIN store' /\ store'[j + 1] = q
        BY <1>2, <1>3, <2>1
  <2>   QED
        BY <1>1, <2>3, <2>4 DEF Ahead
<1>6. Paging'
  <2>1. sync.pc = "pages" => sync.page \in Nat \ {0}
        BY DEF SyncInv, Paging, Listing
  <2>   QED
        BY <1>1, <1>5, <2>1 DEF SyncInv, Paging, Listing
<1>   QED
      BY <1>1, <1>3, <1>4, <1>6 DEF SyncInv, SyncTyped, FileInv

\* Products that a removal made move up are no longer kept.
LEMMA UnpublishKeepsSync ==
  ASSUME SyncInv, NEW i \in DOMAIN store, StoreUnpublishes(i)
  PROVE  SyncInv'
<1> DEFINE kept == sync.kept \cap {store[j] : j \in 1 .. i - 1}
<1>1. store' = RemoveAt(store, i) /\ sync' = [sync EXCEPT !.kept = kept] /\ UNCHANGED file
      BY DEF StoreUnpublishes
<1>2. SyncTyped /\ store \in Seq(Product) /\ DOMAIN store = 1 .. Len(store) /\ Len(store) \in Nat
      BY DEF SyncInv, SyncTyped
<1>3. /\ store' \in Seq(Product) /\ DOMAIN store' = 1 .. Len(store) - 1
      /\ \A j \in 1 .. Len(store) - 1 : store'[j] = IF j < i THEN store[j] ELSE store[j + 1]
  <2>1. /\ RemoveAt(store, i) \in Seq(Product)
        /\ Len(RemoveAt(store, i)) = Len(store) - 1
        /\ \A j \in 1 .. Len(store) - 1 :
             RemoveAt(store, i)[j] = IF j < i THEN store[j] ELSE store[j + 1]
        BY <1>2, RemovedMovesUp
  <2> HIDE DEF kept
  <2>2. store' = RemoveAt(store, i)
        BY <1>1
  <2>   QED
        BY <2>1, <2>2
<1>4. \A k, l \in DOMAIN store : store[k] = store[l] => k = l
      BY DEF SyncInv, SyncTyped, IsInjective
<1>5. IsInjective(store')
  <2> SUFFICES ASSUME NEW k \in DOMAIN store', NEW l \in DOMAIN store', store'[k] = store'[l]
               PROVE  k = l
      BY DEF IsInjective
  <2> DEFINE Was(n) == IF n < i THEN n ELSE n + 1
  <2>1. \A n \in DOMAIN store' : Was(n) \in DOMAIN store /\ store'[n] = store[Was(n)]
        BY <1>2, <1>3
  <2>2. Was(k) = Was(l)
        BY <1>4, <2>1
  <2>   QED
        BY <1>2, <1>3, <2>2
<1>6. /\ sync'.pc = sync.pc /\ sync'.page = sync.page /\ sync'.fetched = sync.fetched
      /\ sync'.rows = sync.rows /\ sync'.kept = kept /\ kept \subseteq sync.kept
      BY <1>1 DEF SyncInv, SyncTyped
<1> HIDE DEF kept
<1>7. SyncTyped'
      BY <1>1, <1>3, <1>5, <1>6 DEF SyncInv, SyncTyped
<1>8. ASSUME NEW q \in kept, Ahead(q), sync.page \in Nat \ {0}
      PROVE  Ahead(q)'
  <2>1. PICK j \in DOMAIN store : j > PerPage * (sync.page - 1) /\ store[j] = q
        BY <1>8 DEF Ahead
  <2>2. PICK l \in 1 .. i - 1 : store[l] = q
        BY <1>8 DEF kept
  <2>3. l = j
        BY <1>2, <1>4, <2>1, <2>2
  <2>4. j \in DOMAIN store' /\ store'[j] = q
        BY <1>2, <1>3, <2>1, <2>2, <2>3
  <2>   QED
        BY <1>6, <2>1, <2>4 DEF Ahead
<1>9. Paging'
  <2>1. sync.pc = "pages" => sync.page \in Nat \ {0}
        BY DEF SyncInv, Paging, Listing
  <2>   QED
        BY <1>6, <1>8, <2>1 DEF SyncInv, Paging, Listing, Holds
<1>   QED
      BY <1>1, <1>7, <1>9 DEF SyncInv, FileInv

LEMMA StartKeepsSync ==
  ASSUME SyncInv, StartSync
  PROVE  SyncInv'
<1>1. /\ sync' = [NotRunning EXCEPT !.pc = "pages", !.page = 1, !.kept = ToSet(store)]
      /\ UNCHANGED <<store, file>>
      BY DEF StartSync
<1>2. /\ sync'.pc = "pages" /\ sync'.page = 1 /\ sync'.fetched = <<>>
      /\ sync'.rows = {} /\ sync'.kept = ToSet(store)
      /\ sync' = [pc |-> "pages", page |-> 1, fetched |-> <<>>, rows |-> {}, kept |-> ToSet(store)]
      BY <1>1 DEF NotRunning
<1>3. ToSet(store) \in SUBSET Product
      BY ElementsAreProducts DEF SyncInv, SyncTyped
<1>4. SyncTyped'
  <2>1. "pages" \in {"off", "pages", "variations", "open", "dump"} /\ 1 \in Nat
        /\ <<>> \in Seq(Product) /\ {} \in SUBSET AllRows
        OBVIOUS
  <2> HIDE DEF AllRows
  <2>2. sync' \in [pc : {"off", "pages", "variations", "open", "dump"}, page : Nat,
                   fetched : Seq(Product), rows : SUBSET AllRows, kept : SUBSET Product]
        BY <1>2, <1>3, <2>1
  <2>   QED
        BY <1>1, <2>2 DEF SyncInv, SyncTyped
<1>5. ASSUME NEW p \in ToSet(store)
      PROVE  Ahead(p)'
  <2>1. PICK j \in DOMAIN store : store[j] = p
        BY <1>5 DEF ToSet
  <2>2. j \in Nat \ {0}
        BY <2>1 DEF SyncInv, SyncTyped
  <2>3. PerPage * (sync'.page - 1) = 0
        BY <1>2, SyncAssumption
  <2>   QED
        BY <1>1, <2>1, <2>2, <2>3 DEF Ahead
<1>6. Paging'
      BY <1>2, <1>5 DEF Paging, Listing
<1>   QED
      BY <1>1, <1>4, <1>6 DEF SyncInv, FileInv

\* A page brings what was next in the listing, and a short one brings the rest.
LEMMA FetchKeepsSync ==
  ASSUME SyncInv, FetchPage
  PROVE  SyncInv'
<1> DEFINE n == sync.page
           pc == IF Len(Page(n)) < PerPage THEN "variations" ELSE "pages"
<1>1. /\ sync.pc = "pages" /\ UNCHANGED <<store, file>>
      /\ sync' = [sync EXCEPT !.fetched = @ \o Page(n), !.page = @ + 1, !.pc = pc]
      BY DEF FetchPage
<1>2. SyncTyped /\ Listing /\ n \in Nat \ {0} /\ n <= Len(sync.fetched) + 1
      BY <1>1 DEF SyncInv, Paging, Listing, SyncTyped
<1>3. /\ Page(n) \in Seq(Product)
      /\ \A j \in DOMAIN store :
           j > PerPage * (n - 1) => store[j] \in ToSet(Page(n)) \/ j > PerPage * n
      /\ Len(Page(n)) < PerPage => \A j \in DOMAIN store : j <= PerPage * n
      BY <1>2, PageBrings
<1>4. /\ sync'.pc = pc /\ sync'.page = n + 1 /\ sync'.fetched = sync.fetched \o Page(n)
      /\ sync'.rows = sync.rows /\ sync'.kept = sync.kept
      BY <1>1, <1>2 DEF SyncTyped
<1>5. /\ sync.fetched \in Seq(Product) /\ sync'.fetched \in Seq(Product)
      /\ Len(sync'.fetched) = Len(sync.fetched) + Len(Page(n))
      /\ Len(sync.fetched) \in Nat /\ Len(Page(n)) \in Nat
  <2>1. sync.fetched \in Seq(Product)
        BY <1>2 DEF SyncTyped
  <2>   QED
        BY <1>3, <1>4, <2>1, ConcatProperties, LenProperties
<1>6. ToSet(sync.fetched) \subseteq ToSet(sync'.fetched) /\ ToSet(Page(n)) \subseteq ToSet(sync'.fetched)
  <2> DEFINE f == sync.fetched
             g == Page(n)
  <2>1. f \in Seq(Product) /\ g \in Seq(Product)
        BY <1>3, <1>5
  <2> HIDE DEF f, g
  <2>2. /\ Len(f) \in Nat /\ Len(g) \in Nat
        /\ DOMAIN f = 1 .. Len(f) /\ DOMAIN g = 1 .. Len(g)
        /\ DOMAIN (f \o g) = 1 .. Len(f) + Len(g)
        /\ \A i \in 1 .. Len(f) + Len(g) : (f \o g)[i] = IF i <= Len(f) THEN f[i] ELSE g[i - Len(f)]
        BY <2>1, ConcatProperties, LenProperties
  <2>3. \A i \in DOMAIN f : i \in DOMAIN (f \o g) /\ (f \o g)[i] = f[i]
        BY <2>2
  <2>4. \A i \in DOMAIN g : Len(f) + i \in DOMAIN (f \o g) /\ (f \o g)[Len(f) + i] = g[i]
        BY <2>2
  <2>5. ToSet(f) \subseteq ToSet(f \o g) /\ ToSet(g) \subseteq ToSet(f \o g)
        BY <2>3, <2>4 DEF ToSet
  <2>   QED
        BY <1>4, <2>5 DEF f, g
<1> HIDE DEF n
<1>7. ASSUME NEW p \in sync'.kept
      PROVE  \/ p \in ToSet(sync'.fetched)
             \/ \E j \in DOMAIN store : j > PerPage * n /\ store[j] = p
  <2>1. CASE p \in ToSet(sync.fetched)
        BY <1>6, <2>1
  <2>2. CASE Ahead(p)
    <3>1. PICK j \in DOMAIN store : j > PerPage * (n - 1) /\ store[j] = p
          BY <2>2 DEF Ahead, n
    <3>   QED
          BY <1>3, <1>6, <3>1
  <2>   QED
        BY <1>2, <1>4, <1>7, <2>1, <2>2 DEF Listing
<1> HIDE DEF pc
<1>8. SyncTyped' /\ n + 1 <= Len(sync'.fetched) + 2
  <2>1. pc \in {"off", "pages", "variations", "open", "dump"} /\ n + 1 \in Nat
        BY <1>2 DEF pc
  <2>2. sync' = [sync EXCEPT !.fetched = sync'.fetched, !.page = n + 1, !.pc = pc]
        BY <1>1, <1>4 DEF n
  <2>3. SyncTyped'
        BY <1>1, <1>2, <1>5, <2>1, <2>2 DEF SyncTyped
  <2>   QED
        BY <1>2, <1>5, <2>3
<1>9. CASE Len(Page(n)) < PerPage
  <2>1. \A j \in DOMAIN store : ~ (j > PerPage * n)
    <3>1. PerPage * n \in Nat
          BY <1>2, SyncAssumption DEF n
    <3>2. \A j \in DOMAIN store : j \in Nat /\ j <= PerPage * n
          BY <1>2, <1>3, <1>9 DEF SyncTyped
    <3>   QED
          BY <3>1, <3>2
  <2>2. sync'.kept \subseteq ToSet(sync'.fetched)
        BY <1>7, <2>1
  <2>   QED
        BY <1>1, <1>4, <1>8, <1>9, <2>2 DEF SyncInv, Paging, FileInv, pc
<1>10. CASE ~ (Len(Page(n)) < PerPage)
  <2>1. sync'.page \in 1 .. Len(sync'.fetched) + 1
    <3>1. Len(Page(n)) >= 1
          BY <1>5, <1>10, SyncAssumption
    <3>2. n + 1 \in 1 .. Len(sync'.fetched) + 1
          BY <1>2, <1>5, <3>1
    <3>   QED
          BY <1>4, <3>2
  <2>2. PerPage * (sync'.page - 1) = PerPage * n
    <3>1. sync'.page - 1 = n
          BY <1>2, <1>4
    <3>   QED
          BY <3>1
  <2>3. \A p \in sync'.kept : p \in ToSet(sync'.fetched) \/ Ahead(p)'
        BY <1>1, <1>7, <2>2 DEF Ahead
  <2>4. Listing'
        BY <2>1, <2>3 DEF Listing
  <2>   QED
        BY <1>1, <1>4, <1>8, <1>10, <2>4 DEF SyncInv, Paging, FileInv, pc
<1>   QED
      BY <1>9, <1>10

LEMMA BuildKeepsSync ==
  ASSUME SyncInv, BuildCatalogue
  PROVE  SyncInv'
<1> DEFINE products == ToSet(sync.fetched)
           rows == (UNION {FetchVariations(p) : p \in products}) \ NoPrice
<1>1. /\ sync.pc = "variations" /\ UNCHANGED <<store, file>>
      /\ sync' = IF rows = {} THEN NotRunning ELSE [sync EXCEPT !.pc = "open", !.rows = rows]
      BY DEF BuildCatalogue
<1>2. products \in SUBSET Product /\ sync.kept \subseteq products
      BY <1>1, ElementsAreProducts DEF SyncInv, SyncTyped, Paging
<1> HIDE DEF products
<1>3. rows \in SUBSET AllRows /\ Holds(rows, products)
      BY <1>2, FetchedRows
<1> HIDE DEF rows
<1>4. CASE rows = {}
      BY <1>1, <1>4 DEF SyncInv, SyncTyped, Paging, FileInv, NotRunning
<1>5. CASE rows # {}
  <2>1. /\ sync'.pc = "open" /\ sync'.rows = rows /\ sync'.page = sync.page
        /\ sync'.fetched = sync.fetched /\ sync'.kept = sync.kept
        /\ sync' = [sync EXCEPT !.pc = "open", !.rows = rows]
        BY <1>1, <1>5 DEF SyncInv, SyncTyped
  <2>2. Holds(rows, sync'.kept)
        BY <1>2, <1>3, <2>1 DEF Holds
  <2>3. SyncTyped'
        BY <1>1, <1>3, <2>1 DEF SyncInv, SyncTyped
  <2>   QED
        BY <1>1, <1>5, <2>1, <2>2, <2>3 DEF SyncInv, Paging, FileInv
<1>   QED
      BY <1>4, <1>5

LEMMA WriteKeepsSync ==
  ASSUME SyncInv, OpenFile \/ DumpFile \/ SyncDies
  PROVE  SyncInv'
<1>1. UNCHANGED store
      BY DEF OpenFile, DumpFile, SyncDies
<1>2. CASE OpenFile
  <2>1. /\ sync.pc = "open" /\ sync' = [sync EXCEPT !.pc = "dump"]
        /\ file' = [state |-> "torn", rows |-> {}, kept |-> {}]
        BY <1>2 DEF OpenFile, File
  <2>2. /\ sync'.pc = "dump" /\ sync'.page = sync.page /\ sync'.fetched = sync.fetched
        /\ sync'.rows = sync.rows /\ sync'.kept = sync.kept
        BY <2>1 DEF SyncInv, SyncTyped
  <2>3. SyncTyped'
        BY <1>1, <2>1, <2>2 DEF SyncInv, SyncTyped
  <2>   QED
        BY <2>1, <2>2, <2>3 DEF SyncInv, Paging, FileInv, Holds
<1>3. CASE DumpFile
  <2>1. /\ sync.pc = "dump" /\ sync' = NotRunning
        /\ file' = [state |-> "whole", rows |-> sync.rows, kept |-> sync.kept]
        BY <1>3 DEF DumpFile, File
  <2>2. FileInv'
        BY <2>1 DEF SyncInv, Paging, FileInv, Holds
  <2>3. SyncTyped'
        BY <1>1, <2>1 DEF SyncInv, SyncTyped, NotRunning
  <2>   QED
        BY <2>1, <2>2, <2>3 DEF SyncInv, Paging, NotRunning
<1>4. CASE SyncDies
  <2>1. sync' = NotRunning /\ UNCHANGED file
        BY <1>4 DEF SyncDies
  <2>   QED
        BY <1>1, <2>1 DEF SyncInv, SyncTyped, Paging, FileInv, NotRunning
<1>   QED
      BY <1>2, <1>3, <1>4

LEMMA SyncStepKeepsSync ==
  ASSUME SyncInv, SyncNext
  PROVE  SyncInv'
BY PublishKeepsSync, UnpublishKeepsSync, StartKeepsSync, FetchKeepsSync,
   BuildKeepsSync, WriteKeepsSync DEF SyncNext

\* The index only reads the file.
LEMMA SyncFromStepToStep == SyncInv /\ [Next]_vars => SyncInv'
<1> SUFFICES ASSUME SyncInv, [Next]_vars
             PROVE  SyncInv'
    OBVIOUS
<1>1. CASE Sync
      BY <1>1, SyncStepKeepsSync DEF Sync
<1>2. CASE UNCHANGED syncVars
      BY <1>2 DEF syncVars, SyncInv, SyncTyped, Paging, Listing, Ahead, FileInv
<1>3. Next => Sync \/ UNCHANGED syncVars
      BY DEF Next, Restart, StartSearch, EnsureLoaded, ReadFile, EmbedTexts,
             EmbeddingsReturn, EmbeddingsFail, EmbedQuery, Score
<1>4. UNCHANGED vars => UNCHANGED syncVars
      BY DEF vars
<1>   QED
      BY <1>1, <1>2, <1>3, <1>4

LEMMA SyncKeepsFilesComplete == SyncInv => CatalogueIsComplete
<1> SUFFICES ASSUME SyncInv, NEW p \in file.kept, Variations[p] <= PerPage
             PROVE  Rows(p) \ NoPrice \subseteq file.rows
    BY DEF CatalogueIsComplete
<1>1. p \in Product
      BY DEF SyncInv, SyncTyped
<1>2. Rows(p) \subseteq FetchVariations(p)
      BY <1>1, FetchedVariations
<1>   QED
      BY <1>2 DEF SyncInv, FileInv, Holds

\* Whatever is published between two pages of a sync, however often a sync dies
\* and is run again, the catalogue it leaves lists every product published all
\* through, with each priced variation of those that a page can hold
\* (_fetch_all_products(), _fetch_variations(), build_catalogue(), main()).
THEOREM FilesAreComplete == Spec => []CatalogueIsComplete
<1>1. Init => SyncInv
      BY SyncAtFirst DEF Init
<1>   QED
      BY <1>1, SyncFromStepToStep, SyncKeepsFilesComplete, PTL DEF Spec

-----------------------------------------------------------------------------
(* The index.                                                              *)

LEMMA NoIndexIsNoRows == None \notin SUBSET AllRows /\ None # {}
BY IndexAssumption DEF AllRows

LEMMA ThreadMoves ==
  ASSUME IndexTyped, NEW t \in Thread, NEW texts \in SUBSET AllRows,
         NEW pc \in {"idle", "ensure", "read", "embed", "store", "query", "score"},
         thread' = [thread EXCEPT ![t] = At(pc, texts)]
  PROVE  /\ thread' \in [Thread -> [pc : {"idle", "ensure", "read", "embed", "store",
                                         "query", "score"}, texts : SUBSET AllRows]]
         /\ thread'[t].pc = pc /\ thread'[t].texts = texts
         /\ \A u \in Thread : u # t => thread'[u] = thread[u]
<1>1. At(pc, texts) \in [pc : {"idle", "ensure", "read", "embed", "store", "query", "score"},
                         texts : SUBSET AllRows]
      BY DEF At
<1>2. At(pc, texts).pc = pc /\ At(pc, texts).texts = texts
      BY DEF At
<1>   QED
      BY <1>1, <1>2 DEF IndexTyped

\* A thread that goes to a phase without texts.
LEMMA ThreadGoes ==
  ASSUME IndexTyped, NEW t \in Thread, NEW pc, Goes(t, pc),
         pc \in {"idle", "ensure", "read", "embed", "query", "score"}
  PROVE  /\ thread' \in [Thread -> [pc : {"idle", "ensure", "read", "embed", "store",
                                         "query", "score"}, texts : SUBSET AllRows]]
         /\ thread'[t].pc = pc
         /\ \A u \in Thread : u # t => thread'[u] = thread[u]
<1>1. /\ thread' = [thread EXCEPT ![t] = At(pc, {})]
      /\ pc \in {"idle", "ensure", "read", "embed", "store", "query", "score"}
      /\ {} \in SUBSET AllRows
      BY DEF Goes
<1>   QED
      BY <1>1, ThreadMoves

LEMMA IndexAtFirst ==
  ASSUME entries = None, embeddings = None, answer = None,
         thread = [t \in Thread |-> At(IF t = WarmUp THEN "ensure" ELSE "idle", {})]
  PROVE  IndexInv
<1>1. IndexTyped /\ \A t \in Thread : thread[t].pc \in {"idle", "ensure"}
      BY DEF IndexTyped, At
<1>   QED
      BY <1>1 DEF IndexInv, EntriesFirst, SameRows, MissingEmbeddingsAreExplained, Loading

\* A step of a thread that neither loads before it nor after, changes neither
\* entries nor embeddings, and answers from rows that belong together if at all.
LEMMA IdleStepKeepsIndex ==
  ASSUME IndexInv, NEW t \in Thread, NEW pc, Goes(t, pc),
         pc \in {"idle", "ensure", "query", "score"}, ~ Loading(t),
         UNCHANGED <<file, entries, embeddings, rewritten, failed>>,
         ~ rewritten /\ answer' # None => answer'.rows = answer'.scored
  PROVE  IndexInv'
<1>1. /\ thread' \in [Thread -> [pc : {"idle", "ensure", "read", "embed", "store",
                                       "query", "score"}, texts : SUBSET AllRows]]
      /\ thread'[t].pc = pc
      /\ \A u \in Thread : u # t => thread'[u] = thread[u]
      BY ThreadGoes DEF IndexInv
<1>2. \A u \in Thread : Loading(u)' <=> Loading(u)
      BY <1>1 DEF Loading
<1>3. \A u \in Thread : thread'[u].pc \in {"embed", "store"} => thread'[u] = thread[u]
      BY <1>1
<1>4. IndexTyped'
      BY <1>1 DEF IndexInv, IndexTyped
<1>5. EntriesFirst'
      BY <1>3 DEF IndexInv, EntriesFirst
<1>6. SameRows'
      BY <1>2, <1>3 DEF IndexInv, SameRows
<1>7. MissingEmbeddingsAreExplained'
      BY <1>2 DEF IndexInv, MissingEmbeddingsAreExplained
<1>   QED
      BY <1>4, <1>5, <1>6, <1>7 DEF IndexInv

LEMMA SearchKeepsIndex ==
  ASSUME IndexInv, NEW t \in Thread, StartSearch(t) \/ EmbedQuery(t) \/ Score(t)
  PROVE  IndexInv'
<1>1. ~ Loading(t) /\ UNCHANGED <<file, entries, embeddings, rewritten, failed>>
      BY DEF StartSearch, EmbedQuery, Score, Loading, syncVars
<1>2. \E pc \in {"idle", "ensure", "query", "score"} : Goes(t, pc)
      BY DEF StartSearch, EmbedQuery, Score
<1>3. ~ rewritten /\ answer' # None => answer'.rows = answer'.scored
  <2>1. CASE StartSearch(t)
        BY <2>1 DEF StartSearch, IndexInv, SameRows
  <2>2. CASE EmbedQuery(t)
    <3>1. answer' = answer \/ answer' = [rows |-> {}, scored |-> {}]
          BY <2>2 DEF EmbedQuery
    <3>2. answer' = [rows |-> {}, scored |-> {}] => answer'.rows = answer'.scored
          OBVIOUS
    <3>   QED
          BY <3>1, <3>2 DEF IndexInv, SameRows
  <2>3. CASE Score(t)
    <3>1. CASE embeddings = None
          BY <2>3, <3>1 DEF Score, IndexInv, SameRows
    <3>2. CASE embeddings # None
      <4>1. answer' = [rows |-> entries, scored |-> embeddings]
            BY <2>3, <3>2 DEF Score
      <4>2. answer'.rows = entries /\ answer'.scored = embeddings
            BY <4>1
      <4>   QED
            BY <3>2, <4>2 DEF IndexInv, SameRows
    <3>   QED
          BY <3>1, <3>2
  <2>   QED
        BY <2>1, <2>2, <2>3
<1>   QED
      BY <1>1, <1>2, <1>3, IdleStepKeepsIndex

\* A thread that finds no entries is the first to load, or one of several.
LEMMA EnsureKeepsIndex ==
  ASSUME IndexInv, NEW t \in Thread, EnsureLoaded(t)
  PROVE  IndexInv'
<1>1. /\ thread[t].pc = "ensure" /\ UNCHANGED <<file, entries, embeddings, rewritten, failed, answer>>
      /\ Goes(t, IF entries = None THEN "read" ELSE Loaded(t))
      BY DEF EnsureLoaded, syncVars
<1>2. CASE entries = None
  <2>1. Goes(t, "read") /\ IndexTyped
        BY <1>1, <1>2 DEF IndexInv
  <2>2. /\ thread' \in [Thread -> [pc : {"idle", "ensure", "read", "embed", "store",
                                         "query", "score"}, texts : SUBSET AllRows]]
        /\ thread'[t].pc = "read"
        /\ \A u \in Thread : u # t => thread'[u] = thread[u]
        BY <2>1, ThreadGoes
  <2>3. \A u \in Thread : thread'[u].pc \in {"embed", "store"} => thread'[u] = thread[u]
        BY <2>2
  <2>4. IndexTyped' /\ EntriesFirst'
        BY <1>1, <2>2, <2>3 DEF IndexInv, IndexTyped, EntriesFirst
  <2>5. SameRows' /\ MissingEmbeddingsAreExplained'
        BY <1>1, <1>2, <2>3 DEF IndexInv, SameRows, MissingEmbeddingsAreExplained
  <2>   QED
        BY <2>4, <2>5 DEF IndexInv
<1>3. CASE entries # None
  <2>1. Loaded(t) \in {"idle", "ensure", "query", "score"} /\ Goes(t, Loaded(t))
        BY <1>1, <1>3 DEF Loaded
  <2>2. ~ Loading(t)
        BY <1>1 DEF Loading
  <2>3. ~ rewritten /\ answer' # None => answer'.rows = answer'.scored
        BY <1>1 DEF IndexInv, SameRows
  <2>   QED
        BY <1>1, <2>1, <2>2, <2>3, IdleStepKeepsIndex
<1>   QED
      BY <1>2, <1>3

\* Rows are published before they are embedded; unless the file was written
\* meanwhile, they are the rows that are published already.
LEMMA ReadKeepsIndex ==
  ASSUME SyncInv, IndexInv, NEW t \in Thread, ReadFile(t)
  PROVE  IndexInv'
<1>1. /\ thread[t].pc = "read" /\ entries' = file.rows /\ Goes(t, "embed") /\ IndexTyped
      /\ UNCHANGED <<file, embeddings, rewritten, failed, answer>>
      BY DEF ReadFile, syncVars, IndexInv
<1>2. /\ thread' \in [Thread -> [pc : {"idle", "ensure", "read", "embed", "store",
                                       "query", "score"}, texts : SUBSET AllRows]]
      /\ thread'[t].pc = "embed"
      /\ \A u \in Thread : u # t => thread'[u] = thread[u]
      BY <1>1, ThreadGoes
<1>3. file.rows \in SUBSET AllRows /\ entries' # None
      BY <1>1, NoIndexIsNoRows DEF SyncInv, SyncTyped
<1>4. IndexTyped' /\ EntriesFirst'
      BY <1>1, <1>2, <1>3 DEF IndexTyped, EntriesFirst
<1>5. Loading(t) /\ Loading(t)'
      BY <1>1, <1>2 DEF Loading
<1>6. SameRows'
  <2> SUFFICES ASSUME ~ rewritten
               PROVE  /\ entries' = file.rows
                      /\ \A u \in Thread : thread'[u].pc = "store" => thread'[u].texts = entries'
                      /\ embeddings # None => embeddings = entries'
                      /\ answer # None => answer.rows = answer.scored
      BY <1>1 DEF SameRows
  <2>1. entries # None => entries = entries'
        BY <1>1, <1>5 DEF IndexInv, SameRows
  <2>2. ASSUME NEW u \in Thread, thread'[u].pc = "store"
        PROVE  thread'[u].texts = entries'
    <3>1. thread'[u] = thread[u]
          BY <1>2, <2>2
    <3>   QED
          BY <2>1, <2>2, <3>1 DEF IndexInv, SameRows, EntriesFirst
  <2>   QED
        BY <1>1, <2>1, <2>2 DEF IndexInv, SameRows, EntriesFirst
<1>7. MissingEmbeddingsAreExplained'
      BY <1>5 DEF MissingEmbeddingsAreExplained
<1>   QED
      BY <1>4, <1>6, <1>7 DEF IndexInv

LEMMA EmbedKeepsIndex ==
  ASSUME IndexInv, NEW t \in Thread, EmbedTexts(t)
  PROVE  IndexInv'
<1>1. /\ thread[t].pc = "embed" /\ thread' = [thread EXCEPT ![t] = At("store", entries)]
      /\ IndexTyped /\ UNCHANGED <<file, entries, embeddings, rewritten, failed, answer>>
      BY DEF EmbedTexts, syncVars, IndexInv
<1>2. entries # None /\ entries \in SUBSET AllRows
      BY <1>1 DEF IndexInv, EntriesFirst, IndexTyped
<1>3. /\ thread' \in [Thread -> [pc : {"idle", "ensure", "read", "embed", "store",
                                       "query", "score"}, texts : SUBSET AllRows]]
      /\ thread'[t].pc = "store" /\ thread'[t].texts = entries
      /\ \A u \in Thread : u # t => thread'[u] = thread[u]
      BY <1>1, <1>2, ThreadMoves
<1>4. IndexTyped' /\ EntriesFirst'
      BY <1>1, <1>2, <1>3 DEF IndexTyped, EntriesFirst, IndexInv
<1>5. Loading(t) /\ Loading(t)'
      BY <1>1, <1>3 DEF Loading
<1>6. SameRows'
      BY <1>1, <1>3, <1>5 DEF IndexInv, SameRows
<1>7. MissingEmbeddingsAreExplained'
      BY <1>5 DEF MissingEmbeddingsAreExplained
<1>   QED
      BY <1>4, <1>6, <1>7 DEF IndexInv

LEMMA ReturnedKeepsIndex ==
  ASSUME IndexInv, NEW t \in Thread, EmbeddingsReturn(t)
  PROVE  IndexInv'
<1>1. /\ thread[t].pc = "store" /\ embeddings' = thread[t].texts /\ Goes(t, Loaded(t))
      /\ IndexTyped /\ UNCHANGED <<file, entries, rewritten, failed, answer>>
      /\ Loaded(t) \in {"idle", "query"}
      BY DEF EmbeddingsReturn, syncVars, IndexInv, Loaded
<1>2. thread[t].texts \in SUBSET AllRows /\ embeddings' # None /\ entries # None
      BY <1>1, NoIndexIsNoRows DEF IndexInv, IndexTyped, EntriesFirst
<1>3. /\ thread' \in [Thread -> [pc : {"idle", "ensure", "read", "embed", "store",
                                       "query", "score"}, texts : SUBSET AllRows]]
      /\ thread'[t].pc = Loaded(t)
      /\ \A u \in Thread : u # t => thread'[u] = thread[u]
      BY <1>1, ThreadGoes
<1>4. \A u \in Thread : thread'[u].pc \in {"read", "embed", "store"} => thread'[u] = thread[u]
      BY <1>1, <1>3
<1>5. IndexTyped' /\ EntriesFirst'
      BY <1>1, <1>2, <1>3 DEF IndexTyped, EntriesFirst, IndexInv
<1>6. SameRows'
  <2>1. ~ rewritten => thread[t].texts = entries
        BY <1>1 DEF IndexInv, SameRows
  <2>2. \A u \in Thread : Loading(u)' => Loading(u)
        BY <1>4 DEF Loading
  <2>   QED
        BY <1>1, <1>4, <2>1, <2>2 DEF IndexInv, SameRows
<1>7. MissingEmbeddingsAreExplained'
      BY <1>2 DEF MissingEmbeddingsAreExplained
<1>   QED
      BY <1>5, <1>6, <1>7 DEF IndexInv

LEMMA FailureKeepsIndex ==
  ASSUME IndexInv, NEW t \in Thread, EmbeddingsFail(t)
  PROVE  IndexInv'
<1>1. /\ thread[t].pc = "store" /\ Goes(t, "idle") /\ failed'
      /\ IndexTyped /\ UNCHANGED <<file, entries, embeddings, rewritten, answer>>
      BY DEF EmbeddingsFail, syncVars, IndexInv
<1>2. /\ thread' \in [Thread -> [pc : {"idle", "ensure", "read", "embed", "store",
                                       "query", "score"}, texts : SUBSET AllRows]]
      /\ thread'[t].pc = "idle"
      /\ \A u \in Thread : u # t => thread'[u] = thread[u]
      BY <1>1, ThreadGoes
<1>3. \A u \in Thread : thread'[u].pc \in {"read", "embed", "store"} => thread'[u] = thread[u]
      BY <1>1, <1>2
<1>4. IndexTyped' /\ EntriesFirst'
      BY <1>1, <1>2, <1>3 DEF IndexTyped, EntriesFirst, IndexInv
<1>5. \A u \in Thread : Loading(u)' => Loading(u)
      BY <1>3 DEF Loading
<1>6. SameRows'
      BY <1>1, <1>3, <1>5 DEF IndexInv, SameRows
<1>7. MissingEmbeddingsAreExplained'
      BY <1>1 DEF MissingEmbeddingsAreExplained
<1>   QED
      BY <1>4, <1>6, <1>7 DEF IndexInv

\* A file written while nobody loads is one that nobody reads: whoever has the
\* rows keeps them.
LEMMA SyncKeepsIndex ==
  ASSUME IndexInv, Sync
  PROVE  IndexInv'
<1>1. /\ UNCHANGED <<entries, embeddings, thread, failed, answer>>
      /\ rewritten' = (rewritten \/ (file' # file /\ \E t \in Thread : Loading(t)))
      BY DEF Sync
<1>2. IndexTyped' /\ EntriesFirst'
      BY <1>1 DEF IndexInv, IndexTyped, EntriesFirst
<1>3. \A t \in Thread : Loading(t)' <=> Loading(t)
      BY <1>1 DEF Loading
<1>4. MissingEmbeddingsAreExplained'
      BY <1>1, <1>3 DEF IndexInv, MissingEmbeddingsAreExplained
<1>5. SameRows'
  <2> SUFFICES ASSUME ~ rewritten'
               PROVE  SameRows'
      BY DEF SameRows
  <2>1. ~ rewritten /\ (file' = file \/ ~ \E t \in Thread : Loading(t))
        BY <1>1
  <2>   QED
        BY <1>1, <1>3, <2>1 DEF IndexInv, SameRows
<1>   QED
      BY <1>2, <1>4, <1>5 DEF IndexInv

LEMMA RestartKeepsIndex ==
  ASSUME Restart
  PROVE  IndexInv'
<1>1. /\ entries' = None /\ embeddings' = None /\ answer' = None
      /\ thread' = [t \in Thread |-> At(IF t = WarmUp THEN "ensure" ELSE "idle", {})]
      BY DEF Restart
<1>2. IndexTyped' /\ \A t \in Thread : thread'[t].pc \in {"idle", "ensure"}
      BY <1>1 DEF IndexTyped, At
<1>   QED
      BY <1>1, <1>2 DEF IndexInv, EntriesFirst, SameRows, MissingEmbeddingsAreExplained, Loading

IInv == SyncInv /\ IndexInv

LEMMA IndexFromStepToStep == IInv /\ [Next]_vars => IInv'
<1> SUFFICES ASSUME SyncInv, IndexInv, [Next]_vars
             PROVE  SyncInv' /\ IndexInv'
    BY DEF IInv
<1>1. SyncInv'
      BY SyncFromStepToStep
<1> SUFFICES IndexInv'
    BY <1>1
<1>2. CASE Sync
      BY <1>2, SyncKeepsIndex
<1>3. CASE Restart
      BY <1>3, RestartKeepsIndex
<1>4. ASSUME NEW t \in Thread,
             \/ StartSearch(t) \/ EnsureLoaded(t) \/ ReadFile(t) \/ EmbedTexts(t)
             \/ EmbeddingsReturn(t) \/ EmbeddingsFail(t) \/ EmbedQuery(t) \/ Score(t)
      PROVE  IndexInv'
      BY <1>4, SearchKeepsIndex, EnsureKeepsIndex, ReadKeepsIndex, EmbedKeepsIndex,
         ReturnedKeepsIndex, FailureKeepsIndex
<1>5. CASE UNCHANGED vars
      BY <1>5 DEF vars, syncVars, indexVars, IndexInv, IndexTyped, EntriesFirst, SameRows,
                  MissingEmbeddingsAreExplained, Loading
<1>   QED
      BY <1>2, <1>3, <1>4, <1>5 DEF Next

LEMMA BothAtFirst == Init => IInv
<1> SUFFICES ASSUME Init
             PROVE  SyncInv /\ IndexInv
    BY DEF IInv
<1>1. SyncInv
      BY SyncAtFirst DEF Init
<1>   QED
      BY <1>1, IndexAtFirst DEF Init

\* The file is a catalogue exactly when it is whole, and no thread embeds
\* anything but rows of the store (ProductIndex._ensure_loaded(), _load()).
THEOREM IndexIsTyped == Spec => []TypeOK
<1>1. IInv => TypeOK
  <2> SUFFICES ASSUME SyncInv, IndexInv
               PROVE  TypeOK
      BY DEF IInv
  <2>1. sync.page \in 0 .. Len(sync.fetched) + 2
        BY DEF SyncInv, SyncTyped, Paging
  <2>   QED
        BY <2>1 DEF SyncInv, SyncTyped, FileInv, IndexInv, IndexTyped, TypeOK, AllRows
<1>   QED
      BY <1>1, BothAtFirst, IndexFromStepToStep, PTL DEF Spec

\* However many threads load the index at once, and however their reading,
\* embedding and storing interleave, an answer scores each row by that row's
\* own embedding, as long as no sync writes the file while they load
\* (ProductIndex._ensure_loaded(), search()).
THEOREM AnswersBelongToTheirRows == Spec => []AnswersScoreTheirOwnRows
<1>1. IInv => AnswersScoreTheirOwnRows
      BY DEF IInv, IndexInv, SameRows, AnswersScoreTheirOwnRows
<1>   QED
      BY <1>1, BothAtFirst, IndexFromStepToStep, PTL DEF Spec

\* Rows without embeddings mean a load under way, or one that failed since the
\* last restart, for any number of threads (ProductIndex._ensure_loaded()).
THEOREM EmbeddingsAreOnTheirWay == Spec => []MissingEmbeddingsAreExplained
<1>1. IInv => MissingEmbeddingsAreExplained
      BY DEF IInv, IndexInv
<1>   QED
      BY <1>1, BothAtFirst, IndexFromStepToStep, PTL DEF Spec
=============================================================================
