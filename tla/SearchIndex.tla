----------------------------- MODULE SearchIndex -----------------------------
(***************************************************************************)
(* The product index of services/product_search.py in the running          *)
(* application, over the file of CatalogueSync: loaded and embedded by     *)
(* whichever thread comes first, the warm-up of app/main.py or a           *)
(* customer's search, with no lock, and then kept for the life of the      *)
(* process.  services/knowledge_base.py loads its policies the same way.   *)
(*                                                                         *)
(* The embeddings API is external and may fail.  An embedding is told      *)
(* apart by the rows it was made from.                                     *)
(***************************************************************************)
EXTENDS CatalogueSync

CONSTANTS
  Thread,        \* the warm-up and the searches
  WarmUp,
  MaxSearches,   \* bound: searches begun
  MaxRestarts,   \* bound: restarts of the process
  None

ASSUME IndexAssumption ==
  /\ WarmUp \in Thread /\ MaxSearches \in Nat /\ MaxRestarts \in Nat
  \* an index that is not there is none without rows
  /\ \A rows \in SUBSET UNION {Rows(p) : p \in Product} : None # rows

VARIABLES
  entries,      \* _entries: rows of the catalogue, or None
  embeddings,   \* _embeddings: the rows they were made from, or None
  thread,       \* where each thread is
  rewritten,    \* history: the file was written while a thread was loading
  failed,       \* history: embedding the catalogue failed in this process
  answer,       \* the last search's answer: rows, and the rows scored
  searches, restarts

indexVars == <<entries, embeddings, thread, rewritten, failed, answer, searches, restarts>>
vars == <<syncVars, indexVars>>

Loading(t) == thread[t].pc \in {"read", "embed", "store"}
At(pc, texts) == [pc |-> pc, texts |-> texts]
Goes(t, pc) == thread' = [thread EXCEPT ![t] = At(pc, {})]

\* The lifespan starts the warm-up.
Init ==
  /\ SyncInit
  /\ entries = None /\ embeddings = None
  /\ thread = [t \in Thread |-> At(IF t = WarmUp THEN "ensure" ELSE "idle", {})]
  /\ rewritten = FALSE /\ failed = FALSE
  /\ answer = None /\ searches = 0 /\ restarts = 0

StartSearch(t) ==
  /\ t # WarmUp /\ thread[t].pc = "idle" /\ searches < MaxSearches
  /\ searches' = searches + 1
  /\ Goes(t, "ensure")
  /\ UNCHANGED <<syncVars, entries, embeddings, rewritten, failed, answer, restarts>>

\* What a thread does once the index is there.
Loaded(t) == IF t = WarmUp THEN "idle" ELSE "query"

\* _ensure_loaded(): there are entries, or it is up to this thread to load.
EnsureLoaded(t) ==
  /\ thread[t].pc = "ensure"
  /\ Goes(t, IF entries = None THEN "read" ELSE Loaded(t))
  /\ UNCHANGED <<syncVars, entries, embeddings, rewritten, failed, answer, searches, restarts>>

\* mutant: the warm-up only reads the file
ReadFileWithoutEmbedding(t) ==
  /\ thread[t].pc = "read"
  /\ entries' = file.rows
  /\ Goes(t, IF t = WarmUp THEN "idle" ELSE "embed")
  /\ UNCHANGED <<syncVars, embeddings, rewritten, failed, answer, searches, restarts>>

\* A file that is missing or half written is an empty catalogue.
ReadFile(t) ==
  /\ thread[t].pc = "read"
  /\ entries' = file.rows
  /\ Goes(t, "embed")
  /\ UNCHANGED <<syncVars, embeddings, rewritten, failed, answer, searches, restarts>>

\* embed_texts() is called with whatever is published by now.
EmbedTexts(t) ==
  /\ thread[t].pc = "embed"
  /\ thread' = [thread EXCEPT ![t] = At("store", entries)]
  /\ UNCHANGED <<syncVars, entries, embeddings, rewritten, failed, answer, searches, restarts>>

EmbeddingsReturn(t) ==
  /\ thread[t].pc = "store"
  /\ embeddings' = thread[t].texts
  /\ Goes(t, Loaded(t))
  /\ UNCHANGED <<syncVars, entries, rewritten, failed, answer, searches, restarts>>

\* mutant: a catalogue that cannot be embedded gets no embeddings, and no error
EmbeddingsFailQuietly(t) ==
  /\ thread[t].pc = "store" /\ thread[t].texts # {}
  /\ embeddings' = {}
  /\ Goes(t, Loaded(t))
  /\ failed' = TRUE
  /\ UNCHANGED <<syncVars, entries, rewritten, answer, searches, restarts>>

\* The entries stay published without embeddings; the search, or the warm-up,
\* ends in an error.
EmbeddingsFail(t) ==
  /\ thread[t].pc = "store" /\ thread[t].texts # {}
  /\ Goes(t, "idle")
  /\ failed' = TRUE
  /\ UNCHANGED <<syncVars, entries, embeddings, rewritten, answer, searches, restarts>>

\* ProductIndex.search(): nothing to search, or the query is embedded ...
EmbedQuery(t) ==
  /\ thread[t].pc = "query"
  /\ IF entries = {} THEN answer' = [rows |-> {}, scored |-> {}] /\ Goes(t, "idle")
     ELSE \/ Goes(t, "score") /\ UNCHANGED answer
          \/ Goes(t, "idle") /\ UNCHANGED answer
  /\ UNCHANGED <<syncVars, entries, embeddings, rewritten, failed, searches, restarts>>

\* ... and each row scored by the embedding in its place; without embeddings
\* this raises.
Score(t) ==
  /\ thread[t].pc = "score"
  /\ answer' = IF embeddings = None THEN answer
               ELSE [rows |-> entries, scored |-> embeddings]
  /\ Goes(t, "idle")
  /\ UNCHANGED <<syncVars, entries, embeddings, rewritten, failed, searches, restarts>>

\* The machine is stopped and started: index, threads and warm-up anew.
Restart ==
  /\ restarts < MaxRestarts
  /\ restarts' = restarts + 1
  /\ entries' = None /\ embeddings' = None /\ answer' = None
  /\ thread' = [t \in Thread |-> At(IF t = WarmUp THEN "ensure" ELSE "idle", {})]
  /\ rewritten' = FALSE /\ failed' = FALSE
  /\ UNCHANGED <<syncVars, searches>>

\* The sync is another process: it only meets the index at the file.
Sync ==
  /\ SyncNext
  /\ rewritten' = (rewritten \/ (file' # file /\ \E t \in Thread : Loading(t)))
  /\ UNCHANGED <<entries, embeddings, thread, failed, answer, searches, restarts>>

Next ==
  \/ Sync \/ Restart
  \/ \E t \in Thread :
       \/ StartSearch(t) \/ EnsureLoaded(t) \/ ReadFile(t) \/ EmbedTexts(t)
       \/ EmbeddingsReturn(t) \/ EmbeddingsFail(t) \/ EmbedQuery(t) \/ Score(t)

Spec == Init /\ [][Next]_vars

-----------------------------------------------------------------------------
(* Properties.                                                             *)

TypeOK ==
  /\ file.state \in {"absent", "torn", "whole"}
  /\ (file.state = "whole") <=> (file.rows # {})
  /\ sync.page \in 0 .. Len(sync.fetched) + 2
  /\ \A t \in Thread :
       /\ thread[t].pc \in {"idle", "ensure", "read", "embed", "store", "query", "score"}
       /\ thread[t].texts \subseteq UNION {Rows(p) : p \in Product}

\* A search scores every row by that row's own embedding, however the threads
\* that load the index interleave, unless a sync wrote the file while they did:
\* one thread's rows may then meet another one's embeddings
\* (ProductIndex._ensure_loaded(), search()).
AnswersScoreTheirOwnRows ==
  ~rewritten /\ answer # None => answer.rows = answer.scored

\* A search finds no embeddings only while the first load is under way or
\* after a load that failed; short of a restart nothing else unloads them.
MissingEmbeddingsAreExplained ==
  entries \notin {None, {}} /\ embeddings = None =>
    failed \/ \E t \in Thread : Loading(t)
=============================================================================
