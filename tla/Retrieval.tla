----------------------------- MODULE Retrieval -----------------------------
(***************************************************************************)
(* Hybrid retrieval and reranking on the stores of one user, and the       *)
(* ingestion pipeline that fills them: the models loaded on first use      *)
(* under a lock, the two searches of asyncio.gather, reciprocal rank       *)
(* fusion, and the writes to a collection and an index that may not exist  *)
(* yet.  Texts and vectors are left out: which chunks a search finds, and  *)
(* in which order a model ranks them, is open.                             *)
(***************************************************************************)
EXTENDS Naturals, Sequences, FiniteSets, SequencesExt

CONSTANTS
  Queries,       \* calls of hybrid_retrieve and then rerank
  Ingests,       \* calls of run_ingest_pipeline
  ChunksOf,      \* the chunk ids of an ingested document
  Clients,       \* Qdrant clients: "sync" (get_sync_qdrant_client, which the code
                 \* takes) or "async" (get_qdrant_client, meant for this path)
  Backends,      \* reranker: "local", "cohere", or "no key"
  RrfK,          \* RRF_K
  RecallK, TopK, \* RERANKER_RECALL_K, RERANKER_TOP_K
  Nobody,
  CallsMayFail   \* stores and models may raise

Processes == Queries \cup Ingests
Chunks == UNION {ChunksOf[i] : i \in Ingests}
Models == {"embedder", "reranker"}

ASSUME RetrievalAssumption ==
  /\ IsFiniteSet(Chunks)
  /\ Queries \cap Ingests = {} /\ Nobody \notin Processes
  /\ Clients \subseteq {"sync", "async"} /\ Backends \subseteq {"local", "cohere", "no key"}
  /\ {RrfK, RecallK, TopK} \subseteq Nat \ {0}
  /\ CallsMayFail \in BOOLEAN

VARIABLES
  client, backend,        \* settings, constant in a run
  pc,                     \* per process: position, at last "done" or "error"
  loaded,                 \* models in memory
  lock,                   \* per model: who holds its asyncio.Lock
  collection, index,      \* whether they exist
  points, documents,      \* the chunks in the collection and in the index
  asked,                  \* per query: where its two searches are
  hits,                   \* per query: their results
  found                   \* per query: the fused, then the reranked chunks

settings == <<client, backend>>
models == <<loaded, lock>>
stores == <<collection, index, points, documents>>
searches == <<asked, hits, found>>
vars == <<settings, pc, models, stores, searches>>

Idle == [bm25 |-> "idle", dense |-> "idle"]
NoHits == [bm25 |-> <<>>, dense |-> <<>>]

Init ==
  /\ client \in Clients /\ backend \in Backends
  /\ pc = [p \in Processes |-> "new"]
  /\ loaded = {}
  /\ lock = [m \in Models |-> Nobody]
  /\ collection = FALSE /\ index = FALSE
  /\ points = {} /\ documents = {}
  /\ asked = [q \in Queries |-> Idle]
  /\ hits = [q \in Queries |-> NoHits]
  /\ found = [q \in Queries |-> <<>>]

Goto(p, there) == pc' = [pc EXCEPT ![p] = there]
Smaller(m, n) == IF m < n THEN m ELSE n
\* n distinct chunks of S in any order.
Orders(S, n) == {s \in [1 .. n -> S] : \A i, j \in 1 .. n : s[i] = s[j] => i = j}

-----------------------------------------------------------------------------
\* Positions around a model: its getter, the load under its lock, its use.
Want == [embedder |-> "want embedder", reranker |-> "want reranker"]
Load == [embedder |-> "load embedder", reranker |-> "load reranker"]
Use == [embedder |-> "embed", reranker |-> "rerank"]

\* _get_model and _get_local_reranker: a loaded model needs no lock ...
GetModel(p, m) ==
  /\ pc[p] = Want[m] /\ m \in loaded
  /\ Goto(p, Use[m])
  /\ UNCHANGED <<settings, models, stores, searches>>

\* Seeded bug: the model is tested, and loaded in a thread, without the lock.
LoadUnlocked(p, m) ==
  /\ pc[p] = Want[m] /\ m \notin loaded
  /\ Goto(p, Load[m])
  /\ UNCHANGED <<settings, models, stores, searches>>

\* ... else it is tested again under the lock and loaded in a thread.
StartLoad(p, m) ==
  /\ pc[p] = Want[m] /\ m \notin loaded
  /\ lock[m] = Nobody
  /\ lock' = [lock EXCEPT ![m] = p]
  /\ Goto(p, Load[m])
  /\ UNCHANGED <<settings, loaded, stores, searches>>

FinishLoad(p, m) ==
  /\ pc[p] = Load[m]
  /\ loaded' = loaded \cup {m}
  /\ lock' = [lock EXCEPT ![m] = Nobody]
  /\ Goto(p, Use[m])
  /\ UNCHANGED <<settings, stores, searches>>

\* Seeded bug: lock.acquire() without try and finally.
LoadFailsLocked(p, m) ==
  /\ CallsMayFail /\ pc[p] = Load[m]
  /\ Goto(p, "error")
  /\ UNCHANGED <<settings, models, stores, searches>>

LoadFails(p, m) ==
  /\ CallsMayFail /\ pc[p] = Load[m]
  /\ lock' = [lock EXCEPT ![m] = Nobody]
  /\ Goto(p, "error")
  /\ UNCHANGED <<settings, loaded, stores, searches>>

-----------------------------------------------------------------------------
\* embed_query: the text goes to the embedder.
Arrive(q) ==
  /\ pc[q] = "new"
  /\ Goto(q, Want["embedder"])
  /\ UNCHANGED <<settings, models, stores, searches>>

\* encode has returned: gather starts both searches.
Gather(q) ==
  /\ pc[q] = Use["embedder"]
  /\ asked' = [asked EXCEPT ![q] = [bm25 |-> "search", dense |-> "exists"]]
  /\ Goto(q, "gather")
  /\ UNCHANGED <<settings, models, stores, hits, found>>

Answered(q, side, s) ==
  /\ asked' = [asked EXCEPT ![q][side] = "answered"]
  /\ hits' = [hits EXCEPT ![q][side] = s]

\* bm25_search: whatever matches, at most top_k; nothing if there is no index yet.
Bm25Search(q) ==
  /\ pc[q] = "gather" /\ asked[q].bm25 = "search"
  /\ IF index
       THEN \E S \in SUBSET documents :
              \E s \in Orders(S, Smaller(RecallK, Cardinality(S))) : Answered(q, "bm25", s)
       ELSE Answered(q, "bm25", <<>>)
  /\ UNCHANGED <<settings, pc, models, stores, found>>

\* dense_search asks whether the collection exists ...
DenseExists(q) ==
  /\ client = "async"
  /\ pc[q] = "gather" /\ asked[q].dense = "exists"
  /\ IF collection
       THEN asked' = [asked EXCEPT ![q].dense = "search"] /\ UNCHANGED hits
       ELSE Answered(q, "dense", <<>>)
  /\ UNCHANGED <<settings, pc, models, stores, found>>

\* ... but the answer of the client the code takes is no awaitable: await raises.
DenseExistsRaises(q) ==
  /\ client = "sync"
  /\ pc[q] = "gather" /\ asked[q].dense = "exists"
  /\ Goto(q, "error")
  /\ UNCHANGED <<settings, models, stores, searches>>

\* query_points: the top_k nearest points, all of them if there are fewer.
DenseSearch(q) ==
  /\ pc[q] = "gather" /\ asked[q].dense = "search"
  /\ \E s \in Orders(points, Smaller(RecallK, Cardinality(points))) : Answered(q, "dense", s)
  /\ UNCHANGED <<settings, pc, models, stores, found>>

-----------------------------------------------------------------------------
\* Reciprocal rank fusion: 1/(k + rank), summed over the lists a chunk stands in, as a
\* fraction; enumerate starts at 1.
Place(s, c) == CHOOSE i \in DOMAIN s : s[i] = c
Score(h, c) ==
  LET b == RrfK + Place(h.bm25, c)  d == RrfK + Place(h.dense, c)
  IN  CASE c \notin ToSet(h.dense) -> [num |-> 1, den |-> b]
        [] c \notin ToSet(h.bm25) -> [num |-> 1, den |-> d]
        [] OTHER -> [num |-> b + d, den |-> b * d]

\* Which of two chunks enters the dictionary of scores first: those of BM25 do.
EntersFirst(h, x, y) ==
  \/ x \in ToSet(h.bm25) /\ (y \in ToSet(h.bm25) => Place(h.bm25, x) < Place(h.bm25, y))
  \/ {x, y} \cap ToSet(h.bm25) = {} /\ Place(h.dense, x) < Place(h.dense, y)

\* Seeded bug: sort without reverse.
Ascending(h, x, y) ==
  LET a == Score(h, x).num * Score(h, y).den  b == Score(h, y).num * Score(h, x).den
  IN  a < b \/ (a = b /\ EntersFirst(h, x, y))

\* The stable sort: by score, and by insertion among equal scores.
Precedes(h, x, y) ==
  LET a == Score(h, x).num * Score(h, y).den  b == Score(h, y).num * Score(h, x).den
  IN  a > b \/ (a = b /\ EntersFirst(h, x, y))

RrfFuse(h) ==
  LET all == ToSet(h.bm25) \cup ToSet(h.dense)
  IN  [n \in 1 .. Cardinality(all) |->
         CHOOSE c \in all : Cardinality({x \in all : Precedes(h, x, c)}) = n - 1]

\* Fusion, the cut to top_k, and the choice of the reranker's backend; without
\* candidates there is nothing to rerank.
Fuse(q) ==
  /\ pc[q] = "gather" /\ asked[q] = [bm25 |-> "answered", dense |-> "answered"]
  /\ LET fused == RrfFuse(hits[q])
     IN  found' = [found EXCEPT ![q] = SubSeq(fused, 1, Smaller(RecallK, Len(fused)))]
  /\ Goto(q, IF found'[q] = <<>> THEN "done"
             ELSE CASE backend = "local" -> Want["reranker"]
                    [] backend = "cohere" -> Use["reranker"]
                    [] backend = "no key" -> "error")
  /\ asked' = [asked EXCEPT ![q] = Idle]
  /\ hits' = [hits EXCEPT ![q] = NoHits]
  /\ UNCHANGED <<settings, models, stores>>

\* Any order of the candidates, cut to top_k.
Rerank(q) ==
  /\ pc[q] = Use["reranker"]
  /\ \E s \in Orders(ToSet(found[q]), Smaller(TopK, Len(found[q]))) : found' = [found EXCEPT ![q] = s]
  /\ Goto(q, "done")
  /\ UNCHANGED <<settings, models, stores, asked, hits>>

-----------------------------------------------------------------------------
\* The parser raises, or the text has no chunk.
RefuseDocument(i) ==
  /\ pc[i] = "new"
  /\ Goto(i, "error")
  /\ UNCHANGED <<settings, models, stores, searches>>

\* Parsed and chunked; the ids are a function of document and position.
Parse(i) ==
  /\ pc[i] = "new"
  /\ Goto(i, Want["embedder"])
  /\ UNCHANGED <<settings, models, stores, searches>>

Embed(i) ==
  /\ pc[i] = Use["embedder"]
  /\ Goto(i, "collection exists")
  /\ UNCHANGED <<settings, models, stores, searches>>

\* ensure_collection_exists: two calls.
CollectionExists(i) ==
  /\ pc[i] = "collection exists"
  /\ Goto(i, CASE client = "sync" -> "error"
               [] client = "async" /\ collection -> "upsert"
               [] OTHER -> "create collection")
  /\ UNCHANGED <<settings, models, stores, searches>>

\* Another pipeline may have created it by now: Qdrant refuses.
CreateCollection(i) ==
  /\ pc[i] = "create collection"
  /\ collection' = TRUE
  /\ Goto(i, IF collection THEN "error" ELSE "upsert")
  /\ UNCHANGED <<settings, models, index, points, documents, searches>>

UpsertChunks(i) ==
  /\ pc[i] = "upsert"
  /\ points' = points \cup ChunksOf[i]
  /\ Goto(i, "index exists")
  /\ UNCHANGED <<settings, models, collection, index, documents, searches>>

\* ensure_index_exists
IndexExists(i) ==
  /\ pc[i] = "index exists"
  /\ Goto(i, IF index THEN "bulk" ELSE "create index")
  /\ UNCHANGED <<settings, models, stores, searches>>

CreateIndex(i) ==
  /\ pc[i] = "create index"
  /\ index' = TRUE
  /\ Goto(i, IF index THEN "error" ELSE "bulk")
  /\ UNCHANGED <<settings, models, collection, points, documents, searches>>

\* Seeded bug: the errors in the response of bulk are not looked at.
BulkUnchecked(i) ==
  /\ pc[i] = "bulk"
  /\ \E S \in SUBSET ChunksOf[i] : documents' = documents \cup S
  /\ Goto(i, "done")
  /\ UNCHANGED <<settings, models, collection, index, points, searches>>

\* index_chunks: one item of the bulk request that fails fails the call; the others stay.
Bulk(i) ==
  /\ pc[i] = "bulk"
  /\ \E S \in SUBSET ChunksOf[i], there \in {"done", "error"} :
       /\ there = "done" => S = ChunksOf[i]
       /\ there = "error" => CallsMayFail
       /\ documents' = documents \cup S
       /\ Goto(i, there)
  /\ UNCHANGED <<settings, models, collection, index, points, searches>>

\* A call raises; a write may have taken effect.
CallFails(p) ==
  /\ CallsMayFail
  /\ pc[p] \in {"embed", "gather", "rerank", "collection exists", "create collection", "upsert",
                "index exists", "create index"}
  /\ collection' \in {collection, collection \/ pc[p] = "create collection"}
  /\ points' \in {points} \cup (IF pc[p] = "upsert" THEN {points \cup ChunksOf[p]} ELSE {})
  /\ index' \in {index, index \/ pc[p] = "create index"}
  /\ Goto(p, "error")
  /\ UNCHANGED <<settings, models, documents, searches>>

Retrieve(q) ==
  \/ Arrive(q) \/ Gather(q)
  \/ Bm25Search(q) \/ DenseExists(q) \/ DenseExistsRaises(q) \/ DenseSearch(q)
  \/ Fuse(q) \/ Rerank(q)

Ingest(i) ==
  \/ RefuseDocument(i) \/ Parse(i) \/ Embed(i)
  \/ CollectionExists(i) \/ CreateCollection(i) \/ UpsertChunks(i)
  \/ IndexExists(i) \/ CreateIndex(i) \/ Bulk(i)

ForModel(p) == \E m \in Models : GetModel(p, m) \/ StartLoad(p, m) \/ FinishLoad(p, m) \/ LoadFails(p, m)

Step(p) ==
  \/ p \in Queries /\ Retrieve(p)
  \/ p \in Ingests /\ Ingest(p)
  \/ ForModel(p) \/ CallFails(p)

Next == \E p \in Processes : Step(p)

Spec == Init /\ [][Next]_vars

\* The event loop resumes every task, and every call returns or raises.
FairSpec == Spec /\ \A p \in Processes : WF_vars(Step(p))
-----------------------------------------------------------------------------
Positions == {"new", "want embedder", "load embedder", "embed", "gather", "want reranker",
              "load reranker", "rerank", "collection exists", "create collection", "upsert",
              "index exists", "create index", "bulk", "done", "error"}

\* Types; a model is loaded once at a time, by the holder of its lock, and never again:
\* "must not happen per-request" (embedder.py).
TypeOK ==
  /\ client \in Clients /\ backend \in Backends
  /\ pc \in [Processes -> Positions]
  /\ loaded \subseteq Models
  /\ lock \in [Models -> Processes \cup {Nobody}]
  /\ \A m \in Models, p \in Processes : pc[p] = Load[m] <=> lock[m] = p
  /\ \A m \in loaded : lock[m] = Nobody
  /\ {collection, index} \subseteq BOOLEAN
  /\ points \subseteq Chunks /\ documents \subseteq Chunks
  /\ asked \in [Queries -> [bm25 : {"idle", "search", "answered"},
                            dense : {"idle", "exists", "search", "answered"}]]
  /\ hits \in [Queries -> [bm25 : Seq(Chunks), dense : Seq(Chunks)]]
  /\ found \in [Queries -> Seq(Chunks)]

\* A pipeline that returned has every chunk of its document in both stores, whatever
\* other pipelines of the user and failing calls did meanwhile.
IngestedIsSearchable == \A i \in Ingests : pc[i] = "done" =>
  ChunksOf[i] \subseteq points \cap documents

Above(s, x, y) == \E i, j \in DOMAIN s : i < j /\ s[i] = x /\ s[j] = y
Dominates(h, x, y) == \A s \in {h.bm25, h.dense} : y \in ToSet(s) => Above(s, x, y)

\* What leaves the fusion: a chunk that both lists place above another, or the only list
\* the other stands in, is kept if the other is and stands above it; nothing stands twice.
FusionKeepsOrder == [][\A q \in Queries : asked[q] # Idle /\ asked'[q] = Idle =>
  /\ ToSet(found'[q]) \subseteq ToSet(hits[q].bm25) \cup ToSet(hits[q].dense)
  /\ Cardinality(ToSet(found'[q])) = Len(found'[q])
  /\ \A x \in Chunks, y \in ToSet(found'[q]) : Dominates(hits[q], x, y) => Above(found'[q], x, y)]_vars

\* Every query and every pipeline ends: a load that fails passes the lock on.
WorkEnds == \A p \in Processes : pc[p] # "new" ~> pc[p] \in {"done", "error"}
=============================================================================
