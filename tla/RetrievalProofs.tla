-------------------------- MODULE RetrievalProofs --------------------------
(***************************************************************************)
(* What retrieval and ingestion promise for any queries, pipelines, models *)
(* and failing calls.  Each process moves itself only, so each fact is an  *)
(* invariant of the positions of one process and of the stores.            *)
(***************************************************************************)
EXTENDS Retrieval, FiniteSetTheorems, TLAPS

\* A model is loaded by the holder of its lock, one at a time and never again.
LoadedOnce ==
  /\ \A m \in Models, p \in Processes : pc[p] = Load[m] <=> lock[m] = p
  /\ \A m \in loaded : lock[m] = Nobody

\* How far a pipeline is tells which of its writes are there.
WrittenSoFar == \A i \in Ingests :
  /\ pc[i] \in {"index exists", "create index", "bulk", "done"} => ChunksOf[i] \subseteq points
  /\ pc[i] = "done" => ChunksOf[i] \subseteq documents

RetrievalIInv ==
  /\ pc \in [Processes -> Positions] /\ lock \in [Models -> Processes \cup {Nobody}]
  /\ loaded \subseteq Models /\ backend \in Backends
  /\ LoadedOnce /\ WrittenSoFar

LEMMA ModelPositions ==
  /\ \A m \in Models : /\ Want[m] \in {"want embedder", "want reranker"}
                      /\ Load[m] \in {"load embedder", "load reranker"}
                      /\ Use[m] \in {"embed", "rerank"}
  /\ \A m, n \in Models : Load[m] = Load[n] => m = n
BY DEF Models, Want, Load, Use

LEMMA KindsOfProcesses ==
  /\ Queries \subseteq Processes /\ Ingests \subseteq Processes
  /\ Queries \cap Ingests = {} /\ Nobody \notin Processes
BY RetrievalAssumption DEF Processes

LEMMA RetrievalInitially == Init => RetrievalIInv
<1> SUFFICES ASSUME Init PROVE RetrievalIInv
  OBVIOUS
<1>1. LoadedOnce BY ModelPositions, KindsOfProcesses DEF Init, LoadedOnce
<1>2. WrittenSoFar
  BY KindsOfProcesses DEF Init, WrittenSoFar
<1>3. QED BY <1>1, <1>2 DEF Init, RetrievalIInv, Positions

\* A step of one process that takes no lock and loads no model.
LEMMA OneMoves ==
  ASSUME RetrievalIInv, NEW p \in Processes, NEW x \in Positions,
         pc' = [pc EXCEPT ![p] = x], UNCHANGED <<client, backend, loaded, lock>>,
         x \notin {"load embedder", "load reranker"}, pc[p] \notin {"load embedder", "load reranker"},
         points \subseteq points', documents \subseteq documents',
         p \in Ingests /\ x \in {"index exists", "create index", "bulk", "done"} => ChunksOf[p] \subseteq points',
         p \in Ingests /\ x = "done" => ChunksOf[p] \subseteq documents'
  PROVE  RetrievalIInv'
<1> USE KindsOfProcesses
<1>1. pc' \in [Processes -> Positions] /\ \A q \in Processes : pc'[q] = IF q = p THEN x ELSE pc[q]
  BY DEF RetrievalIInv
<1>2. LoadedOnce'
  <2>1. ASSUME NEW m \in Models, NEW q \in Processes PROVE pc'[q] = Load[m] <=> lock[m] = q
    <3>1. pc[q] = Load[m] <=> lock[m] = q BY DEF RetrievalIInv, LoadedOnce
    <3>2. Load[m] \in {"load embedder", "load reranker"} BY ModelPositions
    <3>3. QED BY <1>1, <3>1, <3>2
  <2>2. QED BY <2>1, ZenonT(60) DEF RetrievalIInv, LoadedOnce
<1>3. WrittenSoFar' BY <1>1 DEF RetrievalIInv, WrittenSoFar
<1>4. QED BY <1>1, <1>2, <1>3 DEF RetrievalIInv

LEMMA ModelStep ==
  ASSUME RetrievalIInv, NEW p \in Processes, ForModel(p)
  PROVE  RetrievalIInv'
<1> USE KindsOfProcesses
<1>1. PICK m \in Models : GetModel(p, m) \/ StartLoad(p, m) \/ FinishLoad(p, m) \/ LoadFails(p, m)
  BY DEF ForModel
<1>2. CASE GetModel(p, m)
  <2>1. /\ pc' = [pc EXCEPT ![p] = Use[m]] /\ pc[p] = Want[m]
        /\ UNCHANGED <<client, backend, loaded, lock, points, documents>>
    BY <1>2 DEF GetModel, Goto, settings, models, stores
  <2>2. Use[m] \in {"embed", "rerank"} /\ Want[m] \in {"want embedder", "want reranker"}
    BY ModelPositions
  <2>3. QED BY <2>1, <2>2, OneMoves DEF Positions
<1>3. CASE StartLoad(p, m) \/ FinishLoad(p, m) \/ LoadFails(p, m)
  <2>1. PICK x \in {Load[m], Use[m], "error"} :
          /\ pc' = [pc EXCEPT ![p] = x]
          /\ UNCHANGED <<client, backend, points, documents>>
    BY <1>3, ModelPositions DEF StartLoad, FinishLoad, LoadFails, Goto, settings, stores
  <2>2. x \in {"load embedder", "load reranker", "embed", "rerank", "error"}
    BY ModelPositions
  <2>3. pc' \in [Processes -> Positions] /\ \A q \in Processes : pc'[q] = IF q = p THEN x ELSE pc[q]
    BY <2>1, <2>2 DEF RetrievalIInv, Positions
  <2>4. WrittenSoFar' BY <2>1, <2>2, <2>3 DEF RetrievalIInv, WrittenSoFar
  <2>6. lock' \in [Models -> Processes \cup {Nobody}] /\ loaded' \subseteq Models
    BY <1>3 DEF StartLoad, FinishLoad, LoadFails, RetrievalIInv
  <2>7. LoadedOnce'
    <3>1. \A n \in Models, q \in Processes : pc[q] = Load[n] <=> lock[n] = q
      BY DEF RetrievalIInv, LoadedOnce
    <3>2. \A n \in loaded : n \in Models /\ lock[n] = Nobody BY DEF RetrievalIInv, LoadedOnce
    <3>3. lock \in [Models -> Processes \cup {Nobody}] BY DEF RetrievalIInv
    <3>4. ASSUME NEW n \in Models, NEW q \in Processes PROVE pc'[q] = Load[n] <=> lock'[n] = q
      <4>1. CASE StartLoad(p, m)
        <5>1. /\ \A r \in Processes : pc'[r] = IF r = p THEN Load[m] ELSE pc[r]
              /\ lock[m] = Nobody /\ pc[p] = Want[m]
              /\ \A k \in Models : lock'[k] = IF k = m THEN p ELSE lock[k]
          BY <4>1, <3>3 DEF StartLoad, Goto, RetrievalIInv
        <5>2. Want[m] # Load[n] /\ (Load[m] = Load[n] <=> m = n) BY ModelPositions
        <5>3. (pc[q] = Load[n] <=> lock[n] = q) /\ (pc[p] = Load[n] <=> lock[n] = p) BY <3>1
        <5>4. CASE n = m BY <5>1, <5>2, <5>3, <5>4
        <5>5. CASE n # m BY <5>1, <5>2, <5>3, <5>5
        <5>6. QED BY <5>4, <5>5
      <4>2. CASE FinishLoad(p, m) \/ LoadFails(p, m)
        <5>1. /\ pc[p] = Load[m] /\ x # Load[n]
              /\ \A k \in Models : lock'[k] = IF k = m THEN Nobody ELSE lock[k]
          <6>1. pc[p] = Load[m] /\ lock' = [lock EXCEPT ![m] = Nobody] /\ pc'[p] \in {Use[m], "error"}
            BY <4>2, <2>3 DEF FinishLoad, LoadFails, Goto, RetrievalIInv
          <6>2. Use[m] # Load[n] /\ "error" # Load[n] BY ModelPositions
          <6>3. pc'[p] = x BY <2>3
          <6>4. QED BY <3>3, <6>1, <6>2, <6>3
        <5>2. Load[m] = Load[n] <=> m = n BY ModelPositions
        <5>3. /\ pc[q] = Load[n] <=> lock[n] = q
              /\ pc[p] = Load[n] <=> lock[n] = p
              /\ pc[p] = Load[m] <=> lock[m] = p
          BY <3>1
        <5>4. pc'[q] = IF q = p THEN x ELSE pc[q] BY <2>3
        <5>5. CASE n = m BY <5>1, <5>3, <5>4, <5>5
        <5>6. CASE n # m BY <5>1, <5>2, <5>3, <5>4, <5>6
        <5>7. QED BY <5>5, <5>6
      <4>3. QED BY <1>3, <4>1, <4>2
    <3>5. \A n \in loaded' : lock'[n] = Nobody
      <4>1. CASE StartLoad(p, m) BY <4>1, <3>2, <3>3 DEF StartLoad
      <4>2. CASE FinishLoad(p, m) BY <4>2, <3>2, <3>3 DEF FinishLoad
      <4>3. CASE LoadFails(p, m) BY <4>3, <3>2, <3>3 DEF LoadFails
      <4>4. QED BY <1>3, <4>1, <4>2, <4>3
    <3>6. QED BY <3>4, <3>5 DEF LoadedOnce
  <2>8. QED BY <2>1, <2>3, <2>4, <2>6, <2>7 DEF RetrievalIInv
<1>4. QED BY <1>1, <1>2, <1>3

\* The searches, fusion and reranking of a query write nothing.
LEMMA QueryStep ==
  ASSUME RetrievalIInv, NEW q \in Queries, Retrieve(q) \/ CallFails(q)
  PROVE  RetrievalIInv'
<1> USE KindsOfProcesses DEF Goto, settings, models, stores
<1>0. q \in Processes /\ q \notin Ingests /\ pc \in [Processes -> Positions]
  BY DEF RetrievalIInv
<1>1. CASE Bm25Search(q) \/ DenseExists(q) \/ DenseSearch(q)
  <2>1. /\ pc[q] = "gather" /\ pc' = pc
        /\ UNCHANGED <<client, backend, loaded, lock, points, documents>>
    BY <1>1 DEF Bm25Search, DenseExists, DenseSearch
  <2>2. pc' = [pc EXCEPT ![q] = "gather"] BY <1>0, <2>1
  <2>3. QED BY <1>0, <2>1, <2>2, OneMoves DEF Positions
<1>2. CASE Arrive(q) \/ Gather(q) \/ Rerank(q)
  <2>1. PICK x \in {Want["embedder"], "gather", "done"} :
          /\ pc[q] \in {"new", Use["embedder"], Use["reranker"]} /\ pc' = [pc EXCEPT ![q] = x]
          /\ UNCHANGED <<client, backend, loaded, lock, points, documents>>
    BY <1>2 DEF Arrive, Gather, Rerank
  <2>2. x \in {"want embedder", "want reranker", "gather", "done"} /\ pc[q] \in {"new", "embed", "rerank"}
    BY <2>1, ModelPositions DEF Models
  <2>3. QED BY <1>0, <2>1, <2>2, OneMoves DEF Positions
<1>3. CASE DenseExistsRaises(q)
  <2>1. /\ pc[q] = "gather" /\ pc' = [pc EXCEPT ![q] = "error"] /\ client = "sync"
        /\ UNCHANGED <<client, backend, loaded, lock, points, documents>>
    BY <1>3 DEF DenseExistsRaises
  <2>2. QED BY <1>0, <2>1, OneMoves DEF Positions
<1>4. CASE Fuse(q)
  <2>1. /\ pc[q] = "gather" /\ UNCHANGED <<client, backend, loaded, lock, points, documents>>
    BY <1>4 DEF Fuse
  <2>2. backend \in {"local", "cohere", "no key"}
    BY RetrievalAssumption DEF RetrievalIInv
  <2>3. PICK x \in {"done", Want["reranker"], Use["reranker"], "error"} :
          pc' = [pc EXCEPT ![q] = x]
    <3>1. CASE found'[q] = <<>> BY <1>4, <3>1 DEF Fuse
    <3>2. CASE found'[q] # <<>> /\ backend = "local" BY <1>4, <3>2 DEF Fuse
    <3>3. CASE found'[q] # <<>> /\ backend = "cohere" BY <1>4, <3>3 DEF Fuse
    <3>4. CASE found'[q] # <<>> /\ backend = "no key" BY <1>4, <3>4 DEF Fuse
    <3>5. QED BY <2>2, <3>1, <3>2, <3>3, <3>4
  <2>4. x \in {"done", "want embedder", "want reranker", "embed", "rerank", "error"}
    BY <2>3, ModelPositions DEF Models
  <2>5. QED BY <1>0, <2>1, <2>3, <2>4, OneMoves DEF Positions
<1>5. CASE CallFails(q)
  <2>1. /\ pc' = [pc EXCEPT ![q] = "error"]
        /\ UNCHANGED <<client, backend, loaded, lock, documents>>
        /\ points \subseteq points' /\ pc[q] \notin {"load embedder", "load reranker"}
    BY <1>5 DEF CallFails
  <2>2. QED BY <1>0, <2>1, OneMoves DEF Positions
<1>6. QED BY <1>1, <1>2, <1>3, <1>4, <1>5 DEF Retrieve

\* A pipeline reaches a position behind a write only by that write.
LEMMA IngestStep ==
  ASSUME RetrievalIInv, NEW i \in Ingests, Ingest(i) \/ CallFails(i)
  PROVE  RetrievalIInv'
<1> USE KindsOfProcesses DEF Goto, settings, models, stores
<1>0. i \in Processes /\ i \notin Queries /\ pc \in [Processes -> Positions]
  BY DEF RetrievalIInv
<1>w. /\ pc[i] \in {"index exists", "create index", "bulk", "done"} => ChunksOf[i] \subseteq points
      /\ pc[i] = "done" => ChunksOf[i] \subseteq documents
  BY DEF RetrievalIInv, WrittenSoFar
<1>1. CASE RefuseDocument(i) \/ Parse(i) \/ Embed(i)
  <2>1. PICK x \in {"error", Want["embedder"], "collection exists"} :
          /\ pc[i] \in {"new", Use["embedder"]} /\ pc' = [pc EXCEPT ![i] = x]
          /\ UNCHANGED <<client, backend, loaded, lock, points, documents>>
    BY <1>1 DEF RefuseDocument, Parse, Embed
  <2>2. x \in {"error", "want embedder", "want reranker", "collection exists"} /\ pc[i] \in {"new", "embed", "rerank"}
    BY <2>1, ModelPositions DEF Models
  <2>3. QED BY <1>0, <2>1, <2>2, OneMoves DEF Positions
<1>2. CASE CollectionExists(i) \/ CreateCollection(i)
  <2>1. /\ pc[i] \in {"collection exists", "create collection"}
        /\ UNCHANGED <<client, backend, loaded, lock, points, documents>>
    BY <1>2 DEF CollectionExists, CreateCollection
  <2>2. PICK x \in {"error", "upsert", "create collection"} : pc' = [pc EXCEPT ![i] = x]
    BY <1>2 DEF CollectionExists, CreateCollection
  <2>3. QED BY <1>0, <2>1, <2>2, OneMoves DEF Positions
<1>3. CASE UpsertChunks(i)
  <2>1. /\ pc[i] = "upsert" /\ pc' = [pc EXCEPT ![i] = "index exists"]
        /\ points' = points \cup ChunksOf[i]
        /\ UNCHANGED <<client, backend, loaded, lock, documents>>
    BY <1>3 DEF UpsertChunks
  <2>2. QED BY <1>0, <2>1, OneMoves DEF Positions
<1>4. CASE IndexExists(i) \/ CreateIndex(i)
  <2>1. /\ pc[i] \in {"index exists", "create index"}
        /\ UNCHANGED <<client, backend, loaded, lock, points, documents>>
    BY <1>4 DEF IndexExists, CreateIndex
  <2>2. PICK x \in {"error", "bulk", "create index"} : pc' = [pc EXCEPT ![i] = x]
    BY <1>4 DEF IndexExists, CreateIndex
  <2>3. QED BY <1>0, <1>w, <2>1, <2>2, OneMoves DEF Positions
<1>5. CASE Bulk(i)
  <2>1. PICK S \in SUBSET ChunksOf[i], x \in {"done", "error"} :
          /\ x = "done" => S = ChunksOf[i]
          /\ documents' = documents \cup S /\ pc' = [pc EXCEPT ![i] = x]
    BY <1>5 DEF Bulk
  <2>2. pc[i] = "bulk" /\ UNCHANGED <<client, backend, loaded, lock, points>>
    BY <1>5 DEF Bulk
  <2>3. QED BY <1>0, <1>w, <2>1, <2>2, OneMoves DEF Positions
<1>6. CASE CallFails(i)
  <2>1. /\ pc' = [pc EXCEPT ![i] = "error"]
        /\ UNCHANGED <<client, backend, loaded, lock, documents>>
        /\ points \subseteq points' /\ pc[i] \notin {"load embedder", "load reranker"}
    BY <1>6 DEF CallFails
  <2>2. QED BY <1>0, <2>1, OneMoves DEF Positions
<1>7. QED BY <1>1, <1>2, <1>3, <1>4, <1>5, <1>6 DEF Ingest

LEMMA RetrievalStep == RetrievalIInv /\ [Next]_vars => RetrievalIInv'
<1> SUFFICES ASSUME RetrievalIInv, [Next]_vars PROVE RetrievalIInv'
  OBVIOUS
<1>1. ASSUME NEW p \in Processes, Step(p) PROVE RetrievalIInv'
  <2>1. CASE ForModel(p) BY <2>1, ModelStep
  <2>2. CASE p \in Queries /\ (Retrieve(p) \/ CallFails(p)) BY <2>2, QueryStep
  <2>3. CASE p \in Ingests /\ (Ingest(p) \/ CallFails(p)) BY <2>3, IngestStep
  <2>4. QED BY <1>1, <2>1, <2>2, <2>3 DEF Step, Processes
<1>2. CASE UNCHANGED vars
  BY <1>2 DEF vars, settings, models, stores, RetrievalIInv, LoadedOnce, WrittenSoFar
<1>3. QED BY <1>1, <1>2 DEF Next

LEMMA RetrievalInvariance == Spec => []RetrievalIInv
<1>1. QED BY RetrievalInitially, RetrievalStep, PTL DEF Spec

\* "Idempotent": whatever other pipelines do and whichever calls fail, a pipeline that
\* returned has all its chunks in both stores (ingest_pipeline.py).
THEOREM IngestionIsComplete == Spec => []IngestedIsSearchable
<1>1. RetrievalIInv => IngestedIsSearchable
  BY DEF RetrievalIInv, WrittenSoFar, IngestedIsSearchable
<1>2. QED BY <1>1, RetrievalInvariance, PTL

\* Two processes never load the same model together, and nobody loads one that is there
\* (double-checked locking in embedder.py and reranker.py).
THEOREM ModelsAreLoadedOnce ==
  Spec => [](/\ \A m \in Models, p, q \in Processes : pc[p] = Load[m] /\ pc[q] = Load[m] => p = q
             /\ \A m \in loaded, p \in Processes : pc[p] # Load[m])
<1> DEFINE Once ==
      /\ \A m \in Models, p, q \in Processes : pc[p] = Load[m] /\ pc[q] = Load[m] => p = q
      /\ \A m \in loaded, p \in Processes : pc[p] # Load[m]
<1>1. RetrievalIInv => Once
  BY KindsOfProcesses DEF RetrievalIInv, LoadedOnce
<1>2. QED BY <1>1, RetrievalInvariance, PTL

-----------------------------------------------------------------------------
(* Fusion: the ranks of a strict order, and the order of the scores.       *)

\* R, a set of pairs, orders a finite set strictly: then each rank is taken, once.
Below(R, S, c) == {x \in S : <<x, c>> \in R}

LEMMA Ranks ==
  ASSUME NEW S, IsFiniteSet(S), NEW R,
         \A x \in S : <<x, x>> \notin R,
         \A x, y \in S : x = y \/ <<x, y>> \in R \/ <<y, x>> \in R,
         \A x, y, z \in S : <<x, y>> \in R /\ <<y, z>> \in R => <<x, z>> \in R
  PROVE  /\ Cardinality(S) \in Nat
         /\ \A x, y \in S : <<x, y>> \in R <=> Cardinality(Below(R, S, x)) < Cardinality(Below(R, S, y))
         /\ \A x \in S : Cardinality(Below(R, S, x)) \in Nat
         /\ \A n \in 1 .. Cardinality(S) : \E c \in S : Cardinality(Below(R, S, c)) = n - 1
<1> DEFINE N == Cardinality(S)
           rank == [x \in S |-> Cardinality(Below(R, S, x))]
           T == 0 .. N - 1
<1>1. N \in Nat BY FS_CardinalityType
<1>2. \A x \in S : /\ Below(R, S, x) \subseteq S /\ x \notin Below(R, S, x)
                   /\ IsFiniteSet(Below(R, S, x)) /\ Cardinality(Below(R, S, x)) \in Nat
  <2> SUFFICES ASSUME NEW x \in S
      PROVE /\ Below(R, S, x) \subseteq S /\ x \notin Below(R, S, x)
            /\ IsFiniteSet(Below(R, S, x)) /\ Cardinality(Below(R, S, x)) \in Nat
    OBVIOUS
  <2>1. Below(R, S, x) \subseteq S /\ x \notin Below(R, S, x) BY DEF Below
  <2>2. QED BY <2>1, FS_Subset, FS_CardinalityType
<1>3. ASSUME NEW x \in S, NEW y \in S, <<x, y>> \in R
      PROVE  Cardinality(Below(R, S, x)) < Cardinality(Below(R, S, y))
  <2>1. Below(R, S, x) \subseteq Below(R, S, y) BY <1>3 DEF Below
  <2>2. x \in Below(R, S, y) /\ x \notin Below(R, S, x) BY <1>2, <1>3 DEF Below
  <2>3. /\ Cardinality(Below(R, S, x)) <= Cardinality(Below(R, S, y))
        /\ Cardinality(Below(R, S, x)) = Cardinality(Below(R, S, y)) => Below(R, S, x) = Below(R, S, y)
    BY <1>2, <2>1, FS_Subset
  <2>4. QED BY <1>2, <2>2, <2>3
<1>4. \A x, y \in S : <<x, y>> \in R <=> Cardinality(Below(R, S, x)) < Cardinality(Below(R, S, y))
  <2> SUFFICES ASSUME NEW x \in S, NEW y \in S, Cardinality(Below(R, S, x)) < Cardinality(Below(R, S, y))
      PROVE  <<x, y>> \in R
    BY <1>3
  <2>1. x # y BY <1>2
  <2>2. ~(<<y, x>> \in R) BY <1>2, <1>3
  <2>3. QED BY <2>1, <2>2
<1>5. \A x \in S : Cardinality(Below(R, S, x)) < N
  <2> SUFFICES ASSUME NEW x \in S PROVE Cardinality(Below(R, S, x)) < N
    OBVIOUS
  <2>1. /\ Cardinality(Below(R, S, x)) <= Cardinality(S)
        /\ Cardinality(Below(R, S, x)) = Cardinality(S) => Below(R, S, x) = S
    BY <1>2, FS_Subset
  <2>2. QED BY <1>1, <1>2, <2>1
<1>6. rank \in [S -> T] BY <1>1, <1>2, <1>5
<1>7. \A x, y \in S : rank[x] = rank[y] => x = y BY <1>2, <1>4
<1>8. IsFiniteSet(T) /\ Cardinality(T) = N
  <2>1. 0 \in Int /\ N - 1 \in Int /\ (0 > N - 1 <=> N = 0) BY <1>1
  <2> HIDE DEF N
  <2>2. QED BY <1>1, <2>1, FS_Interval
<1> HIDE DEF rank, T
<1>9. rank \in Injection(S, T) BY <1>6, <1>7 DEF Injection, IsInjective
<1>10. rank \in Surjection(S, T) BY <1>8, <1>9, FS_Injection
<1>11. \A n \in T : \E c \in S : rank[c] = n BY <1>10 DEF Surjection
<1>12. \A n \in 1 .. N : n - 1 \in T BY <1>1 DEF T
<1>13. \A n \in 1 .. N : \E c \in S : Cardinality(Below(R, S, c)) = n - 1
  BY <1>11, <1>12 DEF rank
<1>14. QED BY <1>1, <1>2, <1>4, <1>13

\* Arithmetic of fractions, compared by cross multiplication.
LEMMA Products ==
  ASSUME NEW a \in Nat, NEW b \in Nat, NEW k \in Nat
  PROVE  /\ a * k \in Nat /\ a * k = k * a
         /\ a >= b => a * k >= b * k
         /\ k > 0 /\ a > b => a * k > b * k
         /\ k > 0 /\ a * k >= b * k => a >= b
         /\ k > 0 /\ a * k > b * k => a > b
<1>1. a * k \in Nat /\ a * k = k * a /\ b * k \in Nat OBVIOUS
<1>2. \A x, y \in Nat : x >= y => x * k >= y * k OBVIOUS
<1>3. ASSUME NEW x \in Nat, NEW y \in Nat, k > 0, x > y PROVE x * k > y * k
  <2>1. x * k >= (y + 1) * k BY <1>2, <1>3
  <2>2. (y + 1) * k = y * k + k OBVIOUS
  <2>3. QED BY <1>3, <2>1, <2>2
<1>4. QED BY <1>1, <1>2, <1>3

LEMMA FractionsTransitive ==
  ASSUME NEW n1 \in Nat, NEW n2 \in Nat, NEW n3 \in Nat,
         NEW d1 \in Nat, NEW d2 \in Nat, NEW d3 \in Nat, d1 > 0, d2 > 0, d3 > 0,
         n1 * d2 >= n2 * d1, n2 * d3 >= n3 * d2
  PROVE  /\ n1 * d3 >= n3 * d1
         /\ n1 * d2 > n2 * d1 \/ n2 * d3 > n3 * d2 => n1 * d3 > n3 * d1
<1>1. /\ n1 * d2 \in Nat /\ n2 * d1 \in Nat /\ n2 * d3 \in Nat /\ n3 * d2 \in Nat
      /\ n1 * d3 \in Nat /\ n3 * d1 \in Nat
  OBVIOUS
<1>2. /\ (n1 * d2) * d3 >= (n2 * d1) * d3 /\ (n1 * d2 > n2 * d1 => (n1 * d2) * d3 > (n2 * d1) * d3)
      /\ (n2 * d3) * d1 >= (n3 * d2) * d1 /\ (n2 * d3 > n3 * d2 => (n2 * d3) * d1 > (n3 * d2) * d1)
  BY <1>1, Products
<1>3. /\ (n1 * d2) * d3 = (n1 * d3) * d2 /\ (n2 * d1) * d3 = (n2 * d3) * d1
      /\ (n3 * d2) * d1 = (n3 * d1) * d2
  OBVIOUS
<1>4. (n1 * d3) * d2 \in Nat /\ (n3 * d1) * d2 \in Nat /\ (n2 * d3) * d1 \in Nat BY <1>1
<1>5. /\ (n1 * d3) * d2 >= (n3 * d1) * d2
      /\ n1 * d2 > n2 * d1 \/ n2 * d3 > n3 * d2 => (n1 * d3) * d2 > (n3 * d1) * d2
  BY <1>2, <1>3, <1>4
<1>6. QED BY <1>1, <1>5, Products

\* 1/u + 1/v > 1/w if w > u, and > 1/u2 + 1/v2 if u2 > u and v2 > v.
LEMMA SumOfOne ==
  ASSUME NEW u \in Nat, NEW v \in Nat, NEW w \in Nat, v > 0, w > u
  PROVE  (u + v) * w > 1 * (u * v)
<1>1. u * v \in Nat /\ u * w \in Nat /\ v * w \in Nat /\ w * v \in Nat OBVIOUS
<1>2. w * v > u * v BY Products
<1>3. (u + v) * w = u * w + w * v OBVIOUS
<1>4. QED BY <1>1, <1>2, <1>3

LEMMA SumOfTwo ==
  ASSUME NEW u \in Nat, NEW v \in Nat, NEW u2 \in Nat, NEW v2 \in Nat, u > 0, v > 0, u2 > u, v2 > v
  PROVE  (u + v) * (u2 * v2) > (u2 + v2) * (u * v)
<1>1. u * u2 \in Nat /\ v * v2 \in Nat OBVIOUS
<1>2. u * u2 > 0 /\ v * v2 > 0
  <2>1. 0 * u2 = 0 /\ 0 * v2 = 0 OBVIOUS
  <2>2. u * u2 > 0 * u2 BY Products
  <2>3. v * v2 > 0 * v2 BY Products
  <2>4. QED BY <2>1, <2>2, <2>3
<1>3. v2 * (u * u2) > v * (u * u2) BY <1>1, <1>2, Products
<1>4. u2 * (v * v2) > u * (v * v2) BY <1>1, <1>2, Products
<1>5. (u + v) * (u2 * v2) = v2 * (u * u2) + u2 * (v * v2) OBVIOUS
<1>6. (u2 + v2) * (u * v) = v * (u * u2) + u * (v * v2) OBVIOUS
<1>7. v2 * (u * u2) \in Nat /\ v * (u * u2) \in Nat /\ u2 * (v * v2) \in Nat /\ u * (v * v2) \in Nat
  BY <1>1
<1>8. QED BY <1>3, <1>4, <1>5, <1>6, <1>7

\* Two lists of hits, neither of which names a chunk twice.
Distinct(s) == \A i, j \in DOMAIN s : s[i] = s[j] => i = j
Hits(h) == /\ h.bm25 \in Seq(Chunks) /\ Distinct(h.bm25)
           /\ h.dense \in Seq(Chunks) /\ Distinct(h.dense)
Candidates(h) == ToSet(h.bm25) \cup ToSet(h.dense)

LEMMA Places ==
  ASSUME NEW s \in Seq(Chunks), Distinct(s)
  PROVE  /\ \A c \in ToSet(s) : Place(s, c) \in DOMAIN s /\ Place(s, c) \in Nat /\ Place(s, c) > 0 /\ s[Place(s, c)] = c
         /\ \A i \in DOMAIN s : s[i] \in ToSet(s) /\ Place(s, s[i]) = i
<1>1. DOMAIN s = 1 .. Len(s) /\ Len(s) \in Nat OBVIOUS
<1>2. \A i \in DOMAIN s : i \in Nat /\ i > 0 BY <1>1
<1>3. \A c : c \in ToSet(s) <=> \E i \in DOMAIN s : s[i] = c BY DEF ToSet
<1>4. \A c \in ToSet(s) : Place(s, c) \in DOMAIN s /\ s[Place(s, c)] = c
  BY <1>3 DEF Place
<1>5. QED BY <1>2, <1>3, <1>4 DEF Distinct

LEMMA CandidatesAreFinite ==
  ASSUME NEW h, Hits(h)
  PROVE  Candidates(h) \subseteq Chunks /\ IsFiniteSet(Candidates(h))
<1>1. ToSet(h.bm25) \subseteq Chunks /\ ToSet(h.dense) \subseteq Chunks
  BY DEF Hits, ToSet
<1>2. QED BY <1>1, RetrievalAssumption, FS_Subset DEF Candidates

\* A score is a positive fraction.
LEMMA ScoresArePositive ==
  ASSUME NEW h, Hits(h), NEW c \in Candidates(h)
  PROVE  /\ Score(h, c).num \in Nat /\ Score(h, c).num > 0
         /\ Score(h, c).den \in Nat /\ Score(h, c).den > 0
<1>1. RrfK \in Nat /\ RrfK > 0
  <2>1. RrfK \in Nat \ {0} BY RetrievalAssumption
  <2>2. QED BY <2>1
<1>2. c \in ToSet(h.bm25) => Place(h.bm25, c) \in Nat /\ Place(h.bm25, c) > 0 BY Places DEF Hits
<1>3. c \in ToSet(h.dense) => Place(h.dense, c) \in Nat /\ Place(h.dense, c) > 0 BY Places DEF Hits
<1>4. CASE c \notin ToSet(h.dense)
  <2>1. Score(h, c) = [num |-> 1, den |-> RrfK + Place(h.bm25, c)] BY <1>4 DEF Score, Candidates
  <2>2. QED BY <1>1, <1>2, <1>4, <2>1 DEF Candidates
<1>5. CASE c \in ToSet(h.dense) /\ c \notin ToSet(h.bm25)
  <2>1. Score(h, c) = [num |-> 1, den |-> RrfK + Place(h.dense, c)] BY <1>5 DEF Score
  <2>2. QED BY <1>1, <1>3, <1>5, <2>1
<1>6. CASE c \in ToSet(h.dense) /\ c \in ToSet(h.bm25)
  <2>1. PICK b \in Nat, d \in Nat : b > 0 /\ d > 0 /\ b = RrfK + Place(h.bm25, c) /\ d = RrfK + Place(h.dense, c)
    BY <1>1, <1>2, <1>3, <1>6
  <2>2. Score(h, c) = [num |-> b + d, den |-> b * d] BY <1>6, <2>1 DEF Score
  <2>3. b * d \in Nat /\ b * d > 0
    <3>1. 0 \in Nat /\ b > 0 /\ 0 * d = 0 BY <2>1
    <3>2. b * d > 0 * d BY <2>1, <3>1, Products
    <3>3. QED BY <2>1, <3>1, <3>2, Products
  <2>4. QED BY <2>1, <2>2, <2>3
<1>7. QED BY <1>4, <1>5, <1>6

LEMMA EntersFirstOrders ==
  ASSUME NEW h, Hits(h), NEW x \in Candidates(h), NEW y \in Candidates(h), NEW z \in Candidates(h)
  PROVE  /\ ~EntersFirst(h, x, x)
         /\ x = y \/ EntersFirst(h, x, y) \/ EntersFirst(h, y, x)
         /\ EntersFirst(h, x, y) /\ EntersFirst(h, y, z) => EntersFirst(h, x, z)
<1>1. \A c \in ToSet(h.bm25) : Place(h.bm25, c) \in Nat /\ h.bm25[Place(h.bm25, c)] = c BY Places DEF Hits
<1>2. \A c \in ToSet(h.dense) : Place(h.dense, c) \in Nat /\ h.dense[Place(h.dense, c)] = c BY Places DEF Hits
<1>3. \A c \in {x, y, z} : c \in ToSet(h.bm25) \/ c \in ToSet(h.dense) BY DEF Candidates
<1>4. \A a, b \in {x, y, z} : EntersFirst(h, a, b) <=>
        \/ a \in ToSet(h.bm25) /\ b \notin ToSet(h.bm25)
        \/ a \in ToSet(h.bm25) /\ b \in ToSet(h.bm25) /\ Place(h.bm25, a) < Place(h.bm25, b)
        \/ a \notin ToSet(h.bm25) /\ b \notin ToSet(h.bm25) /\ Place(h.dense, a) < Place(h.dense, b)
  <2> SUFFICES ASSUME NEW a, NEW b
      PROVE EntersFirst(h, a, b) <=>
        \/ a \in ToSet(h.bm25) /\ b \notin ToSet(h.bm25)
        \/ a \in ToSet(h.bm25) /\ b \in ToSet(h.bm25) /\ Place(h.bm25, a) < Place(h.bm25, b)
        \/ a \notin ToSet(h.bm25) /\ b \notin ToSet(h.bm25) /\ Place(h.dense, a) < Place(h.dense, b)
    OBVIOUS
  <2>1. {a, b} \cap ToSet(h.bm25) = {} <=> a \notin ToSet(h.bm25) /\ b \notin ToSet(h.bm25) OBVIOUS
  <2>2. QED BY <2>1 DEF EntersFirst
<1>5. ~EntersFirst(h, x, x) BY <1>1, <1>2, <1>3, <1>4
<1>6. x = y \/ EntersFirst(h, x, y) \/ EntersFirst(h, y, x) BY <1>1, <1>2, <1>3, <1>4
<1>7. EntersFirst(h, x, y) /\ EntersFirst(h, y, z) => EntersFirst(h, x, z) BY <1>1, <1>2, <1>3, <1>4
<1>8. QED BY <1>5, <1>6, <1>7

\* So a sort by score, and by insertion among equal scores, is a sort by a strict order.
LEMMA PrecedesOrders ==
  ASSUME NEW h, Hits(h), NEW x \in Candidates(h), NEW y \in Candidates(h), NEW z \in Candidates(h)
  PROVE  /\ ~Precedes(h, x, x)
         /\ x = y \/ Precedes(h, x, y) \/ Precedes(h, y, x)
         /\ Precedes(h, x, y) /\ Precedes(h, y, z) => Precedes(h, x, z)
<1> DEFINE n(c) == Score(h, c).num
           d(c) == Score(h, c).den
<1>1. \A c \in {x, y, z} : n(c) \in Nat /\ d(c) \in Nat /\ d(c) > 0 BY ScoresArePositive
<1>2. \A a, b : Precedes(h, a, b) <=> \/ n(a) * d(b) > n(b) * d(a)
                                      \/ n(a) * d(b) = n(b) * d(a) /\ EntersFirst(h, a, b)
  BY DEF Precedes
<1>3. \A a, b \in {x, y, z} : n(a) * d(b) \in Nat BY <1>1, Products
<1> HIDE DEF n, d
<1>4. ~Precedes(h, x, x) BY <1>2, <1>3, EntersFirstOrders
<1>5. x = y \/ Precedes(h, x, y) \/ Precedes(h, y, x)
  <2>1. x = y \/ EntersFirst(h, x, y) \/ EntersFirst(h, y, x) BY EntersFirstOrders
  <2>2. n(x) * d(y) \in Nat /\ n(y) * d(x) \in Nat BY <1>3
  <2>3. QED BY <1>2, <2>1, <2>2
<1>6. ASSUME Precedes(h, x, y), Precedes(h, y, z) PROVE Precedes(h, x, z)
  <2>1. n(x) * d(y) \in Nat /\ n(y) * d(x) \in Nat /\ n(y) * d(z) \in Nat /\ n(z) * d(y) \in Nat
        /\ n(x) * d(z) \in Nat /\ n(z) * d(x) \in Nat
    BY <1>3
  <2>2. n(x) * d(y) >= n(y) * d(x) /\ n(y) * d(z) >= n(z) * d(y) BY <1>2, <1>6, <2>1
  <2>3. /\ n(x) * d(z) >= n(z) * d(x)
        /\ n(x) * d(y) > n(y) * d(x) \/ n(y) * d(z) > n(z) * d(y) => n(x) * d(z) > n(z) * d(x)
    BY <1>1, <2>2, FractionsTransitive
  <2>4. CASE n(x) * d(y) > n(y) * d(x) \/ n(y) * d(z) > n(z) * d(y) BY <1>2, <2>3, <2>4
  <2>5. CASE ~(n(x) * d(y) > n(y) * d(x) \/ n(y) * d(z) > n(z) * d(y))
    <3>1. EntersFirst(h, x, y) /\ EntersFirst(h, y, z) BY <1>2, <1>6, <2>5
    <3>2. EntersFirst(h, x, z) BY <3>1, EntersFirstOrders
    <3>3. QED BY <1>2, <2>1, <2>3, <3>2
  <2>6. QED BY <2>4, <2>5
<1>7. QED BY <1>4, <1>5, <1>6

\* What rrf_fuse returns: every candidate once, each before those it precedes.
LEMMA FusionSorts ==
  ASSUME NEW h, Hits(h)
  PROVE  /\ RrfFuse(h) \in Seq(Chunks) /\ Distinct(RrfFuse(h))
         /\ ToSet(RrfFuse(h)) = Candidates(h)
         /\ \A i, j \in DOMAIN RrfFuse(h) : Precedes(h, RrfFuse(h)[i], RrfFuse(h)[j]) => i < j
<1> DEFINE S == Candidates(h)
           R == {p \in S \X S : Precedes(h, p[1], p[2])}
           rank(c) == Cardinality(Below(R, S, c))
<1>1. \A x, y \in S : <<x, y>> \in R <=> Precedes(h, x, y) OBVIOUS
<1>2. /\ \A x \in S : <<x, x>> \notin R
      /\ \A x, y \in S : x = y \/ <<x, y>> \in R \/ <<y, x>> \in R
      /\ \A x, y, z \in S : <<x, y>> \in R /\ <<y, z>> \in R => <<x, z>> \in R
  BY <1>1, PrecedesOrders
<1>3. S \subseteq Chunks /\ IsFiniteSet(S) BY CandidatesAreFinite
<1>4. \A c \in S : {x \in S : Precedes(h, x, c)} = Below(R, S, c) BY <1>1 DEF Below
<1>5. PICK N : N = Cardinality(S) OBVIOUS
<1>6. PICK f : f = RrfFuse(h) OBVIOUS
<1>7. f = [n \in 1 .. N |-> CHOOSE c \in S : Cardinality({x \in S : Precedes(h, x, c)}) = n - 1]
  BY <1>5, <1>6 DEF RrfFuse, Candidates
<1> HIDE DEF S, R
<1>8. /\ N \in Nat
      /\ \A x, y \in S : <<x, y>> \in R <=> rank(x) < rank(y)
      /\ \A x \in S : rank(x) \in Nat
      /\ \A n \in 1 .. N : \E c \in S : rank(c) = n - 1
  BY <1>2, <1>3, <1>5, Ranks
<1>9. DOMAIN f = 1 .. N BY <1>7
<1>10. \A n \in 1 .. N : f[n] \in S /\ rank(f[n]) = n - 1
  <2> SUFFICES ASSUME NEW n \in 1 .. N PROVE f[n] \in S /\ rank(f[n]) = n - 1
    OBVIOUS
  <2>1. f[n] = CHOOSE c \in S : Cardinality({x \in S : Precedes(h, x, c)}) = n - 1 BY <1>7
  <2>2. \E c \in S : Cardinality({x \in S : Precedes(h, x, c)}) = n - 1 BY <1>4, <1>8
  <2>3. f[n] \in S /\ Cardinality({x \in S : Precedes(h, x, f[n])}) = n - 1 BY <2>1, <2>2
  <2>4. QED BY <1>4, <2>3
<1> HIDE DEF rank
<1>11. f \in Seq(Chunks)
  <2>1. f \in [1 .. N -> Chunks] BY <1>3, <1>7, <1>10
  <2>2. QED BY <1>8, <2>1
<1>12. Distinct(f)
  <2>1. \A i, j \in 1 .. N : f[i] = f[j] => i - 1 = j - 1 BY <1>10
  <2>2. QED BY <1>8, <1>9, <2>1 DEF Distinct
<1>13. ToSet(f) = S
  <2>1. ASSUME NEW c \in S PROVE \E i \in 1 .. N : f[i] = c
    <3>1. rank(c) \in Nat /\ rank(c) < N
      <4>1. Below(R, S, c) \subseteq S /\ c \notin Below(R, S, c) BY <1>2, <2>1 DEF Below
      <4>2. /\ Cardinality(Below(R, S, c)) <= Cardinality(S)
            /\ Cardinality(Below(R, S, c)) = Cardinality(S) => Below(R, S, c) = S
        BY <1>3, <4>1, FS_Subset
      <4>3. QED BY <1>5, <1>8, <2>1, <4>1, <4>2 DEF rank
    <3>2. PICK i \in 1 .. N : i - 1 = rank(c)
      <4>1. rank(c) + 1 \in 1 .. N /\ (rank(c) + 1) - 1 = rank(c) BY <1>8, <3>1
      <4>2. QED BY <4>1
    <3>3. f[i] \in S /\ rank(f[i]) = rank(c) BY <1>10, <3>2
    <3>4. ~(rank(f[i]) < rank(c)) /\ ~(rank(c) < rank(f[i])) BY <3>1, <3>3
    <3>5. f[i] = c BY <1>2, <1>8, <2>1, <3>3, <3>4
    <3>6. QED BY <3>5
  <2>2. QED BY <1>9, <1>10, <2>1 DEF ToSet
<1>14. ASSUME NEW i \in 1 .. N, NEW j \in 1 .. N, Precedes(h, f[i], f[j]) PROVE i < j
  <2>1. <<f[i], f[j]>> \in R BY <1>1, <1>10, <1>14
  <2>2. i - 1 < j - 1 BY <1>8, <1>10, <2>1
  <2>3. QED BY <2>2
<1>15. QED BY <1>6, <1>9, <1>11, <1>12, <1>13, <1>14 DEF S

\* Who stands above another wherever that one stands has the greater score.
LEMMA DominatesPrecedes ==
  ASSUME NEW h, Hits(h), NEW x, NEW y \in Candidates(h), Dominates(h, x, y)
  PROVE  x \in Candidates(h) /\ Precedes(h, x, y)
<1>k. RrfK \in Nat /\ RrfK > 0
  <2>1. RrfK \in Nat \ {0} BY RetrievalAssumption
  <2>2. QED BY <2>1
<1>1. ASSUME NEW s \in Seq(Chunks), Distinct(s), Above(s, x, y)
      PROVE  x \in ToSet(s) /\ Place(s, x) < Place(s, y)
  <2>1. PICK i \in DOMAIN s, j \in DOMAIN s : i < j /\ s[i] = x /\ s[j] = y BY <1>1 DEF Above
  <2>2. QED BY <1>1, <2>1, Places
<1>2. y \in ToSet(h.bm25) => x \in ToSet(h.bm25) /\ Place(h.bm25, x) < Place(h.bm25, y)
  BY <1>1 DEF Dominates, Hits
<1>3. y \in ToSet(h.dense) => x \in ToSet(h.dense) /\ Place(h.dense, x) < Place(h.dense, y)
  BY <1>1 DEF Dominates, Hits
<1>4. x \in Candidates(h) BY <1>2, <1>3 DEF Candidates
<1>5. \A c \in ToSet(h.bm25) : Place(h.bm25, c) \in Nat /\ Place(h.bm25, c) > 0 BY Places DEF Hits
<1>6. \A c \in ToSet(h.dense) : Place(h.dense, c) \in Nat /\ Place(h.dense, c) > 0 BY Places DEF Hits
<1> DEFINE b(c) == RrfK + Place(h.bm25, c)
           d(c) == RrfK + Place(h.dense, c)
<1>7. /\ \A c \in ToSet(h.bm25) : b(c) \in Nat /\ b(c) > 0
      /\ \A c \in ToSet(h.dense) : d(c) \in Nat /\ d(c) > 0
      /\ y \in ToSet(h.bm25) => b(x) < b(y)
      /\ y \in ToSet(h.dense) => d(x) < d(y)
  BY <1>k, <1>2, <1>3, <1>5, <1>6
<1>8. /\ \A c \in ToSet(h.bm25) \ ToSet(h.dense) : Score(h, c) = [num |-> 1, den |-> b(c)]
      /\ \A c \in ToSet(h.dense) \ ToSet(h.bm25) : Score(h, c) = [num |-> 1, den |-> d(c)]
      /\ \A c \in ToSet(h.dense) \cap ToSet(h.bm25) : Score(h, c) = [num |-> b(c) + d(c), den |-> b(c) * d(c)]
  <2>1. ASSUME NEW c \in ToSet(h.bm25) \ ToSet(h.dense) PROVE Score(h, c) = [num |-> 1, den |-> b(c)]
    BY DEF Score
  <2>2. ASSUME NEW c \in ToSet(h.dense) \ ToSet(h.bm25) PROVE Score(h, c) = [num |-> 1, den |-> d(c)]
    BY DEF Score
  <2>3. ASSUME NEW c \in ToSet(h.dense) \cap ToSet(h.bm25)
        PROVE  Score(h, c) = [num |-> b(c) + d(c), den |-> b(c) * d(c)]
    BY DEF Score
  <2>4. QED BY <2>1, <2>2, <2>3
<1> HIDE DEF b, d
<1>9. Score(h, x).num * Score(h, y).den > Score(h, y).num * Score(h, x).den
  <2>1. CASE y \in ToSet(h.bm25) /\ y \in ToSet(h.dense)
    <3>1. PICK u \in Nat, v \in Nat, u2 \in Nat, v2 \in Nat :
            /\ u = b(x) /\ v = d(x) /\ u2 = b(y) /\ v2 = d(y)
            /\ u > 0 /\ v > 0 /\ u2 > u /\ v2 > v
      BY <1>2, <1>3, <1>7, <2>1
    <3>2. Score(h, x) = [num |-> u + v, den |-> u * v] /\ Score(h, y) = [num |-> u2 + v2, den |-> u2 * v2]
      BY <1>2, <1>3, <1>8, <2>1, <3>1
    <3>3. (u + v) * (u2 * v2) > (u2 + v2) * (u * v) BY <3>1, SumOfTwo
    <3>4. QED BY <3>2, <3>3
  <2>2. CASE y \in ToSet(h.bm25) /\ y \notin ToSet(h.dense)
    <3>1. PICK u \in Nat, w \in Nat : u = b(x) /\ w = b(y) /\ u > 0 /\ w > u BY <1>2, <1>7, <2>2
    <3>2. Score(h, y) = [num |-> 1, den |-> w] BY <1>8, <2>2, <3>1
    <3>3. CASE x \in ToSet(h.dense)
      <4>1. PICK v \in Nat : v = d(x) /\ v > 0 BY <1>7, <3>3
      <4>2. Score(h, x) = [num |-> u + v, den |-> u * v] BY <1>2, <1>8, <2>2, <3>1, <3>3, <4>1
      <4>3. (u + v) * w > 1 * (u * v) BY <3>1, <4>1, SumOfOne
      <4>4. QED BY <3>2, <4>2, <4>3
    <3>4. CASE x \notin ToSet(h.dense)
      <4>1. Score(h, x) = [num |-> 1, den |-> u] BY <1>2, <1>8, <2>2, <3>1, <3>4
      <4>2. QED BY <3>1, <3>2, <4>1
    <3>5. QED BY <3>3, <3>4
  <2>3. CASE y \in ToSet(h.dense) /\ y \notin ToSet(h.bm25)
    <3>1. PICK v \in Nat, w \in Nat : v = d(x) /\ w = d(y) /\ v > 0 /\ w > v BY <1>3, <1>7, <2>3
    <3>2. Score(h, y) = [num |-> 1, den |-> w] BY <1>8, <2>3, <3>1
    <3>3. CASE x \in ToSet(h.bm25)
      <4>1. PICK u \in Nat : u = b(x) /\ u > 0 BY <1>7, <3>3
      <4>2. Score(h, x) = [num |-> u + v, den |-> u * v] BY <1>3, <1>8, <2>3, <3>1, <3>3, <4>1
      <4>3. (v + u) * w > 1 * (v * u) BY <3>1, <4>1, SumOfOne
      <4>4. u + v = v + u /\ u * v = v * u OBVIOUS
      <4>5. QED BY <3>2, <4>2, <4>3, <4>4
    <3>4. CASE x \notin ToSet(h.bm25)
      <4>1. Score(h, x) = [num |-> 1, den |-> v] BY <1>3, <1>8, <2>3, <3>1, <3>4
      <4>2. QED BY <3>1, <3>2, <4>1
    <3>5. QED BY <3>3, <3>4
  <2>4. QED BY <2>1, <2>2, <2>3 DEF Candidates
<1>10. QED BY <1>4, <1>9 DEF Precedes

-----------------------------------------------------------------------------
(* What a query holds between its steps: two lists of distinct chunks.     *)

SearchesHold ==
  /\ client \in Clients /\ {collection, index} \subseteq BOOLEAN
  /\ points \subseteq Chunks /\ documents \subseteq Chunks
  /\ asked \in [Queries -> [bm25 : {"idle", "search", "answered"},
                            dense : {"idle", "exists", "search", "answered"}]]
  /\ hits \in [Queries -> [bm25 : Seq(Chunks), dense : Seq(Chunks)]]
  /\ \A q \in Queries : Hits(hits[q])
  /\ found \in [Queries -> Seq(Chunks)]

\* Only pipelines write points.
NoQueryUpserts == \A q \in Queries : pc[q] # "upsert"

LEMMA NoQueryUpsertsStep == RetrievalIInv /\ NoQueryUpserts /\ [Next]_vars => NoQueryUpserts'
<1> SUFFICES ASSUME RetrievalIInv, NoQueryUpserts, [Next]_vars PROVE NoQueryUpserts'
  OBVIOUS
<1>0. pc \in [Processes -> Positions] BY DEF RetrievalIInv
<1>1. ASSUME NEW p \in Processes, NEW x, pc' = [pc EXCEPT ![p] = x], x # "upsert" \/ p \in Ingests
      PROVE  NoQueryUpserts'
  BY <1>0, <1>1, KindsOfProcesses DEF NoQueryUpserts
<1>2. ASSUME NEW p \in Processes, Step(p) PROVE NoQueryUpserts'
  <2>1. CASE p \in Queries /\ (Bm25Search(p) \/ DenseExists(p) \/ DenseSearch(p))
    BY <2>1 DEF Bm25Search, DenseExists, DenseSearch, NoQueryUpserts
  <2>2. CASE p \in Queries /\ (Arrive(p) \/ Gather(p) \/ DenseExistsRaises(p) \/ Rerank(p))
    <3>1. Want["embedder"] # "upsert" BY ModelPositions DEF Models
    <3>2. QED BY <1>1, <2>2, <3>1 DEF Arrive, Gather, DenseExistsRaises, Rerank, Goto
  <2>3. CASE p \in Queries /\ Fuse(p)
    <3>1. Want["reranker"] # "upsert" /\ Use["reranker"] # "upsert" BY ModelPositions DEF Models
    <3>2. backend \in {"local", "cohere", "no key"} BY RetrievalAssumption DEF RetrievalIInv
    <3>3. CASE found'[p] = <<>>
      <4>1. pc' = [pc EXCEPT ![p] = "done"] BY <2>3, <3>3 DEF Fuse, Goto
      <4>2. QED BY <1>1, <4>1
    <3>4. CASE found'[p] # <<>> /\ backend = "local"
      <4>1. pc' = [pc EXCEPT ![p] = Want["reranker"]] BY <2>3, <3>4 DEF Fuse, Goto
      <4>2. QED BY <1>1, <3>1, <4>1
    <3>5. CASE found'[p] # <<>> /\ backend = "cohere"
      <4>1. pc' = [pc EXCEPT ![p] = Use["reranker"]] BY <2>3, <3>5 DEF Fuse, Goto
      <4>2. QED BY <1>1, <3>1, <4>1
    <3>6. CASE found'[p] # <<>> /\ backend = "no key"
      <4>1. pc' = [pc EXCEPT ![p] = "error"] BY <2>3, <3>6 DEF Fuse, Goto
      <4>2. QED BY <1>1, <4>1
    <3>7. QED BY <3>2, <3>3, <3>4, <3>5, <3>6
  <2>4. CASE p \in Ingests /\ Ingest(p)
    <3>1. PICK x : pc' = [pc EXCEPT ![p] = x]
      BY <2>4 DEF Ingest, RefuseDocument, Parse, Embed, CollectionExists, CreateCollection, UpsertChunks,
                  IndexExists, CreateIndex, Bulk, Goto
    <3>2. QED BY <1>1, <2>4, <3>1
  <2>5. CASE ForModel(p)
    <3>1. PICK m \in Models : GetModel(p, m) \/ StartLoad(p, m) \/ FinishLoad(p, m) \/ LoadFails(p, m)
      BY <2>5 DEF ForModel
    <3>2. Use[m] # "upsert" /\ Load[m] # "upsert" BY ModelPositions
    <3>3. QED BY <1>1, <3>1, <3>2 DEF GetModel, StartLoad, FinishLoad, LoadFails, Goto
  <2>6. CASE CallFails(p) BY <1>1, <2>6 DEF CallFails, Goto
  <2>7. QED BY <1>2, <2>1, <2>2, <2>3, <2>4, <2>5, <2>6 DEF Step, Retrieve
<1>3. CASE UNCHANGED vars BY <1>3 DEF vars, NoQueryUpserts
<1>4. QED BY <1>2, <1>3 DEF Next

LEMMA OrdersAreLists ==
  ASSUME NEW S \in SUBSET Chunks, NEW K \in Nat, NEW M \in Nat, NEW s \in Orders(S, Smaller(K, M))
  PROVE  s \in Seq(Chunks) /\ Distinct(s)
<1>1. PICK n \in Nat : n = Smaller(K, M) BY DEF Smaller
<1>2. s \in [1 .. n -> S] /\ \A i, j \in 1 .. n : s[i] = s[j] => i = j BY <1>1 DEF Orders
<1>3. DOMAIN s = 1 .. n BY <1>2
<1>4. s \in [1 .. n -> Chunks] BY <1>2
<1>5. s \in Seq(Chunks) BY <1>1, <1>4
<1>6. QED BY <1>2, <1>3, <1>5 DEF Distinct

LEMMA Cuts ==
  /\ RecallK \in Nat /\ TopK \in Nat
  /\ \A S \in SUBSET Chunks : Cardinality(S) \in Nat
<1>1. RecallK \in Nat \ {0} /\ TopK \in Nat \ {0} BY RetrievalAssumption
<1>2. ASSUME NEW S \in SUBSET Chunks PROVE Cardinality(S) \in Nat
  BY RetrievalAssumption, FS_Subset, FS_CardinalityType
<1>3. QED BY <1>1, <1>2

LEMMA SearchesInitially == Init => SearchesHold
<1> SUFFICES ASSUME Init PROVE SearchesHold
  OBVIOUS
<1>1. <<>> \in Seq(Chunks) /\ Distinct(<<>>) BY DEF Distinct
<1>2. NoHits \in [bm25 : Seq(Chunks), dense : Seq(Chunks)] /\ Hits(NoHits) BY <1>1 DEF NoHits, Hits
<1>3. Idle \in [bm25 : {"idle", "search", "answered"}, dense : {"idle", "exists", "search", "answered"}]
  BY DEF Idle
<1>4. QED BY <1>1, <1>2, <1>3 DEF Init, SearchesHold

\* A list of one side is answered; the other side is as it was.
LEMMA AnswersAreLists ==
  ASSUME SearchesHold, NEW q \in Queries, NEW side \in {"bm25", "dense"},
         NEW s \in Seq(Chunks), Distinct(s), Answered(q, side, s)
  PROVE  /\ asked' \in [Queries -> [bm25 : {"idle", "search", "answered"},
                                    dense : {"idle", "exists", "search", "answered"}]]
         /\ hits' \in [Queries -> [bm25 : Seq(Chunks), dense : Seq(Chunks)]]
         /\ \A r \in Queries : Hits(hits'[r])
<1>1. asked'  = [asked EXCEPT ![q][side] = "answered"] /\ hits' = [hits EXCEPT ![q][side] = s]
  BY DEF Answered
<1>2. asked' \in [Queries -> [bm25 : {"idle", "search", "answered"},
                              dense : {"idle", "exists", "search", "answered"}]]
  <2>1. CASE side = "bm25" BY <1>1, <2>1 DEF SearchesHold
  <2>2. CASE side = "dense" BY <1>1, <2>2 DEF SearchesHold
  <2>3. QED BY <2>1, <2>2
<1>3. hits' \in [Queries -> [bm25 : Seq(Chunks), dense : Seq(Chunks)]]
  <2>1. CASE side = "bm25" BY <1>1, <2>1 DEF SearchesHold
  <2>2. CASE side = "dense" BY <1>1, <2>2 DEF SearchesHold
  <2>3. QED BY <2>1, <2>2
<1>4. ASSUME NEW r \in Queries PROVE Hits(hits'[r])
  <2>1. hits[r] \in [bm25 : Seq(Chunks), dense : Seq(Chunks)] /\ Hits(hits[r]) BY DEF SearchesHold
  <2>2. CASE r # q
    <3>1. hits'[r] = hits[r] BY <1>1, <2>2 DEF SearchesHold
    <3>2. QED BY <2>1, <3>1
  <2>3. CASE r = q /\ side = "bm25"
    <3>1. hits'[r].bm25 = s /\ hits'[r].dense = hits[r].dense BY <1>1, <2>1, <2>3 DEF SearchesHold
    <3>2. QED BY <2>1, <3>1 DEF Hits
  <2>4. CASE r = q /\ side = "dense"
    <3>1. hits'[r].dense = s /\ hits'[r].bm25 = hits[r].bm25 BY <1>1, <2>1, <2>4 DEF SearchesHold
    <3>2. QED BY <2>1, <3>1 DEF Hits
  <2>5. QED BY <2>2, <2>3, <2>4
<1>5. QED BY <1>2, <1>3, <1>4

\* What Fuse leaves: the best candidates, at most RecallK.
LEMMA FusionFinds ==
  ASSUME SearchesHold, NEW q \in Queries, Fuse(q)
  PROVE  \E f \in Seq(Chunks), m \in Nat :
           /\ f = RrfFuse(hits[q]) /\ m <= Len(f)
           /\ found' = [found EXCEPT ![q] = SubSeq(f, 1, m)] /\ found'[q] = SubSeq(f, 1, m)
           /\ SubSeq(f, 1, m) \in Seq(Chunks)
<1>1. PICK f \in Seq(Chunks) : f = RrfFuse(hits[q]) BY FusionSorts DEF SearchesHold
<1>2. PICK m \in Nat : m = Smaller(RecallK, Len(f)) /\ m <= Len(f) BY Cuts DEF Smaller
<1>3. found' = [found EXCEPT ![q] = SubSeq(f, 1, m)] BY <1>1, <1>2 DEF Fuse
<1>4. found'[q] = SubSeq(f, 1, m) BY <1>3 DEF SearchesHold
<1>5. SubSeq(f, 1, m) \in Seq(Chunks) BY <1>2
<1>6. QED BY <1>1, <1>2, <1>3, <1>4, <1>5

LEMMA QuerySearches ==
  ASSUME SearchesHold, NEW q \in Queries, Retrieve(q)
  PROVE  SearchesHold'
<1> USE DEF settings, models, stores
<1>s. UNCHANGED <<client, collection, index, points, documents>>
  BY DEF Retrieve, Arrive, Gather, Bm25Search, DenseExists, DenseExistsRaises, DenseSearch, Fuse, Rerank
<1>a. ASSUME /\ asked' \in [Queries -> [bm25 : {"idle", "search", "answered"},
                                        dense : {"idle", "exists", "search", "answered"}]]
             /\ hits' \in [Queries -> [bm25 : Seq(Chunks), dense : Seq(Chunks)]]
             /\ \A r \in Queries : Hits(hits'[r])
             /\ found' \in [Queries -> Seq(Chunks)]
      PROVE  SearchesHold'
  BY <1>s, <1>a DEF SearchesHold
<1>e. <<>> \in Seq(Chunks) /\ Distinct(<<>>) BY DEF Distinct
<1>1. CASE Arrive(q) \/ DenseExistsRaises(q)
  <2>1. UNCHANGED <<asked, hits, found>> BY <1>1 DEF Arrive, DenseExistsRaises, searches
  <2>2. QED BY <1>a, <2>1 DEF SearchesHold
<1>2. CASE Gather(q)
  <2>1. asked' = [asked EXCEPT ![q] = [bm25 |-> "search", dense |-> "exists"]] /\ UNCHANGED <<hits, found>>
    BY <1>2 DEF Gather
  <2>2. QED BY <1>a, <2>1 DEF SearchesHold
<1>3. CASE Bm25Search(q)
  <2>1. UNCHANGED found BY <1>3 DEF Bm25Search
  <2>2. PICK s \in Seq(Chunks) : Distinct(s) /\ Answered(q, "bm25", s)
    <3>1. CASE index
      <4>1. PICK S \in SUBSET documents : \E s \in Orders(S, Smaller(RecallK, Cardinality(S))) : Answered(q, "bm25", s)
        BY <1>3, <3>1 DEF Bm25Search
      <4>2. PICK s \in Orders(S, Smaller(RecallK, Cardinality(S))) : Answered(q, "bm25", s) BY <4>1
      <4>3. S \in SUBSET Chunks BY DEF SearchesHold
      <4>4. QED BY <4>2, <4>3, Cuts, OrdersAreLists
    <3>2. CASE ~index BY <1>3, <1>e, <3>2 DEF Bm25Search
    <3>3. QED BY <3>1, <3>2
  <2>3. QED BY <1>a, <2>1, <2>2, AnswersAreLists DEF SearchesHold
<1>4. CASE DenseExists(q)
  <2>1. UNCHANGED found BY <1>4 DEF DenseExists
  <2>2. CASE collection
    <3>1. asked' = [asked EXCEPT ![q].dense = "search"] /\ hits' = hits BY <1>4, <2>2 DEF DenseExists
    <3>2. QED BY <1>a, <2>1, <3>1 DEF SearchesHold
  <2>3. CASE ~collection
    <3>1. Answered(q, "dense", <<>>) BY <1>4, <2>3 DEF DenseExists
    <3>2. QED BY <1>a, <1>e, <2>1, <3>1, AnswersAreLists DEF SearchesHold
  <2>4. QED BY <2>2, <2>3
<1>5. CASE DenseSearch(q)
  <2>1. UNCHANGED found BY <1>5 DEF DenseSearch
  <2>2. PICK s \in Orders(points, Smaller(RecallK, Cardinality(points))) : Answered(q, "dense", s)
    BY <1>5 DEF DenseSearch
  <2>3. points \in SUBSET Chunks BY DEF SearchesHold
  <2>4. s \in Seq(Chunks) /\ Distinct(s) BY <2>2, <2>3, Cuts, OrdersAreLists
  <2>5. QED BY <1>a, <2>1, <2>2, <2>4, AnswersAreLists DEF SearchesHold
<1>6. CASE Fuse(q)
  <2>1. asked' = [asked EXCEPT ![q] = Idle] /\ hits' = [hits EXCEPT ![q] = NoHits] BY <1>6 DEF Fuse
  <2>2. NoHits \in [bm25 : Seq(Chunks), dense : Seq(Chunks)] /\ Hits(NoHits) BY <1>e DEF NoHits, Hits
  <2>3. Idle \in [bm25 : {"idle", "search", "answered"}, dense : {"idle", "exists", "search", "answered"}]
    BY DEF Idle
  <2>4. found' \in [Queries -> Seq(Chunks)] BY <1>6, FusionFinds DEF SearchesHold
  <2>5. QED BY <1>a, <2>1, <2>2, <2>3, <2>4 DEF SearchesHold
<1>7. CASE Rerank(q)
  <2>1. UNCHANGED <<asked, hits>> BY <1>7 DEF Rerank
  <2>2. PICK s \in Orders(ToSet(found[q]), Smaller(TopK, Len(found[q]))) : found' = [found EXCEPT ![q] = s]
    BY <1>7 DEF Rerank
  <2>3. found[q] \in Seq(Chunks) BY DEF SearchesHold
  <2>4. ToSet(found[q]) \in SUBSET Chunks /\ Len(found[q]) \in Nat BY <2>3 DEF ToSet
  <2>5. s \in Seq(Chunks) BY <2>2, <2>4, Cuts, OrdersAreLists
  <2>6. QED BY <1>a, <2>1, <2>2, <2>5 DEF SearchesHold
<1>8. QED BY <1>1, <1>2, <1>3, <1>4, <1>5, <1>6, <1>7 DEF Retrieve

LEMMA SearchesStep == NoQueryUpserts /\ SearchesHold /\ [Next]_vars => SearchesHold'
<1> SUFFICES ASSUME NoQueryUpserts, SearchesHold, [Next]_vars PROVE SearchesHold'
  OBVIOUS
<1> USE DEF settings, models, stores, searches
<1>w. ASSUME UNCHANGED <<client, asked, hits, found>>, {collection', index'} \subseteq BOOLEAN,
             points' \subseteq Chunks, documents' \subseteq Chunks
      PROVE  SearchesHold'
  BY <1>w DEF SearchesHold
<1>h. /\ {collection, index} \subseteq BOOLEAN /\ points \subseteq Chunks /\ documents \subseteq Chunks
  BY DEF SearchesHold
<1>i. \A i \in Ingests : ChunksOf[i] \subseteq Chunks BY DEF Chunks
<1>1. ASSUME NEW p \in Processes, Step(p) PROVE SearchesHold'
  <2>1. CASE p \in Queries /\ Retrieve(p) BY <2>1, QuerySearches
  <2>2. CASE p \in Ingests /\ Ingest(p)
    <3>1. UNCHANGED <<client, asked, hits, found>>
      BY <2>2 DEF Ingest, RefuseDocument, Parse, Embed, CollectionExists, CreateCollection, UpsertChunks,
                  IndexExists, CreateIndex, Bulk
    <3>2. {collection', index'} \subseteq BOOLEAN
      BY <1>h, <2>2 DEF Ingest, RefuseDocument, Parse, Embed, CollectionExists, CreateCollection, UpsertChunks,
                        IndexExists, CreateIndex, Bulk
    <3>3. points' \subseteq Chunks
      BY <1>h, <1>i, <2>2 DEF Ingest, RefuseDocument, Parse, Embed, CollectionExists, CreateCollection, UpsertChunks,
                        IndexExists, CreateIndex, Bulk
    <3>4. documents' \subseteq Chunks
      <4>1. CASE Bulk(p)
        <5>1. PICK S \in SUBSET ChunksOf[p] : documents' = documents \cup S BY <4>1 DEF Bulk
        <5>2. QED BY <1>h, <1>i, <2>2, <5>1
      <4>2. CASE ~Bulk(p)
        <5>1. documents' = documents
          BY <2>2, <4>2 DEF Ingest, RefuseDocument, Parse, Embed, CollectionExists, CreateCollection, UpsertChunks,
                      IndexExists, CreateIndex
        <5>2. QED BY <1>h, <5>1
      <4>3. QED BY <4>1, <4>2
    <3>5. QED BY <1>h, <1>w, <3>1, <3>2, <3>3, <3>4
  <2>3. CASE ForModel(p)
    <3>1. PICK m \in Models : GetModel(p, m) \/ StartLoad(p, m) \/ FinishLoad(p, m) \/ LoadFails(p, m)
      BY <2>3 DEF ForModel
    <3>2. UNCHANGED <<client, asked, hits, found, collection, index, points, documents>>
      BY <3>1 DEF GetModel, StartLoad, FinishLoad, LoadFails
    <3>3. QED BY <1>1, <1>h, <1>w, <3>2
  <2>4. CASE CallFails(p)
    <3>1. UNCHANGED <<client, asked, hits, found, documents>>
      BY <2>4 DEF CallFails
    <3>2. collection' \in BOOLEAN /\ index' \in BOOLEAN
      <4>1. collection' = collection \/ collection' = (collection \/ pc[p] = "create collection") BY <2>4 DEF CallFails
      <4>2. index' = index \/ index' = (index \/ pc[p] = "create index") BY <2>4 DEF CallFails
      <4>3. QED BY <1>h, <4>1, <4>2
    <3>3. points' \subseteq Chunks
      <4>1. CASE pc[p] = "upsert" /\ p \in Ingests
        <5>1. points' = points \/ points' = points \cup ChunksOf[p] BY <2>4, <4>1 DEF CallFails
        <5>2. QED BY <1>h, <1>i, <4>1, <5>1
      <4>2. CASE pc[p] # "upsert"
        <5>1. points' = points BY <2>4, <4>2 DEF CallFails
        <5>2. QED BY <1>h, <5>1
      <4>3. QED BY <1>1, <4>1, <4>2 DEF NoQueryUpserts, Processes
    <3>4. QED BY <1>1, <1>h, <1>w, <3>1, <3>2, <3>3
  <2>5. QED BY <1>1, <2>1, <2>2, <2>3, <2>4 DEF Step
<1>2. CASE UNCHANGED vars BY <1>2 DEF vars, SearchesHold
<1>3. QED BY <1>1, <1>2 DEF Next

\* All of it is invariant together.
WholeIInv == RetrievalIInv /\ NoQueryUpserts /\ SearchesHold

LEMMA WholeInvariance == Spec => []WholeIInv
<1>1. Init => NoQueryUpserts
  BY KindsOfProcesses DEF Init, NoQueryUpserts
<1>2. Init => WholeIInv BY <1>1, RetrievalInitially, SearchesInitially DEF WholeIInv
<1>3. WholeIInv /\ [Next]_vars => WholeIInv'
  BY RetrievalStep, NoQueryUpsertsStep, SearchesStep DEF WholeIInv
<1>4. QED BY <1>2, <1>3, PTL DEF Spec

\* The types hold in every state, and a model is loaded by the holder of its lock, one at a
\* time and once (embedder.py, reranker.py).
THEOREM RetrievalTypesHold == Spec => []TypeOK
<1>1. WholeIInv => TypeOK
  BY DEF WholeIInv, RetrievalIInv, SearchesHold, LoadedOnce, TypeOK
<1>2. QED BY <1>1, WholeInvariance, PTL

\* Only Fuse ends the searches of a query.
LEMMA OnlyFuseEnds ==
  ASSUME WholeIInv, [Next]_vars, NEW q \in Queries, asked[q] # Idle, asked'[q] = Idle
  PROVE  Fuse(q)
<1>1. PICK p \in Processes : Step(p)
  BY DEF Next, vars, searches
<1>2. asked' # asked BY DEF WholeIInv, SearchesHold
<1>3. p \in Queries /\ Retrieve(p)
  <2>1. CASE p \in Ingests /\ Ingest(p)
    BY <1>2, <2>1 DEF Ingest, RefuseDocument, Parse, Embed, CollectionExists, CreateCollection, UpsertChunks,
                      IndexExists, CreateIndex, Bulk, searches
  <2>2. CASE ForModel(p)
    BY <1>2, <2>2 DEF ForModel, GetModel, StartLoad, FinishLoad, LoadFails, searches
  <2>3. CASE CallFails(p) BY <1>2, <2>3 DEF CallFails, searches
  <2>4. QED BY <1>1, <2>1, <2>2, <2>3 DEF Step
<1>a. asked \in [Queries -> [bm25 : {"idle", "search", "answered"},
                            dense : {"idle", "exists", "search", "answered"}]]
  BY DEF WholeIInv, SearchesHold
<1>b. Idle.bm25 = "idle" /\ Idle.dense = "idle" BY DEF Idle
<1>4. CASE Arrive(p) \/ DenseExistsRaises(p)
  BY <1>2, <1>4 DEF Arrive, DenseExistsRaises, searches
<1>5. CASE Rerank(p) BY <1>2, <1>5 DEF Rerank
<1>6. CASE Gather(p)
  <2>1. asked' = [asked EXCEPT ![p] = [bm25 |-> "search", dense |-> "exists"]] BY <1>6 DEF Gather
  <2>2. asked'[q].bm25 = "search" \/ asked'[q] = asked[q] BY <1>a, <2>1
  <2>3. QED BY <1>b, <2>2
<1>7. CASE Bm25Search(p)
  <2>1. asked' = [asked EXCEPT ![p]["bm25"] = "answered"] BY <1>7 DEF Bm25Search, Answered
  <2>2. asked'[q].bm25 = "answered" \/ asked'[q] = asked[q] BY <1>a, <2>1
  <2>3. QED BY <1>b, <2>2
<1>8. CASE DenseExists(p) \/ DenseSearch(p)
  <2>1. PICK a \in {"search", "answered"} : asked' = [asked EXCEPT ![p]["dense"] = a]
    BY <1>8 DEF DenseExists, DenseSearch, Answered
  <2>2. asked'[q].dense = a \/ asked'[q] = asked[q] BY <1>a, <2>1
  <2>3. QED BY <1>b, <2>1, <2>2
<1>9. CASE Fuse(p)
  <2>1. asked' = [asked EXCEPT ![p] = Idle] BY <1>9 DEF Fuse
  <2>2. p = q BY <1>a, <2>1
  <2>3. QED BY <1>9, <2>2
<1>10. QED BY <1>3, <1>4, <1>5, <1>6, <1>7, <1>8, <1>9 DEF Retrieve

\* The first m of a list of distinct chunks.
LEMMA FirstOfList ==
  ASSUME NEW f \in Seq(Chunks), Distinct(f), NEW m \in Nat, m <= Len(f), NEW g, g = SubSeq(f, 1, m)
  PROVE  /\ DOMAIN g = 1 .. m /\ Len(g) = m
         /\ \A i \in 1 .. m : g[i] = f[i] /\ i \in DOMAIN f
<1>1. g \in Seq(Chunks) /\ Len(g) = m /\ \A i \in 1 .. m : g[i] = f[i] OBVIOUS
<1>2. DOMAIN g = 1 .. m /\ DOMAIN f = 1 .. Len(f) /\ Len(f) \in Nat BY <1>1
<1>3. \A i \in 1 .. m : i \in DOMAIN f BY <1>2
<1>4. QED BY <1>1, <1>2, <1>3

LEMMA DistinctAreCounted ==
  ASSUME NEW g, NEW m \in Nat, DOMAIN g = 1 .. m, Distinct(g)
  PROVE  Cardinality(ToSet(g)) = m
<1>1. PICK k : k = [i \in 1 .. m |-> g[i]] OBVIOUS
<1>2. \A i \in 1 .. m : k[i] = g[i] /\ g[i] \in ToSet(g) BY <1>1 DEF ToSet
<1>3. k \in [1 .. m -> ToSet(g)] BY <1>1, <1>2
<1>4. \A i, j \in 1 .. m : k[i] = k[j] => i = j BY <1>2 DEF Distinct
<1>5. \A c \in ToSet(g) : \E i \in 1 .. m : k[i] = c BY <1>2 DEF ToSet
<1>6. k \in Surjection(1 .. m, ToSet(g)) BY <1>3, <1>5 DEF Surjection
<1>7. k \in Injection(1 .. m, ToSet(g)) BY <1>3, <1>4 DEF Injection, IsInjective
<1>8. IsFiniteSet(1 .. m) /\ Cardinality(1 .. m) = m
  <2>1. 1 \in Int /\ m \in Int /\ (1 > m <=> m = 0) OBVIOUS
  <2>2. QED BY <2>1, FS_Interval
<1>9. QED BY <1>6, <1>7, <1>8, FS_Surjection

\* For any lists of hits and any cut: the fusion keeps what dominates a chunk it keeps, above
\* it, and no chunk twice (the docstring of rrf_fuse; the cut of hybrid_retrieve).
THEOREM FusionIsOrdered == Spec => FusionKeepsOrder
<1>1. ASSUME WholeIInv, [Next]_vars, NEW q \in Queries, asked[q] # Idle, asked'[q] = Idle
      PROVE  /\ ToSet(found'[q]) \subseteq ToSet(hits[q].bm25) \cup ToSet(hits[q].dense)
             /\ Cardinality(ToSet(found'[q])) = Len(found'[q])
             /\ \A x \in Chunks, y \in ToSet(found'[q]) : Dominates(hits[q], x, y) => Above(found'[q], x, y)
  <2>1. Fuse(q) BY <1>1, OnlyFuseEnds
  <2>2. SearchesHold /\ Hits(hits[q]) BY <1>1 DEF WholeIInv, SearchesHold
  <2>3. PICK h : h = hits[q] OBVIOUS
  <2>4. PICK f \in Seq(Chunks), m \in Nat :
          f = RrfFuse(h) /\ m <= Len(f) /\ found'[q] = SubSeq(f, 1, m)
    <3>1. \E f \in Seq(Chunks), m \in Nat :
            /\ f = RrfFuse(hits[q]) /\ m <= Len(f)
            /\ found' = [found EXCEPT ![q] = SubSeq(f, 1, m)] /\ found'[q] = SubSeq(f, 1, m)
            /\ SubSeq(f, 1, m) \in Seq(Chunks)
      BY <2>1, <2>2, FusionFinds
    <3>2. QED BY <2>3, <3>1
  <2>5. PICK g : g = found'[q] OBVIOUS
  <2>6. /\ Distinct(f) /\ ToSet(f) = Candidates(h)
        /\ \A i, j \in DOMAIN f : Precedes(h, f[i], f[j]) => i < j
    BY <2>2, <2>3, <2>4, FusionSorts
  <2>7. /\ DOMAIN g = 1 .. m /\ Len(g) = m
        /\ \A i \in 1 .. m : g[i] = f[i] /\ i \in DOMAIN f
        /\ Cardinality(ToSet(g)) = Len(g)
    <3>1. g = SubSeq(f, 1, m) /\ m <= Len(f) /\ Distinct(f) BY <2>4, <2>5, <2>6
    <3>2. DOMAIN g = 1 .. m /\ Len(g) = m /\ \A i \in 1 .. m : g[i] = f[i] /\ i \in DOMAIN f
      BY <3>1, FirstOfList
    <3>3. Distinct(g) BY <3>1, <3>2 DEF Distinct
    <3>4. QED BY <3>2, <3>3, DistinctAreCounted
  <2>8. ToSet(g) \subseteq Candidates(h) BY <2>6, <2>7 DEF ToSet
  <2>9. ASSUME NEW x \in Chunks, NEW y \in ToSet(g), Dominates(h, x, y) PROVE Above(g, x, y)
    <3>1. PICK j \in 1 .. m : g[j] = y /\ f[j] = y /\ j \in DOMAIN f BY <2>7 DEF ToSet
    <3>2. x \in Candidates(h) /\ Precedes(h, x, y) BY <2>2, <2>3, <2>8, <2>9, DominatesPrecedes
    <3>3. PICK i \in DOMAIN f : f[i] = x BY <2>6, <3>2 DEF ToSet
    <3>4. i < j BY <2>6, <3>1, <3>2, <3>3
    <3>5. DOMAIN f = 1 .. Len(f) OBVIOUS
    <3>6. i \in 1 .. m BY <3>3, <3>4, <3>5
    <3>7. g[i] = x BY <2>7, <3>3, <3>6
    <3>8. QED BY <2>7, <3>1, <3>4, <3>6, <3>7 DEF Above
  <2>10. QED BY <2>3, <2>5, <2>7, <2>8, <2>9 DEF Candidates
<1>2. WholeIInv /\ [Next]_vars =>
        [\A q \in Queries : asked[q] # Idle /\ asked'[q] = Idle =>
           /\ ToSet(found'[q]) \subseteq ToSet(hits[q].bm25) \cup ToSet(hits[q].dense)
           /\ Cardinality(ToSet(found'[q])) = Len(found'[q])
           /\ \A x \in Chunks, y \in ToSet(found'[q]) :
                Dominates(hits[q], x, y) => Above(found'[q], x, y)]_vars
  BY <1>1
<1>3. QED BY <1>2, WholeInvariance, PTL DEF Spec, FusionKeepsOrder
=============================================================================
