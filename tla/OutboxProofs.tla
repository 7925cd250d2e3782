---------------------------- MODULE OutboxProofs ----------------------------
(***************************************************************************)
(* Proofs about Outbox, for every value of its constants: any number of    *)
(* documents, chunks, delete requests and workers, any retry and batch     *)
(* limit, with or without faults.                                          *)
(***************************************************************************)
EXTENDS Outbox, TLAPS

(***************************************************************************)
(* The three kinds of rows are disjoint, and a row determines its fields.  *)
(***************************************************************************)
LEMMA RowKinds ==
  ASSUME NEW r \in Row
  PROVE  \/ \E d \in Docs, i \in Chunks : r = ChunkRow(d, i)
         \/ \E d \in Docs, q \in DeleteRequests : r = DeleteRow(d, q)
         \/ \E f \in Facts : r = MemoryRow(f)
BY DEF Row, ChunkRow, DeleteRow, MemoryRow

\* The row of a chunk of an upload, and the point it writes.
LEMMA ChunkRowFields ==
  ASSUME NEW d \in Docs, NEW i \in Chunks
  PROVE  /\ ChunkRow(d, i) \in Row
         /\ ~IsMemory(ChunkRow(d, i)) /\ ~IsDelete(ChunkRow(d, i))
         /\ ChunkRow(d, i).document_id = d
         /\ UpsertPoint(ChunkRow(d, i)) = ChunkPoint(d, i)
         /\ \A e, j : ChunkRow(d, i) = ChunkRow(e, j) => d = e /\ i = j
         /\ \A e, q : ChunkRow(d, i) # DeleteRow(e, q)
         /\ \A f : ChunkRow(d, i) # MemoryRow(f)
BY DEF Row, ChunkRow, DeleteRow, MemoryRow, IsMemory, IsDelete, UpsertPoint

\* The row of a delete event.
LEMMA DeleteRowFields ==
  ASSUME NEW d \in Docs, NEW q \in DeleteRequests
  PROVE  /\ DeleteRow(d, q) \in Row
         /\ ~IsMemory(DeleteRow(d, q)) /\ IsDelete(DeleteRow(d, q))
         /\ DeleteRow(d, q).document_id = d
         /\ \A e, p : DeleteRow(d, q) = DeleteRow(e, p) => d = e /\ q = p
         /\ \A f : DeleteRow(d, q) # MemoryRow(f)
BY DEF Row, DeleteRow, MemoryRow, IsMemory, IsDelete

\* The row of a stored fact, and the point it writes.
LEMMA MemoryRowFields ==
  ASSUME NEW f \in Facts
  PROVE  /\ MemoryRow(f) \in Row
         /\ IsMemory(MemoryRow(f)) /\ ~IsDelete(MemoryRow(f))
         /\ UpsertPoint(MemoryRow(f)) = MemoryPoint(f)
         /\ \A g : MemoryRow(f) = MemoryRow(g) => f = g
BY DEF Row, MemoryRow, IsMemory, IsDelete, UpsertPoint

\* Points of different chunks or facts differ; a delete event only targets points
\* of its own document.
LEMMA PointFields ==
  /\ \A d \in Docs, i \in Chunks, f \in Facts : ChunkPoint(d, i) # MemoryPoint(f)
  /\ \A d, e, i, j : ChunkPoint(d, i) = ChunkPoint(e, j) => d = e /\ i = j
  /\ \A f, d : MemoryPoint(f) \notin DeleteTargets(d)
  /\ \A d, e, i : ChunkPoint(d, i) \in DeleteTargets(e) => d = e
BY DEF ChunkPoint, MemoryPoint, DeleteTargets, UpsertCollection, DeleteCollection

\* An upsert writes a point.
LEMMA UpsertPointType == \A r \in Row : ~IsDelete(r) => UpsertPoint(r) \in Point
BY DEF Row, UpsertPoint, IsDelete, IsMemory, ChunkPoint, MemoryPoint, Point, UpsertCollection

(***************************************************************************)
(* The values of the variables.                                            *)
(***************************************************************************)
LEMMA InitType == Init => TypeOK
BY DEF Init, TypeOK, DocumentStatus, RowStatus, Position

\* Empty tables, empty stores and idle workers satisfy the invariant.
LEMMA InitIInv == Init => IInv
<1> SUFFICES ASSUME Init PROVE IInv
  OBVIOUS
<1>1. TypeOK
  BY InitType
<1>2. BatchesConsistent /\ CallsTakeEffect /\ FactsTakeEffect
  BY DEF Init, BatchesConsistent, CallsTakeEffect, FactsTakeEffect
<1>3. RequestsConsistent /\ EventsMatchDocuments
  BY DocsAssumption, ChunkRowFields, DeleteRowFields
     DEF Init, RequestsConsistent, EventsMatchDocuments, ChunkRows, DeleteRows
<1>4. LockedRowsAreFresh /\ RetryCountMatchesStatus
  BY DEF Init, LockedRowsAreFresh, Locked, RetryCountMatchesStatus
<1>5. PublishedMeansWritten /\ ReadyMeansIndexed
  BY ChunkRowFields, MemoryRowFields DEF Init, PublishedMeansWritten, ReadyMeansIndexed
<1> QED
  BY <1>1, <1>2, <1>3, <1>4, <1>5 DEF IInv

\* The type of the row a worker has in hand.
LEMMA RowInHand ==
  ASSUME TypeOK, BatchesConsistent, NEW w \in Workers, pc[w] \notin {"next", "aborted"}
  PROVE  row[w] \in Row /\ row[w] \in todo[w] /\ status[row[w]] # "absent"
BY DEF TypeOK, BatchesConsistent

\* The relay updates rows that are in the table, and inserts or deletes none.
LEMMA RelayUpdates ==
  ASSUME TypeOK, BatchesConsistent, NEW w \in Workers,
         Publish(w) \/ PublishRaises(w) \/ RecordFailure(w) \/ RecordRaises(w)
  PROVE  \A r \in Row : status'[r] = "absent" <=> status[r] = "absent"
<1>1. row[w] \in Row /\ status[row[w]] # "absent"
  BY RowInHand DEF Publish, PublishRaises, RecordFailure, RecordRaises
<1>2. status \in [Row -> RowStatus]
  BY DEF TypeOK
<1>3. \E st \in RowStatus \ {"absent"} : status' = [status EXCEPT ![row[w]] = st]
  BY DEF Publish, PublishRaises, RecordFailure, RecordRaises, CountFailure, RowStatus
<1> QED
  BY <1>1, <1>2, <1>3

\* The end of an iteration keeps the worker's locals well typed.
LEMMA EndRowType ==
  ASSUME TypeOK, NEW w \in Workers, row[w] \in Row, EndRow(w)
  PROVE  /\ pc' \in [Workers -> Position]
         /\ row' \in [Workers -> Row \cup {NoRow}]
         /\ todo' \in [Workers -> SUBSET Row]
         /\ seen' \in [Workers -> [Row -> Nat]]
BY DEF TypeOK, EndRow, Position

\* So does the end of a task by an exception.
LEMMA AbortType ==
  ASSUME TypeOK, NEW w \in Workers, Abort(w)
  PROVE  /\ pc' \in [Workers -> Position]
         /\ row' \in [Workers -> Row \cup {NoRow}]
         /\ todo' \in [Workers -> SUBSET Row]
         /\ seen' \in [Workers -> [Row -> Nat]]
         /\ inTx' \in [Workers -> BOOLEAN]
BY DEF TypeOK, Abort, Position

\* The except branch's UPDATE keeps the columns well typed.
LEMMA CountFailureType ==
  ASSUME TypeOK, NEW w \in Workers, row[w] \in Row, CountFailure(w)
  PROVE  status' \in [Row -> RowStatus] /\ retry_count' \in [Row -> Nat]
BY DEF TypeOK, CountFailure, RowStatus

\* Every step keeps the type invariant.
LEMMA NextType == TypeOK /\ BatchesConsistent /\ [Next]_vars => TypeOK'
<1> SUFFICES ASSUME TypeOK, BatchesConsistent, [Next]_vars
             PROVE  TypeOK'
  OBVIOUS
<1> USE DEF TypeOK, DocumentStatus, RowStatus, Position, vars, db, stores, batch
<1>1. ASSUME NEW d \in Docs, IngestDocument(d) PROVE TypeOK'
  BY <1>1 DEF IngestDocument, InsertRows
<1>2. ASSUME NEW f \in Facts, StoreSemanticFact(f) PROVE TypeOK'
  BY <1>2 DEF StoreSemanticFact, InsertRows
<1>3. ASSUME NEW q \in DeleteRequests, NEW d \in Docs, DeleteRead(q, d) PROVE TypeOK'
  BY <1>3 DEF DeleteRead
<1>4. ASSUME NEW q \in DeleteRequests, DeleteCommit(q) PROVE TypeOK'
  BY <1>4 DEF DeleteCommit, InsertRows
<1>5. ASSUME NEW w \in Workers, SelectBatch(w) PROVE TypeOK'
  BY RowInHand, <1>5 DEF SelectBatch
<1>6. ASSUME NEW w \in Workers, NextRow(w) PROVE TypeOK'
  BY RowInHand, <1>6 DEF NextRow, Oldest
<1>7. ASSUME NEW w \in Workers, CallQdrant(w) PROVE TypeOK'
  BY RowInHand, UpsertPointType, <1>7 DEF CallQdrant, QdrantAfter
<1>8. ASSUME NEW w \in Workers, QdrantRaises(w) PROVE TypeOK'
  BY RowInHand, UpsertPointType, <1>8 DEF QdrantRaises, QdrantAfter
<1>9. ASSUME NEW w \in Workers, CallEs(w) PROVE TypeOK'
  BY RowInHand, UpsertPointType, <1>9 DEF CallEs, EsAfter
<1>10. ASSUME NEW w \in Workers, EsRaises(w) PROVE TypeOK'
  BY RowInHand, UpsertPointType, <1>10 DEF EsRaises, EsAfter
<1>11. ASSUME NEW w \in Workers, Publish(w) PROVE TypeOK'
  <2>1. CASE EndRow(w)
    BY RowInHand, EndRowType, <1>11, <2>1 DEF Publish
  <2>2. CASE pc' = [pc EXCEPT ![w] = "count"] /\ UNCHANGED batch
    BY RowInHand, <1>11, <2>2 DEF Publish
  <2> QED
    BY <1>11, <2>1, <2>2 DEF Publish
<1>12. ASSUME NEW w \in Workers, PublishRaises(w) PROVE TypeOK'
  BY RowInHand, AbortType, <1>12 DEF PublishRaises
<1>13. ASSUME NEW w \in Workers, CountRemaining(w) PROVE TypeOK'
  <2>1. CASE EndRow(w)
    BY RowInHand, EndRowType, <1>13, <2>1 DEF CountRemaining
  <2>2. CASE pc' = [pc EXCEPT ![w] = "mark"] /\ UNCHANGED batch
    BY <1>13, <2>2 DEF CountRemaining
  <2> QED
    BY <1>13, <2>1, <2>2 DEF CountRemaining
<1>14. ASSUME NEW w \in Workers, MarkReady(w) PROVE TypeOK'
  BY RowInHand, <1>14 DEF MarkReady, ReadyIfProcessing, EndRow
<1>15. ASSUME NEW w \in Workers, MarkRaises(w) PROVE TypeOK'
  BY RowInHand, AbortType, <1>15 DEF MarkRaises, ReadyIfProcessing
<1>16. ASSUME NEW w \in Workers, RecordFailure(w) PROVE TypeOK'
  BY RowInHand, EndRowType, CountFailureType, <1>16 DEF RecordFailure
<1>17. ASSUME NEW w \in Workers, RecordRaises(w) PROVE TypeOK'
  BY RowInHand, AbortType, CountFailureType, <1>17 DEF RecordRaises
<1>18. ASSUME NEW w \in Workers, PostgresRaises(w) \/ WorkerDies(w) PROVE TypeOK'
  BY AbortType, <1>18 DEF PostgresRaises, WorkerDies
<1>19. ASSUME NEW w \in Workers, DeleteEsRaises(w) PROVE TypeOK'
  BY <1>19 DEF DeleteEsRaises
<1>20. CASE UNCHANGED vars
  BY <1>20
<1> QED
  BY <1>1, <1>2, <1>3, <1>4, <1>5, <1>6, <1>7, <1>8, <1>9, <1>10, <1>11, <1>12, <1>13,
     <1>14, <1>15, <1>16, <1>17, <1>18, <1>19, <1>20 DEF Next, Api, Iterate, Fault, Outage

(***************************************************************************)
(* A delete event exists only for a document that is being deleted, so no  *)
(* store call removes a chunk of any other document.                       *)
(***************************************************************************)
LEMMA StoreCalls ==
  ASSUME IInv, NEW w \in Workers, pc[w] \notin {"next", "aborted"},
         NEW d \in Docs, NEW i \in Chunks, ~Deleting(d)
  PROVE  /\ ChunkPoint(d, i) \in qdrant => ChunkPoint(d, i) \in QdrantAfter(row[w])
         /\ ChunkPoint(d, i) \in es => ChunkPoint(d, i) \in EsAfter(row[w])
<1>1. row[w] \in Row /\ status[row[w]] # "absent"
  BY RowInHand DEF IInv
<1>2. ASSUME IsDelete(row[w]) PROVE row[w].document_id # d
  <2>1. PICK e \in Docs, q \in DeleteRequests : row[w] = DeleteRow(e, q)
    BY <1>1, <1>2, RowKinds, ChunkRowFields, MemoryRowFields
  <2>2. documents[e] = "deleting"
    BY <1>1, <2>1 DEF IInv, EventsMatchDocuments, DeleteRows
  <2> QED
    BY <2>1, <2>2, DeleteRowFields DEF Deleting
<1>3. IsDelete(row[w]) => ChunkPoint(d, i) \notin DeleteTargets(row[w].document_id)
  BY <1>2, PointFields
<1> QED
  BY <1>3 DEF QdrantAfter, EsAfter

\* No step takes a chunk of a document that is not being deleted out of a store.
LEMMA LiveChunksStay ==
  ASSUME IInv, [Next]_vars, NEW d \in Docs, NEW i \in Chunks, ~Deleting(d)
  PROVE  /\ ChunkPoint(d, i) \in qdrant => ChunkPoint(d, i) \in qdrant'
         /\ ChunkPoint(d, i) \in es => ChunkPoint(d, i) \in es'
<1>1. ASSUME NEW w \in Workers, CallQdrant(w) \/ QdrantRaises(w) \/ CallEs(w) \/ EsRaises(w)
      PROVE  /\ ChunkPoint(d, i) \in qdrant => ChunkPoint(d, i) \in qdrant'
             /\ ChunkPoint(d, i) \in es => ChunkPoint(d, i) \in es'
  BY <1>1, StoreCalls DEF CallQdrant, QdrantRaises, CallEs, EsRaises
<1>2. CASE UNCHANGED stores
  BY <1>2 DEF stores
<1> QED
  BY <1>1, <1>2 DEF Next, Api, Iterate, Fault, Outage, vars, IngestDocument,
     StoreSemanticFact, DeleteRead, DeleteCommit, SelectBatch, NextRow, DeleteEsRaises, Publish,
     PublishRaises, CountRemaining, MarkReady, MarkRaises, RecordFailure, RecordRaises,
     PostgresRaises, WorkerDies

\* delete_document writes 'deleting', and 'ready' is only written over 'processing'.
LEMMA NextDeleting ==
  ASSUME TypeOK, [Next]_vars, NEW d \in Docs, documents[d] = "deleting"
  PROVE  documents'[d] = "deleting"
<1>1. ASSUME NEW e \in Docs, IngestDocument(e) PROVE documents'[d] = "deleting"
  BY <1>1 DEF IngestDocument, TypeOK
<1>2. ASSUME NEW q \in DeleteRequests, DeleteCommit(q) PROVE documents'[d] = "deleting"
  BY <1>2 DEF DeleteCommit, TypeOK
<1>3. ASSUME NEW w \in Workers, MarkReady(w) \/ MarkRaises(w) PROVE documents'[d] = "deleting"
  BY <1>3 DEF MarkReady, MarkRaises, ReadyIfProcessing, TypeOK
<1>4. CASE UNCHANGED documents
  BY <1>4
<1> QED
  BY <1>1, <1>2, <1>3, <1>4 DEF Next, Api, Iterate, Fault, Outage, vars, db,
     StoreSemanticFact, DeleteRead, SelectBatch, NextRow, CallQdrant, QdrantRaises, CallEs,
     EsRaises, DeleteEsRaises, Publish, PublishRaises, CountRemaining, RecordFailure,
     RecordRaises, PostgresRaises, WorkerDies

\* When the count of unpublished rows is zero, all chunks of the document have been
\* written: none of its rows can be missing from the table.
LEMMA AllPublished ==
  ASSUME IInv, NEW w \in Workers, pc[w] = "count", Remaining(row[w].document_id) = {},
         NEW i \in Chunks
  PROVE  InBothStores(row[w].document_id, i) \/ Deleting(row[w].document_id)
<1>1. row[w] \in Row /\ status[row[w]] # "absent" /\ ~IsMemory(row[w])
  BY RowInHand DEF IInv, BatchesConsistent
<1>2. CASE \E d \in Docs, j \in Chunks : row[w] = ChunkRow(d, j)
  <2>1. PICK d \in Docs, j \in Chunks : row[w] = ChunkRow(d, j)
    BY <1>2
  <2>2. documents[d] # "absent"
    BY <1>1, <2>1, ChunkRowFields DEF IInv, EventsMatchDocuments, ChunkRows
  <2>3. status[ChunkRow(d, i)] = "PUBLISHED"
    <3>1. ChunkRow(d, i) \in ChunkRows(d) /\ ChunkRow(d, i) \in Row
      BY ChunkRowFields DEF ChunkRows
    <3>2. status[ChunkRow(d, i)] \in RowStatus \ {"absent", "PENDING", "DEAD"}
      BY <2>1, <2>2, <3>1, ChunkRowFields DEF IInv, TypeOK, EventsMatchDocuments, Remaining
    <3> QED
      BY <3>2 DEF RowStatus
  <2> QED
    BY <2>1, <2>3, ChunkRowFields DEF IInv, PublishedMeansWritten, Deleting
<1>3. CASE \E d \in Docs, q \in DeleteRequests : row[w] = DeleteRow(d, q)
  BY <1>1, <1>3, DeleteRowFields DEF IInv, EventsMatchDocuments, DeleteRows, Deleting
<1> QED
  BY <1>1, <1>2, <1>3, RowKinds, MemoryRowFields

\* Recording a failure keeps the dead-letter rule: the fetched count is below the limit.
LEMMA CountFailureRetries ==
  ASSUME IInv, NEW w \in Workers, pc[w] = "fail", CountFailure(w)
  PROVE  RetryCountMatchesStatus'
<1> DEFINE new_count == seen[w][row[w]] + 1
<1>1. row[w] \in Row /\ new_count \in Nat /\ new_count <= MaxRetries
  BY RowInHand, OutboxAssumption DEF IInv, TypeOK, BatchesConsistent
<1>2. /\ retry_count' = [retry_count EXCEPT ![row[w]] = new_count]
      /\ status' = [status EXCEPT ![row[w]] = IF new_count >= MaxRetries THEN "DEAD" ELSE "PENDING"]
  BY DEF CountFailure
<1>3. MaxRetries \in Nat /\ status \in [Row -> RowStatus] /\ retry_count \in [Row -> Nat]
  BY OutboxAssumption DEF IInv, TypeOK
<1> HIDE DEF new_count
<1> SUFFICES ASSUME NEW r \in Row
             PROVE  /\ status'[r] = "PENDING" => retry_count'[r] < MaxRetries
                    /\ status'[r] = "DEAD" => retry_count'[r] = MaxRetries
  BY DEF RetryCountMatchesStatus
<1>4. CASE r = row[w] /\ new_count >= MaxRetries
  BY <1>1, <1>2, <1>3, <1>4
<1>5. CASE r = row[w] /\ ~(new_count >= MaxRetries)
  BY <1>1, <1>2, <1>3, <1>5
<1>6. CASE r # row[w]
  BY <1>2, <1>3, <1>6 DEF IInv, RetryCountMatchesStatus
<1> QED
  BY <1>4, <1>5, <1>6

(***************************************************************************)
(* Every step preserves each conjunct of the inductive invariant.          *)
(***************************************************************************)
\* A batch holds inserted rows that had attempts left when they were fetched.
LEMMA NextBatches == IInv /\ TypeOK' /\ [Next]_vars => BatchesConsistent'
<1> SUFFICES ASSUME IInv, TypeOK', [Next]_vars PROVE BatchesConsistent'
  OBVIOUS
<1> USE DEF IInv, TypeOK, BatchesConsistent, RetryCountMatchesStatus
<1>1. ASSUME NEW d \in Docs, IngestDocument(d) PROVE BatchesConsistent'
  BY <1>1 DEF IngestDocument, InsertRows, ChunkRows, db, stores, batch
<1>2. ASSUME NEW f \in Facts, StoreSemanticFact(f) PROVE BatchesConsistent'
  BY <1>2 DEF StoreSemanticFact, InsertRows, db, stores, batch
<1>3. ASSUME NEW q \in DeleteRequests, DeleteCommit(q) PROVE BatchesConsistent'
  BY <1>3 DEF DeleteCommit, InsertRows, db, stores, batch
<1>4. ASSUME NEW w \in Workers, SelectBatch(w) PROVE BatchesConsistent'
  BY <1>4 DEF SelectBatch, db, stores, batch
<1>5. ASSUME NEW w \in Workers, NextRow(w) PROVE BatchesConsistent'
  BY <1>5 DEF NextRow, Oldest, db, stores, batch
<1>6. ASSUME NEW w \in Workers, CallQdrant(w) PROVE BatchesConsistent'
  BY <1>6 DEF CallQdrant, QdrantAfter, db, stores, batch
<1>7. ASSUME NEW w \in Workers, QdrantRaises(w) PROVE BatchesConsistent'
  BY <1>7 DEF QdrantRaises, QdrantAfter, db, stores, batch
<1>8. ASSUME NEW w \in Workers, CallEs(w) PROVE BatchesConsistent'
  BY <1>8 DEF CallEs, EsAfter, db, stores, batch
<1>9. ASSUME NEW w \in Workers, EsRaises(w) PROVE BatchesConsistent'
  BY <1>9 DEF EsRaises, EsAfter, db, stores, batch
<1>10. ASSUME NEW w \in Workers, Publish(w) PROVE BatchesConsistent'
  <2>1. \A r \in Row : status'[r] = "absent" <=> status[r] = "absent"
    BY <1>10, RelayUpdates
  <2>2. CASE EndRow(w)
    BY <2>1, <2>2 DEF EndRow
  <2>3. CASE pc' = [pc EXCEPT ![w] = "count"] /\ UNCHANGED batch /\ ~IsMemory(row[w])
    BY <1>10, <2>1, <2>3 DEF Publish, batch
  <2> QED
    BY <1>10, <2>2, <2>3 DEF Publish
<1>11. ASSUME NEW w \in Workers, PublishRaises(w) PROVE BatchesConsistent'
  BY <1>11 DEF PublishRaises, Abort, db, stores, batch
<1>12. ASSUME NEW w \in Workers, CountRemaining(w) PROVE BatchesConsistent'
  BY <1>12 DEF CountRemaining, EndRow, Remaining, ChunkRows, db, stores, batch
<1>13. ASSUME NEW w \in Workers, MarkReady(w) PROVE BatchesConsistent'
  BY <1>13 DEF MarkReady, ReadyIfProcessing, EndRow, db, stores, batch
<1>14. ASSUME NEW w \in Workers, MarkRaises(w) PROVE BatchesConsistent'
  BY <1>14 DEF MarkRaises, Abort, ReadyIfProcessing, db, stores, batch
<1>15. ASSUME NEW w \in Workers, RecordFailure(w) PROVE BatchesConsistent'
  <2>1. \A r \in Row : status'[r] = "absent" <=> status[r] = "absent"
    BY <1>15, RelayUpdates
  <2> QED
    BY <1>15, <2>1 DEF RecordFailure, EndRow
<1>16. ASSUME NEW w \in Workers, RecordRaises(w) PROVE BatchesConsistent'
  <2>1. \A r \in Row : status'[r] = "absent" <=> status[r] = "absent"
    BY <1>16, RelayUpdates
  <2> QED
    BY <1>16, <2>1 DEF RecordRaises, Abort
<1>17. ASSUME NEW w \in Workers, PostgresRaises(w) \/ WorkerDies(w) PROVE BatchesConsistent'
  <2>1. Abort(w) /\ UNCHANGED status
    BY <1>17 DEF PostgresRaises, WorkerDies, db
  <2> QED
    BY <2>1 DEF Abort
<1>18. ASSUME NEW w \in Workers, DeleteEsRaises(w) PROVE BatchesConsistent'
  BY <1>18 DEF DeleteEsRaises, db, stores, batch
<1>19. CASE UNCHANGED <<status, pc, batch>>
  BY <1>19 DEF batch
<1> QED
  BY <1>1, <1>2, <1>3, <1>4, <1>5, <1>6, <1>7, <1>8, <1>9, <1>10, <1>11, <1>12, <1>13,
     <1>14, <1>15, <1>16, <1>17, <1>18, <1>19
     DEF Next, Api, Iterate, Fault, Outage, vars, db, stores, batch, DeleteRead

\* The guards of the handlers' steps: a row reaches the UPDATE only after its calls.
LEMMA NextCalls == IInv /\ TypeOK' /\ [Next]_vars => CallsTakeEffect'
<1> SUFFICES ASSUME IInv, TypeOK', [Next]_vars PROVE CallsTakeEffect'
  OBVIOUS
<1> USE DEF IInv, TypeOK, BatchesConsistent, CallsTakeEffect, InBothStores, Deleting
<1>1. ASSUME NEW d \in Docs, IngestDocument(d) PROVE CallsTakeEffect'
  BY <1>1 DEF IngestDocument, InsertRows, ChunkRows, db, stores, batch, EventsMatchDocuments
<1>2. ASSUME NEW q \in DeleteRequests, DeleteCommit(q) PROVE CallsTakeEffect'
  BY <1>2 DEF DeleteCommit, InsertRows, db, stores, batch, EventsMatchDocuments
<1>3. ASSUME NEW w \in Workers, NextRow(w) PROVE CallsTakeEffect'
  BY <1>3 DEF NextRow, Oldest, db, stores, batch, EventsMatchDocuments
<1>4. ASSUME NEW w \in Workers, CallQdrant(w) PROVE CallsTakeEffect'
  <2> SUFFICES ASSUME NEW v \in Workers, NEW d \in Docs, NEW i \in Chunks, ~Deleting(d)
      PROVE  /\ pc'[v] = "es" /\ row'[v] = ChunkRow(d, i) => ChunkPoint(d, i) \in qdrant'
             /\ pc'[v] \in {"publish", "count", "mark"} /\ row'[v] = ChunkRow(d, i) =>
                  InBothStores(d, i)'
             /\ pc'[v] = "mark" /\ row'[v].document_id = d => InBothStores(d, i)'
    BY <1>4 DEF CallQdrant, db
  <2> QED
    BY <1>4, LiveChunksStay, RowInHand, ChunkRowFields DEF CallQdrant, QdrantAfter, db, batch
<1>5. ASSUME NEW w \in Workers, QdrantRaises(w) PROVE CallsTakeEffect'
  <2> SUFFICES ASSUME NEW v \in Workers, NEW d \in Docs, NEW i \in Chunks, ~Deleting(d)
      PROVE  /\ pc'[v] = "es" /\ row'[v] = ChunkRow(d, i) => ChunkPoint(d, i) \in qdrant'
             /\ pc'[v] \in {"publish", "count", "mark"} /\ row'[v] = ChunkRow(d, i) =>
                  InBothStores(d, i)'
             /\ pc'[v] = "mark" /\ row'[v].document_id = d => InBothStores(d, i)'
    BY <1>5 DEF QdrantRaises, db
  <2> QED
    BY <1>5, LiveChunksStay, RowInHand, ChunkRowFields DEF QdrantRaises, db, batch
<1>6. ASSUME NEW w \in Workers, CallEs(w) PROVE CallsTakeEffect'
  <2> SUFFICES ASSUME NEW v \in Workers, NEW d \in Docs, NEW i \in Chunks, ~Deleting(d)
      PROVE  /\ pc'[v] = "es" /\ row'[v] = ChunkRow(d, i) => ChunkPoint(d, i) \in qdrant'
             /\ pc'[v] \in {"publish", "count", "mark"} /\ row'[v] = ChunkRow(d, i) =>
                  InBothStores(d, i)'
             /\ pc'[v] = "mark" /\ row'[v].document_id = d => InBothStores(d, i)'
    BY <1>6 DEF CallEs, db
  <2> QED
    BY <1>6, LiveChunksStay, RowInHand, ChunkRowFields DEF CallEs, EsAfter, db, batch
<1>7. ASSUME NEW w \in Workers, EsRaises(w) PROVE CallsTakeEffect'
  <2> SUFFICES ASSUME NEW v \in Workers, NEW d \in Docs, NEW i \in Chunks, ~Deleting(d)
      PROVE  /\ pc'[v] = "es" /\ row'[v] = ChunkRow(d, i) => ChunkPoint(d, i) \in qdrant'
             /\ pc'[v] \in {"publish", "count", "mark"} /\ row'[v] = ChunkRow(d, i) =>
                  InBothStores(d, i)'
             /\ pc'[v] = "mark" /\ row'[v].document_id = d => InBothStores(d, i)'
    BY <1>7 DEF EsRaises, db
  <2> QED
    BY <1>7, LiveChunksStay, RowInHand, ChunkRowFields DEF EsRaises, db, batch
<1>8. ASSUME NEW w \in Workers, Publish(w) PROVE CallsTakeEffect'
  <2>1. CASE EndRow(w)
    BY <1>8, <2>1 DEF Publish, EndRow, stores
  <2>2. CASE pc' = [pc EXCEPT ![w] = "count"] /\ UNCHANGED batch
    BY <1>8, <2>2 DEF Publish, stores, batch
  <2> QED
    BY <1>8, <2>1, <2>2 DEF Publish
<1>9. ASSUME NEW w \in Workers, PublishRaises(w) PROVE CallsTakeEffect'
  BY <1>9 DEF PublishRaises, Abort, db, stores, batch, EventsMatchDocuments
<1>10. ASSUME NEW w \in Workers, CountRemaining(w) PROVE CallsTakeEffect'
  <2>1. CASE EndRow(w)
    BY <1>10, <2>1, RowInHand DEF CountRemaining, EndRow, db, stores
  <2>2. CASE Remaining(row[w].document_id) = {} /\ pc' = [pc EXCEPT ![w] = "mark"]
               /\ UNCHANGED batch
    <3>1. \A i \in Chunks : InBothStores(row[w].document_id, i) \/ Deleting(row[w].document_id)
      BY <1>10, <2>2, AllPublished DEF CountRemaining
    <3>2. UNCHANGED <<documents, stores, row>>
      BY <1>10, <2>2 DEF CountRemaining, db, batch
    <3> QED
      BY <1>10, <2>2, <3>1, <3>2 DEF CountRemaining, stores
  <2> QED
    BY <1>10, <2>1, <2>2 DEF CountRemaining, EndRow
<1>11. ASSUME NEW w \in Workers, MarkReady(w) PROVE CallsTakeEffect'
  BY <1>11 DEF MarkReady, ReadyIfProcessing, EndRow, db, stores, batch, EventsMatchDocuments
<1>12. ASSUME NEW w \in Workers, MarkRaises(w) PROVE CallsTakeEffect'
  BY <1>12 DEF MarkRaises, Abort, ReadyIfProcessing, db, stores, batch, EventsMatchDocuments
<1>13. ASSUME NEW w \in Workers, RecordFailure(w) PROVE CallsTakeEffect'
  BY <1>13 DEF RecordFailure, EndRow, stores, batch, EventsMatchDocuments
<1>14. ASSUME NEW w \in Workers, RecordRaises(w) \/ PostgresRaises(w) \/ WorkerDies(w)
       PROVE  CallsTakeEffect'
  BY <1>14 DEF RecordRaises, PostgresRaises, WorkerDies, Abort, db, stores
<1>15. ASSUME NEW w \in Workers, DeleteEsRaises(w) PROVE CallsTakeEffect'
  BY <1>15 DEF DeleteEsRaises, db, stores, batch
<1>16. ASSUME NEW w \in Workers, SelectBatch(w) PROVE CallsTakeEffect'
  BY <1>16 DEF SelectBatch, db, stores
<1>17. CASE UNCHANGED <<documents, stores, pc, row>>
  BY <1>17 DEF stores
<1> QED
  BY <1>1, <1>2, <1>3, <1>4, <1>5, <1>6, <1>7, <1>8, <1>9, <1>10, <1>11, <1>12, <1>13,
     <1>14, <1>15, <1>16, <1>17
     DEF Next, Api, Iterate, Fault, Outage, vars, db, stores, batch, StoreSemanticFact,
         DeleteRead

\* The same as NextCalls for the rows of semantic facts.
LEMMA NextFacts == IInv /\ TypeOK' /\ [Next]_vars => FactsTakeEffect'
<1> SUFFICES ASSUME IInv, TypeOK', [Next]_vars PROVE FactsTakeEffect'
  OBVIOUS
<1> USE DEF IInv, TypeOK, BatchesConsistent, FactsTakeEffect
<1>1. ASSUME NEW w \in Workers, NextRow(w) PROVE FactsTakeEffect'
  BY <1>1 DEF NextRow, Oldest, stores, batch
<1>2. ASSUME NEW w \in Workers, CallQdrant(w) PROVE FactsTakeEffect'
  BY MemoryRowFields, PointFields, <1>2 DEF CallQdrant, QdrantAfter, stores, batch
<1>3. ASSUME NEW w \in Workers, QdrantRaises(w) PROVE FactsTakeEffect'
  BY PointFields, <1>3 DEF QdrantRaises, QdrantAfter, stores, batch
<1>4. ASSUME NEW w \in Workers, CallEs(w) PROVE FactsTakeEffect'
  BY MemoryRowFields, <1>4 DEF CallEs, EsAfter, stores, batch
<1>5. ASSUME NEW w \in Workers, EsRaises(w) PROVE FactsTakeEffect'
  BY <1>5 DEF EsRaises, EsAfter, stores, batch
<1>6. ASSUME NEW w \in Workers, Publish(w) PROVE FactsTakeEffect'
  <2>1. CASE EndRow(w)
    BY <1>6, <2>1 DEF Publish, EndRow, stores
  <2>2. CASE pc' = [pc EXCEPT ![w] = "count"] /\ UNCHANGED batch
    BY <1>6, <2>2 DEF Publish, stores, batch
  <2> QED
    BY <1>6, <2>1, <2>2 DEF Publish
<1>7. ASSUME NEW w \in Workers, PublishRaises(w) PROVE FactsTakeEffect'
  BY <1>7 DEF PublishRaises, Abort, stores, batch
<1>8. ASSUME NEW w \in Workers, CountRemaining(w) PROVE FactsTakeEffect'
  BY <1>8 DEF CountRemaining, EndRow, Remaining, ChunkRows, stores, batch
<1>9. ASSUME NEW w \in Workers, MarkReady(w) PROVE FactsTakeEffect'
  BY <1>9 DEF MarkReady, ReadyIfProcessing, EndRow, stores, batch
<1>10. ASSUME NEW w \in Workers, MarkRaises(w) PROVE FactsTakeEffect'
  BY <1>10 DEF MarkRaises, Abort, stores, batch
<1>11. ASSUME NEW w \in Workers, RecordFailure(w) PROVE FactsTakeEffect'
  BY <1>11 DEF RecordFailure, EndRow, stores, batch
<1>12. ASSUME NEW w \in Workers, RecordRaises(w) \/ PostgresRaises(w) \/ WorkerDies(w)
       PROVE  FactsTakeEffect'
  BY <1>12 DEF RecordRaises, PostgresRaises, WorkerDies, Abort, stores
<1>13. ASSUME NEW w \in Workers, DeleteEsRaises(w) \/ SelectBatch(w) PROVE FactsTakeEffect'
  BY <1>13 DEF DeleteEsRaises, SelectBatch, stores, batch
<1>14. CASE UNCHANGED <<qdrant, pc, row>>
  BY <1>14
<1> QED
  BY <1>1, <1>2, <1>3, <1>4, <1>5, <1>6, <1>7, <1>8, <1>9, <1>10, <1>11, <1>12, <1>13,
     <1>14
     DEF Next, Api, Iterate, Fault, Outage, vars, db, stores, batch, IngestDocument,
         StoreSemanticFact, DeleteRead, DeleteCommit

\* A delete request is answered once, for a document that exists.
LEMMA NextRequests == IInv /\ TypeOK' /\ [Next]_vars => RequestsConsistent'
<1> SUFFICES ASSUME IInv, TypeOK', [Next]_vars PROVE RequestsConsistent'
  OBVIOUS
<1> USE DEF IInv, TypeOK, RequestsConsistent, EventsMatchDocuments
<1>1. ASSUME NEW d \in Docs, IngestDocument(d) PROVE RequestsConsistent'
  BY ChunkRowFields, DeleteRowFields, <1>1 DEF IngestDocument, InsertRows, ChunkRows, db
<1>2. ASSUME NEW f \in Facts, StoreSemanticFact(f) PROVE RequestsConsistent'
  BY DeleteRowFields, <1>2 DEF StoreSemanticFact, InsertRows, db
<1>3. ASSUME NEW q \in DeleteRequests, NEW d \in Docs, DeleteRead(q, d) PROVE RequestsConsistent'
  BY DocsAssumption, <1>3 DEF DeleteRead, db
<1>4. ASSUME NEW q \in DeleteRequests, DeleteCommit(q) PROVE RequestsConsistent'
  BY DocsAssumption, DeleteRowFields, <1>4 DEF DeleteCommit, InsertRows, db
<1>5. ASSUME UNCHANGED <<documents, retry_count, request>>,
             \A r \in Row : status'[r] = "absent" <=> status[r] = "absent"
      PROVE  RequestsConsistent'
  BY DeleteRowFields, <1>5
<1>6. ASSUME NEW w \in Workers, Publish(w) \/ PublishRaises(w) PROVE RequestsConsistent'
  <2>1. UNCHANGED <<documents, retry_count, request>>
    BY <1>6 DEF Publish, PublishRaises
  <2> QED
    BY <1>5, <1>6, <2>1, RelayUpdates
<1>7. ASSUME NEW w \in Workers, MarkReady(w) PROVE RequestsConsistent'
  BY <1>7 DEF MarkReady, ReadyIfProcessing, EndRow, db
<1>8. ASSUME NEW w \in Workers, MarkRaises(w) PROVE RequestsConsistent'
  BY <1>8 DEF MarkRaises, ReadyIfProcessing, db
<1>9. ASSUME NEW w \in Workers, RecordFailure(w) \/ RecordRaises(w) PROVE RequestsConsistent'
  <2>1. row[w] \in Row /\ status[row[w]] # "absent"
    BY <1>9, RowInHand DEF RecordFailure, RecordRaises
  <2>2. \A r \in Row : status'[r] = "absent" => retry_count'[r] = 0
    BY <1>9, <2>1, RelayUpdates DEF RecordFailure, RecordRaises, CountFailure
  <2> QED
    BY <1>9, <2>2, DeleteRowFields, RelayUpdates DEF RecordFailure, RecordRaises
<1>10. CASE UNCHANGED <<db, request>>
  BY <1>10 DEF db
<1> QED
  BY <1>1, <1>2, <1>3, <1>4, <1>5, <1>6, <1>7, <1>8, <1>9, <1>10
     DEF Next, Api, Iterate, Fault, Outage, vars, db, stores, batch, SelectBatch, NextRow,
         CallQdrant, QdrantRaises, CallEs, EsRaises, DeleteEsRaises, CountRemaining,
         PostgresRaises, WorkerDies

\* Documents and their events change in the same transaction.
LEMMA NextEvents == IInv /\ TypeOK' /\ [Next]_vars => EventsMatchDocuments'
<1> SUFFICES ASSUME IInv, TypeOK', [Next]_vars PROVE EventsMatchDocuments'
  OBVIOUS
<1> USE DEF IInv, TypeOK, EventsMatchDocuments, RequestsConsistent
<1>1. ASSUME NEW d \in Docs, IngestDocument(d) PROVE EventsMatchDocuments'
  <2> USE <1>1 DEF IngestDocument, InsertRows
  <2> SUFFICES ASSUME NEW e \in Docs
      PROVE  /\ \A r \in ChunkRows(e) : documents'[e] = "absent" <=> status'[r] = "absent"
             /\ documents'[e] = "deleting" <=> \E r \in DeleteRows(e) : status'[r] # "absent"
    OBVIOUS
  <2>1. ChunkRows(e) \subseteq Row /\ DeleteRows(e) \subseteq Row
    BY ChunkRowFields, DeleteRowFields DEF ChunkRows, DeleteRows
  <2>2. ChunkRows(d) \cap DeleteRows(e) = {} /\ (e # d => ChunkRows(d) \cap ChunkRows(e) = {})
    BY ChunkRowFields DEF ChunkRows, DeleteRows
  <2>3. CASE e = d
    BY <2>1, <2>2, <2>3, ZenonT(60)
  <2>4. CASE e # d
    BY <2>1, <2>2, <2>4
  <2> QED
    BY <2>3, <2>4
<1>2. ASSUME NEW f \in Facts, StoreSemanticFact(f) PROVE EventsMatchDocuments'
  BY RowInHand, ChunkRowFields, DeleteRowFields, <1>2
     DEF StoreSemanticFact, InsertRows, ChunkRows, DeleteRows, batch
<1>3. ASSUME NEW q \in DeleteRequests, DeleteCommit(q) PROVE EventsMatchDocuments'
  BY ChunkRowFields, DeleteRowFields, <1>3
     DEF DeleteCommit, InsertRows, ChunkRows, DeleteRows, batch
<1>4. ASSUME NEW w \in Workers, Publish(w) \/ PublishRaises(w) \/ RecordFailure(w) \/ RecordRaises(w)
      PROVE  EventsMatchDocuments'
  <2>1. UNCHANGED documents
    BY <1>4 DEF Publish, PublishRaises, RecordFailure, RecordRaises
  <2>2. \A d \in Docs : ChunkRows(d) \subseteq Row /\ DeleteRows(d) \subseteq Row
    BY ChunkRowFields, DeleteRowFields DEF ChunkRows, DeleteRows
  <2> QED
    BY <1>4, <2>1, <2>2, RelayUpdates DEF ChunkRows, DeleteRows
<1>5. ASSUME NEW w \in Workers, MarkReady(w) PROVE EventsMatchDocuments'
  BY <1>5 DEF MarkReady, ReadyIfProcessing, EndRow, ChunkRows, DeleteRows, batch
<1>6. ASSUME NEW w \in Workers, MarkRaises(w) PROVE EventsMatchDocuments'
  BY <1>6 DEF MarkRaises, ReadyIfProcessing, ChunkRows, DeleteRows, batch
<1>7. CASE UNCHANGED <<documents, status>>
  BY <1>7
<1> QED
  BY <1>1, <1>2, <1>3, <1>4, <1>5, <1>6, <1>7
     DEF Next, Api, Iterate, Fault, Outage, vars, db, stores, batch, DeleteRead, SelectBatch,
         NextRow, CallQdrant, QdrantRaises, CallEs, EsRaises, DeleteEsRaises, CountRemaining,
         PostgresRaises, WorkerDies

\* SKIP LOCKED and the lock taken by UPDATE keep an open batch exclusive.
LEMMA NextLocks == IInv /\ TypeOK' /\ [Next]_vars => LockedRowsAreFresh'
<1> SUFFICES ASSUME IInv, TypeOK', [Next]_vars PROVE LockedRowsAreFresh'
  OBVIOUS
<1> USE DEF IInv, TypeOK, BatchesConsistent, LockedRowsAreFresh, Locked, LockedByOthers
<1>1. ASSUME NEW d \in Docs, IngestDocument(d) PROVE LockedRowsAreFresh'
  BY <1>1 DEF IngestDocument, InsertRows, ChunkRows, db, batch
<1>2. ASSUME NEW f \in Facts, StoreSemanticFact(f) PROVE LockedRowsAreFresh'
  BY <1>2 DEF StoreSemanticFact, InsertRows, db, batch
<1>3. ASSUME NEW q \in DeleteRequests, DeleteCommit(q) PROVE LockedRowsAreFresh'
  BY <1>3 DEF DeleteCommit, InsertRows, db, batch
<1>4. ASSUME NEW w \in Workers, SelectBatch(w) PROVE LockedRowsAreFresh'
  BY <1>4 DEF SelectBatch, db, batch
<1>5. ASSUME NEW w \in Workers, Publish(w) PROVE LockedRowsAreFresh'
  BY <1>5 DEF Publish, EndRow, db, batch
<1>6. ASSUME NEW w \in Workers, PublishRaises(w) PROVE LockedRowsAreFresh'
  BY <1>6 DEF PublishRaises, Abort, db, batch
<1>7. ASSUME NEW w \in Workers, CountRemaining(w) PROVE LockedRowsAreFresh'
  <2>1. CASE EndRow(w)
    BY <1>7, <2>1, RowInHand DEF CountRemaining, EndRow, db
  <2>2. CASE UNCHANGED batch
    BY <1>7, <2>2 DEF CountRemaining, batch, db
  <2> QED
    BY <1>7, <2>1, <2>2 DEF CountRemaining
<1>8. ASSUME NEW w \in Workers, MarkReady(w) PROVE LockedRowsAreFresh'
  BY <1>8 DEF MarkReady, ReadyIfProcessing, EndRow, db, batch
<1>9. ASSUME NEW w \in Workers, RecordFailure(w) PROVE LockedRowsAreFresh'
  BY RowInHand, <1>9 DEF RecordFailure, CountFailure, EndRow, db, batch
<1>10. ASSUME NEW w \in Workers, RecordRaises(w) PROVE LockedRowsAreFresh'
  BY RowInHand, <1>10 DEF RecordRaises, CountFailure, Abort, db, batch
<1>11. ASSUME NEW w \in Workers, MarkRaises(w) \/ PostgresRaises(w) \/ WorkerDies(w)
       PROVE  LockedRowsAreFresh'
  <2>1. UNCHANGED <<status, retry_count>> /\ Abort(w)
    BY <1>11 DEF MarkRaises, PostgresRaises, WorkerDies, db
  <2> QED
    BY <2>1 DEF Abort
<1>12. CASE UNCHANGED <<status, retry_count, todo, seen, inTx>>
  BY <1>12
<1> QED
  BY <1>1, <1>2, <1>3, <1>4, <1>5, <1>6, <1>7, <1>8, <1>9, <1>10, <1>11, <1>12
     DEF Next, Api, Iterate, Fault, Outage, vars, db, stores, batch, DeleteRead, NextRow,
         CallQdrant, QdrantRaises, CallEs, EsRaises, DeleteEsRaises

\* A row enters a batch with attempts left, so one more failure is at most the limit.
LEMMA NextRetries == IInv /\ TypeOK' /\ [Next]_vars => RetryCountMatchesStatus'
<1> SUFFICES ASSUME IInv, TypeOK', [Next]_vars PROVE RetryCountMatchesStatus'
  OBVIOUS
<1> USE DEF IInv, TypeOK, RetryCountMatchesStatus
<1>1. ASSUME NEW d \in Docs, IngestDocument(d) PROVE RetryCountMatchesStatus'
  <2>1. \A r \in ChunkRows(d) : r \in Row /\ retry_count[r] = 0
    BY <1>1, ChunkRowFields DEF IngestDocument, EventsMatchDocuments, ChunkRows, RequestsConsistent
  <2> QED
    BY <1>1, <2>1, OutboxAssumption DEF IngestDocument, InsertRows
<1>2. ASSUME NEW f \in Facts, StoreSemanticFact(f) PROVE RetryCountMatchesStatus'
  BY OutboxAssumption, <1>2 DEF StoreSemanticFact, InsertRows, RequestsConsistent
<1>3. ASSUME NEW q \in DeleteRequests, DeleteCommit(q) PROVE RetryCountMatchesStatus'
  <2>1. retry_count[DeleteRow(request[q], q)] = 0
    BY <1>3, DocsAssumption, DeleteRowFields DEF DeleteCommit, RequestsConsistent
  <2> QED
    BY <1>3, <2>1, OutboxAssumption DEF DeleteCommit, InsertRows
<1>4. ASSUME NEW w \in Workers, Publish(w) PROVE RetryCountMatchesStatus'
  BY <1>4 DEF Publish, EndRow, RequestsConsistent
<1>5. ASSUME NEW w \in Workers, PublishRaises(w) PROVE RetryCountMatchesStatus'
  BY <1>5 DEF PublishRaises, RequestsConsistent
<1>6. ASSUME NEW w \in Workers, RecordFailure(w) \/ RecordRaises(w)
      PROVE  RetryCountMatchesStatus'
  BY <1>6, CountFailureRetries DEF RecordFailure, RecordRaises
<1>7. CASE UNCHANGED <<status, retry_count>>
  BY <1>7
<1> QED
  BY <1>1, <1>2, <1>3, <1>4, <1>5, <1>6, <1>7
     DEF Next, Api, Iterate, Fault, Outage, vars, db, stores, batch, DeleteRead, SelectBatch,
         NextRow, CallQdrant, QdrantRaises, CallEs, EsRaises, DeleteEsRaises, CountRemaining,
         MarkReady, MarkRaises, PostgresRaises, WorkerDies

\* PUBLISHED is set after the calls, and later calls remove nothing that is alive.
LEMMA NextPublished == IInv /\ TypeOK' /\ [Next]_vars => PublishedMeansWritten'
<1> SUFFICES ASSUME IInv, TypeOK', [Next]_vars PROVE PublishedMeansWritten'
  OBVIOUS
<1> USE DEF IInv, TypeOK, PublishedMeansWritten, InBothStores, Deleting
<1>1. ASSUME NEW d \in Docs, IngestDocument(d) PROVE PublishedMeansWritten'
  BY ChunkRowFields, MemoryRowFields, <1>1
     DEF IngestDocument, InsertRows, ChunkRows, db, stores, CallsTakeEffect, FactsTakeEffect
<1>2. ASSUME NEW f \in Facts, StoreSemanticFact(f) PROVE PublishedMeansWritten'
  BY ChunkRowFields, MemoryRowFields, <1>2
     DEF StoreSemanticFact, InsertRows, db, stores, CallsTakeEffect, FactsTakeEffect
<1>3. ASSUME NEW q \in DeleteRequests, DeleteCommit(q) PROVE PublishedMeansWritten'
  BY ChunkRowFields, MemoryRowFields, <1>3
     DEF DeleteCommit, InsertRows, db, stores, CallsTakeEffect, FactsTakeEffect
<1>4. ASSUME NEW w \in Workers, CallQdrant(w) PROVE PublishedMeansWritten'
  BY <1>4, LiveChunksStay, PointFields DEF CallQdrant, QdrantAfter, db
<1>5. ASSUME NEW w \in Workers, QdrantRaises(w) PROVE PublishedMeansWritten'
  BY <1>5, LiveChunksStay, PointFields DEF QdrantRaises, QdrantAfter, db
<1>6. ASSUME NEW w \in Workers, CallEs(w) PROVE PublishedMeansWritten'
  BY <1>6, LiveChunksStay, PointFields DEF CallEs, db
<1>7. ASSUME NEW w \in Workers, EsRaises(w) PROVE PublishedMeansWritten'
  BY <1>7, LiveChunksStay, PointFields DEF EsRaises, db
<1>8. ASSUME NEW w \in Workers, Publish(w) PROVE PublishedMeansWritten'
  BY <1>8 DEF Publish, EndRow, db, stores, CallsTakeEffect, FactsTakeEffect
<1>9. ASSUME NEW w \in Workers, PublishRaises(w) PROVE PublishedMeansWritten'
  BY ChunkRowFields, MemoryRowFields, <1>9
     DEF PublishRaises, db, stores, CallsTakeEffect, FactsTakeEffect
<1>10. ASSUME NEW w \in Workers, MarkReady(w) PROVE PublishedMeansWritten'
  BY <1>10
     DEF MarkReady, ReadyIfProcessing, EndRow, db, stores, CallsTakeEffect, FactsTakeEffect
<1>11. ASSUME NEW w \in Workers, MarkRaises(w) PROVE PublishedMeansWritten'
  BY <1>11 DEF MarkRaises, ReadyIfProcessing, db, stores, CallsTakeEffect, FactsTakeEffect
<1>12. ASSUME NEW w \in Workers, RecordFailure(w) \/ RecordRaises(w)
       PROVE  PublishedMeansWritten'
  BY RowInHand, ChunkRowFields, MemoryRowFields, <1>12
     DEF RecordFailure, RecordRaises, CountFailure, BatchesConsistent, stores
<1>13. CASE UNCHANGED <<documents, status, stores>>
  BY <1>13 DEF stores
<1> QED
  BY <1>1, <1>2, <1>3, <1>4, <1>5, <1>6, <1>7, <1>8, <1>9, <1>10, <1>11, <1>12, <1>13
     DEF Next, Api, Iterate, Fault, Outage, vars, db, stores, batch, DeleteRead, SelectBatch,
         NextRow, DeleteEsRaises, CountRemaining, PostgresRaises, WorkerDies

\* 'ready' is set with all chunks written, and none is removed before a deletion.
LEMMA NextReady == IInv /\ TypeOK' /\ [Next]_vars => ReadyMeansIndexed'
<1> SUFFICES ASSUME IInv, TypeOK', [Next]_vars PROVE ReadyMeansIndexed'
  OBVIOUS
<1> USE DEF IInv, TypeOK, ReadyMeansIndexed, InBothStores, Deleting
<1>1. ASSUME NEW d \in Docs, IngestDocument(d) PROVE ReadyMeansIndexed'
  BY <1>1
     DEF IngestDocument, InsertRows, ChunkRows, db, stores, CallsTakeEffect,
         BatchesConsistent
<1>2. ASSUME NEW q \in DeleteRequests, DeleteCommit(q) PROVE ReadyMeansIndexed'
  BY <1>2 DEF DeleteCommit, InsertRows, db, stores, CallsTakeEffect, BatchesConsistent
<1>3. ASSUME NEW w \in Workers, CallQdrant(w) PROVE ReadyMeansIndexed'
  BY <1>3, LiveChunksStay DEF CallQdrant, db
<1>4. ASSUME NEW w \in Workers, QdrantRaises(w) PROVE ReadyMeansIndexed'
  BY <1>4, LiveChunksStay DEF QdrantRaises, db
<1>5. ASSUME NEW w \in Workers, CallEs(w) PROVE ReadyMeansIndexed'
  BY <1>5, LiveChunksStay DEF CallEs, db
<1>6. ASSUME NEW w \in Workers, EsRaises(w) PROVE ReadyMeansIndexed'
  BY <1>6, LiveChunksStay DEF EsRaises, db
<1>7. ASSUME NEW w \in Workers, MarkReady(w) PROVE ReadyMeansIndexed'
  BY <1>7
     DEF MarkReady, ReadyIfProcessing, EndRow, db, stores, CallsTakeEffect,
         BatchesConsistent
<1>8. ASSUME NEW w \in Workers, MarkRaises(w) PROVE ReadyMeansIndexed'
  BY <1>8 DEF MarkRaises, ReadyIfProcessing, db, stores, CallsTakeEffect, BatchesConsistent
<1>9. CASE UNCHANGED <<documents, stores>>
  BY <1>9 DEF stores
<1> QED
  BY <1>1, <1>2, <1>3, <1>4, <1>5, <1>6, <1>7, <1>8, <1>9
     DEF Next, Api, Iterate, Fault, Outage, vars, db, stores, batch, StoreSemanticFact,
         DeleteRead, SelectBatch, NextRow, DeleteEsRaises, Publish, PublishRaises,
         CountRemaining, RecordFailure, RecordRaises, PostgresRaises, WorkerDies

\* The invariant is inductive.
LEMMA NextIInv == IInv /\ [Next]_vars => IInv'
<1> SUFFICES ASSUME IInv, [Next]_vars PROVE IInv'
  OBVIOUS
<1>1. TypeOK'
  BY NextType DEF IInv
<1> QED
  BY <1>1, NextBatches, NextCalls, NextFacts, NextRequests, NextEvents, NextLocks,
     NextRetries, NextPublished, NextReady DEF IInv

(***************************************************************************)
(* The theorems.                                                           *)
(***************************************************************************)
THEOREM Invariance == Spec => []IInv
<1>1. Init => IInv
  BY InitIInv
<1>2. IInv /\ [Next]_vars => IInv'
  BY NextIInv
<1> QED
  BY <1>1, <1>2, PTL DEF Spec

\* Columns, stores and locals keep to the values the schema and the code give them.
THEOREM TypeCorrect == Spec => []TypeOK
<1>1. IInv => TypeOK
  BY DEF IInv
<1> QED
  BY <1>1, Invariance, PTL

\* A document shown as ready has all its chunks in Qdrant and in Elasticsearch.
THEOREM ReadyIsIndexed == Spec => []ReadyMeansIndexed
<1>1. IInv => ReadyMeansIndexed
  BY DEF IInv
<1> QED
  BY <1>1, Invariance, PTL

\* The relay marks a row PUBLISHED only after the stores took it.
THEOREM PublishedIsWritten == Spec => []PublishedMeansWritten
<1>1. IInv => PublishedMeansWritten
  BY DEF IInv
<1> QED
  BY <1>1, Invariance, PTL

\* The row locks of an open SELECT keep the batch exclusive and its copy current.
THEOREM LocksKeepRowsFresh == Spec => []LockedRowsAreFresh
<1>1. IInv => LockedRowsAreFresh
  BY DEF IInv
<1> QED
  BY <1>1, Invariance, PTL

\* PENDING rows have attempts left and DEAD rows none, in spite of stale writes.
THEOREM DeadLetterRule == Spec => []RetryCountMatchesStatus
<1>1. IInv => RetryCountMatchesStatus
  BY DEF IInv
<1> QED
  BY <1>1, Invariance, PTL

\* A document and its upsert events, its deletion and the delete event, go together.
THEOREM OutboxIsTransactional == Spec => []EventsMatchDocuments
<1>1. IInv => EventsMatchDocuments
  BY DEF IInv
<1> QED
  BY <1>1, Invariance, PTL

\* A document being deleted never becomes ready again.
THEOREM DeletionIsNotUndone == Spec => DeletionIsFinal
<1>1. TypeOK /\ [Next]_vars =>
        [\A d \in Docs : documents[d] = "deleting" => documents'[d] = "deleting"]_vars
  BY NextDeleting
<1> QED
  BY <1>1, TypeCorrect, PTL DEF Spec, DeletionIsFinal

-----------------------------------------------------------------------------
\* The announcement of an upload: who may leave a fully published document unmarked.

\* The rows counted for a document are the ones that carry its id.
LEMMA RowsOfDocument ==
  ASSUME NEW d \in Docs, NEW r \in Row
  PROVE  r \in ChunkRows(d) \cup DeleteRows(d) <=> r.document_id = d
BY DocsAssumption DEF Row, ChunkRows, DeleteRows, ChunkRow, DeleteRow

\* A step that neither touches the document and its rows nor takes a worker away from
\* announcing it leaves an announced document announced.
LEMMA StaysAnnounced ==
  ASSUME NEW d \in Docs, documents'[d] = documents[d], Unannounced(d)',
         \A r \in Row : r.document_id = d => status'[r] = status[r],
         \A w \in Workers : Announcing(w, d) => Announcing(w, d)'
  PROVE  Unannounced(d)
<1>1. ChunkRows(d) \cup DeleteRows(d) \subseteq Row
  BY ChunkRowFields, DeleteRowFields DEF ChunkRows, DeleteRows
<1>2. Remaining(d) = Remaining(d)'
  BY <1>1, RowsOfDocument DEF Remaining, ChunkRows, DeleteRows
<1> QED
  BY <1>2 DEF Unannounced

\* Steps of the API create rows that are not PUBLISHED.
LEMMA ApiAnnounces ==
  ASSUME IInv, Api, NEW d \in Docs, Unannounced(d)'
  PROVE  Unannounced(d)
<1>1. \A w \in Workers : Announcing(w, d) => Announcing(w, d)'
  BY DEF Api, IngestDocument, StoreSemanticFact, DeleteRead, DeleteCommit, Announcing, batch
<1>2. ASSUME NEW e \in Docs, IngestDocument(e) PROVE Unannounced(d)
  <2>1. CASE e = d
    <3>1. 0 \in Chunks
      BY OutboxAssumption DEF Chunks
    <3>2. ChunkRow(d, 0) \in ChunkRows(d) /\ ChunkRow(d, 0) \in Row
      BY <3>1, ChunkRowFields DEF ChunkRows
    <3>3. status'[ChunkRow(d, 0)] = "PENDING"
      BY <1>2, <2>1, <3>2 DEF IngestDocument, InsertRows
    <3>4. ChunkRow(d, 0) \in Remaining(d)'
      BY <3>2, <3>3 DEF Remaining, ChunkRows
    <3> QED
      BY <3>4 DEF Unannounced
  <2>2. CASE e # d
    <3>1. \A r \in Row : r.document_id = d => status'[r] = status[r]
      BY <1>2, <2>2, ChunkRowFields DEF IngestDocument, InsertRows, ChunkRows
    <3>2. documents'[d] = documents[d]
      BY <1>2, <2>2 DEF IngestDocument, IInv, TypeOK
    <3> QED
      BY <1>1, <3>1, <3>2, StaysAnnounced
  <2> QED
    BY <2>1, <2>2
<1>3. ASSUME NEW f \in Facts, StoreSemanticFact(f) PROVE Unannounced(d)
  <2>1. \A r \in Row : r.document_id = d => status'[r] = status[r]
    BY <1>3, DocsAssumption DEF StoreSemanticFact, InsertRows, MemoryRow
  <2> QED
    BY <1>1, <1>3, <2>1, StaysAnnounced DEF StoreSemanticFact
<1>4. ASSUME NEW q \in DeleteRequests, DeleteCommit(q) PROVE Unannounced(d)
  <2>1. CASE request[q] = d
    BY <1>4, <2>1 DEF DeleteCommit, Unannounced, IInv, TypeOK
  <2>2. CASE request[q] # d
    <3>1. \A r \in Row : r.document_id = d => status'[r] = status[r]
      BY <1>4, <2>2, DeleteRowFields DEF DeleteCommit, InsertRows
    <3>2. documents'[d] = documents[d]
      BY <1>4, <2>2 DEF DeleteCommit, IInv, TypeOK
    <3> QED
      BY <1>1, <3>1, <3>2, StaysAnnounced
  <2> QED
    BY <2>1, <2>2
<1>5. CASE UNCHANGED db
  BY <1>1, <1>5, StaysAnnounced DEF db
<1> QED
  BY <1>2, <1>3, <1>4, <1>5 DEF Api, DeleteRead

\* Publishing the last row makes its worker count; a failure puts the row back.
LEMMA UpdatesAnnounce ==
  ASSUME IInv, NEW w \in Workers, Publish(w) \/ RecordFailure(w),
         NEW d \in Docs, Unannounced(d)'
  PROVE  Unannounced(d)
<1>1. row[w] \in Row /\ ~Announcing(w, d)
  BY RowInHand DEF Publish, RecordFailure, IInv, Announcing
<1>2. \A v \in Workers : Announcing(v, d) => Announcing(v, d)'
  BY <1>1 DEF Publish, RecordFailure, EndRow, Announcing, IInv, TypeOK, batch
<1>3. \A r \in Row : r # row[w] => status'[r] = status[r]
  BY DEF Publish, RecordFailure, CountFailure, IInv, TypeOK
<1>4. CASE row[w].document_id # d
  BY <1>2, <1>3, <1>4, StaysAnnounced DEF Publish, RecordFailure
<1>5. CASE row[w].document_id = d /\ Publish(w)
  <2>1. ~IsMemory(row[w])
    BY <1>1, <1>5, DocsAssumption DEF IsMemory, Row
  <2>2. Announcing(w, d)'
    BY <1>5, <2>1 DEF Publish, Announcing, IInv, TypeOK, batch
  <2> QED
    BY <2>2 DEF Unannounced
<1>6. CASE row[w].document_id = d /\ RecordFailure(w)
  <2>1. row[w] \in ChunkRows(d) \cup DeleteRows(d)
    BY <1>1, <1>6, RowsOfDocument
  <2>2. status'[row[w]] \in {"PENDING", "DEAD"}
    BY <1>1, <1>6 DEF RecordFailure, CountFailure, IInv, TypeOK
  <2>3. row[w] \in Remaining(d)'
    BY <2>1, <2>2 DEF Remaining, ChunkRows, DeleteRows
  <2> QED
    BY <2>3 DEF Unannounced
<1> QED
  BY <1>4, <1>5, <1>6

\* A worker stops announcing a document only when rows remain or it is marked.
LEMMA CountAnnounces ==
  ASSUME IInv, NEW w \in Workers, CountRemaining(w) \/ MarkReady(w),
         NEW d \in Docs, Unannounced(d)'
  PROVE  Unannounced(d)
<1>1. status' = status
  BY DEF CountRemaining, MarkReady, db
<1>2. \A v \in Workers : v # w /\ Announcing(v, d) => Announcing(v, d)'
  BY DEF CountRemaining, MarkReady, EndRow, Announcing, IInv, TypeOK, batch
<1>3. CASE row[w].document_id # d
  <2>1. documents'[d] = documents[d]
    BY <1>3 DEF CountRemaining, MarkReady, ReadyIfProcessing, db, IInv, TypeOK
  <2> QED
    BY <1>1, <1>2, <1>3, <2>1, StaysAnnounced DEF Announcing
<1>4. CASE row[w].document_id = d /\ CountRemaining(w)
  <2>1. Remaining(d)' = Remaining(d)
    BY <1>1 DEF Remaining, ChunkRows, DeleteRows
  <2>2. Remaining(d) = {}
    BY <2>1 DEF Unannounced
  <2>3. Announcing(w, d)'
    BY <1>4, <2>2 DEF CountRemaining, Announcing, IInv, TypeOK, batch
  <2> QED
    BY <2>3 DEF Unannounced
<1>5. CASE row[w].document_id = d /\ MarkReady(w)
  BY <1>5 DEF MarkReady, ReadyIfProcessing, Unannounced, IInv, TypeOK
<1> QED
  BY <1>3, <1>4, <1>5

\* All other steps that end no task leave the columns and the announcing workers alone.
LEMMA OtherStepsAnnounce ==
  ASSUME IInv, NEW w \in Workers,
         \/ SelectBatch(w) \/ NextRow(w) \/ CallQdrant(w) \/ CallEs(w)
         \/ DeleteEsRaises(w) \/ QdrantRaises(w) \/ EsRaises(w),
         NEW d \in Docs, Unannounced(d)'
  PROVE  Unannounced(d)
<1>1. UNCHANGED <<documents, status>>
  BY DEF SelectBatch, NextRow, CallQdrant, CallEs, DeleteEsRaises, QdrantRaises, EsRaises, db
<1>2. pc[w] \notin {"count", "mark"}
  BY DEF SelectBatch, NextRow, CallQdrant, CallEs, DeleteEsRaises, QdrantRaises, EsRaises, IInv,
         BatchesConsistent
<1>3. \A v \in Workers : v # w => pc'[v] = pc[v] /\ row'[v] = row[v]
  BY DEF SelectBatch, NextRow, CallQdrant, CallEs, DeleteEsRaises, QdrantRaises, EsRaises, IInv,
         TypeOK, batch
<1> QED
  BY <1>1, <1>2, <1>3, StaysAnnounced DEF Announcing

\* The faults that lose a batch are the ones the property names.
LEMMA OutageAborts == ASSUME IInv, NEW w \in Workers, Outage(w) PROVE Aborts(w)
<1>1. pc[w] # "aborted"
  BY DEF Outage, PublishRaises, MarkRaises, RecordRaises, PostgresRaises, WorkerDies, IInv,
         BatchesConsistent
<1>2. Abort(w)
  BY DEF Outage, PublishRaises, MarkRaises, RecordRaises, PostgresRaises, WorkerDies
<1> QED
  BY <1>1, <1>2 DEF Abort, Aborts, IInv, TypeOK

\* However the workers interleave, a fully published upload stays without its "ready" only
\* when a task ended between the two commits.
THEOREM AbortsLoseAnnouncements == Spec => OnlyAbortsLoseAnnouncements
<1>1. IInv /\ [Next]_vars =>
        [\A d \in Docs : Unannounced(d)' =>
           Unannounced(d) \/ \E w \in Workers : Aborts(w)]_vars
  <2> SUFFICES ASSUME IInv, Next, NEW d \in Docs, Unannounced(d)'
               PROVE  Unannounced(d) \/ \E w \in Workers : Aborts(w)
    OBVIOUS
  <2> QED
    BY ApiAnnounces, UpdatesAnnounce, CountAnnounces, OtherStepsAnnounce, OutageAborts
       DEF Next, Iterate, Fault
<1> QED
  BY <1>1, Invariance, PTL DEF Spec, OnlyAbortsLoseAnnouncements

-----------------------------------------------------------------------------
\* Outbox implements DocumentLifecycle: each step of the API or of a relay worker is, seen
\* through the status column and the set of chunks held by both stores, one step of the
\* abstract life of a document or no step at all.

\* The abstract variable holds the chunks that both stores hold.
LEMMA IndexedMembers ==
  /\ Indexed \subseteq Docs \X Chunks
  /\ \A d \in Docs, i \in Chunks : <<d, i>> \in Indexed <=> InBothStores(d, i)
BY DEF Indexed

\* The empty system is the abstract initial state.
LEMMA InitImplements == Init => Lifecycle!LifecycleInit
BY DEF Init, Lifecycle!LifecycleInit, Indexed, InBothStores

\* What a store call leaves of its row's points, whether or not it raised.
LEMMA StoreStep ==
  ASSUME NEW w \in Workers, CallQdrant(w) \/ QdrantRaises(w) \/ CallEs(w) \/ EsRaises(w)
  PROVE  /\ pc[w] \notin {"next", "aborted"} /\ documents' = documents
         /\ ~IsDelete(row[w]) =>
              /\ qdrant' \in {qdrant, qdrant \cup {UpsertPoint(row[w])}}
              /\ es' \in {es, es \cup {UpsertPoint(row[w])}}
         /\ IsDelete(row[w]) =>
              /\ qdrant' \subseteq qdrant /\ es' \subseteq es
              /\ (qdrant \ qdrant') \cup (es \ es') \subseteq DeleteTargets(row[w].document_id)
BY DEF CallQdrant, QdrantRaises, CallEs, EsRaises, QdrantAfter, EsAfter, db

\* Writing a chunk makes at most that chunk searchable.
LEMMA UpsertImplements ==
  ASSUME NEW d \in Docs, NEW i \in Chunks, documents[d] # "absent", documents' = documents,
         qdrant' \in {qdrant, qdrant \cup {ChunkPoint(d, i)}},
         es' \in {es, es \cup {ChunkPoint(d, i)}}
  PROVE  [Lifecycle!LifecycleNext]_(Lifecycle!lifecycleVars)
<1>1. Indexed' \in {Indexed, Indexed \cup {<<d, i>>}}
  <2>1. \A e \in Docs, j \in Chunks : e # d \/ j # i =>
          (InBothStores(e, j)' <=> InBothStores(e, j))
    BY PointFields DEF InBothStores
  <2>2. InBothStores(d, i) => InBothStores(d, i)'
    BY DEF InBothStores
  <2>3. /\ Indexed' \subseteq Docs \X Chunks
        /\ \A e \in Docs, j \in Chunks : <<e, j>> \in Indexed' <=> InBothStores(e, j)'
    BY DEF Indexed
  <2>4. \A e \in Docs, j \in Chunks : <<e, j>> # <<d, i>> =>
          (<<e, j>> \in Indexed' <=> <<e, j>> \in Indexed)
    BY <2>1, <2>3, IndexedMembers
  <2>5. \A p \in Docs \X Chunks : p # <<d, i>> => (p \in Indexed' <=> p \in Indexed)
    BY <2>4
  <2>6. <<d, i>> \in Indexed => <<d, i>> \in Indexed'
    BY <2>2, <2>3, IndexedMembers
  <2> QED
    BY <2>3, <2>5, <2>6, IndexedMembers
<1>2. Chunks = Lifecycle!Chunks
  BY DEF Chunks, Lifecycle!Chunks
<1>3. CASE Indexed' = Indexed
  BY <1>3 DEF Lifecycle!lifecycleVars
<1>4. CASE Indexed' = Indexed \cup {<<d, i>>}
  BY <1>2, <1>4 DEF Lifecycle!LifecycleNext, Lifecycle!Index
<1> QED
  BY <1>1, <1>3, <1>4

\* Deleting the chunks of a document that is being deleted.
LEMMA DeleteImplements ==
  ASSUME NEW d \in Docs, documents[d] = "deleting", documents' = documents,
         qdrant' \subseteq qdrant, es' \subseteq es,
         (qdrant \ qdrant') \cup (es \ es') \subseteq DeleteTargets(d)
  PROVE  [Lifecycle!LifecycleNext]_(Lifecycle!lifecycleVars)
<1> DEFINE gone == {p \in Lifecycle!ChunksOf(d) : p \notin Indexed'}
<1>1. Chunks = Lifecycle!Chunks /\ Lifecycle!ChunksOf(d) = {d} \X Chunks
  BY DEF Chunks, Lifecycle!Chunks, Lifecycle!ChunksOf
<1>2. /\ Indexed' \subseteq Docs \X Chunks
      /\ \A e \in Docs, j \in Chunks : <<e, j>> \in Indexed' <=> InBothStores(e, j)'
  BY DEF Indexed
<1>3. \A e \in Docs, j \in Chunks : InBothStores(e, j)' => InBothStores(e, j)
  BY DEF InBothStores
<1>4. \A e \in Docs, j \in Chunks : InBothStores(e, j) /\ ~InBothStores(e, j)' => e = d
  BY PointFields DEF InBothStores
<1>5. \A e \in Docs, j \in Chunks : <<e, j>> \in Indexed' <=> <<e, j>> \in Indexed \ gone
  BY <1>1, <1>2, <1>3, <1>4, IndexedMembers
<1>6. Indexed' = Indexed \ gone
  BY <1>2, <1>5, IndexedMembers
<1>7. Lifecycle!Remove(d, gone) /\ gone \in SUBSET Lifecycle!ChunksOf(d)
  BY <1>6 DEF Lifecycle!Remove
<1> QED
  BY <1>7 DEF Lifecycle!LifecycleNext

\* Memory points are no chunks.
LEMMA MemoryImplements ==
  ASSUME NEW f \in Facts, documents' = documents,
         qdrant' \in {qdrant, qdrant \cup {MemoryPoint(f)}},
         es' \in {es, es \cup {MemoryPoint(f)}}
  PROVE  [Lifecycle!LifecycleNext]_(Lifecycle!lifecycleVars)
<1>1. \A e \in Docs, j \in Chunks : InBothStores(e, j)' <=> InBothStores(e, j)
  BY PointFields DEF InBothStores
<1>2. Indexed' = Indexed
  BY <1>1 DEF Indexed
<1> QED
  BY <1>2 DEF Lifecycle!lifecycleVars

\* A store call for any kind of row, raising or not, indexes one chunk, removes
\* chunks of a deleted document, or does nothing the abstract level sees.
LEMMA StoreCallImplements ==
  ASSUME IInv, NEW w \in Workers,
         CallQdrant(w) \/ QdrantRaises(w) \/ CallEs(w) \/ EsRaises(w)
  PROVE  [Lifecycle!LifecycleNext]_(Lifecycle!lifecycleVars)
<1>1. row[w] \in Row /\ status[row[w]] # "absent"
  BY StoreStep, RowInHand DEF IInv
<1>2. ASSUME NEW d \in Docs, NEW i \in Chunks, row[w] = ChunkRow(d, i)
      PROVE  [Lifecycle!LifecycleNext]_(Lifecycle!lifecycleVars)
  <2>1. documents[d] # "absent"
    BY <1>1, <1>2 DEF IInv, EventsMatchDocuments, ChunkRows
  <2>2. /\ documents' = documents
        /\ qdrant' \in {qdrant, qdrant \cup {ChunkPoint(d, i)}}
        /\ es' \in {es, es \cup {ChunkPoint(d, i)}}
    BY <1>2, StoreStep, ChunkRowFields
  <2> QED
    BY <2>1, <2>2, UpsertImplements
<1>3. ASSUME NEW d \in Docs, NEW q \in DeleteRequests, row[w] = DeleteRow(d, q)
      PROVE  [Lifecycle!LifecycleNext]_(Lifecycle!lifecycleVars)
  <2>1. documents[d] = "deleting"
    BY <1>1, <1>3 DEF IInv, EventsMatchDocuments, DeleteRows
  <2>2. /\ documents' = documents /\ qdrant' \subseteq qdrant /\ es' \subseteq es
        /\ (qdrant \ qdrant') \cup (es \ es') \subseteq DeleteTargets(d)
    BY <1>3, StoreStep, DeleteRowFields
  <2> QED
    BY <2>1, <2>2, DeleteImplements
<1>4. ASSUME NEW f \in Facts, row[w] = MemoryRow(f)
      PROVE  [Lifecycle!LifecycleNext]_(Lifecycle!lifecycleVars)
  <2>1. /\ documents' = documents
        /\ qdrant' \in {qdrant, qdrant \cup {MemoryPoint(f)}}
        /\ es' \in {es, es \cup {MemoryPoint(f)}}
    BY <1>4, StoreStep, MemoryRowFields
  <2> QED
    BY <2>1, MemoryImplements
<1> QED
  BY <1>1, <1>2, <1>3, <1>4, RowKinds

\* The UPDATE to 'ready' announces a document all of whose chunks are indexed.
LEMMA MarkImplements ==
  ASSUME IInv, NEW w \in Workers, MarkReady(w) \/ MarkRaises(w)
  PROVE  [Lifecycle!LifecycleNext]_(Lifecycle!lifecycleVars)
<1> DEFINE d == row[w].document_id
<1>1. Indexed' = Indexed
  BY DEF MarkReady, MarkRaises, stores, Indexed, InBothStores
<1>2. pc[w] = "mark" /\ documents' \in {documents, ReadyIfProcessing(d)}
  BY DEF MarkReady, MarkRaises
<1>3. row[w] \in Row /\ ~IsMemory(row[w])
  BY <1>2, RowInHand DEF IInv, BatchesConsistent
<1>4. d \in Docs
  BY <1>3 DEF Row, IsMemory
<1>5. CASE documents' = documents
  BY <1>1, <1>5 DEF Lifecycle!lifecycleVars
<1>6. CASE documents[d] = "processing" /\ documents' = [documents EXCEPT ![d] = "ready"]
  <2>1. \A i \in Chunks : InBothStores(d, i)
    BY <1>2, <1>4, <1>6 DEF IInv, CallsTakeEffect, Deleting
  <2>2. Lifecycle!ChunksOf(d) \subseteq Indexed
    BY <1>4, <2>1, IndexedMembers DEF Lifecycle!ChunksOf, Lifecycle!Chunks, Chunks
  <2>3. Lifecycle!Announce(d)
    BY <1>1, <1>6, <2>2 DEF Lifecycle!Announce
  <2> QED
    BY <1>4, <2>3 DEF Lifecycle!LifecycleNext
<1> QED
  BY <1>2, <1>5, <1>6 DEF ReadyIfProcessing

\* Uploads and deletions; a second delete event is no abstract step.
LEMMA ApiImplements ==
  ASSUME IInv, Api
  PROVE  [Lifecycle!LifecycleNext]_(Lifecycle!lifecycleVars)
<1>1. Indexed' = Indexed
  BY DEF Api, IngestDocument, StoreSemanticFact, DeleteRead, DeleteCommit, stores, Indexed,
     InBothStores
<1>2. ASSUME NEW d \in Docs, IngestDocument(d)
      PROVE  [Lifecycle!LifecycleNext]_(Lifecycle!lifecycleVars)
  BY <1>1, <1>2 DEF IngestDocument, Lifecycle!LifecycleNext, Lifecycle!Upload
<1>3. ASSUME NEW q \in DeleteRequests, DeleteCommit(q)
      PROVE  [Lifecycle!LifecycleNext]_(Lifecycle!lifecycleVars)
  <2> DEFINE d == request[q]
  <2>1. /\ d \in Docs /\ documents[d] \in {"processing", "ready", "deleting"}
        /\ documents' = [documents EXCEPT ![d] = "deleting"]
    BY <1>3 DEF DeleteCommit, IInv, TypeOK, DocumentStatus, RequestsConsistent
  <2>2. CASE documents[d] = "deleting"
    BY <1>1, <2>1, <2>2 DEF Lifecycle!lifecycleVars, IInv, TypeOK
  <2>3. CASE documents[d] \in {"processing", "ready"}
    BY <1>1, <2>1, <2>3 DEF Lifecycle!LifecycleNext, Lifecycle!RequestDelete
  <2> QED
    BY <2>1, <2>2, <2>3
<1>4. CASE UNCHANGED documents
  BY <1>1, <1>4 DEF Lifecycle!lifecycleVars
<1> QED
  BY <1>2, <1>3, <1>4 DEF Api, StoreSemanticFact, DeleteRead, db

\* Step simulation.
LEMMA NextImplements ==
  IInv /\ [Next]_vars => [Lifecycle!LifecycleNext]_(Lifecycle!lifecycleVars)
<1> SUFFICES ASSUME IInv, [Next]_vars
             PROVE  [Lifecycle!LifecycleNext]_(Lifecycle!lifecycleVars)
  OBVIOUS
<1>1. ASSUME NEW w \in Workers, CallQdrant(w) \/ QdrantRaises(w) \/ CallEs(w) \/ EsRaises(w)
      PROVE  [Lifecycle!LifecycleNext]_(Lifecycle!lifecycleVars)
  BY <1>1, StoreCallImplements
<1>2. ASSUME NEW w \in Workers, MarkReady(w) \/ MarkRaises(w)
      PROVE  [Lifecycle!LifecycleNext]_(Lifecycle!lifecycleVars)
  BY <1>2, MarkImplements
<1>3. CASE Api
  BY <1>3, ApiImplements
<1>4. CASE UNCHANGED <<documents, stores>>
  BY <1>4 DEF Lifecycle!lifecycleVars, stores, Indexed, InBothStores
<1>5. \A w \in Workers :
        \/ SelectBatch(w) \/ NextRow(w) \/ DeleteEsRaises(w) \/ Publish(w)
        \/ PublishRaises(w) \/ CountRemaining(w) \/ RecordFailure(w) \/ RecordRaises(w)
        \/ PostgresRaises(w) \/ WorkerDies(w)
        => UNCHANGED <<documents, stores>>
  BY DEF SelectBatch, NextRow, DeleteEsRaises, Publish, PublishRaises, CountRemaining,
     RecordFailure, RecordRaises, PostgresRaises, WorkerDies, db
<1> QED
  BY <1>1, <1>2, <1>3, <1>4, <1>5 DEF Next, Iterate, Fault, Outage, vars, db

\* Seen from outside, uploads, relay, retries and deletions make up the life of a
\* document that DocumentLifecycle describes.
THEOREM OutboxImplementsLifecycle == Spec => ImplementsLifecycle
<1>1. Init => Lifecycle!LifecycleInit
  BY InitImplements
<1>2. IInv /\ [Next]_vars => [Lifecycle!LifecycleNext]_(Lifecycle!lifecycleVars)
  BY NextImplements
<1> QED
  BY <1>1, <1>2, Invariance, PTL DEF Spec, ImplementsLifecycle, Lifecycle!LifecycleSpec
=============================================================================
