------------------------------- MODULE Outbox -------------------------------
(***************************************************************************)
(* Document ingestion and deletion through the transactional outbox: the   *)
(* API side writes documents and outbox rows in one Postgres transaction,  *)
(* and Celery workers run relay_outbox_batch, which copies the rows to     *)
(* Qdrant and Elasticsearch.                                               *)
(***************************************************************************)
EXTENDS Naturals, FiniteSets

CONSTANTS
  Docs,             \* document ids
  ChunkCount,       \* documents.chunk_count
  DeleteRequests,   \* concurrent DELETE /v1/documents/{id} requests
  Facts,            \* semantic_memory rows stored by store_semantic_fact
  Workers,          \* Celery worker processes
  MaxRetries,       \* MAX_RETRIES of the relay
  BatchLimit,       \* LIMIT of the relay's SELECT
  NoDoc,            \* a NULL document_id
  NoRow,            \* the relay's loop variable outside the loop
  StoresMayFail,    \* a Qdrant or Elasticsearch call may raise
  PostgresMayFail,  \* a Postgres call may raise, a COMMIT also after it took effect
  WorkersMayDie     \* a worker process may be lost in the middle of a task

ASSUME OutboxAssumption ==
  /\ ChunkCount \in Nat \ {0}
  /\ MaxRetries \in Nat \ {0}
  /\ BatchLimit \in Nat \ {0}
  /\ {StoresMayFail, PostgresMayFail, WorkersMayDie} \subseteq BOOLEAN

\* A document id is neither NULL nor one of the marks of a delete request.
ASSUME DocsAssumption == Docs \cap {NoDoc, "new", "done"} = {}

VARIABLES
  documents,     \* documents.status, "absent" before the INSERT commits
  status,        \* outbox.status per row, "absent" before the INSERT commits
  retry_count,   \* outbox.retry_count per row
  qdrant, es,    \* points held by Qdrant, entries held by Elasticsearch
  request,       \* per delete request: what delete_document has read so far
  pc, row,       \* per worker: position in relay_outbox_batch, loop variable
  todo,          \* per worker: fetched rows whose iteration has not ended
  seen,          \* per worker: retry_count as the SELECT returned it
  inTx           \* per worker: the SELECT's transaction is still open

db == <<documents, status, retry_count>>
stores == <<qdrant, es>>
batch == <<row, todo, seen>>
vars == <<db, stores, request, pc, batch, inTx>>

(***************************************************************************)
(* Rows and points.  A row is named by what it carries; the ids uuid5(doc, *)
(* index) of the chunks are the pairs of a document and an index.          *)
(***************************************************************************)
Chunks == 0 .. ChunkCount - 1

ChunkRow(d, i) == [operation_type |-> "UPSERT_CHUNK", document_id |-> d, key |-> i]
DeleteRow(d, q) == [operation_type |-> "DELETE_CHUNKS", document_id |-> d, key |-> q]
MemoryRow(f) == [operation_type |-> "UPSERT_MEMORY", document_id |-> NoDoc, key |-> f]

ChunkRows(d) == {ChunkRow(d, i) : i \in Chunks}
DeleteRows(d) == {DeleteRow(d, q) : q \in DeleteRequests}
Row == [operation_type : {"UPSERT_CHUNK"}, document_id : Docs, key : Chunks]
       \cup [operation_type : {"DELETE_CHUNKS"}, document_id : Docs, key : DeleteRequests]
       \cup [operation_type : {"UPSERT_MEMORY"}, document_id : {NoDoc}, key : Facts]

Point == {"memory", "user_docs_default", "user_docs"} \X (Docs \cup {NoDoc})
            \X (Chunks \cup Facts)

\* The collection and id an upsert row writes, and the ones a delete row removes.
UpsertCollection == "user_docs_default"
DeleteCollection == "user_docs"
ChunkPoint(d, i) == <<UpsertCollection, d, i>>
MemoryPoint(f) == <<"memory", NoDoc, f>>
DeleteTargets(d) == {<<DeleteCollection, d, i>> : i \in Chunks}

IsMemory(r) == r.operation_type = "UPSERT_MEMORY"
IsDelete(r) == r.operation_type = "DELETE_CHUNKS"
UpsertPoint(r) ==
  IF IsMemory(r) THEN MemoryPoint(r.key) ELSE ChunkPoint(r.document_id, r.key)

\* ORDER BY created_at, as far as it is told apart here: the rows of a document's
\* upload are older than the rows of its deletion; others come in any order.
Older(r, s) == ~IsDelete(r) /\ IsDelete(s) /\ r.document_id = s.document_id
Oldest(rows) == {r \in rows : \A s \in rows : ~Older(s, r)}

Init ==
  /\ documents = [d \in Docs |-> "absent"]
  /\ status = [r \in Row |-> "absent"]
  /\ retry_count = [r \in Row |-> 0]
  /\ qdrant = {} /\ es = {}
  /\ request = [q \in DeleteRequests |-> "new"]
  /\ pc = [w \in Workers |-> "next"]
  /\ row = [w \in Workers |-> NoRow]
  /\ todo = [w \in Workers |-> {}]
  /\ seen = [w \in Workers |-> [r \in Row |-> 0]]
  /\ inTx = [w \in Workers |-> FALSE]

-----------------------------------------------------------------------------
(***************************************************************************)
(* The API process.                                                        *)
(***************************************************************************)
\* INSERT INTO outbox: server defaults PENDING and 0.
InsertRows(rows) == status' = [r \in Row |-> IF r \in rows THEN "PENDING" ELSE status[r]]

\* ingest_document: the document and one row per chunk, in one commit.
IngestDocument(d) ==
  /\ documents[d] = "absent"
  /\ documents' = [documents EXCEPT ![d] = "processing"]
  /\ InsertRows(ChunkRows(d))
  /\ UNCHANGED <<retry_count, stores, request, pc, batch, inTx>>

\* store_semantic_fact: the fact and its row (document_id NULL), in one commit.
StoreSemanticFact(f) ==
  /\ status[MemoryRow(f)] = "absent"
  /\ InsertRows({MemoryRow(f)})
  /\ UNCHANGED <<documents, retry_count, stores, request, pc, batch, inTx>>

\* delete_document up to its early return: get_document and the status check.
DeleteRead(q, d) ==
  /\ request[q] = "new"
  /\ documents[d] # "absent"
  /\ request' = [request EXCEPT ![q] = IF documents[d] \in {"deleting", "deleted"}
                                       THEN "done" ELSE d]
  /\ UNCHANGED <<db, stores, pc, batch, inTx>>

\* The rest of it: the ORM's UPDATE by primary key and the event, in one commit.
DeleteCommit(q) ==
  /\ request[q] \in Docs
  /\ documents' = [documents EXCEPT ![request[q]] = "deleting"]
  /\ InsertRows({DeleteRow(request[q], q)})
  /\ request' = [request EXCEPT ![q] = "done"]
  /\ UNCHANGED <<retry_count, stores, pc, batch, inTx>>

-----------------------------------------------------------------------------
(***************************************************************************)
(* The relay.  pc: "next" is the head of the loop (nothing to do = between *)
(* two tasks), "qdrant" and "es" the store calls of the handlers,          *)
(* "publish" the UPDATE after them, "count" and "mark" the two statements  *)
(* of _maybe_mark_document_ready, "fail" the except branch.  "aborted" is  *)
(* idle like "next": the last task ended in an exception or was lost.      *)
(***************************************************************************)
\* Rows locked by the open transaction of w's SELECT ... FOR UPDATE.  Its first
\* commit releases all of them, whatever is still in todo[w].
Locked(w) == IF inTx[w] THEN todo[w] ELSE {}

\* Seeded bug: the SELECT takes no row locks.
LockedByNobody(w) == {}

LockedByOthers(w) == UNION {Locked(v) : v \in Workers \ {w}}

\* The SELECT: PENDING rows nobody has locked (SKIP LOCKED), oldest first.
SelectBatch(w) ==
  /\ todo[w] = {}
  /\ \E rows \in SUBSET ({r \in Row : status[r] = "PENDING"} \ LockedByOthers(w)) :
       /\ rows # {}
       /\ Cardinality(rows) <= BatchLimit
       /\ \A r \in rows, s \in Row \ (rows \cup LockedByOthers(w)) :
            status[s] = "PENDING" =>
              /\ Cardinality(rows) = BatchLimit
              /\ ~Older(s, r)
       /\ todo' = [todo EXCEPT ![w] = rows]
       /\ seen' = [seen EXCEPT ![w] = [r \in Row |-> IF r \in rows THEN retry_count[r] ELSE 0]]
  /\ pc' = [pc EXCEPT ![w] = "next"]
  /\ inTx' = [inTx EXCEPT ![w] = TRUE]
  /\ UNCHANGED <<db, stores, request, row>>

\* for row in rows
NextRow(w) ==
  /\ pc[w] = "next"
  /\ \E r \in Oldest(todo[w]) : row' = [row EXCEPT ![w] = r]
  /\ pc' = [pc EXCEPT ![w] = "qdrant"]
  /\ UNCHANGED <<db, stores, request, todo, seen, inTx>>

\* The end of an iteration, back to the head of the loop.
EndRow(w) ==
  /\ pc' = [pc EXCEPT ![w] = "next"]
  /\ row' = [row EXCEPT ![w] = NoRow]
  /\ todo' = [todo EXCEPT ![w] = @ \ {row[w]}]
  /\ seen' = [seen EXCEPT ![w] = [@ EXCEPT ![row[w]] = 0]]

\* An exception leaves the loop: the with block closes the session, which rolls back
\* and releases its locks; the rest of the batch is forgotten and nothing is counted.
Abort(w) ==
  /\ pc' = [pc EXCEPT ![w] = "aborted"]
  /\ row' = [row EXCEPT ![w] = NoRow]
  /\ todo' = [todo EXCEPT ![w] = {}]
  /\ seen' = [seen EXCEPT ![w] = [r \in Row |-> 0]]
  /\ inTx' = [inTx EXCEPT ![w] = FALSE]

\* What the stores hold after the handler's call for r.
QdrantAfter(r) ==
  IF IsDelete(r) THEN qdrant \ DeleteTargets(r.document_id)
                 ELSE qdrant \cup {UpsertPoint(r)}
EsAfter(r) == es \cup {UpsertPoint(r)}

\* The Qdrant call of the handler; the memory handler makes no other call.
CallQdrant(w) ==
  /\ pc[w] = "qdrant"
  /\ qdrant' = QdrantAfter(row[w])
  /\ pc' = [pc EXCEPT ![w] = IF IsMemory(row[w]) THEN "publish" ELSE "es"]
  /\ UNCHANGED <<db, es, request, batch, inTx>>

\* It raises (the embedding model, the network, a timeout after the write).
QdrantRaises(w) ==
  /\ StoresMayFail
  /\ pc[w] = "qdrant"
  /\ qdrant' \in {qdrant, QdrantAfter(row[w])}
  /\ pc' = [pc EXCEPT ![w] = "fail"]
  /\ UNCHANGED <<db, es, request, batch, inTx>>

\* es.index of a chunk row.
CallEs(w) ==
  /\ pc[w] = "es" /\ ~IsDelete(row[w])
  /\ es' = EsAfter(row[w])
  /\ pc' = [pc EXCEPT ![w] = "publish"]
  /\ UNCHANGED <<db, qdrant, request, batch, inTx>>

\* Seeded bug: the handler swallows the exception of es.index.
EsRaisesUnnoticed(w) ==
  /\ StoresMayFail
  /\ pc[w] = "es" /\ ~IsDelete(row[w])
  /\ es' \in {es, EsAfter(row[w])}
  /\ pc' = [pc EXCEPT ![w] = "publish"]
  /\ UNCHANGED <<db, qdrant, request, batch, inTx>>

\* It raises, before or after it took effect.
EsRaises(w) ==
  /\ StoresMayFail
  /\ pc[w] = "es" /\ ~IsDelete(row[w])
  /\ es' \in {es, EsAfter(row[w])}
  /\ pc' = [pc EXCEPT ![w] = "fail"]
  /\ UNCHANGED <<db, qdrant, request, batch, inTx>>

\* es.delete of a delete row: the pinned client (elasticsearch 8.16) has no argument
\* ignore_status and raises TypeError before it sends anything.
DeleteEsRaises(w) ==
  /\ pc[w] = "es" /\ IsDelete(row[w])
  /\ pc' = [pc EXCEPT ![w] = "fail"]
  /\ UNCHANGED <<db, stores, request, batch, inTx>>

\* UPDATE ... 'PUBLISHED' and commit; the UPDATE waits for a lock held by another
\* worker's SELECT.
Publish(w) ==
  /\ pc[w] = "publish"
  /\ row[w] \notin LockedByOthers(w)
  /\ status' = [status EXCEPT ![row[w]] = "PUBLISHED"]
  /\ inTx' = [inTx EXCEPT ![w] = FALSE]
  /\ IF IsMemory(row[w]) THEN EndRow(w)
                         ELSE pc' = [pc EXCEPT ![w] = "count"] /\ UNCHANGED batch
  /\ UNCHANGED <<documents, retry_count, stores, request>>

\* That COMMIT takes effect and raises.  The except branch does not roll back, so its
\* own UPDATE raises as well on the unusable session and the task is over.
PublishRaises(w) ==
  /\ PostgresMayFail
  /\ pc[w] = "publish"
  /\ row[w] \notin LockedByOthers(w)
  /\ status' = [status EXCEPT ![row[w]] = "PUBLISHED"]
  /\ Abort(w)
  /\ UNCHANGED <<documents, retry_count, stores, request>>

\* Seeded bugs: dead-lettered rows count as finished, or no row does.
RemainingPending(d) == {r \in ChunkRows(d) \cup DeleteRows(d) : status[r] = "PENDING"}
RemainingAll(d) == {r \in ChunkRows(d) \cup DeleteRows(d) : status[r] # "absent"}

\* SELECT count(*) ... status != 'PUBLISHED'
Remaining(d) == {r \in ChunkRows(d) \cup DeleteRows(d) : status[r] \in {"PENDING", "DEAD"}}

\* _maybe_mark_document_ready up to its condition.
CountRemaining(w) ==
  /\ pc[w] = "count"
  /\ IF Remaining(row[w].document_id) = {}
     THEN pc' = [pc EXCEPT ![w] = "mark"] /\ UNCHANGED batch
     ELSE EndRow(w)
  /\ UNCHANGED <<db, stores, request, inTx>>

\* Seeded bugs: the literals the repository had before its "FIX" comment, in the
\* SET or in the WHERE clause.
ReadyInCapitals(d) ==
  IF documents[d] = "processing" THEN [documents EXCEPT ![d] = "READY"] ELSE documents
ReadyIfCapitals(d) ==
  IF documents[d] = "PROCESSING" THEN [documents EXCEPT ![d] = "ready"] ELSE documents

\* UPDATE documents ... WHERE status='processing'
ReadyIfProcessing(d) ==
  IF documents[d] = "processing" THEN [documents EXCEPT ![d] = "ready"] ELSE documents

\* Its UPDATE and commit, and the end of the iteration.
MarkReady(w) ==
  /\ pc[w] = "mark"
  /\ documents' = ReadyIfProcessing(row[w].document_id)
  /\ EndRow(w)
  /\ UNCHANGED <<status, retry_count, stores, request, inTx>>

\* Its COMMIT takes effect and raises, with the same end as PublishRaises.
MarkRaises(w) ==
  /\ PostgresMayFail
  /\ pc[w] = "mark"
  /\ documents' = ReadyIfProcessing(row[w].document_id)
  /\ Abort(w)
  /\ UNCHANGED <<status, retry_count, stores, request>>

\* Seeded bugs: off by one at the limit, and a failure that is not written.
CountOneFailureMore(w) ==
  LET new_count == seen[w][row[w]] + 1 IN
  /\ row[w] \notin LockedByOthers(w)
  /\ retry_count' = [retry_count EXCEPT ![row[w]] = new_count]
  /\ status' = [status EXCEPT ![row[w]] = IF new_count > MaxRetries THEN "DEAD" ELSE "PENDING"]
CountNoFailure(w) == row[w] \notin LockedByOthers(w) /\ UNCHANGED <<status, retry_count>>

\* UPDATE retry_count, status: the count comes from the SELECT, not from the table.
CountFailure(w) ==
  LET new_count == seen[w][row[w]] + 1 IN
  /\ row[w] \notin LockedByOthers(w)
  /\ retry_count' = [retry_count EXCEPT ![row[w]] = new_count]
  /\ status' = [status EXCEPT ![row[w]] = IF new_count >= MaxRetries THEN "DEAD" ELSE "PENDING"]

\* The except branch after an exception of a handler: the session is usable.
RecordFailure(w) ==
  /\ pc[w] = "fail"
  /\ CountFailure(w)
  /\ inTx' = [inTx EXCEPT ![w] = FALSE]
  /\ EndRow(w)
  /\ UNCHANGED <<documents, stores, request>>

\* Its COMMIT takes effect and raises, outside any try.
RecordRaises(w) ==
  /\ PostgresMayFail
  /\ pc[w] = "fail"
  /\ CountFailure(w)
  /\ Abort(w)
  /\ UNCHANGED <<documents, stores, request>>

\* A statement or a COMMIT of the relay raises without effect.
PostgresRaises(w) ==
  /\ PostgresMayFail
  /\ pc[w] \in {"publish", "count", "mark", "fail"}
  /\ Abort(w)
  /\ UNCHANGED <<db, stores, request>>

\* The worker process is lost: Postgres drops the open transaction.
WorkerDies(w) ==
  /\ WorkersMayDie
  /\ todo[w] # {}
  /\ Abort(w)
  /\ UNCHANGED <<db, stores, request>>

-----------------------------------------------------------------------------
Api ==
  \/ \E d \in Docs : IngestDocument(d)
  \/ \E f \in Facts : StoreSemanticFact(f)
  \/ \E q \in DeleteRequests : DeleteCommit(q) \/ \E d \in Docs : DeleteRead(q, d)

Iterate(w) ==
  \/ NextRow(w) \/ CallQdrant(w) \/ CallEs(w) \/ DeleteEsRaises(w) \/ Publish(w)
  \/ CountRemaining(w) \/ MarkReady(w) \/ RecordFailure(w)

\* The task ends early, and with it the batch.
Outage(w) ==
  \/ PublishRaises(w) \/ MarkRaises(w) \/ RecordRaises(w) \/ PostgresRaises(w)
  \/ WorkerDies(w)

Fault(w) == QdrantRaises(w) \/ EsRaises(w) \/ Outage(w)

Next == Api \/ \E w \in Workers : SelectBatch(w) \/ Iterate(w) \/ Fault(w)

Spec == Init /\ [][Next]_vars

\* Beat fires every two seconds and a running task goes on: the relay's own steps
\* are fair, requests and faults are not.
FairSpec == Spec /\ \A w \in Workers : WF_vars(SelectBatch(w)) /\ WF_vars(Iterate(w))

-----------------------------------------------------------------------------
(***************************************************************************)
(* Properties.                                                             *)
(***************************************************************************)
\* 'deleted' and 'failed' are in the schema's check constraint; nothing assigns
\* them.
DocumentStatus == {"absent", "processing", "ready", "deleting"}
RowStatus == {"absent", "PENDING", "PUBLISHED", "DEAD"}
Position == {"next", "qdrant", "es", "publish", "count", "mark", "fail", "aborted"}

\* The variables hold values of the columns, stores and locals they stand for.
TypeOK ==
  /\ documents \in [Docs -> DocumentStatus]
  /\ status \in [Row -> RowStatus]
  /\ retry_count \in [Row -> Nat]
  /\ qdrant \subseteq Point
  /\ es \subseteq Point
  /\ request \in [DeleteRequests -> Docs \cup {"new", "done"}]
  /\ pc \in [Workers -> Position]
  /\ row \in [Workers -> Row \cup {NoRow}]
  /\ todo \in [Workers -> SUBSET Row]
  /\ seen \in [Workers -> [Row -> Nat]]
  /\ inTx \in [Workers -> BOOLEAN]

InBothStores(d, i) == ChunkPoint(d, i) \in qdrant \cap es

\* A document announced as ready has every chunk in both search stores, whichever
\* worker wrote it and however many retries, stale batches, lost workers and
\* ambiguous commits lie in between.
ReadyMeansIndexed ==
  \A d \in Docs : documents[d] = "ready" => \A i \in Chunks : InBothStores(d, i)

\* A PUBLISHED upsert has really been applied (to both stores for a chunk) unless
\* the deletion of its document was requested.
PublishedMeansWritten ==
  /\ \A d \in Docs, i \in Chunks :
       status[ChunkRow(d, i)] = "PUBLISHED" /\ documents[d] # "deleting" => InBothStores(d, i)
  /\ \A f \in Facts : status[MemoryRow(f)] = "PUBLISHED" => MemoryPoint(f) \in qdrant

\* While a worker's SELECT transaction is open its batch is exclusively its own and
\* its copy of the rows is current: no other worker publishes them, fails them or
\* fetches them.  (After the first commit of the batch this no longer holds.)
LockedRowsAreFresh ==
  \A w \in Workers : \A r \in Locked(w) :
    /\ status[r] = "PENDING"
    /\ seen[w][r] = retry_count[r]
    /\ r \notin LockedByOthers(w)

\* The dead-letter rule survives stale writes of retry_count: a row still to be
\* retried has attempts left, a DEAD row has used all of them.
RetryCountMatchesStatus ==
  \A r \in Row :
    /\ status[r] = "PENDING" => retry_count[r] < MaxRetries
    /\ status[r] = "DEAD" => retry_count[r] = MaxRetries

\* The outbox is transactional: a document row exists exactly when its upsert
\* events do, and is 'deleting' exactly when a delete event was queued.
EventsMatchDocuments ==
  \A d \in Docs :
    /\ \A r \in ChunkRows(d) : documents[d] = "absent" <=> status[r] = "absent"
    /\ documents[d] = "deleting" <=> \E r \in DeleteRows(d) : status[r] # "absent"

\* No late "all chunks published" brings a document back once it is being deleted.
DeletionIsFinal ==
  [][\A d \in Docs : documents[d] = "deleting" => documents'[d] = "deleting"]_vars

\* The abstract state: the status column, and the chunks both stores hold.
Indexed == {p \in Docs \X Chunks : InBothStores(p[1], p[2])}
Lifecycle == INSTANCE DocumentLifecycle WITH indexed <- Indexed

\* Every behaviour of the API, the relay and the faults is, under that mapping, a
\* behaviour of DocumentLifecycle.
ImplementsLifecycle == Lifecycle!LifecycleSpec

\* w is about to count the rows of d, or has counted them and is about to mark d.
Announcing(w, d) == pc[w] \in {"count", "mark"} /\ row[w].document_id = d

\* All rows of a document are PUBLISHED and no worker is on its way to announce it:
\* nothing in the repository will ever set it to "ready".
Unannounced(d) ==
  /\ documents[d] = "processing" /\ Remaining(d) = {}
  /\ ~\E w \in Workers : Announcing(w, d)

\* A task of w ends early, by an exception of Postgres or with its process.
Aborts(w) == pc[w] # "aborted" /\ pc'[w] = "aborted"

\* However two workers share the rows of an upload, each seeing the other's
\* unpublished, and however stale copies un-publish them: the announcement is lost
\* only by a task that ends between the commit of PUBLISHED and that of "ready".
OnlyAbortsLoseAnnouncements ==
  [][\A d \in Docs : Unannounced(d)' => Unannounced(d) \/ \E w \in Workers : Aborts(w)]_vars

\* What the relay needs of Postgres and of the worker pool to get anywhere: a commit
\* that fails each time leaves its row PENDING, uncounted, for ever.
OutagesEnd == <>[][\A w \in Workers : ~Aborts(w)]_vars

\* An upload does not hang in "processing" once tasks run to their end: it becomes
\* ready, unless it is deleted, one of its rows is dead-lettered, or an earlier abort
\* has lost its announcement.
UploadSettles ==
  OutagesEnd => \A d \in Docs : documents[d] = "processing" ~>
    \/ documents[d] \in {"ready", "deleting"}
    \/ \E r \in ChunkRows(d) : status[r] = "DEAD"
    \/ Unannounced(d)

\* No row is retried for ever once tasks run to their end: it is published or
\* dead-lettered, although a stale worker may lower its retry_count or revive it.
EveryRowSettles ==
  OutagesEnd => \A r \in Row : status[r] = "PENDING" ~> status[r] \in {"PUBLISHED", "DEAD"}

-----------------------------------------------------------------------------
(***************************************************************************)
(* The inductive invariant behind the safety properties (OutboxProofs).    *)
(***************************************************************************)
\* A worker inside the loop works on a row of its batch, fetched while it had
\* attempts left; only rows of documents reach _maybe_mark_document_ready.
BatchesConsistent ==
  \A w \in Workers :
    /\ pc[w] \notin {"next", "aborted"} => row[w] \in todo[w]
    /\ pc[w] = "aborted" => todo[w] = {}
    /\ pc[w] \in {"es", "count", "mark"} => ~IsMemory(row[w])
    /\ \A r \in todo[w] : status[r] # "absent" /\ seen[w][r] < MaxRetries

Deleting(d) == documents[d] = "deleting"

\* What the store calls made so far have achieved, for the row in hand and, at the
\* "ready" UPDATE, for the whole document.
CallsTakeEffect ==
  \A w \in Workers, d \in Docs, i \in Chunks :
    /\ pc[w] = "es" /\ row[w] = ChunkRow(d, i) => ChunkPoint(d, i) \in qdrant \/ Deleting(d)
    /\ pc[w] \in {"publish", "count", "mark"} /\ row[w] = ChunkRow(d, i) =>
         InBothStores(d, i) \/ Deleting(d)
    /\ pc[w] = "mark" /\ row[w].document_id = d => InBothStores(d, i) \/ Deleting(d)

\* The same for the one call of the memory handler.
FactsTakeEffect ==
  \A w \in Workers, f \in Facts :
    pc[w] \in {"publish", "count", "mark"} /\ row[w] = MemoryRow(f) => MemoryPoint(f) \in qdrant

\* A delete request works on an existing document and queues its event once.
RequestsConsistent ==
  /\ \A q \in DeleteRequests : request[q] \in Docs => documents[request[q]] # "absent"
  /\ \A d \in Docs, q \in DeleteRequests :
       status[DeleteRow(d, q)] # "absent" => request[q] = "done"
  /\ \A r \in Row : status[r] = "absent" => retry_count[r] = 0

\* Together they are preserved by every step.
IInv ==
  /\ TypeOK
  /\ BatchesConsistent /\ CallsTakeEffect /\ FactsTakeEffect /\ RequestsConsistent
  /\ EventsMatchDocuments /\ LockedRowsAreFresh /\ RetryCountMatchesStatus
  /\ PublishedMeansWritten /\ ReadyMeansIndexed

-----------------------------------------------------------------------------
(***************************************************************************)
(* A statement of the repository that the code does not keep.              *)
(***************************************************************************)
\* README "Removes from Postgres, Qdrant, and Elasticsearch": once the relay is done
\* with the delete event, no chunk of the document is left.
DeletedMeansRemoved ==
  \A d \in Docs : \A r \in DeleteRows(d) : status[r] \in {"PUBLISHED", "DEAD"} =>
    \A i \in Chunks : ChunkPoint(d, i) \notin qdrant \cup es
=============================================================================
