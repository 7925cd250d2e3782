\* All faults; two workers sharing the rows of a document, of its deletion and of a fact.
SPECIFICATION Spec
CONSTANTS
  Docs = {d1}
  ChunkCount = 1
  DeleteRequests = {q1}
  Facts = {f1}
  Workers = {w1, w2}
  MaxRetries = 2
  BatchLimit = 2
  NoDoc = NoDoc
  NoRow = NoRow
  StoresMayFail = TRUE
  PostgresMayFail = TRUE
  WorkersMayDie = TRUE
SYMMETRY WorkerSymmetry
INVARIANTS TypeOK PublishedMeansWritten LockedRowsAreFresh RetryCountMatchesStatus
PROPERTIES ImplementsLifecycle
\* The system comes to rest when every row is settled.
CHECK_DEADLOCK FALSE
