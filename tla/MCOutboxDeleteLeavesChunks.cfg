\* One worker, no fault: what a carried out deletion leaves behind.
SPECIFICATION Spec
CONSTANTS
  Docs = {d1}
  ChunkCount = 2
  DeleteRequests = {q1}
  Facts = {}
  Workers = {w1}
  MaxRetries = 5
  BatchLimit = 100
  NoDoc = NoDoc
  NoRow = NoRow
  StoresMayFail = FALSE
  PostgresMayFail = FALSE
  WorkersMayDie = FALSE
INVARIANTS DeletedMeansRemoved
CHECK_DEADLOCK FALSE
