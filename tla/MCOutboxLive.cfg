\* Two workers, failing stores and Postgres, lost workers: retries end, and so do uploads.
SPECIFICATION FairSpec
CONSTANTS
  Docs = {d1}
  ChunkCount = 2
  DeleteRequests = {}
  Facts = {}
  Workers = {w1, w2}
  MaxRetries = 3
  BatchLimit = 2
  NoDoc = NoDoc
  NoRow = NoRow
  StoresMayFail = TRUE
  PostgresMayFail = TRUE
  WorkersMayDie = TRUE
INVARIANTS ReadyMeansIndexed
PROPERTIES EveryRowSettles UploadSettles OnlyAbortsLoseAnnouncements
CHECK_DEADLOCK FALSE
