\* One query of a session: all rankings of four chunks, all replies, two retries.
SPECIFICATION FairSpec
CONSTANTS
  q1 = q1
  q2 = q2
  c1 = c1
  c2 = c2
  c3 = c3
  c4 = c4
  k1 = k1
  k2 = k2
  Queries = {q1}
  InSession = {q1}
  Chunks = {c1, c2, c3, c4}
  Tokens <- Sizes
  Braced = {c4}
  Claims = {k1, k2}
  ChunkBudget = 3
  HistoryTurns = 6
  TopK = 3
  RecallK = 2
  RecallCap = 4
  MaxRetries = 2
  Window = 6
  CallsMayFail = TRUE
INVARIANTS TypeOK PassIsEarned RoundsAreCounted AuditedAsAnswered ContextIsFull
PROPERTIES QueryEnds
\* Every query ends.
CHECK_DEADLOCK FALSE
