\* Queries one after the other, Redis up, the TTL running out in between; then the
\* end of the session, its executions failing and delivered again.
SPECIFICATION FairSpec
CONSTANTS
  TheSession = s1
  Sessions <- OneSession
  Queries = {q1, q2, q3}
  EndRequests = {e1, e2}
  SessionOf <- AllOfOneSession
  Window = 3
  MaxTaskRetries = 3
  TaskFailures = 3
  Overlapping = FALSE
  RedisMayFail = FALSE
  ExpiresMidQuery = FALSE
  ApiMayDie = FALSE
  AcksMayBeLost = TRUE
INVARIANTS WorkingMemoryIsLastTurns
PROPERTIES EndedSessionIsSummarized
CHECK_DEADLOCK FALSE
