\* Two overlapping queries and two end requests, with every fault.
SPECIFICATION Spec
CONSTANTS
  TheSession = s1
  Sessions <- OneSession
  Queries = {q1, q2}
  EndRequests = {e1, e2}
  SessionOf <- AllOfOneSession
  Window = 3
  MaxTaskRetries = 3
  TaskFailures = 1
  Overlapping = TRUE
  RedisMayFail = TRUE
  ExpiresMidQuery = TRUE
  ApiMayDie = TRUE
  AcksMayBeLost = TRUE
SYMMETRY RequestSymmetry
INVARIANTS TypeOK WorkingMemoryIsDurable TurnCountAtMostTurns QuestionsPrecedeAnswers EnqueuedOnce
CHECK_DEADLOCK FALSE
