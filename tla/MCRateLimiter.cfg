\* A key shared by two routes of one window, with every interleaving and losses.
SPECIFICATION Spec
CONSTANTS
  i1 = i1
  q1 = q1
  q2 = q2
  q3 = q3
  Requests <- UserRequests
  LimitOf <- UserLimits
  WindowOf <- UserWindows
  Second = 1
  MaxTime = 5
  MayDie = TRUE
SYMMETRY QuerySymmetry
PROPERTIES AdmittedBelowLimit DeniedWhenFull DenialIsAnswered
\* The clock stops at its bound.
CHECK_DEADLOCK FALSE
