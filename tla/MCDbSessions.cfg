\* A request of any route and two of other routes, on two connections.
SPECIFICATION FairSpec
CONSTANTS
  r1 = r1
  r2 = r2
  r3 = r3
  u1 = u1
  u2 = u2
  Requests = {r1, r2, r3}
  UserOf <- TheirUsers
  RoutesOf <- Mixed
  Connections = {c1, c2}
  Nobody = Nobody
  NoConnection = NoConnection
  CallsMayFail = TRUE
INVARIANTS TypeOK OwnIdentityOnly DurableInFull
PROPERTIES RequestsEnd
CHECK_DEADLOCK FALSE
