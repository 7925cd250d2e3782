\* A login, a refresh, a logout and a logout everywhere beside an earlier login.
SPECIFICATION Spec
CONSTANTS
  e1 = e1
  e2 = e2
  name = name
  other = other
  l0 = l0
  Registrations = {}
  AdminRuns = {}
  Existing = {e1, e2}
  Names = {name, other}
  NameGiven <- Given
  Lower <- Folded
  CommitsMayFail = TRUE
  Logins = {l0, l1}
  Refreshes = {r1}
  Logouts = {o1}
  LogoutAlls = {a1}
  LoggedIn <- Earlier
  NoUser = NoUser
  CallsMayFail = TRUE
INVARIANTS TypeOK LogoutAllRevokes LostForAReason
PROPERTIES RevokedIsRefused
CHECK_DEADLOCK FALSE
