\* Four creators of accounts, three of them for one name; commits fail.
SPECIFICATION AccountsSpec
CONSTANTS
  g1 = g1
  g2 = g2
  s1 = s1
  s2 = s2
  e1 = e1
  name = name
  Capital = Capital
  other = other
  Registrations = {g1, g2}
  AdminRuns = {s1, s2}
  Existing = {e1}
  Names = {name, Capital, other}
  NameGiven <- Given
  Lower <- Folded
  CommitsMayFail = TRUE
INVARIANTS NamesAreUnique
CHECK_DEADLOCK FALSE
