SPECIFICATION DbsSpec
CONSTANTS
  Sessions = {s1, s2}
  Requests <- NoRollback
  NoRequest = NoRequest
  NoRow = NoRow
  Entries <- NewUsers
  Passwords <- NewPasswords
  InitialFile <- AdminAndAna
  MAX_ROWS = 1000
  MaxNodes = 5
  MaxUid = 1004
  Missing = Missing
  Torn = "cut"
SYMMETRY SessionSymmetry
INVARIANT
  IdentityStable
PROPERTY
  OkActsOnNamed
\* A fault may leave the process in a mode no step leaves.
CHECK_DEADLOCK FALSE
