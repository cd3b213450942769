SPECIFICATION DbsSpec
CONSTANTS
  Sessions = {s1, s2}
  Requests <- NoRollback
  NoRequest = NoRequest
  NoRow = NoRow
  Entries <- NewUsers
  Passwords <- NewPasswords
  InitialFile <- AdminOnly
  MAX_ROWS = 1000
  MaxNodes = 4
  MaxUid = 1003
  Missing = Missing
  Torn = "cut"
INVARIANTS
  UniqueUsers
\* A fault may leave the process in a mode no step leaves.
CHECK_DEADLOCK FALSE
