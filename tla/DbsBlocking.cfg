SPECIFICATION DbsSpec
CONSTANTS
  Sessions = {s1, s2, s3}
  Requests <- Blocking
  NoRequest = NoRequest
  NoRow = NoRow
  Entries <- NewUsers
  Passwords <- NewPasswords
  InitialFile <- AdminAndAna
  MAX_ROWS = 1000
  MaxNodes = 4
  MaxUid = 1003
  Missing = Missing
  Torn = "cut"
SYMMETRY SessionSymmetry
PROPERTIES
  ExclusiveOnceDrained
  OrphanLockIsForever
\* A fault may leave the process in a mode no step leaves.
CHECK_DEADLOCK FALSE
