SPECIFICATION FairSpec
CONSTANTS
  Sessions = {s1, s2}
  Requests <- Waiting
  NoRequest = NoRequest
  NoRow = NoRow
  Entries <- NewUsers
  Passwords <- NewPasswords
  InitialFile <- AdminAndAna
  MAX_ROWS = 1000
  MaxNodes = 4
  MaxUid = 1003
  Missing = Missing
  Torn = "cut"
INVARIANT
  DbsTypeOK
PROPERTIES
  Answered
  BlockTakesEffect
\* A fault may leave the process in a mode no step leaves.
CHECK_DEADLOCK FALSE
