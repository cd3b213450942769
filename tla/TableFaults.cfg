SPECIFICATION Spec
CONSTANTS
  Entries <- RawEntries
  Passwords <- OldPasswords
  InitialFile <- TwoLines
  MAX_ROWS = 1000
  MaxNodes = 4
  MaxUid = 1003
  Missing = Missing
  Torn = "cut"
  Closed = Closed
  Lost = Lost
  Nothing = Nothing
  Garbled = Garbled
INVARIANTS
  TypeOK
  UidsIncrease
  RowsCountLive
\* A fault may leave the process in a mode no step leaves.
CHECK_DEADLOCK FALSE
