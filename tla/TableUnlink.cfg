SPECIFICATION Spec
CONSTANTS
  Entries <- PlainEntries
  Passwords <- NewPasswords
  InitialFile <- ThreeLines
  MAX_ROWS = 1000
  MaxNodes = 4
  MaxUid = 1003
  Missing = Missing
  Torn = "cut"
  Closed = Closed
  Lost = Lost
  Nothing = Nothing
  Garbled = Garbled
PROPERTIES
  DeletedIsUnlinked
\* A fault may leave the process in a mode no step leaves.
CHECK_DEADLOCK FALSE
