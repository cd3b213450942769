SPECIFICATION Spec
CONSTANTS
  Entries <- PlainEntries
  Passwords <- NewPasswords
  InitialFile <- NoFile
  MAX_ROWS = 1000
  MaxNodes = 4
  MaxUid = 1004
  Missing = Missing
  Torn = "cut"
  Closed = Closed
  Lost = Lost
  Nothing = Nothing
  Garbled = Garbled
PROPERTIES
  DirectorySpec
\* A fault may leave the process in a mode no step leaves.
CHECK_DEADLOCK FALSE
