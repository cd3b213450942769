SPECIFICATION Spec
CONSTANTS
  Entries <- Plain
  Passwords <- OldPasswords
  InitialFile <- ThreeLines
  MAX_ROWS = 1000
  MaxNodes = 4
  MaxUid = 1004
  Missing = Missing
  Torn = "cut"
INVARIANTS
  HeapTypeOK
  LastIsTail
PROPERTY
  ListSpec
\* A fault may leave the process in a mode no step leaves.
CHECK_DEADLOCK FALSE
