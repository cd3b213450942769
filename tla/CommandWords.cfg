SPECIFICATION Spec
CONSTANTS
  Lines <- LongLines
  Junk <- SomeJunk
  NULL = NULL
  Uninitialised = Uninitialised
  Freed = Freed
INVARIANTS
  CommandTypeOK
  SplitIsExact
  TypedWordsArrive
\* The client ends at the end of its input.
CHECK_DEADLOCK FALSE
