SPECIFICATION FairSpec
CONSTANTS
  MAX_BUFFER_DATA_SIZE = 4
  Commands <- TypedCommands
  Results <- ManyResults
  SERVER_VERSION <- Version
  NOT_SESSION <- NoSession
  INVALID_OPERATION <- Invalid
  NULL = NULL
INVARIANTS
  SessionTypeOK
  ServedIsAsked
PROPERTIES
  ExchangeSpec
  RequestEnds
  ThreadEnds
  IdleIsDropped
\* A session ends.
CHECK_DEADLOCK FALSE
