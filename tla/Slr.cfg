SPECIFICATION FairSpec
CONSTANTS
  s1 = s1
  c1 = c1
  Servers <- OneServer
  Clients <- OneClient
  HostOf <- OneHost
  AddressOf <- TheirPorts
  ResourceOf <- OneName
  Faults = {"lose", "kill"}
  MaxDuplicates = 1
  Locator = Locator
  None = None
  Garbage = Garbage
INVARIANTS
  SlrTypeOK
  FoundWasAsked
PROPERTY
  StuckOnlyIfMissed
\* Every program comes to an end, or serves.
CHECK_DEADLOCK FALSE
