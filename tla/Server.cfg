\* A connection with every kind of request, and the process around it.
SPECIFICATION FairSpec
CHECK_DEADLOCK FALSE
CONSTANTS
  Menu <- FullMenu
  Configs <- AllConfigs
  MaxBody = 2
  MaxInterrupts = 2
INVARIANTS
  FramingKept
  RepliesPair
  WritesAreAdmitted
  WriteStatusIsTrue
  CleanExit
PROPERTIES
  RequestsEnd
  ShutdownEnds
