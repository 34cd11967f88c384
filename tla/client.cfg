SPECIFICATION FairSpec
CONSTANTS
  MaxFaults = 1
  MaxBurst = 1
  MaxChanges = 2
INVARIANTS
  TypeOK
  NoLeak
  PanicsOnlyAtEnd
PROPERTIES
  ShutdownCompletes
  Reconnects
  SendersEnd
CHECK_DEADLOCK FALSE
