SPECIFICATION FairSpec
CONSTANTS
  c1 = c1
  c2 = c2
  c3 = c3
  Clients <- MCClients
INVARIANTS
  TypeOK
  WaitersAreListed
  NoDanglingSocket
  SuspendedForAScript
PROPERTIES
  TimedWaitsEnd
  WaitsEnd
CHECK_DEADLOCK FALSE
