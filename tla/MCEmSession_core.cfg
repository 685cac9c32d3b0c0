SPECIFICATION Spec

CONSTANTS
  Features = {"sysCall", "patches", "signals", "debugger", "reset"}
  MaxStoppers = 2
  MaxCalls = 3
  MaxCount = 1

INVARIANTS
  TypeOK
  StopExcludesGuest
  StoppedAtSysCall
  RunAssertions
  RequestsCounted
  NoLostWakeup
  CallAssertions
