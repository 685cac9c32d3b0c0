SPECIFICATION FairSpec

CONSTANTS
  Features = {"sysCall", "patches", "dialogs", "close"}
  MaxStoppers = 1
  MaxCalls = 2
  MaxCount = 1

INVARIANTS
  NestLevelCounts

PROPERTIES
  DialogAnswered

CHECK_DEADLOCK FALSE
