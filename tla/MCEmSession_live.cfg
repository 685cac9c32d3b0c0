SPECIFICATION FairSpec

CONSTANTS
  Features = {"sysCall", "patches", "close"}
  MaxStoppers = 2
  MaxCalls = 2
  MaxCount = 1

PROPERTIES
  StopsAreAnswered
  EmulationGoesOn
  CloseCompletes

CHECK_DEADLOCK FALSE
