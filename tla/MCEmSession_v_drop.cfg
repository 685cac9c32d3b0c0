SPECIFICATION FairSpec

CONSTANTS
  Features = {"dialogs", "dropDialogs"}
  MaxStoppers = 1
  MaxCalls = 2
  MaxCount = 1

PROPERTIES
  DialogAnswered

CHECK_DEADLOCK FALSE
