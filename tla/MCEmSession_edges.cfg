SPECIFICATION Spec

CONSTANTS
  Features = {"dialogs", "close", "dropDialogs", "softReset", "appResume", "sysCall", "errors", "reset"}
  MaxStoppers = 2
  MaxCalls = 2
  MaxCount = 1

INVARIANTS
  AnswerReachesAsker

CHECK_DEADLOCK FALSE
