SPECIFICATION Spec
CONSTANTS
  Infos <- MCInfos
  kMaxCounter = 7
  kMaxPens = 1
  kMaxUser = 1
INVARIANT NoEventsAtRoot
CHECK_DEADLOCK FALSE
