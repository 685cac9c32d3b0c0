SPECIFICATION FairSpec
CONSTANTS
  Infos <- MCInfos
  kMaxCounter = 7
  kMaxPens = 1
  kMaxUser = 1
INVARIANTS
  OneRequest
  SuspendedInStep
  RightGremlinRuns
  NoEventLost
  EndsWhenDone
PROPERTY HordeEnds
CHECK_DEADLOCK FALSE
