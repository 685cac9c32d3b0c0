SPECIFICATION FairSpec

CONSTANTS
  Threads = {t1, t2, t3}
  Conditions = {c1}
  NoThread = none

INVARIANTS
  TypeOK
  ListMatchesFlags
  SemaphoreInStep
PROPERTIES
  IsConditionVariable
  WaitsEnd

CHECK_DEADLOCK FALSE
