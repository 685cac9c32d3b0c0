SPECIFICATION FairSpec
CONSTANTS
  Recordings <- MCRecordings
  Guests <- MCGuests
  OffEvents <- MCOffEvents
  kMaxRange = 2
INVARIANTS
  TypeOK
  StackCoversRest
  ErrorKept
  ResultIsMinimal
  LastPassEndsInError
PROPERTY SearchEnds
CHECK_DEADLOCK FALSE
