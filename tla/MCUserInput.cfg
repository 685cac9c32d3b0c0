SPECIFICATION FairSpec
CONSTANTS
  Places <- MCPlaces
  Buttons <- MCButtons
  PowerButton = "power"
  kMaxPosts = 3
INVARIANTS
  TypeOK
  NoEventSleptOver
  NothingStaysPressed
PROPERTY InputIsTaken
CHECK_DEADLOCK FALSE
