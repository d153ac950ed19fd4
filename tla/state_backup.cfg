CONSTANTS
  None = none
  MaxVersion = 2
  MaxRuns = 3
SPECIFICATION FairSpec
INVARIANTS PointerIsComplete CleanMeansCovered NothingConfirmedIsLost
PROPERTY DirtyIsBackedUp
CHECK_DEADLOCK FALSE
