CONSTANTS
  None = none
  MaxVersion = 1
  MaxRuns = 3
SPECIFICATION Spec
INVARIANT RestoredWorkIsReconciled
CHECK_DEADLOCK FALSE
