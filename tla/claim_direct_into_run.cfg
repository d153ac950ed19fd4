CONSTANTS
  Batch = 2
  MaxStarted = 1
  MaxDirect = 1
  MaxRuns = 1
  MaxFaults = 0
SPECIFICATION Spec
PROPERTY OwnsTheQueue
CHECK_DEADLOCK FALSE
