CONSTANTS
  Batch = 2
  MaxStarted = 1
  MaxDirect = 1
  MaxRuns = 2
  MaxFaults = 1
SPECIFICATION FairSpec
INVARIANTS VerdictIsTrue
PROPERTIES DirectWaits RunEnds ProgressSettles
CHECK_DEADLOCK FALSE
