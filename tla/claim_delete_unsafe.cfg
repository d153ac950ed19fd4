CONSTANTS
  Gen = {g1, g2}
  Coordinator = auto
  Manual = {m1}
  MaxRuns = 1
  MaxFaults = 0
SPECIFICATION Spec
INVARIANT DeleteIsAlwaysSafe
CHECK_DEADLOCK FALSE
