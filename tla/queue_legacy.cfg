CONSTANTS
  g1 = g1
  g2 = g2
  Alien = alien
  None = none
  Gen <- TwoGens
  Interactive <- NoGens
  Legacy <- OldGens
  Supplied <- NoGens
  PendingLimit = 2
  MaxRuns = 1
  MaxFaults = 1
SPECIFICATION Spec
INVARIANT AmbiguousIsResolvable
CHECK_DEADLOCK FALSE
