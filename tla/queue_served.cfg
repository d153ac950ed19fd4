CONSTANTS
  g1 = g1
  g2 = g2
  Alien = alien
  None = none
  Gen <- TwoGens
  Interactive <- TwoGens
  Legacy <- NoGens
  Supplied <- NoGens
  PendingLimit = 2
  MaxRuns = 1
  MaxFaults = 0
SPECIFICATION FairSpec
INVARIANT FailedRunStops
PROPERTY EveryRowIsServed
