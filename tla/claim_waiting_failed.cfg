CONSTANTS
  g1 = g1
  g2 = g2
  Alien = alien
  None = none
  Gen <- OneGen
  Interactive <- NoGens
  Legacy <- NoGens
  Supplied <- OneGen
  PendingLimit = 2
  MaxRuns = 2
  MaxFaults = 0
SPECIFICATION RSpec
PROPERTY StaleMeansStalled
