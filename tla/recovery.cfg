CONSTANTS
  g1 = g1
  g2 = g2
  Alien = alien
  None = none
  Gen <- OneGen
  Interactive <- NoGens
  Legacy <- NoGens
  Supplied <- OneGen
  PendingLimit = 2
  MaxRuns = 2
  MaxFaults = 1
SPECIFICATION RSpec
PROPERTIES KeepsPromise SettledIsFinal RecoverySparesRunning CancelIsAnsweredAnyway
