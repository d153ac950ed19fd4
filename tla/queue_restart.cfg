CONSTANTS
  g1 = g1
  g2 = g2
  Alien = alien
  None = none
  Gen <- TwoGens
  Interactive <- NoGens
  Legacy <- NoGens
  Supplied <- TwoGens
  PendingLimit = 2
  MaxRuns = 2
  MaxFaults = 0
SPECIFICATION Spec
SYMMETRY GenSymmetry
INVARIANTS AtMostOnePost ClaimsAreRecoverable CancelledMeansStopped
PROPERTIES PostInOrder TerminalIsFinal
