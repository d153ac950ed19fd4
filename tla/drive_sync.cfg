CONSTANTS
  g1 = g1
  g2 = g2
  Gen = {g1}
  ImageCount <- MCImageCount
  Dest = {d1, d2}
  NoDest = none
  Client = {ui}
  MaxJobs = 2
  MaxRuns = 2
  MaxFaults = 1
SPECIFICATION FairSpec
INVARIANTS SyncedIsOnDrive OneActiveJob ManifestIsCurrent
PROPERTY EveryJobEnds
CHECK_DEADLOCK FALSE
