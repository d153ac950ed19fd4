CONSTANTS
  g1 = g1
  g2 = g2
  Gen = {g2}
  ImageCount <- MCImageCount
  Dest = {d1}
  NoDest = none
  Client = {queue, ui}
  MaxJobs = 3
  MaxRuns = 1
  MaxFaults = 1
SPECIFICATION Spec
PROPERTY SyncedNeedsConfirmation
CHECK_DEADLOCK FALSE
