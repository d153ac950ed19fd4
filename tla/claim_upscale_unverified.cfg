CONSTANTS
  Parent = {g1}
  Imported = {i1}
  Described = {}
  NoSource = none
  Upscaler = {u1}
  NoModel = nomodel
  Sizing <- MCSizing
  SourceSize <- MCSourceSize
  Limit <- MCLimit
  MaxPending = 1
  MaxJobs = 2
  MaxChoices = 3
  MaxRuns = 1
  MaxFaults = 1
SPECIFICATION Spec
INVARIANTS UploadsRegistered
CHECK_DEADLOCK FALSE
