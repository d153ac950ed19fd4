CONSTANTS
  m1 = m1
  m2 = m2
  Model = {m1}
  Version = {v1, v2}
  NoVersion = none
  Client = {ui}
  Restorer = restorer
  Wanted = {m1}
  MaxRequests = 1
  MaxChanges = 1
  MaxRuns = 2
  MaxFaults = 1
SPECIFICATION FairSpec
INVARIANTS ReadyMeansPrepared
PROPERTIES CompletionMatchesFile TerminalStays EveryTransferEnds RestoreDecides
CHECK_DEADLOCK FALSE
