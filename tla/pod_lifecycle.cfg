CONSTANTS
  Gen = {g1}
  Coordinator = auto
  Manual = {m1}
  MaxRuns = 2
  MaxFaults = 1
SPECIFICATION FairSpec
INVARIANTS OneDelete DeleteIsSafe
PROPERTIES NoWorkAfterDelete DrainingEnds QuietPodIsTerminated
