CONSTANTS
  Outputs = 1
  Naming = {"sequence", "fixed"}
  Repairer = {"drive"}
  MaxTroubles = 1
SPECIFICATION FairSpec
PROPERTY FinishedIsSettled
CHECK_DEADLOCK FALSE
