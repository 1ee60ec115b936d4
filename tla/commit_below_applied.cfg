SPECIFICATION ConnectedSpec
CONSTANTS
  IdMin = 1
  IdMax = 3
  MaxTimeout <- Timeouts200
  MaxRequest = 2
  MaxCrash = 0
  MaxRestart = 0
  MaxReset = 0
  MaxChildLoss = 1
  ChildLossAt = {1}
  MaxDiskFault = 0
  MaxDeleteCrash = 0
INVARIANT NeverExitsCommitBelowApplied
