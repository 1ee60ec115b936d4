SPECIFICATION ConnectedSpec
CONSTANTS
  IdMin = 1
  IdMax = 3
  MaxTimeout <- Timeouts110
  MaxRequest = 2
  MaxCrash = 0
  MaxRestart = 0
  MaxReset = 0
  MaxChildLoss = 0
  ChildLossAt = {}
  MaxDiskFault = 0
  MaxDeleteCrash = 0
INVARIANT AppliedAgree
