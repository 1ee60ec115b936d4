SPECIFICATION Spec
CONSTANTS
  IdMin = 1
  IdMax = 1
  MaxTimeout <- Timeouts3
  MaxRequest = 2
  MaxCrash = 1
  MaxRestart = 1
  MaxReset = 0
  MaxChildLoss = 1
  ChildLossAt = {1}
  MaxDiskFault = 1
  MaxDeleteCrash = 0
INVARIANT LeaderKnowsLastEntry
