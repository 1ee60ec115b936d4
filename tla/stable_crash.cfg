SPECIFICATION ConnectedSpec
CONSTANTS
  IdMin = 1
  IdMax = 3
  MaxTimeout <- Timeouts100
  MaxRequest = 2
  MaxCrash = 1
  MaxRestart = 1
  MaxReset = 0
  MaxChildLoss = 0
  ChildLossAt = {}
  MaxDiskFault = 0
  MaxDeleteCrash = 0
INVARIANT TypeOK
INVARIANT CommittedOnMajority
INVARIANT LeaderIdConnected
INVARIANT LinkInv
INVARIANT ElectionInv
INVARIANT NeverExits
