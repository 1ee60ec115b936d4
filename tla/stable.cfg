SPECIFICATION FairConnectedSpec
CONSTANTS
  IdMin = 1
  IdMax = 3
  MaxTimeout <- Timeouts100
  MaxRequest = 2
  MaxCrash = 0
  MaxRestart = 0
  MaxReset = 1
  MaxChildLoss = 0
  ChildLossAt = {}
  MaxDiskFault = 0
  MaxDeleteCrash = 0
INVARIANT CommittedOnMajority
INVARIANT MatchIndexSound
INVARIANT OneOutstanding
INVARIANT AppliedAgree
PROPERTY RequestsApplied
PROPERTY ImplementsReplicatedLog
