SPECIFICATION AfterTwoElectionsSpec
CONSTANTS
  IdMin = 1
  IdMax = 3
  MaxTimeout <- Timeouts210
  MaxRequest = 1
  MaxCrash = 0
  MaxRestart = 0
  MaxReset = 0
  MaxChildLoss = 1
  ChildLossAt = {2}
  MaxDiskFault = 1
  MaxDeleteCrash = 0
INVARIANT LeaderKnowsLastEntry
INVARIANT NextIndexPositive
PROPERTY TermNeverDecreases
