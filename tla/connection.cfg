SPECIFICATION FairSpec
CONSTANTS
  A = A
  B = B
  Category = {"sibling", "server"}
  Capacity = 6
  MaxPost <- Posts21
  MaxCrash = 1
CHECK_DEADLOCK FALSE
INVARIANT ConnectionTypeOK
INVARIANT EventMatchesOutput
INVARIANT StreamInv
PROPERTY StreamOrdered
PROPERTY Delivered
