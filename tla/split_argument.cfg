SPECIFICATION Spec
CONSTANTS
  A = A
  B = B
  Category = {"sibling"}
  Capacity = 8
  MaxPost <- Posts10
  MaxCrash = 0
CHECK_DEADLOCK FALSE
INVARIANT NeverRejected
