SPECIFICATION FairSpec
CONSTANTS
  first = first
  second = second
  third = third
  fourth = fourth
  Connection <- MCConnection
  None = None
  MaxCrash = 2
  MaxReset = 2
  MaxLate = 1
CHECK_DEADLOCK FALSE
INVARIANT HandshakeTypeOK
INVARIANT RegisteredAlive
INVARIANT OneSibling
INVARIANT OneConnection
PROPERTY LinksRestored
PROPERTY Redialled
