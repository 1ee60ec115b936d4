SPECIFICATION FairSpec
CONSTANTS
  c1 = c1
  c2 = c2
  Key <- MCKey
  Value <- MCValue
  Missing = Missing
  ServerTotal = 2
  Hash <- MCHash
  Persistent <- MCPersistent
  Client <- MCClient
  Script <- MCScript
  Foreign <- MCForeign
  MaxEntry = 3
  MaxTimeout = 2
  MaxForeign = 1
  MaxLost = 1
  MaxQuit = 1
  MaxDisturbance = 3
CHECK_DEADLOCK FALSE
PROPERTY CatchesUp
INVARIANT ServingTypeOK
INVARIANT AnswersExpected
INVARIANT AnsweredRequestKept
INVARIANT NeverFromFuture
INVARIANT FlushedValue
INVARIANT RestartRestores
