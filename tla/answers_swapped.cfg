SPECIFICATION Spec
CONSTANTS
  c1 = c1
  c2 = c2
  Key <- MCKey
  Value <- MCValue
  Missing = Missing
  ServerTotal = 2
  Hash <- MCHash
  Persistent <- MCPersistent
  Client <- MCClient
  Script <- MCScript
  Foreign <- MCForeign
  MaxEntry = 3
  MaxTimeout = 1
  MaxForeign = 0
  MaxLost = 0
  MaxQuit = 0
  MaxDisturbance = 1
CHECK_DEADLOCK FALSE
INVARIANT AnswerIsOwn
