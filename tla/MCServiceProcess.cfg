SPECIFICATION FairSpec
CONSTANTS
  r1 = r1  r2 = r2  x = x  y = y
  Request = {r1, r2}
  Record = {x, y}
  Services = {"agent", "gateway", "mcp", "bridge"}
  Asks <- Clients
  PoolSize = 1
  MaxLives = 2
INVARIANTS
  TypeOK
  NoTransactionCut
  CutExplained
  TasksReadable
  StreamComplete
PROPERTIES
  Stops
CHECK_DEADLOCK FALSE
