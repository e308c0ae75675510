SPECIFICATION FairSpec
CONSTANTS
  Call = {1, 2}
  Incoming <- ClientRequests
  CodexAsks <- CodexRequests
  McpTenant = ""
  AgentTenant = "acme"
  Hour = 6
  Bad = Bad
  UpstreamTimeout = 2
  WriteTimeout = 1
  CodexTimeouts = {1, 3}
  MaxTime = 7
INVARIANTS
  TypeOK
  QueriesFitCall
  ResultIsWhole
  CodexDiesWithCall
PROPERTY
  EveryCallEnds
CHECK_DEADLOCK FALSE
