SPECIFICATION Spec
CONSTANTS
  c1 = c1
  k1 = k1
  UnknownId = u
  NoRequest = NoRequest
  NoKey = NoKey
  NoCall = NoCall
  Request = {1, 2, 3, 4, 5, 6, 7, 8, 9}
  CaseId = {c1, u}
  Key = {k1}
  Accepts <- Anything
CONSTRAINT OneByOne
INVARIANTS
  ExecutionIsApproved
  ClosedIsFinal
CHECK_DEADLOCK FALSE
