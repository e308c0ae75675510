SPECIFICATION FairSpec
CONSTANTS
  r1 = r1  r2 = r2  r3 = r3  r4 = r4
  c1 = c1  c2 = c2  k1 = k1  k2 = k2
  UnknownId = u
  NoRequest = NoRequest
  NoKey = NoKey
  NoCall = NoCall
  Request = {r1, r2, r3}
  CaseId = {c1, c2, u}
  Key = {k1, k2}
  Offer <- Contention
  RequestColumn = "text"
  MaxConns = 2
  MaxCrashes = 1
PROPERTY EveryRequestAnswered
