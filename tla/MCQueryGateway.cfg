SPECIFICATION Spec
CONSTANTS
  r1 = r1  r2 = r2  r3 = r3
  Request = {r1, r2, r3}
  Tenant = {"a", "b", "b|5m"}
  Query <- Queries
  QueryTemplates <- Templates
  Features <- Deployments
  HttpRequest <- Clients
  Meaning <- Meanings
  Spelling <- Texts
  Sources <- Tables
  Literal = {"error", "web", "api"}
  Label = {"app", "kind"}
  Needle = {"api"}
  Number = {"9"}
  Stream = {"shop"}
  RequestTimeout = 2
  FetchTimeout = 1
  MaxTime = 5
  Burst = 1
  Refill = 1
  Window = 2
  KeyTTL = 1
  MaxRotations = 1
  CacheTTL = 1
INVARIANTS
  TypeOK
  QuotaHolds
PROPERTIES
  AnswerFitsRequest
  AnswersWhatIsMeant
  AnswerIsFresh
  KeysFollowRotation
CHECK_DEADLOCK FALSE
