SPECIFICATION FairSpec
CONSTANTS
  Incoming <- Requests
  Counts <- RecordCounts
  Reasoners = {TRUE, FALSE}
  Now = 10
  DefaultWindow = 4
INVARIANTS
  TypeOK
  NeverSendsOnClosed
  ReportComplete
  HealthyIsKnown
  ReasonerTold
PROPERTY
  RunAnswered
CHECK_DEADLOCK FALSE
