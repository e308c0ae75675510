SPECIFICATION FairSpec
CONSTANTS
  p1 = p1  p2 = p2  c1 = c1  c2 = c2
  Publisher = {p1, p2}
  CaseId = {c1, c2}
  Deployments <- SingleOrPair
  BatchLimit = 2
  MaxRows = 3
INVARIANTS
  TypeOK
  MarkedWasHanded
  RepetitionsExplained
  OvertakenIsInHand
PROPERTIES
  ImplementsChannel
  EveryRowSent
