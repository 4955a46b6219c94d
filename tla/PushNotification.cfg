SPECIFICATION Spec
CONSTANTS
  Tick = {t1, t2, t3}
  NULL = NULL
  MaxFailures = 3
INVARIANTS
  TypeOK
  OneSender
  MarkedMeansCreated
  ExtraClaimsAreRetries
PROPERTIES
  EventuallyCreated
