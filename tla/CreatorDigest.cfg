SPECIFICATION Spec
CONSTANTS
  Tick = {t1, t2}
  NULL = NULL
  Creators = 4
  PageLimit = 1
  AudienceCap = 2
  MaxPages = 3
  MaxFailures = 2
SYMMETRY Symmetry
INVARIANTS
  TypeOK
  NobodyLeftOut
  NotifiedMeansSent
PROPERTIES
  MarkStays
