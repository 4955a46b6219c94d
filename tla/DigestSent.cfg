SPECIFICATION Spec
CONSTANTS
  Tick = {t1, t2}
  NULL = NULL
  Creators = 3
  PageLimit = 1
  AudienceCap = 1
  MaxPages = 2
  MaxFailures = 2
PROPERTIES
  EventuallySent
