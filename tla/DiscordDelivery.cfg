SPECIFICATION Spec
CONSTANTS
  Tick = {t1, t2, t3}
  NULL = NULL
  Lease = 4
  Timeout = 1
  StartDelay = 1
  MarkDelay = 1
  MaxTime = 10
SYMMETRY Symmetry
INVARIANTS
  TypeOK
  NoOverlappingPosts
  ExtraPostsWereLost
  OkCompletes
PROPERTIES
  NoPostAfterCompleted
CHECK_DEADLOCK FALSE
