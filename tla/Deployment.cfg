SPECIFICATION Spec
CHECK_DEADLOCK FALSE
CONSTANTS
  Run = {r1, r2}
  m1 = m1
  Migration = {m1}
  Required <- MCRequired
  MaxCommit = 2
  MaxAttempts = 2
  MaxByHand = 2
INVARIANTS
  TypeOK
  MigrationsFirst
  VerifiedMeansServed
  SupersededIsOld
PROPERTIES
  NeverRollsBack
