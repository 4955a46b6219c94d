SPECIFICATION Spec
CONSTANTS
  Tick = {t1, t2}
  Creator = {c1, c2}
  Stamp = {s1, s2}
  Token = {k1, k2, k3}
  NULL = NULL
SYMMETRY Symmetry
INVARIANTS
  TypeOK
  OneAwardEvent
  IssuedMeansPublished
  AnnouncedTruthfully
  AwardHasDefinition
  ReadBackComplete
  RowShape
PROPERTIES
  FirstClaimStays
  NoStepBack
  OnlyHolderSettles
  KeepsPromise
