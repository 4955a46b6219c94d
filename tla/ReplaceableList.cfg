SPECIFICATION Spec
CHECK_DEADLOCK FALSE
CONSTANTS
  a = a
  b = b
  Overrides <- MCOverrides
  Relay = {s, r}
  Seed = {s}
  ReadMarked = {r}
  WriteMarked = {r}
  LocalWrite = {}
  Page = {p1, p2}
  Entry = {a, b}
  Offered = {a, b}
  Existing = {b}
  Holders = {{}, {s, r}}
  NoVersion = NoVersion
  RoughPage = {p1}
  RoughOffered = {a}
  MaxSkew = 0
  MaxClicks = 2
INVARIANTS
  TypeOK
  SavedIsHeld
PROPERTIES
  CalmEdits
