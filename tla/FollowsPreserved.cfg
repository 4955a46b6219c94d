SPECIFICATION Spec
CHECK_DEADLOCK FALSE
CONSTANTS
  a = a
  b = b
  Overrides = {}
  Relay = {s}
  Seed = {s}
  ReadMarked = {}
  WriteMarked = {}
  LocalWrite = {}
  Page = {p1}
  Entry = {a, b}
  Offered = {a}
  Existing = {b}
  Holders = {{s}}
  NoVersion = NoVersion
  RoughPage = {p1}
  RoughOffered = {a}
  MaxSkew = 0
  MaxClicks = 1
INVARIANTS
  FollowsPreserved
