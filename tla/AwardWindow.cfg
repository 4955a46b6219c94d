SPECIFICATION WindowSpec
CONSTANTS
  Tick = {t1}
  Creator = {c1, c2}
  Stamp = {s1, s2}
  Token = {k1, k2}
  NULL = NULL
  MaxTicks = 4
  MaxFaults = 3
PROPERTIES
  RunCompletes
CHECK_DEADLOCK FALSE
