SPECIFICATION FairSpec
CONSTANTS
  i1 = i1  i2 = i2  a = a  b = b  x = x  y = y  z = z
  None = None  NoRow = NoRow
  Insts = {i1, i2}
  Updaters = {a}
  Vulns = {x, y, z}
  Rhel = {a}
  feed <- MCShort
  Keep = 2
  GCThrottle = 1
  BatchSize = 1
  MaxTrouble = 0
INVARIANT Ordered
PROPERTIES RunReturns EventuallyCurrent
CHECK_DEADLOCK FALSE
