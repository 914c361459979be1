SPECIFICATION Spec
CONSTANTS
  i1 = i1  i2 = i2  a = a  b = b  x = x  y = y  z = z
  None = None  NoRow = NoRow
  Insts = {i1, i2}
  Updaters = {a}
  Vulns = {x, y}
  Rhel = {a}
  feed <- MCBack
  Keep = 2
  GCThrottle = 1
  BatchSize = 1
  MaxTrouble = 1
INVARIANT TypeOK
PROPERTIES GCKeeps WholeUpdates
CHECK_DEADLOCK FALSE
