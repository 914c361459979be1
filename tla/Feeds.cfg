SPECIFICATION FairSpec
CONSTANTS
  p1 = p1  p2 = p2  m1 = m1  m2 = m2
  Kinds <- MCKinds
  Parts <- MCParts
  Mirrors <- MCMirrors
  MaxVer = 2
  MaxFault = 2
INVARIANTS Consistent UnchangedIsCurrent
PROPERTY Converges
CHECK_DEADLOCK FALSE
