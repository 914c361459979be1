CONSTANTS
  p1 = p1
  p2 = p2
  r1 = r1
  r2 = r2
  r3 = r3
  m1 = m1
  m2 = m2
  l1 = l1
  l2 = l2
  A = A
  B = B
  None = None
  layersOf <- MCLayersOf
  Procs = {p1}
  Reqs = {r1, r2}
  Manifests = {m1, m2}
  Layers = {l1, l2}
  Scanners = {A}
  proc <- MCOneProc
  mf <- MCMf
  Config <- MCSingle
  Broken = {}
  MaxFault = 0
  MaxCrash = 0
  MaxDelete = 0
  Impatient = {}
  Losable = {}
SPECIFICATION Spec
CHECK_DEADLOCK FALSE
INVARIANT Complete
