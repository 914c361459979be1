CONSTANTS
  p1 = p1
  p2 = p2
  r1 = r1
  r2 = r2
  r3 = r3
  m1 = m1
  m2 = m2
  l1 = l1
  l2 = l2
  A = A
  B = B
  None = None
  layersOf <- MCLayersOf
  Procs = {p1, p2}
  Reqs = {r1, r2, r3}
  Manifests = {m1, m2}
  Layers = {l1, l2}
  Scanners = {A, B}
  proc <- MCProc
  mf <- MCMf
  Config <- MCFixed
  Broken = {}
  MaxFault = 0
  MaxCrash = 1
  MaxDelete = 0
  Impatient = {}
  Losable = {}
SPECIFICATION Spec
CHECK_DEADLOCK FALSE
INVARIANT Consistent
