CONSTANTS
  p1 = p1
  p2 = p2
  r1 = r1
  r2 = r2
  r3 = r3
  m1 = m1
  m2 = m2
  l1 = l1
  l2 = l2
  A = A
  B = B
  None = None
  layersOf <- MCLayersOf
  Procs = {p1, p2}
  Reqs = {r1, r3}
  Manifests = {m1}
  Layers = {l1}
  Scanners = {A, B}
  proc <- MCProc
  mf <- MCMf
  Config <- MCNewer
  Broken = {}
  MaxFault = 1
  MaxCrash = 0
  MaxDelete = 0
  Impatient = {r1}
  Losable = {r1}
SPECIFICATION FairSpec
CHECK_DEADLOCK FALSE
PROPERTIES IndexReturns ReportKept
