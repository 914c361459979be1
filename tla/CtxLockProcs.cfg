CONSTANTS
  p1 = p1
  p2 = p2
  c1 = c1
  c2 = c2
  c3 = c3
  k1 = k1
  k2 = k2
  b1 = b1
  b2 = b2
  Procs = {p1, p2}
  Clients = {c1, c2, c3}
  Keys = {k1}
  Hashes = {b1}
  home <- MCHome
  keyify <- MCCollide
  MaxConn = 2
  Leavers = {}
SPECIFICATION Spec
INVARIANTS Exclusive NoBotch
PROPERTY HolderReleases
SYMMETRY MCAlike
CONSTRAINT MCLoser
CHECK_DEADLOCK FALSE
