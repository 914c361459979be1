CONSTANTS
  p1 = p1
  p2 = p2
  c1 = c1
  c2 = c2
  c3 = c3
  k1 = k1
  k2 = k2
  b1 = b1
  b2 = b2
  Procs = {p1}
  Clients = {c1}
  Keys = {k1, k2}
  Hashes = {b1}
  home <- MCHome
  keyify <- MCCollide
  MaxConn = 2
  Leavers = {p1}
SPECIFICATION FairSpec
INVARIANT IInv
PROPERTIES LostLockCancelled LockReturns
CHECK_DEADLOCK FALSE
