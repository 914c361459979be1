CONSTANTS
  a = a
  b = b
  c = c
  l1 = l1
  l2 = l2
  Proxies = {a, b}
  Layers = {l1, l2}
  manifest <- MCManifest
  MaxFlight = 6
  Flaky = {l2}
  Cancellable = {b}
  ArenaCloses = TRUE
SPECIFICATION FairSpec
CHECK_DEADLOCK FALSE
INVARIANTS Consistent InUse RefsExact
PROPERTY RealizeReturns
