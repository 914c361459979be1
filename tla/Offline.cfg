SPECIFICATION OfflineSpec
CONSTANTS
  Paths <- MCPaths
  i1 = i1
  i2 = i2
  a = a
  b = b
  x = x
  y = y
  Updaters = {a, b}
  Vulns = {x, y}
  NoRow = NoRow
  Importers = {i1, i2}
  Feed <- MCFeed
  MaxEntries = 2
  MaxImports = 2
  MaxTrouble = 1
  r1 = r1
  r2 = r2
  f1 = f1
  f2 = f2
  p1 = p1
  w1 = w1
  w2 = w2
  w3 = w3
  w4 = w4
  w5 = w5
  Nobody = Nobody
  Threads = {w1, w2, w3, w4, w5}
  Keys <- MCKeys
  Runs = {r1, r2}
  Fetches = {f1, f2}
  Parses = {p1}
  Workers <- MCWorkers
  Strict = {r1}
  Factories <- MCFactories
  ImportFactories <- MCImport
  Content <- MCContent
  Size <- MCSize
  Implements <- MCImplements
  OldArchives <- MCOldArchives
  MaxFaults = 1
INVARIANTS RoundTrip ImportsWhole LockInv RunCatchesUp ImportFaithful
PROPERTIES LockerPromise CallReturns
CHECK_DEADLOCK FALSE
