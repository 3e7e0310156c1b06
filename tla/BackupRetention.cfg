SPECIFICATION Spec
INVARIANTS TypeOK Restorable NothingMissed
PROPERTIES LastGoodKept
SYMMETRY Symmetry
CHECK_DEADLOCK FALSE
CONSTANTS
  Files = {f1, f2}
  Blobs = {b1}
  Pools = {p1}
  Keys = {k1}
  Runners = {r1, r2}
  PoolOf <- OnePool
  MaxJobs = 3
  MaxWrites = 1
  MaxFaults = 1
  Options <- ByDays
  Schedule <- KeepOne
  Garbage = Garbage
  None = None
  p1 = p1
  k1 = k1
