SPECIFICATION Spec
INVARIANTS Restorable ReceiverKnows RestoreIsExact
SYMMETRY Symmetry
CHECK_DEADLOCK FALSE
CONSTANTS
  Files = {f1, f2}
  Blobs = {b1, b2}
  Pools = {p1}
  Keys = {k1, k2}
  Runners = {r1, r2}
  PoolOf <- OnePool
  MaxJobs = 2
  MaxWrites = 1
  MaxFaults = 2
  Options <- SealedOrRemote
  Schedule <- KeepOne
  Garbage = Garbage
  None = None
  p1 = p1
  k1 = k1
