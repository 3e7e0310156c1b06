SPECIFICATION Spec
INVARIANTS TypeOK
PROPERTIES Settles NothingLost DeletesFollowLosses
SYMMETRY Symmetry
CONSTANTS
  Keys = {k1, k2}
  Contents = {a, b}
  None = None
  MaxEvents = 3
  MaxFaults = 1
  MaxAutoDeleteBatch = 1
  MidPass = TRUE
  Tolerance = 1
  Gaps = {1, 2}
