SPECIFICATION Spec
INVARIANTS LimitKept CutAtTheLimit IInv
SYMMETRY Symmetry
CHECK_DEADLOCK FALSE
CONSTANTS
  Requests = {r1, r2}
  None = None
  Horizon = 1
  MostAllowed = 1
  LargestBody = 3
  Buffer = 2
