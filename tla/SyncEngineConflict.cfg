SPECIFICATION Spec
PROPERTIES ConflictNeverOverwritten
SYMMETRY Symmetry
CONSTANTS
  Keys = {k1}
  Contents = {a, b}
  None = None
  MaxEvents = 3
  MaxFaults = 0
  MaxAutoDeleteBatch = 1
  MidPass = FALSE
  Tolerance = 1
  Gaps = {2}
