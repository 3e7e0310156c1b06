SPECIFICATION Spec
INVARIANTS RestoreKeepsTarget
SYMMETRY Symmetry
CONSTANTS
  Requests = {r1, r2}
  Keys = {k1, k2}
  Contents = {a, b}
  Ids = {i1, i2}
  Nothing = Nothing
  NoRow = NoRow
  TrashEnabled = TRUE
  MaxVersions = 1
  MaxNum = 2
  MaxFaults = 0
  Disjoint = TRUE
  Ops = {"upload", "restoreVersion"}
