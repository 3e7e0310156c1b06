SPECIFICATION Spec
INVARIANTS IInv Recoverable 
PROPERTIES HistoryImmutable
SYMMETRY Symmetry
CONSTANTS
  Requests = {r1, r2}
  Keys = {k1, k2}
  Contents = {a, b}
  Ids = {i1, i2}
  Nothing = Nothing
  NoRow = NoRow
  TrashEnabled = TRUE
  MaxVersions = 2
  MaxNum = 3
  MaxFaults = 1
  Disjoint = TRUE
  Ops = {"upload", "restoreVersion", "delete", "purge", "move"}
