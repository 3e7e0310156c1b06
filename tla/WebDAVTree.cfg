SPECIFICATION DavSpec
INVARIANTS TypeOK FilesStand FoldersStand SourceGoesLast NothingTorn
SYMMETRY Symmetry
CHECK_DEADLOCK FALSE
CONSTANTS
  Names = {n1, n2}
  DirIds = {d1, d2}
  FileIds = {f1, f2}
  Requests = {w, a}
  DavClients = {w}
  Depth = 2
  MaxOps = 3
  MaxFaults = 1
  Torn = Torn
  None = None
