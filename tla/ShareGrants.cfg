\* Two folders, a file and two shares; one request of a guest, one change of the
\* tables, step of the clock or failed query on its way.
SPECIFICATION Spec
CONSTANTS
  Names = {a, b}
  DirIds = {d, e}
  FileIds = {f, g}
  ShareIds = {s, t}
  Guests = {ana}
  Group = Group
  Requests = {r}
  None = None
  Horizon = 4
  MaxSize = 1
  MaxActs = 1
SYMMETRY Symmetry
INVARIANTS TypeOK GrantedWhileCovered NeverOverlooked
CHECK_DEADLOCK FALSE
