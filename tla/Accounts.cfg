SPECIFICATION MCSpec
CHECK_DEADLOCK FALSE
SYMMETRY Symmetry
CONSTANTS
  None = None  Gone = Gone
  admin = admin  user = user  new1 = new1  new2 = new2
  s1 = s1  p1 = p1  i1 = i1  x = x  y = y  z = z  w = w
  Ids = {admin, user, new1, new2}
  Names = {x, y, z, w}
  Groups = {g}
  Invitations = {i1}
  Requests = {r1, r2}
  RolesAsked = {"user", "unknown"}
  MaxUses = 1
  MaxFaults = 1
  SessionIds = {s1, s2}
  PasskeyIds = {p1, p2}
  CeremonyIds = {c1}
  TokenIds = {t1}
  MaxOps = 3
INVARIANTS TypeOK NothingOutlivesItsUser InvitationUses RoleOrFailure CeremonyServesItsOwn
