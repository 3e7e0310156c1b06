---------------------------- MODULE ShareGrants -----------------------------
(***************************************************************************)
(* Shares with users and groups (file_service_sharing.go and               *)
(* share_sql_repository.go of internal/storage): what a share on a folder  *)
(* grants on everything below it.  The grant is worked out anew by every   *)
(* request, one query after the other: the row of the resource, its own    *)
(* shares, then every folder on the path it had, from the nearest to the   *)
(* root, and the shares on it.  Meanwhile the owner moves folders, and     *)
(* shares, accounts and time go on.                                        *)
(*                                                                         *)
(* Abstractions.  One owner, one group and one pool; sharing is enabled.   *)
(* An instant stands for half a second.                                    *)
(* A path is a sequence of names.  What the owner does to the tree is one  *)
(* step here, the transaction that DirectoryTree takes apart; nor has a    *)
(* file a trash flag, which no query of a grant looks at.  A body is its   *)
(* size; how the limit cuts it off is ShareLink's.  A query of shares that *)
(* fails ends the request with an error, and is left out.                  *)
(***************************************************************************)
EXTENDS Naturals, Sequences, FiniteSets, SequencesExt

CONSTANTS Names, DirIds, FileIds, ShareIds, Guests, Group, Requests, None,
          Horizon,   \* bound: the last instant
          MaxSize,   \* bound: largest limit; a body has one byte more at most
          MaxActs    \* bound: changes of the tables and of the time, queries that fail

Dirs == {p \in SeqOf(Names, 2) : p # <<>>}
Paths == {p \in SeqOf(Names, 3) : p # <<>>}
Limits == 1..MaxSize \union {None}

DirRows == [path : Dirs, trashed : BOOLEAN]
FileRows == [path : Paths]
ShareRows == [on : DirIds \union FileIds, to : Guests \union {Group}, up : BOOLEAN,
              max : Limits, expires : 0..Horizon \union {None}, revoked : BOOLEAN]

ASSUME GrantsAssumption ==
  /\ IsFiniteSet(Names) /\ Group \notin Guests /\ DirIds \intersect FileIds = {}
  /\ Horizon \in Nat \ {0} /\ {MaxSize, MaxActs} \subseteq Nat
  /\ None \notin Nat \union Guests \union DirIds \union FileIds
  /\ None \notin DirRows \union FileRows \union ShareRows

VARIABLES
  dirs,    \* rows of directories: [path, trashed]
  files,   \* rows of files: [path]
  shares,  \* rows of shares: [on, to, up, max, expires, revoked]
  users,   \* guests with an account
  member,  \* guests in the group
  now, req, acts

tree == <<dirs, files>>
tables == <<dirs, files, shares, users, member>>
vars == <<tables, now, req, acts>>

Row(x) == IF x \in DirIds THEN dirs[x] ELSE files[x]
Parent(p) == Front(p)
Above(p) == {SubSeq(p, 1, n) : n \in 1..(Len(p) - 1)}
Below(p) == {q \in Paths : IsStrictPrefix(p, q)}
DirsAt(p) == {d \in DirIds : dirs[d] # None /\ dirs[d].path = p}
FilesAt(p) == {f \in FileIds : files[f] # None /\ files[f].path = p}
Free(p) == DirsAt(p) = {} /\ FilesAt(p) = {}

(***************************************************************************)
(* What the queries see.  expires_at > ? compares strings in RFC 3339 with  *)
(* nanoseconds, which leave out the fraction of a whole second:            *)
(* "...00.5Z" sorts before "...00Z".                                       *)
(***************************************************************************)
Second(t) == t \div 2
SortsAfter(s, t) ==
  Second(s) > Second(t) \/ (Second(s) = Second(t) /\ s % 2 < t % 2)

\* Mutant: expires_at is left to the reader.
InForceUnexpired(s, at) == ~s.revoked

InForce(s, at) == ~s.revoked /\ (s.expires = None \/ SortsAfter(s.expires, at))

IsFor(s, g) == s.to = g \/ (s.to = Group /\ g \in member)
SharesOn(g, x) ==
  {s \in ShareIds : shares[s] # None /\ shares[s].on = x /\ IsFor(shares[s], g)}

\* HasFileAccess, HasDirectoryAccess; ListUploadSharesForDirectory.
HasAccess(g, x, at) == \E s \in SharesOn(g, x) : InForce(shares[s], at)
UploadShares(g, x, at) == {s \in SharesOn(g, x) : InForce(shares[s], at) /\ shares[s].up}

(***************************************************************************)
(* History: the shares that cover a resource, told from the tree itself.   *)
(* Within the second of its expiry a share may count or not.               *)
(***************************************************************************)
Covering(g, x, up) ==
  {s \in ShareIds :
     /\ Row(x) # None /\ shares[s] # None
     /\ ~shares[s].revoked /\ IsFor(shares[s], g) /\ (up => shares[s].up)
     /\ \/ shares[s].on = x
        \/ \E d \in DirIds : /\ dirs[d] # None /\ IsStrictPrefix(dirs[d].path, Row(x).path)
                             /\ shares[s].on = d /\ (up => ~dirs[d].trashed)}

Reads(q) == Covering(q.who, q.id, FALSE)
Uploads(q) == IF q.op = "upload" THEN Covering(q.who, q.id, TRUE) ELSE {}
Possible(S) == {s \in S : shares[s].expires = None \/ Second(now) <= Second(shares[s].expires)}
Certain(S) == {s \in S : shares[s].expires = None \/ Second(now) < Second(shares[s].expires)}
Terms(S) == {shares[s].max : s \in S}
Offers(S) == {<<s, shares[s].max>> : s \in S}
Grants(q) == IF q.op = "upload" THEN Terms(Possible(Uploads(q)))
             ELSE {None : s \in Possible(Reads(q))}

InProgress == {"own", "walk", "probe", "climb"}

\* The request still knows where its resource lies, that the folder whose shares it asks
\* for lies above, in the trash or not, and what second it is.
Current(q) ==
  /\ Row(q.id) # None /\ Row(q.id).path = q.path
  /\ q.dir # None => /\ dirs[q.dir] # None /\ IsStrictPrefix(dirs[q.dir].path, q.path)
                     /\ q.op = "upload" => ~dirs[q.dir].trashed
  /\ q.at # None => Second(q.at) = Second(now)

\* Every step notes, for the requests on their way, what covers their resource
\* in the state the step starts from; a change, whether it comes late: after one
\* that left the request with what is no longer true.
Noted(q) ==
  IF q.pc \notin InProgress THEN q
  ELSE [q EXCEPT !.ever = @ \union Grants(q),
                 !.uploads = @ \intersect Offers(Certain(Uploads(q))),
                 !.reads = @ \intersect Certain(Reads(q))]
Late(q) == IF q.pc \notin InProgress THEN q ELSE [Noted(q) EXCEPT !.late = @ \/ ~Current(q)]
Others == req' = [r \in Requests |-> Late(req[r])]
\* Where something moves or a query fails, no share has to be found any more.
Unpromised(q) ==
  IF q.pc \notin InProgress THEN q ELSE [q EXCEPT !.uploads = {}, !.reads = {}]
GoOn(r, q) == req' = [s \in Requests |-> IF s = r THEN q ELSE Noted(req[s])]

(***************************************************************************)
(* A request.  It keeps the path of the row it read and walks up that, and *)
(* the instant it began to climb.                                          *)
(***************************************************************************)
Idle == [pc |-> "idle", op |-> None, who |-> None, id |-> None, path |-> <<>>,
         left |-> <<>>, dir |-> None, at |-> None, size |-> 0, found |-> {}, limit |-> None,
         ever |-> {}, uploads |-> {}, reads |-> {}, late |-> FALSE]

\* GetFileByID, GetDirectoryByID; an upload looks whether the folder is trashed.
Ask(r, op, g, x) ==
  LET row == Row(x)
      q == [Idle EXCEPT !.op = op, !.who = g, !.id = x]
  IN /\ req[r].pc = "idle"
     /\ IF row = None \/ (op = "upload" /\ row.trashed)
        THEN GoOn(r, [q EXCEPT !.pc = "not_found"])
        ELSE GoOn(r, [q EXCEPT !.pc = "own", !.path = row.path, !.left = Parent(row.path),
                               !.uploads = Offers(Certain(Uploads(q))),
                               !.reads = Certain(Reads(q))])
  /\ UNCHANGED <<tables, now, acts>>

\* The shares on the resource itself.
Own(r) ==
  LET q == Noted(req[r]) IN
  /\ req[r].pc \in {"own", "probe"}
  /\ IF q.op = "upload" /\ q.pc = "own"
     THEN GoOn(r, [q EXCEPT !.pc = "walk", !.at = now, !.found = Terms(UploadShares(q.who, q.id, now))])
     ELSE GoOn(r, [q EXCEPT !.pc = IF ~HasAccess(q.who, q.id, now) THEN "climb"
                                   ELSE IF q.op = "upload" THEN "not_allowed" ELSE "granted"])
  /\ UNCHANGED <<tables, now, acts>>

\* The next folder of the path, found by its natural key.  One without a row, one in
\* the trash where the request wants to upload, and one whose query fails are passed over.
LookUp(r) ==
  LET at == IF req[r].at = None THEN now ELSE req[r].at
      q == [Noted(req[r]) EXCEPT !.left = Front(@), !.at = at]
      here == {d \in DirsAt(req[r].left) : req[r].pc = "walk" => ~dirs[d].trashed}
  IN
  /\ req[r].pc \in {"walk", "climb"} /\ req[r].left # <<>> /\ req[r].dir = None
  /\ \/ /\ UNCHANGED acts
        /\ \/ here = {} /\ GoOn(r, q)
           \/ \E d \in here : GoOn(r, [q EXCEPT !.dir = d])
     \/ /\ acts < MaxActs /\ acts' = acts + 1
        /\ GoOn(r, Unpromised(q))
  /\ UNCHANGED <<tables, now>>

\* The shares on that folder, wherever it lies by now.
AskShares(r) ==
  LET q == [Noted(req[r]) EXCEPT !.dir = None]
      d == req[r].dir
  IN
  /\ req[r].pc \in {"walk", "climb"} /\ d # None
  /\ IF req[r].pc = "walk"
     THEN GoOn(r, [q EXCEPT !.found = @ \union Terms(UploadShares(q.who, d, q.at))])
     ELSE GoOn(r, [q EXCEPT !.pc = IF ~HasAccess(q.who, d, q.at) THEN @
                                   ELSE IF q.op = "upload" THEN "not_allowed" ELSE "granted"])
  /\ UNCHANGED <<tables, now, acts>>

\* Mutant: the limits cut each other down.
TightestLimit(found) ==
  IF found = {None} THEN None ELSE CHOOSE n \in found \ {None} : \A m \in found \ {None} : n <= m

\* mostPermissiveUploadGrant: no limit beats any limit.
MostPermissive(found) ==
  IF None \in found THEN None ELSE CHOOSE n \in found : \A m \in found : m <= n

\* The root is reached.
Arrive(r) ==
  LET q == Noted(req[r]) IN
  /\ req[r].pc \in {"walk", "climb"} /\ req[r].left = <<>> /\ req[r].dir = None
  /\ GoOn(r, IF q.pc = "climb" THEN [q EXCEPT !.pc = "forbidden"]
             ELSE IF q.found = {} THEN [q EXCEPT !.pc = "probe", !.left = Parent(q.path), !.at = None]
             ELSE [q EXCEPT !.pc = "upload", !.limit = MostPermissive(q.found)])
  /\ UNCHANGED <<tables, now, acts>>

\* Upload with NoOverwrite, to the path that was read.
Store(r, n, size) ==
  LET q == [req[r] EXCEPT !.size = size]  p == Append(q.path, n)
      taken == ~Free(p)
      fits == q.limit = None \/ size <= q.limit
  IN
  /\ req[r].pc = "upload"
  /\ GoOn(r, [q EXCEPT !.pc = IF taken THEN "occupied" ELSE IF fits THEN "stored" ELSE "too_large"])
  /\ IF ~taken /\ fits
     THEN \E f \in FileIds : files[f] = None /\ files' = [files EXCEPT ![f] = [path |-> p]]
     ELSE UNCHANGED files
  /\ UNCHANGED <<dirs, shares, users, member, now, acts>>

(***************************************************************************)
(* The owner, the administrator and time.                                  *)
(***************************************************************************)
\* Bound: the tables change while a grant is worked out.
Open == acts < MaxActs /\ \E r \in Requests : req[r].pc \in InProgress
Count == acts < MaxActs /\ acts' = acts + 1
Act == Open /\ Count
Moving == req' = [r \in Requests |-> Unpromised(Late(req[r]))]

\* A share with a user or the group always reads; to upload it needs a folder.
\* (A limit without upload is never looked at.)
Share ==
  {in \in ShareRows : in.expires \in (now + 1)..(Horizon - 1) \union {None} /\ ~in.revoked}
Valid(in) ==
  /\ Row(in.on) # None /\ in.to \in users \union {Group}
  /\ (in.up => in.on \in DirIds) /\ (in.max # None => in.up)

CreateShare(s, in) ==
  /\ Act /\ shares[s] = None /\ Valid(in)
  /\ shares' = [shares EXCEPT ![s] = in]
  /\ Others /\ UNCHANGED <<tree, users, member, now>>

RevokeShare(s) ==
  /\ Act /\ shares[s] # None /\ ~shares[s].revoked
  /\ shares' = [shares EXCEPT ![s].revoked = TRUE]
  /\ Others /\ UNCHANGED <<tree, users, member, now>>

Relocated(rows, p, t) ==
  [i \in DOMAIN rows |->
     IF rows[i] # None /\ (rows[i].path = p \/ IsStrictPrefix(p, rows[i].path))
     THEN [rows[i] EXCEPT !.path = t \o SubSeq(@, Len(p) + 1, Len(@))] ELSE rows[i]]

Mkdir(d, p) ==
  /\ Act /\ dirs[d] = None /\ Free(p)
  /\ dirs' = [dirs EXCEPT ![d] = [path |-> p, trashed |-> FALSE]]
  /\ Others /\ UNCHANGED <<files, shares, users, member, now>>

Unique(rows) == \A i, j \in DOMAIN rows :
  rows[i] # None /\ rows[j] # None /\ rows[i].path = rows[j].path => i = j

\* MoveDirectoryTree: the folder and the rows of everything below it.  The rename
\* before it refuses a folder that still holds p, the tables two rows of one path.
MoveDirectory(d, t) ==
  LET p == dirs[d].path IN
  /\ Act /\ dirs[d] # None /\ ~dirs[d].trashed /\ t # p /\ t \notin Below(p) /\ Free(t)
  /\ ~IsStrictPrefix(t, p)
  /\ dirs' = Relocated(dirs, p, t) /\ files' = Relocated(files, p, t)
  /\ Unique(dirs') /\ Unique(files')
  /\ \A i \in DirIds : dirs[i] # None => dirs'[i].path \in Dirs
  /\ \A i \in FileIds : files[i] # None => files'[i].path \in Paths
  /\ Moving /\ UNCHANGED <<shares, users, member, now>>

MoveFile(f, t) ==
  /\ Act /\ files[f] # None /\ Free(t)
  /\ files' = [files EXCEPT ![f].path = t]
  /\ Moving /\ UNCHANGED <<dirs, shares, users, member, now>>

\* No folder but in the trash; the files below may be there too.
Empty(p) == \A d \in DirIds : dirs[d] # None /\ ~dirs[d].trashed => Parent(dirs[d].path) # p

DeleteDirectory(d) ==
  /\ Act /\ dirs[d] # None /\ ~dirs[d].trashed /\ Empty(dirs[d].path)
  /\ dirs' = [dirs EXCEPT ![d].trashed = TRUE]
  /\ Others /\ UNCHANGED <<files, shares, users, member, now>>

RestoreDirectory(d) ==
  /\ Act /\ dirs[d] # None /\ dirs[d].trashed
  /\ dirs' = [dirs EXCEPT ![d].trashed = FALSE]
  /\ Others /\ UNCHANGED <<files, shares, users, member, now>>

\* Mutant: the rows of shares have no foreign key.
WithoutNothing(x) == shares

\* ON DELETE CASCADE.
Without(x) ==
  [s \in ShareIds |-> IF shares[s] # None /\ x \in {shares[s].on, shares[s].to} THEN None ELSE shares[s]]

EraseDirectory(d) ==
  /\ Act /\ dirs[d] # None /\ (~dirs[d].trashed => Empty(dirs[d].path))
  /\ dirs' = [dirs EXCEPT ![d] = None] /\ shares' = Without(d)
  /\ Others /\ UNCHANGED <<files, users, member, now>>

EraseFile(f) ==
  /\ Act /\ files[f] # None
  /\ files' = [files EXCEPT ![f] = None] /\ shares' = Without(f)
  /\ Others /\ UNCHANGED <<dirs, users, member, now>>

AddUserToGroup(g) ==
  /\ Act /\ g \in users \ member /\ member' = member \union {g}
  /\ Others /\ UNCHANGED <<tree, shares, users, now>>

\* The request that is on its way goes on without its user.
DeleteUser(g) ==
  /\ Act /\ g \in users /\ users' = users \ {g}
  /\ member' = member \ {g} /\ shares' = Without(g)
  /\ Others /\ UNCHANGED <<tree, now>>

\* Time passes, which only matters to a share that expires.
Tick(t) ==
  /\ Count /\ now < t /\ now' = t
  /\ \E s \in ShareIds : shares[s] # None /\ shares[s].expires # None
  /\ Others /\ UNCHANGED tables

\* A tree of the owner, with one share.
Init ==
  /\ dirs \in [DirIds -> DirRows \union {None}] /\ Unique(dirs)
  /\ \A d \in DirIds : dirs[d] # None => \A p \in Above(dirs[d].path) : DirsAt(p) # {}
  /\ \A d \in DirIds : dirs[d] # None /\ dirs[d].trashed => Empty(dirs[d].path)
  /\ \E p \in Paths :
       /\ files = [i \in FileIds |-> IF i = CHOOSE f \in FileIds : TRUE THEN [path |-> p] ELSE None]
       /\ DirsAt(p) = {} /\ \A q \in Above(p) : DirsAt(q) # {}
  /\ users = Guests /\ member = {} /\ now = 1
  /\ \E in \in Share :
       /\ Valid(in)
       /\ shares = [s \in ShareIds |-> IF s = CHOOSE t \in ShareIds : TRUE THEN in ELSE None]
  /\ req = [r \in Requests |-> Idle] /\ acts = 0

DownloadFile(r, g) == \E f \in FileIds : Ask(r, "download", g, f)
ListSharedDirectory(r, g) == \E d \in DirIds : Ask(r, "browse", g, d)
UploadToSharedDirectory(r, g) == \E d \in DirIds : Ask(r, "upload", g, d)

Serve(r) ==
  \/ \E g \in users :
       DownloadFile(r, g) \/ ListSharedDirectory(r, g) \/ UploadToSharedDirectory(r, g)
  \/ Own(r) \/ LookUp(r) \/ AskShares(r) \/ Arrive(r)
  \/ \E n \in Names, size \in 1..(MaxSize + 1) : Store(r, n, size)

\* Bound: a share that is made while a grant is worked out does not expire.
CreateShareRequest(s) ==
  Open /\ \E in \in {i \in Share : i.expires = None} : CreateShare(s, in)

\* The shell (nexuscloud shares) makes the calls of the API.
Sharing == \E s \in ShareIds : CreateShareRequest(s) \/ RevokeShare(s)

Change ==
  \/ \E d \in DirIds :
       \/ \E p \in Dirs : Mkdir(d, p) \/ MoveDirectory(d, p)
       \/ DeleteDirectory(d) \/ RestoreDirectory(d) \/ EraseDirectory(d)
  \/ \E f \in FileIds : EraseFile(f) \/ \E p \in Dirs : MoveFile(f, p)
  \/ \E g \in Guests : AddUserToGroup(g) \/ DeleteUser(g)
  \/ \E t \in 0..Horizon : Tick(t)

Next == Sharing \/ Change \/ \E r \in Requests : Serve(r)
Spec == Init /\ [][Next]_vars

(***************************************************************************)
(* Properties.                                                             *)
(***************************************************************************)
\* The variables have their types; no path has two rows in one table, and
\* no share hangs on what does not exist.
TypeOK ==
  /\ dirs \in [DirIds -> DirRows \union {None}] /\ Unique(dirs)
  /\ files \in [FileIds -> FileRows \union {None}] /\ Unique(files)
  /\ users \subseteq Guests /\ member \subseteq users /\ now \in 0..Horizon
  /\ shares \in [ShareIds -> ShareRows \union {None}]
  /\ \A s \in ShareIds : shares[s] # None =>
       Row(shares[s].on) # None /\ shares[s].to \in users \union {Group}

\* Whoever is let in had a share at some instant of the request, on the resource or
\* on a folder it lay in, and what is stored fits the limit of such a share, although
\* the queries of one request see the tables at different times and although the
\* tables change meanwhile.  (hasShareAccessToFile, uploadGrants.  Once the resource
\* has moved or gone, the folder whose shares are asked for next no longer lies above
\* it or has gone to the trash, or the clock has left the second of the climb, one
\* more change can put a share where the request still looks: nothing in the code
\* prevents that.)
GrantedWhileCovered ==
  \A r \in Requests : ~req[r].late =>
    /\ req[r].pc = "granted" => req[r].ever # {}
    /\ req[r].pc = "stored" => \E max \in req[r].ever : max = None \/ req[r].size <= max

\* And nobody is turned away who was covered all the time, when nothing moves and no
\* query fails: not by a grant that the climb passes over, nor because the limit
\* of one share is smaller than another's (mostPermissiveUploadGrant), nor told that
\* there is no access when only the upload is missing.
NeverOverlooked ==
  \A r \in Requests : LET q == req[r] IN
    /\ q.pc = "forbidden" => q.reads = {}
    /\ q.pc = "not_allowed" => q.uploads = {}
    /\ q.pc = "too_large" => \A o \in q.uploads : o[2] # None /\ o[2] < q.size
=============================================================================
