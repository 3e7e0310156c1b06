------------------------- MODULE ShareGrantsProofs --------------------------
(***************************************************************************)
(* Whoever is let in was covered, and whoever was covered all the time is  *)
(* let in: proof, for any number of folders, files, shares, guests and     *)
(* requests, and of changes while a grant is worked out.                   *)
(***************************************************************************)
EXTENDS ShareGrants, TLAPS, FiniteSetTheorems, SequenceTheorems, WellFoundedInduction

(***************************************************************************)
(* Paths.                                                                  *)
(***************************************************************************)
Path == Seq(Names)

LEMMA PathsAreSequences == Dirs \subseteq Paths /\ Paths \subseteq Path
<1>1. \A m \in Nat : [1..m -> Names] \subseteq Path
  BY SeqDef DEF Path
<1>2. 0..2 \subseteq 0..3 /\ 0..3 \subseteq Nat
  OBVIOUS
<1>3. SeqOf(Names, 2) \subseteq SeqOf(Names, 3)
  BY <1>2, Zenon DEF SeqOf
<1>4. SeqOf(Names, 3) \subseteq Path
  BY <1>1, <1>2, Zenon DEF SeqOf
<1> QED  BY <1>3, <1>4 DEF Dirs, Paths

\* A prefix, name by name.
LEMMA PrefixByNames ==
  ASSUME NEW s \in Path, NEW t \in Path
  PROVE  /\ Len(s) \in Nat /\ Len(t) \in Nat
         /\ IsPrefix(s, t) <=> Len(s) <= Len(t) /\ \A i \in 1..Len(s) : s[i] = t[i]
<1>1. /\ Len(s) \in Nat /\ Len(t) \in Nat
      /\ \A i \in 1..Len(s) : s[i] \in Names
      /\ \A i \in 1..Len(t) : t[i] \in Names
  BY LenProperties, ElementOfSeq DEF Path
<1>2. SubSeq(s, 1, Len(s)) = s
  BY SubSeqFull DEF Path
<1>3. ASSUME Len(s) <= Len(t)
      PROVE  /\ SubSeq(t, 1, Len(s)) \in Path /\ Len(SubSeq(t, 1, Len(s))) = Len(s)
             /\ \A i \in 1..Len(s) : SubSeq(t, 1, Len(s))[i] = t[i]
  <2>1. 1 \in Int /\ Len(s) \in Int /\ \A i \in 1..Len(s) : t[i] \in Names
    BY <1>1, <1>3
  <2>2. /\ SubSeq(t, 1, Len(s)) \in Path
        /\ Len(SubSeq(t, 1, Len(s))) = IF 1 <= Len(s) THEN Len(s) - 1 + 1 ELSE 0
        /\ \A i \in 1..(Len(s) - 1 + 1) : SubSeq(t, 1, Len(s))[i] = t[1 + i - 1]
    BY <2>1, SubSeqProperties DEF Path
  <2> QED  BY <1>1, <2>2
<1>4. ASSUME Len(s) <= Len(t), \A i \in 1..Len(s) : s[i] = t[i]
      PROVE  s = SubSeq(t, 1, Len(s))
  BY <1>3, <1>4, SeqEqual DEF Path
<1> QED  BY <1>1, <1>2, <1>3, <1>4 DEF IsPrefix

LEMMA PrefixOrder ==
  ASSUME NEW s \in Path, NEW t \in Path, NEW u \in Path
  PROVE  /\ IsPrefix(s, s)
         /\ IsPrefix(s, t) /\ IsPrefix(t, u) => IsPrefix(s, u)
         /\ IsPrefix(s, u) /\ IsPrefix(t, u) => IsPrefix(s, t) \/ IsPrefix(t, s)
<1>1. /\ Len(s) \in Nat /\ Len(t) \in Nat /\ Len(u) \in Nat
      /\ IsPrefix(s, s)
  BY PrefixByNames
<1>2. ASSUME IsPrefix(s, t), IsPrefix(t, u)
      PROVE  IsPrefix(s, u)
  BY <1>1, <1>2, PrefixByNames
<1>3. ASSUME IsPrefix(s, u), IsPrefix(t, u)
      PROVE  IsPrefix(s, t) \/ IsPrefix(t, s)
  <2>1. /\ Len(s) <= Len(u) /\ \A i \in 1..Len(s) : s[i] = u[i]
        /\ Len(t) <= Len(u) /\ \A i \in 1..Len(t) : t[i] = u[i]
    BY <1>3, PrefixByNames
  <2>2. CASE Len(s) <= Len(t)
    <3>1. \A i \in 1..Len(s) : s[i] = t[i]
      BY <1>1, <2>1, <2>2
    <3> QED  BY <2>2, <3>1, PrefixByNames
  <2>3. CASE Len(t) <= Len(s)
    <3>1. \A i \in 1..Len(t) : t[i] = s[i]
      BY <1>1, <2>1, <2>3
    <3> QED  BY <2>3, <3>1, PrefixByNames
  <2> QED  BY <1>1, <2>2, <2>3
<1> QED  BY <1>1, <1>2, <1>3

\* What is above a path is a prefix of its parent.
LEMMA AboveIsInParent ==
  ASSUME NEW s \in Path, NEW t \in Path, t # <<>>
  PROVE  /\ Front(t) \in Path /\ IsPrefix(Front(t), t)
         /\ IsStrictPrefix(s, t) <=> IsPrefix(s, Front(t))
<1>1. Len(t) \in Nat \ {0} /\ \A i \in 1..Len(t) : t[i] \in Names
  BY EmptySeq, LenProperties, ElementOfSeq DEF Path
<1>2. 1 \in Int /\ Len(t) - 1 \in Int /\ \A i \in 1..(Len(t) - 1) : t[i] \in Names
  BY <1>1
<1>3. /\ Front(t) \in Path
      /\ Len(Front(t)) = IF 1 <= Len(t) - 1 THEN Len(t) - 1 - 1 + 1 ELSE 0
      /\ \A i \in 1..(Len(t) - 1 - 1 + 1) : Front(t)[i] = t[1 + i - 1]
  BY <1>2, SubSeqProperties DEF Front, Path
<1>4. /\ Len(Front(t)) = Len(t) - 1
      /\ \A i \in 1..(Len(t) - 1) : Front(t)[i] = t[i]
  <2> DEFINE n == Len(t)  f == Len(Front(t))
  <2>1. f = n - 1
    <3>1. n \in Nat /\ n # 0 /\ f = IF 1 <= n - 1 THEN n - 1 - 1 + 1 ELSE 0
      BY <1>1, <1>3
    <3> HIDE DEF n, f
    <3> QED  BY <3>1
  <2>2. \A i \in 1..(Len(t) - 1) : i \in 1..(Len(t) - 1 - 1 + 1) /\ 1 + i - 1 = i
    BY <1>1
  <2> QED  BY <1>3, <2>1, <2>2
<1>5. IsPrefix(Front(t), t)
  BY <1>1, <1>3, <1>4, PrefixByNames
<1>6. ASSUME IsStrictPrefix(s, t)
      PROVE  IsPrefix(s, Front(t))
  <2>1. Len(s) \in Nat /\ Len(s) <= Len(t) /\ \A i \in 1..Len(s) : s[i] = t[i]
    BY <1>6, PrefixByNames DEF IsStrictPrefix
  <2>2. Len(s) # Len(t)
    BY <1>6, <2>1, SeqEqual DEF IsStrictPrefix, Path
  <2>3. Len(s) <= Len(Front(t)) /\ \A i \in 1..Len(s) : s[i] = Front(t)[i]
    BY <1>1, <1>4, <2>1, <2>2
  <2> QED  BY <1>3, <2>3, PrefixByNames
<1>7. ASSUME IsPrefix(s, Front(t))
      PROVE  IsStrictPrefix(s, t)
  <2>1. IsPrefix(s, t)
    BY <1>3, <1>5, <1>7, PrefixOrder
  <2>2. Len(s) \in Nat /\ Len(s) <= Len(t) - 1
    BY <1>3, <1>4, <1>7, PrefixByNames
  <2> QED  BY <1>1, <2>1, <2>2 DEF IsStrictPrefix
<1> QED  BY <1>3, <1>5, <1>6, <1>7

LEMMA NothingAboveTheRoot ==
  ASSUME NEW s \in Path, IsPrefix(s, <<>>)
  PROVE  s = <<>>
<1>1. <<>> \in Path /\ Len(<<>>) = 0
  BY EmptySeq DEF Path
<1>2. Len(s) \in Nat /\ Len(s) <= 0
  BY <1>1, PrefixByNames
<1> QED  BY <1>2, EmptySeq DEF Path

LEMMA PrefixOfConcatenation ==
  ASSUME NEW s \in Path, NEW t \in Path, NEW u \in Path, IsPrefix(s \o t, u)
  PROVE  IsPrefix(s, u)
<1>1. /\ s \o t \in Path /\ Len(s) \in Nat /\ Len(t) \in Nat /\ Len(u) \in Nat
      /\ Len(s \o t) = Len(s) + Len(t)
      /\ \A i \in 1..(Len(s) + Len(t)) : (s \o t)[i] = IF i <= Len(s) THEN s[i] ELSE t[i - Len(s)]
  BY ConcatProperties, LenProperties DEF Path
<1>2. Len(s) <= Len(s \o t) /\ \A i \in 1..Len(s) : s[i] = (s \o t)[i]
  BY <1>1
<1>3. IsPrefix(s, s \o t)
  BY <1>1, <1>2, PrefixByNames
<1> QED  BY <1>1, <1>3, PrefixOrder

LEMMA SuffixesArePaths ==
  ASSUME NEW s \in Path, NEW n \in Nat
  PROVE  SubSeq(s, n + 1, Len(s)) \in Path
<1>1. Len(s) \in Nat /\ \A i \in 1..Len(s) : s[i] \in Names
  BY LenProperties, ElementOfSeq DEF Path
<1>2. n + 1 \in Int /\ Len(s) \in Int /\ \A i \in (n + 1)..Len(s) : s[i] \in Names
  BY <1>1
<1> QED  BY <1>2, SubSeqProperties DEF Path

(***************************************************************************)
(* The invariants.                                                         *)
(***************************************************************************)
Items == DirIds \union FileIds
Stages == {"idle", "not_found", "own", "walk", "probe", "climb", "granted", "forbidden",
           "not_allowed", "upload", "occupied", "stored", "too_large"}
Request ==
  [pc : Stages, op : {"download", "browse", "upload", None}, who : Guests \union {None},
   id : Items \union {None}, path : Path, left : Path, dir : DirIds \union {None},
   at : Nat \union {None}, size : Nat, found : SUBSET Limits,
   limit : Limits, ever : SUBSET Limits, uploads : SUBSET (ShareIds \X Limits),
   reads : SUBSET ShareIds, late : BOOLEAN]

\* What a request has read: the path of its resource, of which it has so much
\* left to climb, since an instant that is over; it asks for a folder's shares only
\* on its way up.
ReqOK(r) ==
  LET q == req[r] IN
  /\ q.pc \in InProgress =>
       /\ q.id \in Items /\ q.path \in Paths
       /\ q.op = "upload" => q.id \in DirIds /\ q.path \in Dirs
       /\ IsPrefix(q.left, Front(q.path))
       /\ q.at # None => q.at <= now
       /\ q.dir # None => q.pc \in {"walk", "climb"} /\ q.at # None
  /\ q.pc \in {"own", "probe"} => q.at = None /\ q.left = Front(q.path)
  /\ q.pc \in {"walk", "probe"} => q.op = "upload"
  /\ q.pc = "upload" => q.path \in Dirs

TypeInv ==
  /\ TypeOK
  /\ req \in [Requests -> Request]
  /\ \A r \in Requests : ReqOK(r)

\* The instant the climb goes by.
At(q) == IF q.at = None THEN now ELSE q.at

\* The climb can still let the request in.
Looking(q) == q.pc \in {"own", "walk"} \/ (q.pc = "climb" /\ q.op # "upload")

\* The folder d lies where the climb has still to come.
Ahead(q, d) == dirs[d] # None /\ IsPrefix(dirs[d].path, q.left)

\* The folder whose shares it asks for next, or one where it will find them.
Sees(q, d) == d = q.dir \/ (Ahead(q, d) /\ (q.op = "upload" => ~dirs[d].trashed))

\* The shares that the climb would still find, and what each would allow.
Findable(q) ==
  {s \in ShareIds :
     /\ shares[s] # None /\ IsFor(shares[s], q.who) /\ InForce(shares[s], At(q))
     /\ q.op = "upload" => shares[s].up
     /\ \E d \in DirIds : shares[s].on = d /\ Sees(q, d)}
Allowed(q, s) == IF q.op = "upload" THEN shares[s].max ELSE None

\* Where a request no longer knows the place of its resource, what it can still
\* find did cover the resource.
Covered(r) ==
  LET q == req[r] IN ~q.late =>
    /\ Looking(q) /\ ~Current(q) => \A s \in Findable(q) : Allowed(q, s) \in q.ever
    /\ q.pc = "walk" => q.found \subseteq q.ever
    /\ q.pc = "upload" => q.limit \in q.ever
    /\ q.pc = "granted" => q.ever # {}
    /\ q.pc = "stored" => \E max \in q.ever : max = None \/ q.size <= max

\* The folder of the share lies there.
Lies(q, s) == \E d \in DirIds : shares[s].on = d /\ (d = q.dir \/ Ahead(q, d))

\* A share that has covered the resource all the time is ahead, or found.
Promised(r) ==
  LET q == req[r] IN
  /\ q.pc \in InProgress => \A s \in q.reads \intersect Certain(Reads(q)) :
       Row(q.id).path = q.path /\ (q.pc = "climb" => Lies(q, s))
  /\ q.pc \in {"own", "walk"} => \A s \in Certain(Uploads(q)) :
       <<s, shares[s].max>> \in q.uploads =>
         Row(q.id).path = q.path /\ (q.pc = "walk" => shares[s].max \in q.found \/ Lies(q, s))
  /\ q.pc \in {"probe", "climb"} /\ q.op = "upload" => q.uploads = {}
  /\ q.pc = "upload" => q.limit = None \/ \A o \in q.uploads : o[2] # None /\ o[2] <= q.limit
  /\ q.pc = "forbidden" => q.reads = {}
  /\ q.pc = "not_allowed" => q.uploads = {}
  /\ q.pc = "too_large" => \A o \in q.uploads : o[2] # None /\ o[2] < q.size

CoverInv == \A r \in Requests : Covered(r)
PromiseInv == \A r \in Requests : Promised(r)

(***************************************************************************)
(* What the rows are, and what the queries make of them.                   *)
(***************************************************************************)
LEMMA NoneIsNoRow ==
  /\ None \notin Nat /\ None \notin Items /\ None \notin Guests
  /\ None \notin DirRows /\ None \notin FileRows /\ None \notin ShareRows
  /\ DirIds \intersect FileIds = {} /\ MaxSize \in Nat /\ Horizon \in Nat /\ Horizon > 0
BY GrantsAssumption DEF Items

LEMMA RowsAre ==
  ASSUME TypeOK
  PROVE  /\ \A d \in DirIds : Row(d) = dirs[d] /\ (dirs[d] # None => dirs[d] \in DirRows)
         /\ \A f \in FileIds : Row(f) = files[f] /\ (files[f] # None => files[f] \in FileRows)
         /\ \A x \in Items : Row(x) # None => Row(x).path \in Paths
         /\ \A s \in ShareIds : shares[s] # None => shares[s] \in ShareRows
<1>1. /\ \A d \in DirIds : dirs[d] # None => dirs[d] \in DirRows
      /\ \A f \in FileIds : files[f] # None => files[f] \in FileRows
      /\ \A s \in ShareIds : shares[s] # None => shares[s] \in ShareRows
  BY DEF TypeOK
<1>2. /\ \A d \in DirIds : Row(d) = dirs[d]
      /\ \A f \in FileIds : Row(f) = files[f]
  BY NoneIsNoRow DEF Row
<1>3. ASSUME NEW x \in Items, Row(x) # None
      PROVE  Row(x).path \in Paths
  <2>1. CASE x \in DirIds
    BY <1>1, <1>2, <1>3, <2>1, PathsAreSequences DEF DirRows
  <2>2. CASE x \in FileIds
    BY <1>1, <1>2, <1>3, <2>2 DEF FileRows
  <2> QED  BY <2>1, <2>2 DEF Items
<1> QED  BY <1>1, <1>2, <1>3

LEMMA PathsAreNotTheRoot ==
  /\ \A p \in Paths : p \in Path /\ p # <<>> /\ Front(p) \in Path
  /\ \A p \in Dirs : p \in Paths
<1>1. \A p \in Paths : p \in Path /\ p # <<>>
  BY PathsAreSequences DEF Paths
<1> QED  BY <1>1, PathsAreSequences, AboveIsInParent

\* Seconds.
LEMMA SecondGrows ==
  ASSUME NEW s \in Nat, NEW t \in Nat
  PROVE  Second(s) \in Nat /\ (s <= t => Second(s) <= Second(t))
BY DEF Second

LEMMA InForceIsPossible ==
  ASSUME NEW s \in ShareRows, NEW t \in Nat, InForce(s, t)
  PROVE  ~s.revoked /\ (s.expires = None \/ Second(t) <= Second(s.expires))
<1>1. s.expires # None => s.expires \in Nat
  BY DEF ShareRows
<1>2. s.expires # None => Second(s.expires) \in Nat /\ Second(t) \in Nat
  BY <1>1, SecondGrows
<1> QED  BY <1>2 DEF InForce, SortsAfter

LEMMA CertainIsInForce ==
  ASSUME NEW s \in ShareRows, NEW t \in Nat, NEW u \in Nat, t <= u, ~s.revoked,
         s.expires = None \/ Second(u) < Second(s.expires)
  PROVE  InForce(s, t)
<1>1. s.expires # None => s.expires \in Nat
  BY DEF ShareRows
<1>2. /\ Second(t) \in Nat /\ Second(u) \in Nat /\ Second(t) <= Second(u)
      /\ s.expires # None => Second(s.expires) \in Nat
  BY <1>1, SecondGrows
<1> QED  BY <1>2 DEF InForce, SortsAfter

\* What a request notes has its type.
LEMMA NotesAre ==
  ASSUME TypeOK, NEW q
  PROVE  /\ Grants(q) \subseteq Limits
         /\ Offers(Certain(Uploads(q))) \subseteq ShareIds \X Limits
         /\ Certain(Reads(q)) \subseteq ShareIds
<1>1. \A s \in ShareIds : shares[s] # None => shares[s].max \in Limits
  BY RowsAre DEF ShareRows
<1>2. \A g, x, up : \A s \in Covering(g, x, up) : s \in ShareIds /\ shares[s] # None
  BY DEF Covering
<1>3. \A s \in Uploads(q) : s \in ShareIds /\ shares[s] # None
  BY <1>2 DEF Uploads
<1>4. \A s \in Reads(q) : s \in ShareIds
  BY <1>2 DEF Reads
<1>5. None \in Limits
  BY DEF Limits
<1> QED  BY <1>1, <1>3, <1>4, <1>5 DEF Grants, Terms, Possible, Offers, Certain

LEMMA NotedIs ==
  ASSUME TypeOK, NEW q \in Request
  PROVE  /\ Noted(q) \in Request
         /\ Noted(q).pc = q.pc /\ Noted(q).op = q.op /\ Noted(q).who = q.who
         /\ Noted(q).id = q.id /\ Noted(q).path = q.path /\ Noted(q).left = q.left
         /\ Noted(q).at = q.at /\ Noted(q).size = q.size /\ Noted(q).found = q.found
         /\ Noted(q).dir = q.dir
         /\ Noted(q).limit = q.limit /\ Noted(q).late = q.late
         /\ q.pc \in InProgress =>
              /\ Noted(q).ever = q.ever \union Grants(q)
              /\ Noted(q).uploads = q.uploads \intersect Offers(Certain(Uploads(q)))
              /\ Noted(q).reads = q.reads \intersect Certain(Reads(q))
         /\ q.pc \notin InProgress => Noted(q) = q
<1>1. CASE q.pc \notin InProgress
  BY <1>1 DEF Noted
<1>2. CASE q.pc \in InProgress
  <2> DEFINE e == q.ever \union Grants(q)
             u == q.uploads \intersect Offers(Certain(Uploads(q)))
             d == q.reads \intersect Certain(Reads(q))
  <2>1. Noted(q) = [q EXCEPT !.ever = e, !.uploads = u, !.reads = d]
    BY <1>2 DEF Noted
  <2>2. e \in SUBSET Limits /\ u \in SUBSET (ShareIds \X Limits) /\ d \in SUBSET ShareIds
    <3>1. q.ever \in SUBSET Limits /\ q.uploads \in SUBSET (ShareIds \X Limits)
          /\ q.reads \in SUBSET ShareIds
      BY DEF Request
    <3> QED  BY <3>1, NotesAre
  <2> HIDE DEF e, u, d
  <2>3. /\ Noted(q) \in Request
        /\ Noted(q).ever = e /\ Noted(q).uploads = u /\ Noted(q).reads = d
        /\ Noted(q).pc = q.pc /\ Noted(q).op = q.op /\ Noted(q).who = q.who
        /\ Noted(q).id = q.id /\ Noted(q).path = q.path /\ Noted(q).left = q.left
        /\ Noted(q).at = q.at /\ Noted(q).size = q.size /\ Noted(q).found = q.found
        /\ Noted(q).dir = q.dir
        /\ Noted(q).limit = q.limit /\ Noted(q).late = q.late
    BY <2>1, <2>2 DEF Request
  <2> QED  BY <1>2, <2>3 DEF e, u, d
<1> QED  BY <1>1, <1>2

(***************************************************************************)
(* A request that waits while another, or the owner, makes a step.         *)
(***************************************************************************)
Waits(r) ==
  LET q == req[r]  p == req'[r] IN
  /\ p \in Request
  /\ p.pc = q.pc /\ p.op = q.op /\ p.who = q.who /\ p.id = q.id /\ p.path = q.path
  /\ p.left = q.left /\ p.dir = q.dir /\ p.at = q.at /\ p.size = q.size /\ p.found = q.found
  /\ p.limit = q.limit
  /\ q.pc \in InProgress =>
       /\ p.ever = q.ever \union Grants(q)
       /\ p.uploads \subseteq q.uploads \intersect Offers(Certain(Uploads(q)))
       /\ p.reads \subseteq q.reads \intersect Certain(Reads(q))
  /\ q.pc \notin InProgress => p = q

LEMMA NotedWaits ==
  ASSUME TypeInv, NEW r \in Requests, req'[r] = Noted(req[r])
  PROVE  Waits(r) /\ req'[r].late = req[r].late
<1>1. TypeOK /\ req[r] \in Request
  BY DEF TypeInv
<1> QED  BY <1>1, NotedIs DEF Waits

LEMMA LateIs ==
  ASSUME TypeOK, NEW q \in Request
  PROVE  /\ Late(q) \in Request
         /\ q.pc \in InProgress =>
              /\ Late(q) = [Noted(q) EXCEPT !.late = q.late \/ ~Current(q)]
              /\ Late(q).late = (q.late \/ ~Current(q))
         /\ q.pc \notin InProgress => Late(q) = q
<1>1. CASE q.pc \notin InProgress
  BY <1>1 DEF Late
<1>2. CASE q.pc \in InProgress
  <2>1. Noted(q) \in Request /\ Noted(q).late = q.late
    BY NotedIs
  <2>2. Late(q) = [Noted(q) EXCEPT !.late = @ \/ ~Current(q)]
    BY <1>2, Zenon DEF Late
  <2>3. (Noted(q).late \/ ~Current(q)) \in BOOLEAN
    BY Zenon
  <2>4. Late(q) = [Noted(q) EXCEPT !.late = q.late \/ ~Current(q)]
    BY <2>1, <2>2, Zenon
  <2>5. (q.late \/ ~Current(q)) \in BOOLEAN
    BY Zenon
  <2> DEFINE b == q.late \/ ~Current(q)
  <2> HIDE DEF b
  <2>6. Late(q) = [Noted(q) EXCEPT !.late = b] /\ b \in BOOLEAN
    BY <2>4, <2>5, Zenon DEF b
  <2>7. Late(q) \in Request /\ Late(q).late = b
    BY <2>1, <2>6 DEF Request
  <2> QED  BY <1>2, <2>4, <2>7, Zenon DEF b
<1> QED  BY <1>1, <1>2

LEMMA LateWaits ==
  ASSUME TypeInv, NEW r \in Requests, req'[r] = Late(req[r])
  PROVE  /\ Waits(r)
         /\ req[r].pc \in InProgress => req'[r].late = (req[r].late \/ ~Current(req[r]))
<1>1. TypeOK /\ req[r] \in Request
  BY DEF TypeInv
<1>2. Noted(req[r]) \in Request
  BY <1>1, NotedIs
<1>3. CASE req[r].pc \in InProgress
  <2> DEFINE b == req[r].late \/ ~Current(req[r])
             n == Noted(req[r])
  <2>1. /\ req'[r] = [n EXCEPT !.late = b] /\ req'[r].late = b /\ req'[r] \in Request
        /\ n \in Request
    BY <1>1, <1>2, <1>3, LateIs, Zenon
  <2> HIDE DEF b, n
  <2>2. /\ req'[r].pc = n.pc /\ req'[r].op = n.op /\ req'[r].who = n.who /\ req'[r].id = n.id
        /\ req'[r].path = n.path /\ req'[r].left = n.left /\ req'[r].at = n.at
        /\ req'[r].dir = n.dir
        /\ req'[r].size = n.size /\ req'[r].found = n.found /\ req'[r].limit = n.limit
        /\ req'[r].ever = n.ever /\ req'[r].uploads = n.uploads /\ req'[r].reads = n.reads
    BY <2>1 DEF Request
  <2>3. Waits(r)
    BY <1>1, <1>3, <2>1, <2>2, NotedIs DEF Waits, n
  <2> QED  BY <2>1, <2>3, Zenon DEF b
<1>4. CASE req[r].pc \notin InProgress
  BY <1>1, <1>4, LateIs DEF Waits
<1> QED  BY <1>3, <1>4

\* Something moves: no share has to be found any more.
LEMMA UnpromisedWaits ==
  ASSUME TypeInv, NEW r \in Requests, req'[r] = Unpromised(Late(req[r]))
  PROVE  /\ Waits(r)
         /\ req[r].pc \in InProgress =>
              /\ req'[r].late = (req[r].late \/ ~Current(req[r]))
              /\ req'[r].uploads = {} /\ req'[r].reads = {}
<1>1. TypeOK /\ req[r] \in Request
  BY DEF TypeInv
<1>2. CASE req[r].pc \in InProgress
  <2> DEFINE b == req[r].late \/ ~Current(req[r])
             n == Noted(req[r])
             l == Late(req[r])
  <2>1. l = [n EXCEPT !.late = b] /\ l.late = b /\ l \in Request /\ n \in Request
    BY <1>1, <1>2, NotedIs, LateIs, Zenon
  <2>2. n.pc = req[r].pc
    BY <1>1, NotedIs
  <2>3. req'[r] = Unpromised(l)
    OBVIOUS
  <2> HIDE DEF b, n, l
  <2>4. l.pc = req[r].pc
    BY <2>1, <2>2 DEF Request
  <2>5. req'[r] = [l EXCEPT !.uploads = {}, !.reads = {}]
    BY <1>2, <2>3, <2>4 DEF Unpromised
  <2>6. /\ req'[r].pc = n.pc /\ req'[r].op = n.op /\ req'[r].who = n.who /\ req'[r].id = n.id
        /\ req'[r].path = n.path /\ req'[r].left = n.left /\ req'[r].at = n.at
        /\ req'[r].dir = n.dir
        /\ req'[r].size = n.size /\ req'[r].found = n.found /\ req'[r].limit = n.limit
        /\ req'[r].ever = n.ever /\ req'[r].uploads = {} /\ req'[r].reads = {}
    BY <2>1, <2>5 DEF Request
  <2>7. req'[r].late = l.late /\ req'[r] \in Request
    BY <2>1, <2>5 DEF Request
  <2>8. Waits(r)
    BY <1>1, <1>2, <2>6, <2>7, NotedIs DEF Waits, n
  <2> QED  BY <2>1, <2>6, <2>7, <2>8, Zenon DEF b
<1>3. CASE req[r].pc \notin InProgress
  <2>1. req'[r] = req[r]
    BY <1>1, <1>3, LateIs DEF Unpromised
  <2> QED  BY <1>1, <1>3, <2>1 DEF Waits
<1> QED  BY <1>2, <1>3

\* What it has read stays what it has read.
LEMMA WaitsOK ==
  ASSUME TypeInv, NEW r \in Requests, Waits(r), now \in Nat, now' \in Nat, now <= now'
  PROVE  ReqOK(r)'
<1>1. ReqOK(r) /\ req[r] \in Request
  BY DEF TypeInv
<1>2. req[r].at # None => req[r].at \in Nat
  BY <1>1 DEF Request
<1> QED  BY <1>1, <1>2 DEF ReqOK, Waits

(***************************************************************************)
(* The tables keep their types.                                            *)
(***************************************************************************)
LEMMA AnchoredRows ==
  ASSUME TypeOK, NEW s \in ShareIds, shares[s] # None
  PROVE  /\ shares[s] \in ShareRows /\ shares[s].on \in Items /\ Row(shares[s].on) # None
         /\ shares[s].max \in Limits /\ shares[s].to \in users \union {Group}
BY RowsAre DEF TypeOK, ShareRows, Items

LEMMA SharesChangeTypes ==
  ASSUME TypeOK, UNCHANGED <<dirs, files, users>>,
         shares' \in [ShareIds -> ShareRows \union {None}],
         \A s \in ShareIds : shares'[s] # None =>
           Row(shares'[s].on) # None /\ shares'[s].to \in users \union {Group},
         member' \subseteq users', now' \in 0..Horizon
  PROVE  TypeOK'
BY DEF TypeOK, Row, Unique

LEMMA CreateShareTypes ==
  ASSUME TypeOK, NEW s \in ShareIds, NEW in \in Share, CreateShare(s, in)
  PROVE  TypeOK'
<1>1. in \in ShareRows /\ shares' = [shares EXCEPT ![s] = in]
  BY DEF Share, CreateShare
<1>2. UNCHANGED <<dirs, files, users, member, now>>
  BY DEF CreateShare, tree
<1>3. Row(in.on) # None /\ in.to \in users \union {Group}
  BY DEF CreateShare, Valid
<1>4. shares \in [ShareIds -> ShareRows \union {None}] /\ member \subseteq users /\ now \in 0..Horizon
  BY DEF TypeOK
<1>5. shares' \in [ShareIds -> ShareRows \union {None}]
  BY <1>1, <1>4
<1>6. \A u \in ShareIds : shares'[u] # None =>
        Row(shares'[u].on) # None /\ shares'[u].to \in users \union {Group}
  BY <1>1, <1>3, <1>4, AnchoredRows
<1> QED  BY <1>2, <1>4, <1>5, <1>6, SharesChangeTypes

LEMMA RevokeShareTypes ==
  ASSUME TypeOK, NEW s \in ShareIds, RevokeShare(s)
  PROVE  /\ TypeOK'
         /\ \A u \in ShareIds : shares'[u] # None =>
              /\ shares[u] # None /\ shares'[u].on = shares[u].on /\ shares'[u].to = shares[u].to
              /\ shares'[u].max = shares[u].max
<1>1. /\ shares' = [shares EXCEPT ![s].revoked = TRUE] /\ shares[s] # None
      /\ UNCHANGED <<dirs, files, users, member, now>>
  BY DEF RevokeShare, tree
<1>2. shares \in [ShareIds -> ShareRows \union {None}] /\ member \subseteq users /\ now \in 0..Horizon
  BY DEF TypeOK
<1>3. shares' = [shares EXCEPT ![s] = [shares[s] EXCEPT !.revoked = TRUE]]
  BY <1>1
<1> DEFINE row == [shares[s] EXCEPT !.revoked = TRUE]
<1>4. /\ row \in ShareRows /\ row.on = shares[s].on /\ row.to = shares[s].to /\ row.max = shares[s].max
  BY <1>1, AnchoredRows DEF ShareRows
<1>5. shares' = [shares EXCEPT ![s] = row]
  BY <1>3
<1> HIDE DEF row
<1>6. shares' \in [ShareIds -> ShareRows \union {None}]
  BY <1>2, <1>4, <1>5
<1>7. \A u \in ShareIds : shares'[u] # None =>
              /\ shares[u] # None /\ shares'[u].on = shares[u].on /\ shares'[u].to = shares[u].to
              /\ shares'[u].max = shares[u].max
  BY <1>1, <1>2, <1>4, <1>5
<1>8. \A u \in ShareIds : shares'[u] # None =>
        Row(shares'[u].on) # None /\ shares'[u].to \in users \union {Group}
  BY <1>7, AnchoredRows
<1> QED  BY <1>1, <1>2, <1>6, <1>7, <1>8, SharesChangeTypes

LEMMA MkdirTypes ==
  ASSUME TypeOK, NEW d \in DirIds, NEW p \in Dirs, Mkdir(d, p)
  PROVE  /\ TypeOK'
         /\ \A e \in DirIds : dirs[e] # None => dirs'[e] = dirs[e]
<1> DEFINE row == [path |-> p, trashed |-> FALSE]
<1>1. /\ dirs' = [dirs EXCEPT ![d] = row] /\ dirs[d] = None /\ DirsAt(p) = {}
      /\ UNCHANGED <<files, shares, users, member, now>>
  BY DEF Mkdir, Free
<1>2. row \in DirRows /\ row.path = p /\ row # None
  <2>1. row \in DirRows /\ row.path = p
    BY DEF DirRows
  <2> QED  BY <2>1, NoneIsNoRow
<1> HIDE DEF row
<1>3. dirs \in [DirIds -> DirRows \union {None}] /\ Unique(dirs)
  BY DEF TypeOK
<1>4. /\ dirs' \in [DirIds -> DirRows \union {None}]
      /\ \A e \in DirIds : dirs[e] # None => dirs'[e] = dirs[e]
  BY <1>1, <1>2, <1>3
<1>5. \A e \in DirIds : dirs[e] # None => dirs[e].path # p
  BY <1>1 DEF DirsAt
<1>6. Unique(dirs')
  BY <1>1, <1>2, <1>3, <1>5 DEF Unique
<1>7. \A x : Row(x) # None => Row(x)' # None
  BY <1>1, <1>2, <1>4 DEF Row
<1>8. \A s \in ShareIds : shares[s] # None =>
        Row(shares[s].on)' # None /\ shares[s].to \in users \union {Group}
  BY <1>1, <1>7, AnchoredRows
<1> QED  BY <1>1, <1>4, <1>6, <1>8 DEF TypeOK, Row

\* The flag of a folder changes.
LEMMA TrashTypes ==
  ASSUME TypeOK, NEW d \in DirIds, DeleteDirectory(d) \/ RestoreDirectory(d)
  PROVE  /\ TypeOK'
         /\ \A e \in DirIds : /\ dirs'[e] # None <=> dirs[e] # None
                              /\ dirs[e] # None => dirs'[e].path = dirs[e].path
         /\ UNCHANGED <<files, shares, users, member, now>>
<1>1. PICK b \in BOOLEAN : dirs' = [dirs EXCEPT ![d] = [dirs[d] EXCEPT !.trashed = b]]
  BY DEF DeleteDirectory, RestoreDirectory
<1>2. dirs[d] # None /\ UNCHANGED <<files, shares, users, member, now>>
  BY DEF DeleteDirectory, RestoreDirectory
<1> DEFINE row == [dirs[d] EXCEPT !.trashed = b]
<1>3. dirs \in [DirIds -> DirRows \union {None}] /\ Unique(dirs) /\ dirs[d] \in DirRows
  BY <1>2, RowsAre DEF TypeOK
<1>4. row \in DirRows /\ row.path = dirs[d].path
  BY <1>3 DEF DirRows
<1>5. dirs' = [dirs EXCEPT ![d] = row]
  BY <1>1
<1>6. row # None
  BY <1>4, NoneIsNoRow
<1> HIDE DEF row
<1>7. dirs' \in [DirIds -> DirRows \union {None}]
  BY <1>3, <1>4, <1>5
<1>8. \A e \in DirIds : /\ dirs'[e] # None <=> dirs[e] # None
                        /\ dirs[e] # None => dirs'[e].path = dirs[e].path
  BY <1>2, <1>3, <1>4, <1>5, <1>6
<1>9. Unique(dirs')
  BY <1>3, <1>7, <1>8 DEF Unique
<1>10. \A x \in Items : Row(x) # None => Row(x)' # None
  BY <1>2, <1>8 DEF Row
<1>11. \A s \in ShareIds : shares[s] # None =>
         Row(shares[s].on)' # None /\ shares[s].to \in users \union {Group}
  BY <1>2, <1>10, AnchoredRows
<1> QED  BY <1>2, <1>7, <1>8, <1>9, <1>11 DEF TypeOK

\* Erasing takes the shares along.
LEMMA WithoutIs ==
  ASSUME TypeOK, NEW x, shares' = Without(x)
  PROVE  /\ shares' \in [ShareIds -> ShareRows \union {None}]
         /\ \A s \in ShareIds : shares'[s] # None =>
              /\ shares'[s] = shares[s] /\ shares[s] # None
              /\ shares[s].on # x /\ shares[s].to # x
<1>1. shares \in [ShareIds -> ShareRows \union {None}]
  BY DEF TypeOK
<1> QED  BY <1>1 DEF Without

LEMMA EraseDirectoryTypes ==
  ASSUME TypeOK, NEW d \in DirIds, EraseDirectory(d)
  PROVE  /\ TypeOK'
         /\ \A e \in DirIds : dirs'[e] # None => dirs'[e] = dirs[e]
         /\ \A s \in ShareIds : shares'[s] # None => shares'[s] = shares[s]
<1>1. /\ dirs' = [dirs EXCEPT ![d] = None] /\ shares' = Without(d)
      /\ UNCHANGED <<files, users, member, now>>
  BY DEF EraseDirectory
<1>2. dirs \in [DirIds -> DirRows \union {None}] /\ Unique(dirs)
  BY DEF TypeOK
<1>3. /\ dirs' \in [DirIds -> DirRows \union {None}]
      /\ \A e \in DirIds : dirs'[e] # None => dirs'[e] = dirs[e]
      /\ \A e \in DirIds : e # d => dirs'[e] = dirs[e]
  BY <1>1, <1>2
<1>4. Unique(dirs')
  BY <1>2, <1>3 DEF Unique
<1>6. \A s \in ShareIds : shares'[s] # None =>
        /\ shares'[s] = shares[s]
        /\ Row(shares[s].on)' # None /\ shares'[s].to \in users' \union {Group}
  <2> SUFFICES ASSUME NEW s \in ShareIds, shares'[s] # None
               PROVE  /\ shares'[s] = shares[s]
                      /\ Row(shares[s].on)' # None /\ shares'[s].to \in users' \union {Group}
    OBVIOUS
  <2>1. shares'[s] = shares[s] /\ shares[s] # None /\ shares[s].on # d
    BY <1>1, WithoutIs
  <2>2. shares[s].on \in Items /\ Row(shares[s].on) # None /\ shares[s].to \in users \union {Group}
    BY <2>1, AnchoredRows
  <2> QED  BY <1>1, <1>3, <2>1, <2>2 DEF Row
<1>7. shares' \in [ShareIds -> ShareRows \union {None}]
  BY <1>1, WithoutIs
<1> QED  BY <1>1, <1>3, <1>4, <1>6, <1>7 DEF TypeOK

LEMMA EraseFileTypes ==
  ASSUME TypeOK, NEW f \in FileIds, EraseFile(f)
  PROVE  /\ TypeOK'
         /\ \A s \in ShareIds : shares'[s] # None => shares'[s] = shares[s]
<1>1. /\ files' = [files EXCEPT ![f] = None] /\ shares' = Without(f)
      /\ UNCHANGED <<dirs, users, member, now>>
  BY DEF EraseFile
<1>2. files \in [FileIds -> FileRows \union {None}] /\ Unique(files)
  BY DEF TypeOK
<1>3. /\ files' \in [FileIds -> FileRows \union {None}]
      /\ \A e \in FileIds : files'[e] # None => files'[e] = files[e]
      /\ \A e \in FileIds : e # f => files'[e] = files[e]
  BY <1>1, <1>2
<1>4. Unique(files')
  BY <1>2, <1>3 DEF Unique
<1>6. \A s \in ShareIds : shares'[s] # None =>
        /\ shares'[s] = shares[s]
        /\ Row(shares[s].on)' # None /\ shares'[s].to \in users' \union {Group}
  <2> SUFFICES ASSUME NEW s \in ShareIds, shares'[s] # None
               PROVE  /\ shares'[s] = shares[s]
                      /\ Row(shares[s].on)' # None /\ shares'[s].to \in users' \union {Group}
    OBVIOUS
  <2>1. shares'[s] = shares[s] /\ shares[s] # None /\ shares[s].on # f
    BY <1>1, WithoutIs
  <2>2. shares[s].on \in Items /\ Row(shares[s].on) # None /\ shares[s].to \in users \union {Group}
    BY <2>1, AnchoredRows
  <2> QED  BY <1>1, <1>3, <2>1, <2>2 DEF Row
<1>7. shares' \in [ShareIds -> ShareRows \union {None}]
  BY <1>1, WithoutIs
<1> QED  BY <1>1, <1>3, <1>4, <1>6, <1>7 DEF TypeOK

LEMMA DeleteUserTypes ==
  ASSUME TypeOK, NEW g \in Guests, DeleteUser(g)
  PROVE  /\ TypeOK'
         /\ \A s \in ShareIds : shares'[s] # None => shares'[s] = shares[s]
<1>1. /\ users' = users \ {g} /\ member' = member \ {g} /\ shares' = Without(g)
      /\ UNCHANGED <<dirs, files, now>>
  BY DEF DeleteUser, tree
<1>2. users \subseteq Guests /\ member \subseteq users
  BY DEF TypeOK
<1>3. \A s \in ShareIds : shares'[s] # None =>
        /\ shares'[s] = shares[s]
        /\ Row(shares[s].on)' # None /\ shares'[s].to \in users' \union {Group}
  <2> SUFFICES ASSUME NEW s \in ShareIds, shares'[s] # None
               PROVE  /\ shares'[s] = shares[s]
                      /\ Row(shares[s].on)' # None /\ shares'[s].to \in users' \union {Group}
    OBVIOUS
  <2>1. shares'[s] = shares[s] /\ shares[s] # None /\ shares[s].to # g
    BY <1>1, WithoutIs
  <2>2. Row(shares[s].on) # None /\ shares[s].to \in users \union {Group}
    BY <2>1, AnchoredRows
  <2> QED  BY <1>1, <2>1, <2>2 DEF Row
<1>4. shares' \in [ShareIds -> ShareRows \union {None}]
  BY <1>1, WithoutIs
<1>5. \A s \in ShareIds : shares'[s] # None => shares'[s] = shares[s]
  BY <1>3
<1>6. TypeOK'
  BY <1>1, <1>2, <1>3, <1>4 DEF TypeOK, Row, Unique
<1> QED  BY <1>5, <1>6

LEMMA AddUserTypes ==
  ASSUME TypeOK, NEW g \in Guests, AddUserToGroup(g)
  PROVE  TypeOK'
BY DEF TypeOK, AddUserToGroup, tree, Row, Unique

LEMMA TickTypes ==
  ASSUME TypeOK, NEW t \in 0..Horizon, Tick(t)
  PROVE  TypeOK'
BY DEF TypeOK, Tick, tables, Row, Unique

LEMMA MoveFileTypes ==
  ASSUME TypeOK, NEW f \in FileIds, NEW t \in Dirs, MoveFile(f, t)
  PROVE  TypeOK'
<1>1. /\ files' = [files EXCEPT ![f] = [files[f] EXCEPT !.path = t]] /\ files[f] # None
      /\ FilesAt(t) = {} /\ UNCHANGED <<dirs, shares, users, member, now>>
  BY DEF MoveFile, Free
<1> DEFINE row == [files[f] EXCEPT !.path = t]
<1>2. row \in FileRows /\ row.path = t
  BY <1>1, RowsAre, PathsAreNotTheRoot DEF FileRows
<1>3. row # None
  BY <1>2, NoneIsNoRow
<1>4. files' = [files EXCEPT ![f] = row]
  BY <1>1
<1> HIDE DEF row
<1>5. files \in [FileIds -> FileRows \union {None}] /\ Unique(files)
  BY DEF TypeOK
<1>6. /\ files' \in [FileIds -> FileRows \union {None}]
      /\ \A e \in FileIds : e # f => files'[e] = files[e]
      /\ files'[f] = row
  BY <1>2, <1>4, <1>5
<1>7. \A e \in FileIds : files[e] # None => files[e].path # t
  BY <1>1 DEF FilesAt
<1>8. Unique(files')
  BY <1>2, <1>5, <1>6, <1>7 DEF Unique
<1>9. \A s \in ShareIds : shares[s] # None =>
        Row(shares[s].on)' # None /\ shares[s].to \in users \union {Group}
  BY <1>1, <1>3, <1>6, AnchoredRows DEF Row, Items
<1> QED  BY <1>1, <1>6, <1>8, <1>9 DEF TypeOK

\* A row at p or below it gets a new path, and nothing else.
LEMMA DirectoriesRelocated ==
  ASSUME TypeOK, NEW p, NEW t, NEW i \in DirIds
  PROVE  LET new == Relocated(dirs, p, t)[i] IN
         /\ dirs[i] = None => new = None
         /\ dirs[i] # None /\ new.path \in Dirs => new \in DirRows /\ new.trashed = dirs[i].trashed
         /\ dirs[i] # None =>
              \/ new = dirs[i] /\ dirs[i].path # p /\ ~IsStrictPrefix(p, dirs[i].path)
              \/ /\ dirs[i].path = p \/ IsStrictPrefix(p, dirs[i].path)
                 /\ new.path = t \o SubSeq(dirs[i].path, Len(p) + 1, Len(dirs[i].path))
<1> DEFINE new == Relocated(dirs, p, t)[i]
           x == t \o SubSeq(dirs[i].path, Len(p) + 1, Len(dirs[i].path))
<1>1. i \in DOMAIN dirs /\ (dirs[i] # None => dirs[i] \in DirRows)
  BY RowsAre DEF TypeOK
<1>2. \/ /\ dirs[i] # None
         /\ dirs[i].path = p \/ IsStrictPrefix(p, dirs[i].path)
         /\ new = [dirs[i] EXCEPT !.path = x]
      \/ /\ dirs[i] = None \/ (dirs[i].path # p /\ ~IsStrictPrefix(p, dirs[i].path))
         /\ new = dirs[i]
  BY <1>1 DEF Relocated
<1> HIDE DEF new, x
<1>3. /\ dirs[i] = None => new = None
      /\ dirs[i] # None /\ new.path \in Dirs => new \in DirRows /\ new.trashed = dirs[i].trashed
      /\ dirs[i] # None =>
              \/ new = dirs[i] /\ dirs[i].path # p /\ ~IsStrictPrefix(p, dirs[i].path)
              \/ /\ dirs[i].path = p \/ IsStrictPrefix(p, dirs[i].path)
                 /\ new.path = x
  BY <1>1, <1>2 DEF DirRows
<1> QED  BY <1>3 DEF new, x

LEMMA FilesRelocated ==
  ASSUME TypeOK, NEW p, NEW t, NEW i \in FileIds
  PROVE  LET new == Relocated(files, p, t)[i] IN
         /\ files[i] = None => new = None
         /\ files[i] # None /\ new.path \in Paths => new \in FileRows
         /\ files[i] # None =>
              \/ new = files[i] /\ files[i].path # p /\ ~IsStrictPrefix(p, files[i].path)
              \/ /\ files[i].path = p \/ IsStrictPrefix(p, files[i].path)
                 /\ new.path = t \o SubSeq(files[i].path, Len(p) + 1, Len(files[i].path))
<1> DEFINE new == Relocated(files, p, t)[i]
           x == t \o SubSeq(files[i].path, Len(p) + 1, Len(files[i].path))
<1>1. i \in DOMAIN files /\ (files[i] # None => files[i] \in FileRows)
  BY RowsAre DEF TypeOK
<1>2. \/ /\ files[i] # None
         /\ files[i].path = p \/ IsStrictPrefix(p, files[i].path)
         /\ new = [files[i] EXCEPT !.path = x]
      \/ /\ files[i] = None \/ (files[i].path # p /\ ~IsStrictPrefix(p, files[i].path))
         /\ new = files[i]
  BY <1>1 DEF Relocated
<1> HIDE DEF new, x
<1>3. /\ files[i] = None => new = None
      /\ files[i] # None /\ new.path \in Paths => new \in FileRows
      /\ files[i] # None =>
              \/ new = files[i] /\ files[i].path # p /\ ~IsStrictPrefix(p, files[i].path)
              \/ /\ files[i].path = p \/ IsStrictPrefix(p, files[i].path)
                 /\ new.path = x
  BY <1>1, <1>2 DEF FileRows
<1> QED  BY <1>3 DEF new, x

LEMMA MoveDirectoryTypes ==
  ASSUME TypeOK, NEW d \in DirIds, NEW t \in Dirs, MoveDirectory(d, t)
  PROVE  /\ TypeOK'
         /\ \A e \in DirIds : /\ dirs'[e] # None <=> dirs[e] # None
                              /\ dirs[e] # None => dirs'[e].trashed = dirs[e].trashed
<1> DEFINE p == dirs[d].path
<1>1. /\ dirs' = Relocated(dirs, p, t) /\ files' = Relocated(files, p, t)
      /\ Unique(dirs') /\ Unique(files')
      /\ \A i \in DirIds : dirs[i] # None => dirs'[i].path \in Dirs
      /\ \A i \in FileIds : files[i] # None => files'[i].path \in Paths
      /\ UNCHANGED <<shares, users, member, now>>
  BY DEF MoveDirectory
<1> HIDE DEF p
<1>2. /\ dirs \in [DirIds -> DirRows \union {None}] /\ files \in [FileIds -> FileRows \union {None}]
  BY DEF TypeOK
<1>3. /\ dirs' = [i \in DirIds |-> dirs'[i]] /\ files' = [i \in FileIds |-> files'[i]]
  BY <1>1, <1>2 DEF Relocated
<1>4. ASSUME NEW i \in DirIds, dirs[i] # None
      PROVE  dirs'[i] \in DirRows /\ dirs'[i] # None /\ dirs'[i].trashed = dirs[i].trashed
  <2>1. dirs[i] \in DirRows /\ dirs'[i].path \in Dirs
    BY <1>1, <1>4, RowsAre
  <2>2. dirs'[i] \in DirRows /\ dirs'[i].trashed = dirs[i].trashed
    BY <1>1, <1>4, <2>1, DirectoriesRelocated
  <2> QED  BY <2>2, NoneIsNoRow
<1>5. ASSUME NEW i \in FileIds, files[i] # None
      PROVE  files'[i] \in FileRows /\ files'[i] # None
  <2>1. files[i] \in FileRows /\ files'[i].path \in Paths
    BY <1>1, <1>5, RowsAre
  <2>2. files'[i] \in FileRows
    BY <1>1, <1>5, <2>1, FilesRelocated
  <2> QED  BY <2>2, NoneIsNoRow
<1>6. /\ dirs' \in [DirIds -> DirRows \union {None}] /\ files' \in [FileIds -> FileRows \union {None}]
      /\ \A e \in DirIds : /\ dirs'[e] # None <=> dirs[e] # None
                           /\ dirs[e] # None => dirs'[e].trashed = dirs[e].trashed
  <2>1. /\ \A i \in DirIds : dirs[i] = None => dirs'[i] = None
        /\ \A i \in FileIds : files[i] = None => files'[i] = None
    BY <1>1, DirectoriesRelocated, FilesRelocated
  <2> QED  BY <1>3, <1>4, <1>5, <2>1
<1>7. \A x \in Items : Row(x) # None => Row(x)' # None
  BY <1>4, <1>5 DEF Row, Items
<1>8. \A s \in ShareIds : shares[s] # None =>
        Row(shares[s].on)' # None /\ shares[s].to \in users \union {Group}
  BY <1>1, <1>7, AnchoredRows
<1> QED  BY <1>1, <1>6, <1>8 DEF TypeOK

(***************************************************************************)
(* The largest limit.                                                      *)
(***************************************************************************)
LEMMA LargestIs ==
  ASSUME NEW S \in SUBSET (1..MaxSize), S # {}
  PROVE  \E m \in S : \A n \in S : n <= m
<1> DEFINE Gap == {MaxSize - n : n \in S}
<1>1. MaxSize \in Nat
  BY NoneIsNoRow
<1>2. Gap \subseteq Nat /\ Gap # {}
  <2>1. \A n \in S : MaxSize - n \in Nat
    BY <1>1
  <2> QED  BY <2>1
<1>3. PICK g \in Gap : \A h \in Gap : ~(<<h, g>> \in OpToRel(<, Nat))
  <2> HIDE DEF Gap
  <2> QED  BY <1>2, NatLessThanWellFounded, WFMin, ZenonT(60)
<1>4. PICK m \in S : g = MaxSize - m
  OBVIOUS
<1>5. \A h \in Gap : g <= h
  <2> TAKE h \in Gap
  <2>1. g \in Nat /\ h \in Nat
    BY <1>2
  <2>2. ~(g > h)
    BY <1>3, <2>1 DEF OpToRel
  <2> QED  BY <2>1, <2>2
<1>6. \A n \in S : n <= m
  <2> TAKE n \in S
  <2>1. MaxSize - m <= MaxSize - n
    BY <1>4, <1>5
  <2> QED  BY <1>1, <2>1
<1> QED  BY <1>6

\* mostPermissiveUploadGrant: one of those found, and none is larger.
LEMMA MostPermissiveIs ==
  ASSUME NEW S \in SUBSET Limits, S # {}
  PROVE  /\ MostPermissive(S) \in S
         /\ MostPermissive(S) # None => \A m \in S : m # None /\ m <= MostPermissive(S)
<1>1. CASE None \in S
  BY <1>1 DEF MostPermissive
<1>2. CASE None \notin S
  <2>1. S \in SUBSET (1..MaxSize)
    BY <1>2 DEF Limits
  <2>2. \E n \in S : \A m \in S : m <= n
    BY <2>1, LargestIs
  <2>3. MostPermissive(S) = CHOOSE n \in S : \A m \in S : m <= n
    BY <1>2 DEF MostPermissive
  <2>4. MostPermissive(S) \in S /\ \A m \in S : m <= MostPermissive(S)
    BY <2>2, <2>3
  <2> QED  BY <1>2, <2>4
<1> QED  BY <1>1, <1>2

(***************************************************************************)
(* A request that makes a step.                                            *)
(***************************************************************************)
\* It keeps what it asks for, and notes what covers its resource.
Advances(r) ==
  LET q == req[r]  p == req'[r] IN
  /\ p \in Request /\ q.pc \in InProgress
  /\ p.op = q.op /\ p.who = q.who /\ p.id = q.id /\ p.path = q.path /\ p.size = q.size
  /\ p.late = q.late
  /\ p.ever = q.ever \union Grants(q)
  /\ p.uploads \subseteq q.uploads \intersect Offers(Certain(Uploads(q)))
  /\ p.reads \subseteq q.reads \intersect Certain(Reads(q))

\* The others wait, and the tables stand.
Apart(r) ==
  /\ UNCHANGED <<tables, now>>
  /\ req' = [s \in Requests |-> req'[s]]
  /\ \A s \in Requests : s # r => req'[s] = Noted(req[s])

LEMMA TermsAreLimits ==
  ASSUME TypeOK
  PROVE  /\ \A g, x, at : Terms(UploadShares(g, x, at)) \subseteq Limits
         /\ now \in Nat
<1>1. \A g, x, at : \A s \in UploadShares(g, x, at) : shares[s].max \in Limits
  BY AnchoredRows DEF UploadShares, SharesOn
<1>2. now \in Nat
  BY NoneIsNoRow DEF TypeOK
<1> QED  BY <1>1, <1>2 DEF Terms

\* All that a step of its own never changes.
Keeps(q, p) ==
  /\ p \in Request
  /\ p.op = q.op /\ p.who = q.who /\ p.id = q.id /\ p.path = q.path /\ p.size = q.size
  /\ p.late = q.late /\ p.ever = q.ever
  /\ p.uploads \subseteq q.uploads /\ p.reads \subseteq q.reads

LEMMA KeepsAdvances ==
  ASSUME TypeInv, NEW r \in Requests, req[r].pc \in InProgress, Keeps(Noted(req[r]), req'[r])
  PROVE  Advances(r)
<1>1. TypeOK /\ req[r] \in Request
  BY DEF TypeInv
<1> QED  BY <1>1, NotedIs DEF Keeps, Advances

LEMMA OwnIs ==
  ASSUME TypeInv, NEW r \in Requests, Own(r)
  PROVE  /\ Apart(r) /\ Advances(r) /\ req[r].pc \in {"own", "probe"}
         /\ req'[r].left = req[r].left /\ req'[r].dir = req[r].dir
         /\ \/ /\ req[r].op = "upload" /\ req[r].pc = "own" /\ req'[r].pc = "walk"
               /\ req'[r].at = now
               /\ req'[r].found = Terms(UploadShares(req[r].who, req[r].id, now))
            \/ /\ req[r].op # "upload" \/ req[r].pc = "probe"
               /\ req'[r].at = req[r].at /\ req'[r].found = req[r].found
               /\ \/ ~HasAccess(req[r].who, req[r].id, now) /\ req'[r].pc = "climb"
                  \/ /\ HasAccess(req[r].who, req[r].id, now)
                     /\ \/ req[r].op = "upload" /\ req'[r].pc = "not_allowed"
                        \/ req[r].op # "upload" /\ req'[r].pc = "granted"
<1> DEFINE q == Noted(req[r])
           f == Terms(UploadShares(req[r].who, req[r].id, now))
           a == HasAccess(req[r].who, req[r].id, now)
<1>1. TypeOK /\ req[r] \in Request /\ now \in Nat /\ f \in SUBSET Limits
  BY TermsAreLimits DEF TypeInv
<1>2. req[r].pc \in {"own", "probe"} /\ req[r].pc \in InProgress
  BY DEF Own, InProgress
<1>3. q \in Request /\ q.op = req[r].op /\ q.pc = req[r].pc /\ q.who = req[r].who /\ q.id = req[r].id
  BY <1>1, NotedIs
<1>4. /\ Apart(r)
      /\ \/ /\ req[r].op = "upload" /\ req[r].pc = "own"
            /\ req'[r] = [q EXCEPT !.pc = "walk", !.at = now, !.found = f]
         \/ /\ req[r].op # "upload" \/ req[r].pc = "probe"
            /\ \/ ~a /\ req'[r] = [q EXCEPT !.pc = "climb"]
               \/ a /\ req[r].op = "upload" /\ req'[r] = [q EXCEPT !.pc = "not_allowed"]
               \/ a /\ req[r].op # "upload" /\ req'[r] = [q EXCEPT !.pc = "granted"]
  BY <1>2, <1>3 DEF Own, GoOn, Apart
<1> HIDE DEF q, f, a
<1>5. \/ /\ req[r].op = "upload" /\ req[r].pc = "own" /\ req'[r].pc = "walk"
         /\ req'[r].at = now /\ req'[r].found = f
      \/ /\ req[r].op # "upload" \/ req[r].pc = "probe"
         /\ req'[r].at = q.at /\ req'[r].found = q.found
         /\ \/ ~a /\ req'[r].pc = "climb"
            \/ /\ a
               /\ \/ req[r].op = "upload" /\ req'[r].pc = "not_allowed"
                  \/ req[r].op # "upload" /\ req'[r].pc = "granted"
  BY <1>1, <1>3, <1>4 DEF Request
<1>6. Keeps(q, req'[r])
  <2>1. ASSUME req'[r] = [q EXCEPT !.pc = "walk", !.at = now, !.found = f]
        PROVE  Keeps(q, req'[r])
    <3>1. req'[r] \in Request
      <4>1. "walk" \in Stages
        BY DEF Stages
      <4>2. f \in SUBSET Limits /\ now \in Nat \union {None}
        BY <1>1
      <4> QED  BY <1>3, <2>1, <4>1, <4>2, ZenonT(60) DEF Request
    <3>2. /\ req'[r].op = q.op /\ req'[r].who = q.who /\ req'[r].id = q.id
          /\ req'[r].path = q.path /\ req'[r].size = q.size /\ req'[r].late = q.late
          /\ req'[r].ever = q.ever /\ req'[r].uploads = q.uploads /\ req'[r].reads = q.reads
      BY <1>3, <2>1 DEF Request
    <3> QED  BY <3>1, <3>2 DEF Keeps
  <2>2. ASSUME NEW c \in Stages, req'[r] = [q EXCEPT !.pc = c]
        PROVE  Keeps(q, req'[r])
    BY <1>3, <2>2 DEF Request, Keeps
  <2>3. "climb" \in Stages /\ "not_allowed" \in Stages /\ "granted" \in Stages
    BY DEF Stages
  <2>4. \/ \E c \in Stages : req'[r] = [q EXCEPT !.pc = c]
        \/ req'[r] = [q EXCEPT !.pc = "walk", !.at = now, !.found = f]
    BY <1>4, <2>3, Zenon
  <2> QED  BY <2>1, <2>2, <2>4, Zenon
<1>7. req'[r].left = q.left /\ req'[r].dir = q.dir
  BY <1>3, <1>4 DEF Request
<1> QED  BY <1>1, <1>2, <1>4, <1>5, <1>6, <1>7, NotedIs, KeepsAdvances DEF q, f, a

\* The folders it can come to next.
Here(r) == {d \in DirsAt(req[r].left) : req[r].pc = "walk" => ~dirs[d].trashed}

LEMMA LookUpIs ==
  ASSUME TypeInv, NEW r \in Requests, LookUp(r)
  PROVE  /\ Apart(r) /\ Advances(r) /\ req[r].pc \in {"walk", "climb"}
         /\ req[r].left # <<>> /\ req[r].dir = None
         /\ req'[r].pc = req[r].pc /\ req'[r].found = req[r].found
         /\ req'[r].left = Front(req[r].left) /\ req'[r].at = At(req[r])
         /\ \/ req'[r].dir = None /\ Here(r) = {}
            \/ req'[r].dir \in Here(r)
            \/ req'[r].dir = None /\ req'[r].uploads = {} /\ req'[r].reads = {}
<1> DEFINE n == Noted(req[r])
           a == IF req[r].at = None THEN now ELSE req[r].at
           l == Front(req[r].left)
           q == [n EXCEPT !.left = Front(@), !.at = a]
<1>1. TypeOK /\ req[r] \in Request /\ now \in Nat
  BY TermsAreLimits DEF TypeInv
<1>2. /\ req[r].pc \in {"walk", "climb"} /\ req[r].pc \in InProgress
      /\ req[r].left # <<>> /\ req[r].dir = None
  BY ZenonT(60) DEF LookUp, InProgress
<1>3. n \in Request /\ n.pc = req[r].pc /\ n.dir = req[r].dir /\ n.left = req[r].left /\ n.found = req[r].found
  BY <1>1, NotedIs
<1>4. a \in Nat \union {None} /\ l \in Path /\ a = At(req[r])
  <2>1. req[r].left \in Path
    BY <1>1 DEF Request
  <2> QED  BY <1>1, <1>2, <2>1, AboveIsInParent DEF At, Request
<1>5. q = [n EXCEPT !.left = l, !.at = a]
  BY <1>3, Zenon
<1>6. /\ Apart(r)
      /\ \/ Here(r) = {} /\ req'[r] = q
         \/ \E d \in Here(r) : req'[r] = [q EXCEPT !.dir = d]
         \/ req'[r] = Unpromised(q)
  BY Zenon DEF LookUp, GoOn, Apart, tables, Here
<1> HIDE DEF n, a, l, q
<1>7. /\ q \in Request /\ q.left = l /\ q.at = a
      /\ q.pc = n.pc /\ q.op = n.op /\ q.who = n.who /\ q.id = n.id /\ q.path = n.path
      /\ q.size = n.size /\ q.found = n.found /\ q.dir = n.dir /\ q.late = n.late
      /\ q.ever = n.ever /\ q.uploads = n.uploads /\ q.reads = n.reads
  BY <1>3, <1>4, <1>5 DEF Request
<1>8. CASE Here(r) = {} /\ req'[r] = q
  <2>1. Keeps(n, req'[r])
    BY <1>7, <1>8 DEF Keeps
  <2> QED  BY <1>2, <1>3, <1>4, <1>6, <1>7, <1>8, <2>1, KeepsAdvances DEF n, l
<1>9. CASE \E d \in Here(r) : req'[r] = [q EXCEPT !.dir = d]
  <2>1. PICK d \in Here(r) : req'[r] = [q EXCEPT !.dir = d]
    BY <1>9
  <2>2. d \in DirIds
    BY DEF Here, DirsAt
  <2>3. /\ req'[r] \in Request /\ req'[r].dir = d
        /\ req'[r].pc = q.pc /\ req'[r].op = q.op /\ req'[r].who = q.who /\ req'[r].id = q.id
        /\ req'[r].path = q.path /\ req'[r].size = q.size
        /\ req'[r].late = q.late /\ req'[r].ever = q.ever /\ req'[r].uploads = q.uploads
        /\ req'[r].reads = q.reads /\ req'[r].left = q.left /\ req'[r].at = q.at
        /\ req'[r].found = q.found
    BY <1>7, <2>1, <2>2 DEF Request
  <2>4. Keeps(n, req'[r])
    BY <1>7, <2>3 DEF Keeps
  <2> QED  BY <1>2, <1>3, <1>4, <1>6, <1>7, <2>3, <2>4, KeepsAdvances DEF n, l
<1>10. CASE req'[r] = Unpromised(q)
  <2>1. req'[r] = [q EXCEPT !.uploads = {}, !.reads = {}]
    BY <1>2, <1>3, <1>7, <1>10 DEF Unpromised
  <2>2. /\ req'[r] \in Request /\ req'[r].dir = q.dir
        /\ req'[r].pc = q.pc /\ req'[r].op = q.op /\ req'[r].who = q.who /\ req'[r].id = q.id
        /\ req'[r].path = q.path /\ req'[r].size = q.size
        /\ req'[r].late = q.late /\ req'[r].ever = q.ever /\ req'[r].uploads = {}
        /\ req'[r].reads = {} /\ req'[r].left = q.left /\ req'[r].at = q.at
        /\ req'[r].found = q.found
    BY <1>7, <2>1, ZenonT(60) DEF Request
  <2>3. Keeps(n, req'[r])
    BY <1>7, <2>2 DEF Keeps
  <2> QED  BY <1>2, <1>3, <1>4, <1>6, <1>7, <2>2, <2>3, KeepsAdvances DEF n, l
<1> QED  BY <1>6, <1>8, <1>9, <1>10

LEMMA AskSharesIs ==
  ASSUME TypeInv, NEW r \in Requests, AskShares(r)
  PROVE  /\ Apart(r) /\ Advances(r) /\ req[r].pc \in {"walk", "climb"}
         /\ req[r].dir \in DirIds /\ req[r].dir # None /\ req'[r].dir = None
         /\ req'[r].left = req[r].left /\ req'[r].at = req[r].at /\ req[r].at \in Nat
         /\ \/ /\ req[r].pc = "walk" /\ req'[r].pc = "walk"
               /\ req'[r].found =
                    req[r].found \union Terms(UploadShares(req[r].who, req[r].dir, req[r].at))
            \/ /\ req[r].pc = "climb" /\ req'[r].found = req[r].found
               /\ \/ ~HasAccess(req[r].who, req[r].dir, req[r].at) /\ req'[r].pc = "climb"
                  \/ /\ HasAccess(req[r].who, req[r].dir, req[r].at)
                     /\ \/ req[r].op = "upload" /\ req'[r].pc = "not_allowed"
                        \/ req[r].op # "upload" /\ req'[r].pc = "granted"
<1> DEFINE n == Noted(req[r])
           d == req[r].dir
           q == [n EXCEPT !.dir = None]
           f == Terms(UploadShares(q.who, d, q.at))
           a == HasAccess(q.who, d, q.at)
<1>1. TypeOK /\ req[r] \in Request /\ ReqOK(r)
  BY DEF TypeInv
<1>2. req[r].pc \in {"walk", "climb"} /\ req[r].pc \in InProgress /\ d # None
  BY DEF AskShares, InProgress
<1>3. d \in DirIds /\ req[r].at \in Nat
  BY <1>1, <1>2 DEF ReqOK, Request
<1>4. /\ n \in Request /\ n.op = req[r].op /\ n.pc = req[r].pc /\ n.who = req[r].who
      /\ n.left = req[r].left /\ n.found = req[r].found /\ n.at = req[r].at
  BY <1>1, NotedIs
<1>5. /\ Apart(r)
      /\ \/ req[r].pc = "walk" /\ req'[r] = [q EXCEPT !.found = @ \union f]
         \/ /\ req[r].pc # "walk"
            /\ req'[r] = [q EXCEPT !.pc = IF ~a THEN @ ELSE IF q.op = "upload" THEN "not_allowed" ELSE "granted"]
  BY Zenon DEF AskShares, GoOn, Apart, tables
<1>6. f \in SUBSET Limits
  BY <1>1, TermsAreLimits
<1> HIDE DEF n, d, q
<1>7. /\ q \in Request /\ q.dir = None /\ q.left = n.left /\ q.at = n.at
      /\ q.pc = n.pc /\ q.op = n.op /\ q.who = n.who /\ q.id = n.id /\ q.path = n.path
      /\ q.size = n.size /\ q.found = n.found /\ q.late = n.late
      /\ q.ever = n.ever /\ q.uploads = n.uploads /\ q.reads = n.reads
  BY <1>4 DEF Request, q
<1>8. /\ f = Terms(UploadShares(req[r].who, req[r].dir, req[r].at))
      /\ a <=> HasAccess(req[r].who, req[r].dir, req[r].at)
  BY <1>4, <1>7 DEF d
<1> HIDE DEF f, a
<1>9. CASE req[r].pc = "walk" /\ req'[r] = [q EXCEPT !.found = @ \union f]
  <2>1. req'[r] = [q EXCEPT !.found = q.found \union f] /\ q.found \union f \in SUBSET Limits
    BY <1>6, <1>7, <1>9 DEF Request
  <2>2. /\ req'[r] \in Request /\ req'[r].dir = q.dir
        /\ req'[r].pc = q.pc /\ req'[r].op = q.op /\ req'[r].who = q.who /\ req'[r].id = q.id
        /\ req'[r].path = q.path /\ req'[r].size = q.size
        /\ req'[r].late = q.late /\ req'[r].ever = q.ever /\ req'[r].uploads = q.uploads
        /\ req'[r].reads = q.reads /\ req'[r].left = q.left /\ req'[r].at = q.at
        /\ req'[r].found = q.found \union f
    BY <1>7, <2>1 DEF Request
  <2>3. Keeps(n, req'[r])
    BY <1>7, <2>2 DEF Keeps
  <2>4. Advances(r)
    BY <1>2, <2>3, KeepsAdvances DEF n
  <2> QED  BY <1>2, <1>3, <1>4, <1>5, <1>7, <1>8, <1>9, <2>2, <2>4 DEF d
<1>10. CASE /\ req[r].pc # "walk"
            /\ req'[r] = [q EXCEPT !.pc = IF ~a THEN @ ELSE IF q.op = "upload" THEN "not_allowed" ELSE "granted"]
  <2> DEFINE c == IF ~a THEN "climb" ELSE IF req[r].op = "upload" THEN "not_allowed" ELSE "granted"
  <2>1. c \in Stages
    BY DEF Stages
  <2>2. q.op = req[r].op /\ q.pc = "climb"
    BY <1>2, <1>4, <1>7, <1>10
  <2>3. req'[r] = [q EXCEPT !.pc = c]
    BY <1>10, <2>2, Zenon
  <2>4. \/ c = "climb" /\ ~a
        \/ a /\ \/ req[r].op = "upload" /\ c = "not_allowed"
                \/ req[r].op # "upload" /\ c = "granted"
    OBVIOUS
  <2> HIDE DEF c
  <2>5. /\ req'[r] \in Request /\ req'[r].dir = q.dir
        /\ req'[r].pc = c /\ req'[r].op = q.op /\ req'[r].who = q.who /\ req'[r].id = q.id
        /\ req'[r].path = q.path /\ req'[r].size = q.size
        /\ req'[r].late = q.late /\ req'[r].ever = q.ever /\ req'[r].uploads = q.uploads
        /\ req'[r].reads = q.reads /\ req'[r].left = q.left /\ req'[r].at = q.at
        /\ req'[r].found = q.found
    BY <1>7, <2>1, <2>3 DEF Request
  <2>6. Keeps(n, req'[r])
    BY <1>7, <2>5 DEF Keeps
  <2>7. Advances(r)
    BY <1>2, <2>6, KeepsAdvances DEF n
  <2>8. req[r].pc = "climb"
    BY <1>2, <1>10
  <2> QED  BY <1>3, <1>4, <1>5, <1>7, <1>8, <2>4, <2>5, <2>7, <2>8, <1>2 DEF d
<1> QED  BY <1>5, <1>9, <1>10

LEMMA ArriveIs ==
  ASSUME TypeInv, NEW r \in Requests, Arrive(r)
  PROVE  /\ Apart(r) /\ Advances(r) /\ req[r].pc \in {"walk", "climb"} /\ req[r].left = <<>>
         /\ req[r].dir = None /\ req'[r].dir = None
         /\ \/ req[r].pc = "climb" /\ req'[r].pc = "forbidden"
            \/ /\ req[r].pc = "walk" /\ req[r].found = {} /\ req'[r].pc = "probe"
               /\ req'[r].left = Front(req[r].path) /\ req'[r].at = None
            \/ /\ req[r].pc = "walk" /\ req[r].found # {} /\ req'[r].pc = "upload"
               /\ req'[r].limit = MostPermissive(req[r].found)
<1> DEFINE q == Noted(req[r])
           l == Front(req[r].path)
           m == MostPermissive(req[r].found)
<1>1. TypeOK /\ req[r] \in Request /\ ReqOK(r)
  BY DEF TypeInv
<1>2. /\ req[r].pc \in {"walk", "climb"} /\ req[r].pc \in InProgress /\ req[r].left = <<>>
      /\ req[r].dir = None
  BY DEF Arrive, InProgress
<1>3. /\ q \in Request /\ q.pc = req[r].pc /\ q.found = req[r].found /\ q.path = req[r].path
      /\ q.dir = req[r].dir
  BY <1>1, NotedIs
<1>4. l \in Path /\ (req[r].found # {} => m \in Limits)
  <2>1. req[r].found \in SUBSET Limits
    BY <1>1 DEF Request
  <2> QED  BY <1>1, <1>2, <2>1, PathsAreNotTheRoot, MostPermissiveIs DEF ReqOK
<1>5. /\ Apart(r)
      /\ \/ q.pc = "climb" /\ req'[r] = [q EXCEPT !.pc = "forbidden"]
         \/ /\ q.pc # "climb" /\ q.found = {}
            /\ req'[r] = [q EXCEPT !.pc = "probe", !.left = Parent(q.path), !.at = None]
         \/ /\ q.pc # "climb" /\ q.found # {}
            /\ req'[r] = [q EXCEPT !.pc = "upload", !.limit = MostPermissive(q.found)]
  BY Zenon DEF Arrive, GoOn, Apart, tables
<1>6. "forbidden" \in Stages /\ "probe" \in Stages /\ "upload" \in Stages
  BY DEF Stages
<1>7. CASE q.pc = "climb" /\ req'[r] = [q EXCEPT !.pc = "forbidden"]
  <2> HIDE DEF q
  <2>1. Keeps(q, req'[r]) /\ req'[r].pc = "forbidden" /\ req'[r].dir = q.dir
    BY <1>3, <1>6, <1>7 DEF Request, Keeps
  <2> QED  BY <1>2, <1>3, <1>5, <1>7, <2>1, KeepsAdvances DEF q
<1>8. CASE /\ q.pc # "climb" /\ q.found = {}
           /\ req'[r] = [q EXCEPT !.pc = "probe", !.left = Parent(q.path), !.at = None]
  <2>1. req'[r] = [q EXCEPT !.pc = "probe", !.left = l, !.at = None]
    BY <1>3, <1>8, Zenon DEF Parent
  <2> HIDE DEF q, l
  <2>4. req'[r] \in Request
    BY <1>3, <1>4, <1>6, <2>1 DEF Request
  <2>2. /\ req'[r].pc = "probe" /\ req'[r].op = q.op /\ req'[r].who = q.who /\ req'[r].id = q.id
        /\ req'[r].path = q.path /\ req'[r].size = q.size
        /\ req'[r].late = q.late /\ req'[r].ever = q.ever /\ req'[r].uploads = q.uploads
        /\ req'[r].reads = q.reads /\ req'[r].left = l /\ req'[r].at = None
        /\ req'[r].dir = q.dir
    BY <1>3, <2>1 DEF Request
  <2>3. Keeps(q, req'[r])
    BY <2>2, <2>4 DEF Keeps
  <2> QED  BY <1>2, <1>3, <1>5, <1>8, <2>2, <2>3, KeepsAdvances DEF q, l
<1>9. CASE /\ q.pc # "climb" /\ q.found # {}
           /\ req'[r] = [q EXCEPT !.pc = "upload", !.limit = MostPermissive(q.found)]
  <2>1. req'[r] = [q EXCEPT !.pc = "upload", !.limit = m] /\ m \in Limits
    BY <1>3, <1>4, <1>9, Zenon
  <2> HIDE DEF q, m
  <2>4. req'[r] \in Request
    BY <1>3, <1>6, <2>1 DEF Request
  <2>2. /\ req'[r].pc = "upload" /\ req'[r].op = q.op /\ req'[r].who = q.who /\ req'[r].id = q.id
        /\ req'[r].path = q.path /\ req'[r].size = q.size
        /\ req'[r].late = q.late /\ req'[r].ever = q.ever /\ req'[r].uploads = q.uploads
        /\ req'[r].reads = q.reads /\ req'[r].limit = m /\ req'[r].dir = q.dir
    BY <1>3, <2>1 DEF Request
  <2>3. Keeps(q, req'[r])
    BY <2>2, <2>4 DEF Keeps
  <2> QED  BY <1>2, <1>3, <1>5, <1>9, <2>2, <2>3, KeepsAdvances DEF q, m
<1> QED  BY <1>5, <1>7, <1>8, <1>9

LEMMA IdleIsARequest == Idle \in Request
<1>1. <<>> \in Path /\ None \in Limits
  BY EmptySeq DEF Path, Limits
<1>2. "idle" \in Stages
  BY DEF Stages
<1> QED  BY <1>1, <1>2, Zenon DEF Idle, Request

\* A request begins: it has read the row, and what covers it then is promised.
Begins(r) ==
  LET p == req'[r] IN
  /\ p.pc = "own" /\ p.late = FALSE /\ p.id \in Items
  /\ Row(p.id) # None /\ p.path = Row(p.id).path
  /\ p.left = Front(p.path) /\ p.at = None /\ p.dir = None
  /\ p.op = "upload" => p.id \in DirIds

LEMMA AskIs ==
  ASSUME TypeInv, NEW r \in Requests, NEW op \in {"download", "browse", "upload"}, NEW g \in Guests,
         NEW x \in Items, op = "upload" => x \in DirIds, Ask(r, op, g, x)
  PROVE  /\ Apart(r) /\ req[r].pc = "idle" /\ req'[r] \in Request
         /\ req'[r].pc = "not_found" \/ Begins(r)
<1> DEFINE row == Row(x)
           q == [Idle EXCEPT !.op = op, !.who = g, !.id = x]
           u == Offers(Certain(Uploads(q)))
           d == Certain(Reads(q))
           p == row.path
           l == Parent(p)
<1>1. TypeOK
  BY DEF TypeInv
<1>2. Apart(r) /\ req[r].pc = "idle"
  BY Zenon DEF Ask, GoOn, Apart, tables
<1>3. \/ req'[r] = [q EXCEPT !.pc = "not_found"]
      \/ row # None /\ req'[r] = [q EXCEPT !.pc = "own", !.path = p, !.left = l, !.uploads = u, !.reads = d]
  BY Zenon DEF Ask, GoOn
<1>4. /\ q \in Request /\ q.op = op /\ q.who = g /\ q.id = x
      /\ q.at = None /\ q.dir = None /\ q.late = FALSE
  <2>1. Idle.at = None /\ Idle.dir = None /\ Idle.late = FALSE
    BY DEF Idle
  <2> QED  BY <2>1, IdleIsARequest DEF Request
<1>5. u \in SUBSET (ShareIds \X Limits) /\ d \in SUBSET ShareIds
  BY <1>1, NotesAre
<1>6. row # None => p \in Paths /\ p \in Path /\ l \in Path
  BY <1>1, RowsAre, PathsAreNotTheRoot DEF Parent
<1>7. "not_found" \in Stages /\ "own" \in Stages
  BY DEF Stages
<1>8. CASE req'[r] = [q EXCEPT !.pc = "not_found"]
  <2> HIDE DEF q
  <2> QED  BY <1>2, <1>4, <1>7, <1>8 DEF Request
<1>9. CASE row # None /\ req'[r] = [q EXCEPT !.pc = "own", !.path = p, !.left = l, !.uploads = u, !.reads = d]
  <2> HIDE DEF q, p, l, u, d
  <2>3. /\ req'[r].pc = "own" /\ req'[r].op = q.op /\ req'[r].who = q.who /\ req'[r].id = q.id
        /\ req'[r].path = p /\ req'[r].left = l /\ req'[r].at = q.at
    BY <1>4, <1>9 DEF Request
  <2>4. req'[r].late = q.late /\ req'[r].dir = q.dir
    BY <1>4, <1>9 DEF Request
  <2>5. req'[r] \in Request
    <3> DEFINE b == [q EXCEPT !.pc = "own", !.path = p, !.left = l]
    <3>1. b \in Request
      BY <1>4, <1>6, <1>7, <1>9 DEF Request
    <3>2. req'[r] = [b EXCEPT !.uploads = u, !.reads = d]
      BY <1>9
    <3> HIDE DEF b
    <3> QED  BY <1>5, <3>1, <3>2 DEF Request
  <2>1. /\ req'[r] \in Request
        /\ req'[r].pc = "own" /\ req'[r].op = op /\ req'[r].who = g /\ req'[r].id = x
        /\ req'[r].path = p /\ req'[r].left = l /\ req'[r].at = None /\ req'[r].dir = None
        /\ req'[r].late = FALSE
    BY <1>4, <2>3, <2>4, <2>5, Zenon
  <2>2. Begins(r)
    BY <1>9, <2>1 DEF Begins, p, l, Parent
  <2> QED  BY <1>2, <2>1, <2>2
<1> QED  BY <1>3, <1>8, <1>9

LEMMA ChildPaths ==
  ASSUME NEW p \in Dirs, NEW n \in Names
  PROVE  Append(p, n) \in Paths
<1>1. PICK m \in 0..2 : p \in [1..m -> Names]
  BY Zenon DEF Dirs, SeqOf
<1>2. p \in Seq(Names) /\ Len(p) = m
  <2>1. p \in Path
    BY PathsAreNotTheRoot
  <2>2. DOMAIN p = 1..m /\ DOMAIN p = 1..Len(p) /\ Len(p) \in Nat
    BY <1>1, <2>1, LenProperties DEF Path
  <2> QED  BY <2>1, <2>2 DEF Path
<1>3. Append(p, n) \in Seq(Names) /\ Len(Append(p, n)) = m + 1
  BY <1>2, AppendProperties
<1>4. Append(p, n) \in [1..(m + 1) -> Names] /\ Append(p, n) # <<>>
  <2> DEFINE c == Append(p, n)
  <2>1. c \in Seq(Names) /\ Len(c) = m + 1 /\ m \in Nat
    BY <1>3
  <2> HIDE DEF c
  <2>2. c \in [1..Len(c) -> Names]
    BY <2>1, LenProperties
  <2>3. c # <<>>
    <3>1. Len(<<>>) = 0 /\ m + 1 # 0
      BY <2>1, EmptySeq
    <3> QED  BY <2>1, <3>1
  <2>4. c \in [1..(m + 1) -> Names]
    BY <2>1, <2>2
  <2> QED  BY <2>3, <2>4 DEF c
<1>5. m + 1 \in 0..3
  OBVIOUS
<1> QED  BY <1>4, <1>5, Zenon DEF Paths, SeqOf

LEMMA StoreIs ==
  ASSUME TypeInv, NEW r \in Requests, NEW n \in Names, NEW size \in Nat, Store(r, n, size)
  PROVE  /\ UNCHANGED <<dirs, shares, users, member, now>>
         /\ req' = [s \in Requests |-> req'[s]]
         /\ \A s \in Requests : s # r => req'[s] = Noted(req[s])
         /\ req[r].pc = "upload" /\ req'[r] \in Request
         /\ req'[r].ever = req[r].ever /\ req'[r].uploads = req[r].uploads
         /\ req'[r].limit = req[r].limit /\ req'[r].late = req[r].late /\ req'[r].size = size
         /\ \/ req'[r].pc = "occupied"
            \/ req'[r].pc = "stored" /\ (req[r].limit = None \/ size <= req[r].limit)
            \/ req'[r].pc = "too_large" /\ req[r].limit # None /\ ~(size <= req[r].limit)
<1> DEFINE q == [req[r] EXCEPT !.size = size]
           taken == ~Free(Append(q.path, n))
           fits == q.limit = None \/ size <= q.limit
           c == IF taken THEN "occupied" ELSE IF fits THEN "stored" ELSE "too_large"
<1>1. req[r] \in Request
  BY DEF TypeInv
<1>2. /\ UNCHANGED <<dirs, shares, users, member, now>> /\ req[r].pc = "upload"
      /\ req' = [s \in Requests |-> IF s = r THEN [q EXCEPT !.pc = c] ELSE Noted(req[s])]
  BY Zenon DEF Store, GoOn
<1>3. q \in Request /\ q.size = size
  BY <1>1 DEF Request
<1>4. /\ q.ever = req[r].ever /\ q.uploads = req[r].uploads /\ q.limit = req[r].limit
      /\ q.late = req[r].late
  BY <1>1 DEF Request
<1>5. c \in Stages
  BY DEF Stages
<1>6. \/ c = "occupied" \/ (c = "stored" /\ fits) \/ (c = "too_large" /\ ~fits)
  OBVIOUS
<1>7. req'[r] = [q EXCEPT !.pc = c] /\ \A s \in Requests : s # r => req'[s] = Noted(req[s])
  BY <1>2, Zenon
<1> HIDE DEF q, c, taken
<1>8. /\ req'[r] \in Request /\ req'[r].pc = c
      /\ req'[r].ever = q.ever /\ req'[r].uploads = q.uploads /\ req'[r].limit = q.limit
      /\ req'[r].late = q.late /\ req'[r].size = q.size
  BY <1>3, <1>5, <1>7 DEF Request
<1> QED  BY <1>2, <1>3, <1>4, <1>6, <1>7, <1>8

\* What is stored takes no place of another row.
LEMMA StoreTypes ==
  ASSUME TypeInv, NEW r \in Requests, NEW n \in Names, NEW size \in Nat, Store(r, n, size)
  PROVE  /\ TypeOK'
         /\ \A f \in FileIds : files[f] # None => files'[f] = files[f]
<1>1. TypeOK /\ req[r] \in Request /\ ReqOK(r)
  BY DEF TypeInv
<1>2. req[r].pc = "upload" /\ UNCHANGED <<dirs, shares, users, member, now>>
  BY StoreIs
<1>3. req[r].path \in Dirs
  BY <1>1, <1>2 DEF ReqOK
<1> DEFINE p == Append(req[r].path, n)
           row == [path |-> p]
<1>4. p \in Paths
  BY <1>3, ChildPaths
<1>5. [req[r] EXCEPT !.size = size].path = req[r].path
  BY <1>1 DEF Request
<1>6. \/ files' = files
      \/ Free(p) /\ \E f \in FileIds : files[f] = None /\ files' = [files EXCEPT ![f] = row]
  BY <1>5 DEF Store
<1>7. row \in FileRows /\ row.path = p /\ row # None
  <2>1. row \in FileRows /\ row.path = p
    BY <1>4 DEF FileRows
  <2> QED  BY <2>1, NoneIsNoRow
<1> HIDE DEF row, p
<1>8. CASE files' = files
  BY <1>1, <1>2, <1>8 DEF TypeOK, Row, Unique
<1>9. CASE Free(p) /\ \E f \in FileIds : files[f] = None /\ files' = [files EXCEPT ![f] = row]
  <2>1. PICK f \in FileIds : files[f] = None /\ files' = [files EXCEPT ![f] = row]
    BY <1>9
  <2>2. files \in [FileIds -> FileRows \union {None}] /\ Unique(files)
    BY <1>1 DEF TypeOK
  <2>3. /\ files' \in [FileIds -> FileRows \union {None}]
        /\ \A e \in FileIds : files[e] # None => files'[e] = files[e]
        /\ \A e \in FileIds : e # f => files'[e] = files[e]
        /\ files'[f] = row
    BY <1>7, <2>1, <2>2
  <2>4. \A e \in FileIds : files[e] # None => files[e].path # p
    BY <1>9 DEF Free, FilesAt
  <2>5. Unique(files')
    BY <1>7, <2>2, <2>3, <2>4 DEF Unique
  <2>6. \A x \in Items : Row(x) # None => Row(x)' # None
    BY <1>2, <2>3 DEF Row, Items
  <2>7. \A s \in ShareIds : shares[s] # None =>
          Row(shares[s].on)' # None /\ shares[s].to \in users \union {Group}
    <3> TAKE s \in ShareIds
    <3> HAVE shares[s] # None
    <3>1. shares[s].on \in Items /\ Row(shares[s].on) # None /\ shares[s].to \in users \union {Group}
      BY <1>1, AnchoredRows
    <3> QED  BY <1>2, <2>6, <3>1 DEF Row
  <2> QED  BY <1>1, <1>2, <2>3, <2>5, <2>7 DEF TypeOK
<1> QED  BY <1>6, <1>8, <1>9

(***************************************************************************)
(* Type correctness.                                                       *)
(***************************************************************************)
\* The owner, the administrator and time make every request wait.
Waiting(r) ==
  /\ Waits(r)
  /\ req[r].pc \in InProgress => req'[r].late = (req[r].late \/ ~Current(req[r]))

LEMMA OthersWait ==
  ASSUME TypeInv, Others \/ Moving
  PROVE  req' = [r \in Requests |-> req'[r]] /\ \A r \in Requests : Waiting(r)
<1>1. CASE Others
  <2>1. /\ req' = [r \in Requests |-> req'[r]]
        /\ \A r \in Requests : req'[r] = Late(req[r])
    BY <1>1, Zenon DEF Others
  <2> QED  BY <2>1, LateWaits DEF Waiting
<1>2. CASE Moving
  <2>1. /\ req' = [r \in Requests |-> req'[r]]
        /\ \A r \in Requests : req'[r] = Unpromised(Late(req[r]))
    BY <1>2, Zenon DEF Moving
  <2> QED  BY <2>1, UnpromisedWaits DEF Waiting
<1> QED  BY <1>1, <1>2

Acts == Sharing \/ Change

LEMMA ActsAre ==
  ASSUME Acts
  PROVE  \/ \E s \in ShareIds : \E in \in Share : in.expires = None /\ CreateShare(s, in)
         \/ \E s \in ShareIds : RevokeShare(s)
         \/ \E d \in DirIds : \E p \in Dirs : Mkdir(d, p)
         \/ \E d \in DirIds : \E p \in Dirs : MoveDirectory(d, p)
         \/ \E d \in DirIds : DeleteDirectory(d) \/ RestoreDirectory(d)
         \/ \E d \in DirIds : EraseDirectory(d)
         \/ \E f \in FileIds : EraseFile(f)
         \/ \E f \in FileIds : \E p \in Dirs : MoveFile(f, p)
         \/ \E g \in Guests : AddUserToGroup(g)
         \/ \E g \in Guests : DeleteUser(g)
         \/ \E u \in 0..Horizon : Tick(u)
<1>1. ASSUME Sharing
      PROVE  \/ \E s \in ShareIds : \E in \in Share : in.expires = None /\ CreateShare(s, in)
             \/ \E s \in ShareIds : RevokeShare(s)
  BY <1>1, Zenon DEF Sharing, CreateShareRequest
<1>2. ASSUME Change
      PROVE  \/ \E d \in DirIds : \E p \in Dirs : Mkdir(d, p)
             \/ \E d \in DirIds : \E p \in Dirs : MoveDirectory(d, p)
             \/ \E d \in DirIds : DeleteDirectory(d) \/ RestoreDirectory(d)
             \/ \E d \in DirIds : EraseDirectory(d)
             \/ \E f \in FileIds : EraseFile(f)
             \/ \E f \in FileIds : \E p \in Dirs : MoveFile(f, p)
             \/ \E g \in Guests : AddUserToGroup(g)
             \/ \E g \in Guests : DeleteUser(g)
             \/ \E u \in 0..Horizon : Tick(u)
  BY <1>2, Zenon DEF Change
<1> QED  BY <1>1, <1>2, Zenon DEF Acts

LEMMA ActsTypes ==
  ASSUME TypeInv, Acts
  PROVE  TypeOK' /\ (Others \/ Moving) /\ now \in Nat /\ now' \in Nat /\ now <= now'
<1>1. TypeOK /\ now \in Nat
  BY TermsAreLimits DEF TypeInv
<1>2. ASSUME TypeOK', UNCHANGED now
      PROVE  now' \in Nat /\ now <= now'
  BY <1>1, <1>2
<1>3. ASSUME NEW s \in ShareIds, NEW in \in Share, CreateShare(s, in)
      PROVE  TypeOK' /\ Others /\ UNCHANGED now
  BY <1>1, <1>3, CreateShareTypes DEF CreateShare
<1>13. ASSUME NEW s \in ShareIds, RevokeShare(s)
       PROVE  TypeOK' /\ Others /\ UNCHANGED now
  BY <1>1, <1>13, RevokeShareTypes DEF RevokeShare
<1>4. ASSUME NEW d \in DirIds, NEW p \in Dirs, Mkdir(d, p)
      PROVE  TypeOK' /\ Others /\ UNCHANGED now
  BY <1>1, <1>4, MkdirTypes DEF Mkdir
<1>5. ASSUME NEW d \in DirIds, NEW p \in Dirs, MoveDirectory(d, p)
      PROVE  TypeOK' /\ Moving /\ UNCHANGED now
  BY <1>1, <1>5, MoveDirectoryTypes DEF MoveDirectory
<1>6. ASSUME NEW d \in DirIds, DeleteDirectory(d) \/ RestoreDirectory(d)
      PROVE  TypeOK' /\ Others /\ UNCHANGED now
  BY <1>1, <1>6, TrashTypes DEF DeleteDirectory, RestoreDirectory
<1>7. ASSUME NEW d \in DirIds, EraseDirectory(d)
      PROVE  TypeOK' /\ Others /\ UNCHANGED now
  BY <1>1, <1>7, EraseDirectoryTypes DEF EraseDirectory
<1>8. ASSUME NEW f \in FileIds, EraseFile(f)
      PROVE  TypeOK' /\ Others /\ UNCHANGED now
  BY <1>1, <1>8, EraseFileTypes DEF EraseFile
<1>9. ASSUME NEW f \in FileIds, NEW p \in Dirs, MoveFile(f, p)
      PROVE  TypeOK' /\ Moving /\ UNCHANGED now
  BY <1>1, <1>9, MoveFileTypes DEF MoveFile
<1>10. ASSUME NEW g \in Guests, AddUserToGroup(g)
       PROVE  TypeOK' /\ Others /\ UNCHANGED now
  BY <1>1, <1>10, AddUserTypes DEF AddUserToGroup
<1>11. ASSUME NEW g \in Guests, DeleteUser(g)
       PROVE  TypeOK' /\ Others /\ UNCHANGED now
  BY <1>1, <1>11, DeleteUserTypes DEF DeleteUser
<1>12. ASSUME NEW u \in 0..Horizon, Tick(u)
       PROVE  TypeOK' /\ Others /\ now' \in Nat /\ now <= now'
  <2>1. u \in Nat /\ now < u /\ now' = u /\ Others
    BY <1>12, NoneIsNoRow DEF Tick
  <2> QED  BY <1>1, <1>12, <2>1, TickTypes
<1>14. TypeOK' /\ (Others \/ Moving) /\ (UNCHANGED now \/ (now' \in Nat /\ now <= now'))
  BY <1>3, <1>4, <1>5, <1>6, <1>7, <1>8, <1>9, <1>10, <1>11, <1>12, <1>13, ActsAre, Zenon
<1> QED  BY <1>1, <1>2, <1>14

\* A request of a guest, or a step of one.
LEMMA ServeIs ==
  ASSUME NEW r \in Requests, Serve(r), users \subseteq Guests
  PROVE  \/ \E op \in {"download", "browse", "upload"}, g \in Guests, x \in Items :
              (op = "upload" => x \in DirIds) /\ Ask(r, op, g, x)
         \/ Own(r) \/ LookUp(r) \/ AskShares(r) \/ Arrive(r)
         \/ \E n \in Names, size \in Nat : Store(r, n, size)
<1>1. ASSUME NEW g \in users, DownloadFile(r, g) \/ ListSharedDirectory(r, g) \/ UploadToSharedDirectory(r, g)
      PROVE  \E op \in {"download", "browse", "upload"}, h \in Guests, x \in Items :
               (op = "upload" => x \in DirIds) /\ Ask(r, op, h, x)
  <2>1. g \in Guests
    OBVIOUS
  <2>2. CASE DownloadFile(r, g)
    <3>1. PICK x \in FileIds : Ask(r, "download", g, x)
      BY <2>2 DEF DownloadFile
    <3>2. x \in Items /\ "download" # "upload"
      BY DEF Items
    <3> QED  BY <2>1, <3>1, <3>2
  <2>3. CASE ListSharedDirectory(r, g)
    <3>1. PICK x \in DirIds : Ask(r, "browse", g, x)
      BY <2>3 DEF ListSharedDirectory
    <3>2. x \in Items
      BY DEF Items
    <3> QED  BY <2>1, <3>1, <3>2
  <2>4. CASE UploadToSharedDirectory(r, g)
    <3>1. PICK x \in DirIds : Ask(r, "upload", g, x)
      BY <2>4 DEF UploadToSharedDirectory
    <3>2. x \in Items
      BY DEF Items
    <3> QED  BY <2>1, <3>1, <3>2
  <2> QED  BY <1>1, <2>2, <2>3, <2>4
<1>2. MaxSize \in Nat /\ 1..(MaxSize + 1) \subseteq Nat
  BY NoneIsNoRow
<1> QED  BY <1>1, <1>2, Zenon DEF Serve

LEMMA ApartTypes ==
  ASSUME TypeInv, NEW r \in Requests, UNCHANGED <<tables, now>>
  PROVE  TypeOK'
BY DEF TypeInv, TypeOK, tables, Row, Unique

LEMMA OwnKeepsWhatIsRead ==
  ASSUME TypeInv, NEW r \in Requests, Own(r)
  PROVE  ReqOK(r)'
<1>1. ReqOK(r) /\ now \in Nat /\ UNCHANGED now
  BY TermsAreLimits, OwnIs DEF TypeInv, Apart
<1>2. /\ req[r].pc \in {"own", "probe"} /\ req[r].id \in Items /\ req[r].path \in Paths
      /\ req[r].op = "upload" => req[r].id \in DirIds /\ req[r].path \in Dirs
      /\ IsPrefix(req[r].left, Front(req[r].path)) /\ req[r].at = None /\ req[r].dir = None
  BY <1>1, OwnIs DEF ReqOK, InProgress
<1>3. /\ req'[r].op = req[r].op /\ req'[r].id = req[r].id /\ req'[r].path = req[r].path
      /\ req'[r].left = req[r].left /\ req'[r].dir = None
      /\ \/ req'[r].pc = "walk" /\ req[r].op = "upload" /\ req'[r].at = now
         \/ req'[r].pc \in {"climb", "not_allowed", "granted"} /\ req'[r].at = None
  BY <1>2, OwnIs DEF Advances
<1> QED  BY <1>1, <1>2, <1>3 DEF ReqOK, InProgress

LEMMA LookUpKeepsWhatIsRead ==
  ASSUME TypeInv, NEW r \in Requests, LookUp(r)
  PROVE  /\ ReqOK(r)' /\ At(req[r]) \in Nat
         /\ req[r].left \in Path /\ Front(req[r].left) \in Path
<1>1. ReqOK(r) /\ req[r] \in Request /\ now \in Nat /\ UNCHANGED now
  BY TermsAreLimits, LookUpIs DEF TypeInv, Apart
<1>2. /\ req[r].pc \in {"walk", "climb"} /\ req[r].left # <<>>
      /\ req[r].id \in Items /\ req[r].path \in Paths
      /\ req[r].op = "upload" => req[r].id \in DirIds /\ req[r].path \in Dirs
      /\ IsPrefix(req[r].left, Front(req[r].path)) /\ (req[r].at # None => req[r].at <= now)
      /\ req[r].pc = "walk" => req[r].op = "upload"
  BY <1>1, LookUpIs DEF ReqOK, InProgress
<1>3. /\ req'[r].op = req[r].op /\ req'[r].id = req[r].id /\ req'[r].path = req[r].path
      /\ req'[r].left = Front(req[r].left) /\ req'[r].at = At(req[r])
      /\ req'[r].pc = req[r].pc
  BY <1>2, LookUpIs DEF Advances
<1>4. /\ req[r].left \in Path /\ Front(req[r].left) \in Path /\ Front(req[r].path) \in Path
      /\ IsPrefix(Front(req[r].left), req[r].left)
  BY <1>1, <1>2, PathsAreNotTheRoot, AboveIsInParent DEF Request
<1>5. IsPrefix(Front(req[r].left), Front(req[r].path))
  BY <1>2, <1>4, PrefixOrder
<1>6. At(req[r]) \in Nat /\ At(req[r]) <= now /\ At(req[r]) # None
  BY <1>1, <1>2, NoneIsNoRow DEF At, Request
<1> QED  BY <1>1, <1>2, <1>3, <1>4, <1>5, <1>6 DEF ReqOK, InProgress

LEMMA AskSharesKeepsWhatIsRead ==
  ASSUME TypeInv, NEW r \in Requests, AskShares(r)
  PROVE  ReqOK(r)'
<1>1. ReqOK(r) /\ UNCHANGED now
  BY AskSharesIs DEF TypeInv, Apart
<1>2. /\ req[r].pc \in {"walk", "climb"}
      /\ req[r].id \in Items /\ req[r].path \in Paths
      /\ req[r].op = "upload" => req[r].id \in DirIds /\ req[r].path \in Dirs
      /\ IsPrefix(req[r].left, Front(req[r].path)) /\ (req[r].at # None => req[r].at <= now)
      /\ req[r].pc = "walk" => req[r].op = "upload"
  BY <1>1, AskSharesIs DEF ReqOK, InProgress
<1>3. /\ req'[r].op = req[r].op /\ req'[r].id = req[r].id /\ req'[r].path = req[r].path
      /\ req'[r].left = req[r].left /\ req'[r].at = req[r].at /\ req'[r].dir = None
      /\ req'[r].pc \in {req[r].pc, "not_allowed", "granted"}
  BY <1>2, AskSharesIs DEF Advances
<1> QED  BY <1>1, <1>2, <1>3 DEF ReqOK, InProgress

LEMMA ArriveKeepsWhatIsRead ==
  ASSUME TypeInv, NEW r \in Requests, Arrive(r)
  PROVE  ReqOK(r)'
<1>1. ReqOK(r) /\ UNCHANGED now
  BY ArriveIs DEF TypeInv, Apart
<1>2. /\ req[r].id \in Items /\ req[r].path \in Paths
      /\ req[r].op = "upload" => req[r].id \in DirIds /\ req[r].path \in Dirs
      /\ req[r].pc = "walk" => req[r].op = "upload"
  BY <1>1, ArriveIs DEF ReqOK, InProgress
<1>3. Front(req[r].path) \in Path /\ IsPrefix(Front(req[r].path), Front(req[r].path))
  BY <1>2, PathsAreNotTheRoot, PrefixOrder
<1>4. /\ req'[r].op = req[r].op /\ req'[r].id = req[r].id /\ req'[r].path = req[r].path
      /\ \/ req'[r].pc = "forbidden"
         \/ /\ req[r].pc = "walk" /\ req'[r].pc = "probe"
            /\ req'[r].left = Front(req[r].path) /\ req'[r].at = None /\ req'[r].dir = None
         \/ req[r].pc = "walk" /\ req'[r].pc = "upload"
  BY ArriveIs DEF Advances
<1> QED  BY <1>2, <1>3, <1>4 DEF ReqOK, InProgress

LEMMA BeginsWithWhatIsRead ==
  ASSUME TypeOK, NEW r \in Requests, Begins(r)
  PROVE  ReqOK(r)'
<1> DEFINE p == req'[r]
<1>1. /\ p.pc = "own" /\ p.id \in Items /\ Row(p.id) # None /\ p.path = Row(p.id).path
      /\ p.left = Front(p.path) /\ p.at = None /\ p.dir = None
      /\ p.op = "upload" => p.id \in DirIds
  BY DEF Begins
<1>2. p.path \in Paths /\ (p.id \in DirIds => p.path \in Dirs)
  BY <1>1, RowsAre DEF DirRows
<1>3. IsPrefix(Front(p.path), Front(p.path))
  BY <1>2, PathsAreNotTheRoot, PrefixOrder
<1> QED  BY <1>1, <1>2, <1>3 DEF ReqOK, InProgress

\* One request makes a step, the others wait.
LEMMA ServeWaits ==
  ASSUME TypeInv, NEW r \in Requests, Serve(r)
  PROVE  /\ \A s \in Requests \ {r} : Waits(s) /\ req'[s].late = req[s].late
         /\ req' = [s \in Requests |-> req'[s]] /\ UNCHANGED <<dirs, shares, member, now>>
         /\ \A f \in FileIds : files[f] # None => files'[f] = files[f]
         /\ TypeOK' /\ req'[r] \in Request
<1>1. users \subseteq Guests
  BY DEF TypeInv, TypeOK
<1>2. ASSUME Apart(r), req'[r] \in Request
      PROVE  /\ \A s \in Requests \ {r} : Waits(s) /\ req'[s].late = req[s].late
             /\ req' = [s \in Requests |-> req'[s]] /\ UNCHANGED <<dirs, shares, member, now>>
             /\ \A f \in FileIds : files[f] # None => files'[f] = files[f]
             /\ TypeOK' /\ req'[r] \in Request
  <2>1. UNCHANGED <<dirs, files, shares, users, member, now>>
    BY <1>2 DEF Apart, tables
  <2>2. TypeOK'
    BY <1>2, ApartTypes DEF Apart
  <2>3. \A s \in Requests \ {r} : Waits(s) /\ req'[s].late = req[s].late
    BY <1>2, NotedWaits DEF Apart
  <2> QED  BY <1>2, <2>1, <2>2, <2>3 DEF Apart
<1>3. ASSUME NEW op \in {"download", "browse", "upload"}, NEW g \in Guests, NEW x \in Items,
             op = "upload" => x \in DirIds, Ask(r, op, g, x)
      PROVE  Apart(r) /\ req'[r] \in Request
  BY <1>3, AskIs
<1>4. ASSUME Own(r) \/ LookUp(r) \/ AskShares(r) \/ Arrive(r)
      PROVE  Apart(r) /\ req'[r] \in Request
  BY <1>4, OwnIs, LookUpIs, AskSharesIs, ArriveIs DEF Advances
<1>5. ASSUME NEW n \in Names, NEW size \in Nat, Store(r, n, size)
      PROVE  /\ \A s \in Requests \ {r} : Waits(s) /\ req'[s].late = req[s].late
             /\ req' = [s \in Requests |-> req'[s]] /\ UNCHANGED <<dirs, shares, member, now>>
             /\ \A f \in FileIds : files[f] # None => files'[f] = files[f]
             /\ TypeOK' /\ req'[r] \in Request
  BY <1>5, StoreIs, StoreTypes, NotedWaits
<1>6. (Apart(r) /\ req'[r] \in Request) \/ (\E n \in Names, size \in Nat : Store(r, n, size))
  BY <1>1, <1>3, <1>4, ServeIs, Zenon
<1> QED  BY <1>2, <1>5, <1>6

LEMMA ServeKeepsWhatIsRead ==
  ASSUME TypeInv, NEW r \in Requests, Serve(r)
  PROVE  ReqOK(r)'
<1>1. users \subseteq Guests /\ TypeOK
  BY DEF TypeInv, TypeOK
<1>2. ASSUME NEW op \in {"download", "browse", "upload"}, NEW g \in Guests, NEW x \in Items,
             op = "upload" => x \in DirIds, Ask(r, op, g, x)
      PROVE  ReqOK(r)'
  <2>1. req'[r].pc = "not_found" \/ Begins(r)
    BY <1>2, AskIs
  <2> QED  BY <1>1, <2>1, BeginsWithWhatIsRead DEF ReqOK, InProgress
<1>3. ASSUME NEW n \in Names, NEW size \in Nat, Store(r, n, size)
      PROVE  ReqOK(r)'
  <2>1. req'[r].pc \in {"occupied", "stored", "too_large"}
    BY <1>3, StoreIs
  <2> QED  BY <2>1 DEF ReqOK, InProgress
<1> QED  BY <1>1, <1>2, <1>3, ServeIs, OwnKeepsWhatIsRead, LookUpKeepsWhatIsRead,
           AskSharesKeepsWhatIsRead, ArriveKeepsWhatIsRead, Zenon

LEMMA TypeStep ==
  ASSUME TypeInv, [Next]_vars
  PROVE  TypeInv'
<1>1. ASSUME Acts
      PROVE  TypeInv'
  <2>1. TypeOK' /\ now \in Nat /\ now' \in Nat /\ now <= now'
    BY <1>1, ActsTypes
  <2>2. req' = [r \in Requests |-> req'[r]] /\ \A r \in Requests : Waits(r)
    BY <1>1, ActsTypes, OthersWait DEF Waiting
  <2>3. \A r \in Requests : req'[r] \in Request
    BY <2>2 DEF Waits
  <2>4. \A r \in Requests : ReqOK(r)'
    BY <2>1, <2>2, WaitsOK
  <2> QED  BY <2>1, <2>2, <2>3, <2>4, Zenon DEF TypeInv
<1>2. ASSUME NEW r \in Requests, Serve(r)
      PROVE  TypeInv'
  <2>1. /\ TypeOK' /\ now \in Nat /\ now' \in Nat /\ now <= now'
        /\ req' = [s \in Requests |-> req'[s]] /\ \A s \in Requests \ {r} : Waits(s)
        /\ req'[r] \in Request
    BY <1>2, ServeWaits, TermsAreLimits DEF TypeInv
  <2>2. \A s \in Requests : req'[s] \in Request
    BY <2>1 DEF Waits
  <2>3. \A s \in Requests : ReqOK(s)'
    BY <1>2, <2>1, WaitsOK, ServeKeepsWhatIsRead
  <2> QED  BY <2>1, <2>2, <2>3, Zenon DEF TypeInv
<1>3. CASE UNCHANGED vars
  BY <1>3 DEF vars, tables, TypeInv, TypeOK, Row, Unique, ReqOK
<1> QED  BY <1>1, <1>2, <1>3 DEF Next, Acts

LEMMA TypeInit ==
  ASSUME Init
  PROVE  TypeInv
<1>1. /\ dirs \in [DirIds -> DirRows \union {None}] /\ Unique(dirs)
      /\ users = Guests /\ member = {} /\ now = 1 /\ req = [r \in Requests |-> Idle]
  BY DEF Init
<1>2. 1 \in 0..Horizon
  BY NoneIsNoRow
<1>3. /\ files \in [FileIds -> FileRows \union {None}] /\ Unique(files)
  <2>1. PICK p \in Paths : files = [i \in FileIds |-> IF i = CHOOSE f \in FileIds : TRUE THEN [path |-> p] ELSE None]
    BY DEF Init
  <2>2. [path |-> p] \in FileRows
    BY DEF FileRows
  <2>3. \A i \in FileIds : files[i] # None => i = CHOOSE f \in FileIds : TRUE
    BY <2>1
  <2>4. DOMAIN files = FileIds
    BY <2>1
  <2> QED  BY <2>1, <2>2, <2>3, <2>4 DEF Unique
<1>4. PICK in \in Share : /\ Valid(in)
                          /\ shares = [s \in ShareIds |-> IF s = CHOOSE t \in ShareIds : TRUE THEN in ELSE None]
  BY DEF Init
<1>5. in \in ShareRows /\ Row(in.on) # None /\ in.to \in users \union {Group}
  BY <1>4 DEF Share, Valid
<1>6. /\ shares \in [ShareIds -> ShareRows \union {None}]
      /\ \A s \in ShareIds : shares[s] # None => shares[s] = in
  BY <1>4, <1>5
<1>7. TypeOK
  BY <1>1, <1>2, <1>3, <1>5, <1>6 DEF TypeOK
<1>8. /\ req \in [Requests -> Request]
      /\ \A r \in Requests : req[r].pc = "idle"
  BY <1>1, IdleIsARequest DEF Idle
<1> QED  BY <1>7, <1>8 DEF TypeInv, ReqOK, InProgress

\* The tables keep their types: no path has two rows in one table, and no share hangs
\* on a row, or belongs to an account, that is gone.
THEOREM Types == Spec => []TypeOK
<1>1. Init => TypeInv
  BY TypeInit
<1>2. TypeInv /\ [Next]_vars => TypeInv'
  BY TypeStep
<1>3. TypeInv => TypeOK
  BY DEF TypeInv
<1> QED  BY <1>1, <1>2, <1>3, PTL DEF Spec

(***************************************************************************)
(* Who is let in was covered.                                              *)
(***************************************************************************)
\* A share that counts, on the resource or on a folder above it.
LEMMA CountsNow ==
  ASSUME TypeInv, NEW q \in Request, NEW s \in ShareIds,
         shares[s] # None, IsFor(shares[s], q.who), Row(q.id) # None,
         InForce(shares[s], now), q.op = "upload" => shares[s].up,
         \/ shares[s].on = q.id
         \/ \E d \in DirIds : /\ shares[s].on = d /\ dirs[d] # None
                              /\ IsStrictPrefix(dirs[d].path, Row(q.id).path)
                              /\ q.op = "upload" => ~dirs[d].trashed
  PROVE  Allowed(q, s) \in Grants(q)
<1>1. TypeOK /\ now \in Nat
  BY TermsAreLimits DEF TypeInv
<1>2. shares[s] \in ShareRows
  BY <1>1, AnchoredRows
<1>3. ~shares[s].revoked /\ (shares[s].expires = None \/ Second(now) <= Second(shares[s].expires))
  BY <1>1, <1>2, InForceIsPossible
<1>4. CASE q.op = "upload"
  <2>1. s \in Covering(q.who, q.id, TRUE)
    BY <1>3, <1>4 DEF Covering
  <2>2. s \in Possible(Uploads(q))
    BY <1>3, <1>4, <2>1 DEF Possible, Uploads
  <2> QED  BY <1>4, <2>2 DEF Allowed, Grants, Terms
<1>5. CASE q.op # "upload"
  <2>1. s \in Covering(q.who, q.id, FALSE)
    BY <1>3, <1>5 DEF Covering
  <2>2. s \in Possible(Reads(q))
    BY <1>3, <2>1 DEF Possible, Reads
  <2> QED  BY <1>5, <2>2 DEF Allowed, Grants
<1> QED  BY <1>4, <1>5

\* What the climb can still find covers the resource, as long as the request knows
\* where that lies and what second it is.
LEMMA FindableCovers ==
  ASSUME TypeInv, NEW r \in Requests, req[r].pc \in InProgress, Current(req[r]),
         NEW s \in Findable(req[r])
  PROVE  Allowed(req[r], s) \in Grants(req[r])
<1> DEFINE q == req[r]
<1>1. TypeOK /\ q \in Request /\ now \in Nat /\ ReqOK(r)
  BY TermsAreLimits DEF TypeInv
<1>2. /\ s \in ShareIds /\ shares[s] # None /\ IsFor(shares[s], q.who) /\ InForce(shares[s], At(q))
      /\ q.op = "upload" => shares[s].up
  BY DEF Findable
<1>3. PICK d \in DirIds : shares[s].on = d /\ Sees(q, d)
  BY DEF Findable
<1>4. Row(q.id) # None /\ Row(q.id).path = q.path /\ (q.at # None => Second(q.at) = Second(now))
  BY DEF Current
<1>5. q.path \in Paths /\ IsPrefix(q.left, Front(q.path)) /\ q.left \in Path
  BY <1>1 DEF ReqOK, Request
<1>6. ASSUME Ahead(q, d)
      PROVE  dirs[d] # None /\ IsStrictPrefix(dirs[d].path, q.path)
  <2>1. dirs[d] # None /\ dirs[d].path \in Path /\ IsPrefix(dirs[d].path, q.left)
    BY <1>1, <1>6, RowsAre, PathsAreNotTheRoot DEF Ahead, DirRows
  <2>2. q.path \in Path /\ q.path # <<>> /\ Front(q.path) \in Path
    BY <1>5, PathsAreNotTheRoot
  <2>3. IsPrefix(dirs[d].path, Front(q.path))
    BY <1>5, <2>1, <2>2, PrefixOrder
  <2> QED  BY <2>1, <2>2, <2>3, AboveIsInParent
<1>7. /\ dirs[d] # None /\ IsStrictPrefix(dirs[d].path, q.path)
      /\ q.op = "upload" => ~dirs[d].trashed
  <2>1. CASE d = q.dir
    <3>1. q.dir # None
      BY <2>1, NoneIsNoRow DEF Items
    <3> QED  BY <2>1, <3>1 DEF Current
  <2>2. CASE d # q.dir
    BY <1>3, <1>6, <2>2 DEF Sees
  <2> QED  BY <2>1, <2>2
<1>8. ~shares[s].revoked /\ (shares[s].expires = None \/ Second(now) <= Second(shares[s].expires))
  <2>1. shares[s] \in ShareRows /\ At(q) \in Nat /\ Second(At(q)) = Second(now)
    BY <1>1, <1>2, <1>4, AnchoredRows DEF At, Request
  <2> QED  BY <1>2, <2>1, InForceIsPossible
<1>9. CASE q.op = "upload"
  <2>1. s \in Covering(q.who, q.id, TRUE)
    BY <1>2, <1>3, <1>4, <1>7, <1>8, <1>9 DEF Covering
  <2>2. s \in Possible(Uploads(q))
    BY <1>8, <1>9, <2>1 DEF Possible, Uploads
  <2> QED  BY <1>9, <2>2 DEF Allowed, Grants, Terms
<1>10. CASE q.op # "upload"
  <2>1. s \in Covering(q.who, q.id, FALSE)
    BY <1>2, <1>3, <1>4, <1>7, <1>8, <1>10 DEF Covering
  <2>2. s \in Possible(Reads(q))
    BY <1>8, <2>1 DEF Possible, Reads
  <2> QED  BY <1>10, <2>2 DEF Allowed, Grants
<1> QED  BY <1>9, <1>10

\* A change that leaves nothing more to be found.
Narrows(r) ==
  LET q == req[r] IN
  /\ UNCHANGED member /\ (q.at = None => UNCHANGED now)
  /\ \A s \in ShareIds : shares'[s] # None => shares'[s] = shares[s]
  /\ \A d \in DirIds : dirs'[d] # None /\ IsPrefix(dirs'[d].path, q.left) =>
       dirs[d] # None /\ dirs'[d].path = dirs[d].path /\ (dirs[d].trashed => dirs'[d].trashed)

LEMMA NarrowsFinds ==
  ASSUME NEW r \in Requests, Waits(r), Narrows(r)
  PROVE  \A s \in Findable(req[r])' :
           s \in Findable(req[r]) /\ Allowed(req[r], s)' = Allowed(req[r], s)
<1> DEFINE q == req[r]
<1>1. /\ req'[r].who = q.who /\ req'[r].op = q.op /\ req'[r].left = q.left /\ req'[r].at = q.at
      /\ req'[r].dir = q.dir
  BY DEF Waits
<1>2. At(q)' = At(q)
  BY <1>1 DEF At, Narrows
<1> SUFFICES ASSUME NEW s \in Findable(q)'
             PROVE  s \in Findable(q) /\ Allowed(q, s)' = Allowed(q, s)
  OBVIOUS
<1>3. s \in ShareIds /\ shares'[s] # None /\ IsFor(shares[s], q.who)' /\ InForce(shares[s], At(q))'
  BY DEF Findable
<1>4. PICK d \in DirIds : shares'[s].on = d /\ Sees(q, d)'
  BY DEF Findable
<1>5. shares'[s] = shares[s] /\ (q.op = "upload" => shares[s].up)
  BY <1>1, <1>3 DEF Narrows, Findable
<1>6. Sees(q, d)
  BY <1>1, <1>4 DEF Narrows, Sees, Ahead
<1>7. IsFor(shares[s], q.who) /\ InForce(shares[s], At(q))
  BY <1>1, <1>2, <1>3, <1>5 DEF IsFor, InForce, SortsAfter, Narrows
<1>8. s \in Findable(q)
  BY <1>1, <1>3, <1>4, <1>5, <1>6, <1>7 DEF Findable
<1> QED  BY <1>1, <1>5, <1>8 DEF Allowed

\* The folder it asks for stays where it is, and out of the trash if it uploads.
Stays(q) ==
  q.dir # None =>
    /\ dirs'[q.dir] # None /\ dirs'[q.dir].path = dirs[q.dir].path
    /\ q.op = "upload" /\ ~dirs[q.dir].trashed => ~dirs'[q.dir].trashed

\* The request still knows where its resource lies.
LEMMA StaysCurrent ==
  ASSUME NEW r \in Requests, Waits(r), Current(req[r]),
         Row(req[r].id)' # None, Row(req[r].id)'.path = Row(req[r].id).path,
         req[r].at = None \/ UNCHANGED now, Stays(req[r])
  PROVE  Current(req[r])'
<1> DEFINE q == req[r]
<1>1. /\ req'[r].id = q.id /\ req'[r].path = q.path /\ req'[r].at = q.at
      /\ req'[r].dir = q.dir /\ req'[r].op = q.op
  BY DEF Waits
<1>2. /\ Row(q.id).path = q.path /\ (q.at # None => Second(q.at) = Second(now))
      /\ q.dir # None => IsStrictPrefix(dirs[q.dir].path, q.path)
      /\ q.dir # None /\ q.op = "upload" => ~dirs[q.dir].trashed
  BY DEF Current
<1> QED  BY <1>1, <1>2 DEF Current, Second, Stays

\* A folder that moves takes its place along: nothing comes to lie above the place
\* that a resource left with it.
LEMMA MoveDirectoryNarrows ==
  ASSUME TypeInv, NEW r \in Requests, req[r].pc \in InProgress, Waits(r), Current(req[r]),
         NEW d \in DirIds, NEW t \in Dirs, MoveDirectory(d, t)
  PROVE  Current(req[r])' \/ Narrows(r)
<1> DEFINE q == req[r]
           p == dirs[d].path
<1>1. /\ TypeOK /\ q.id \in Items /\ q.path \in Paths /\ IsPrefix(q.left, Front(q.path))
      /\ q.left \in Path /\ req'[r].id = q.id
  BY DEF TypeInv, ReqOK, Request, Waits
<1>2. Row(q.id) # None /\ Row(q.id).path = q.path
  BY DEF Current
<1>3. /\ dirs[d] # None /\ t # p /\ t \notin Below(p) /\ ~IsStrictPrefix(t, p)
      /\ dirs' = Relocated(dirs, p, t) /\ files' = Relocated(files, p, t)
      /\ \A i \in DirIds : dirs[i] # None => dirs'[i].path \in Dirs
      /\ \A i \in FileIds : files[i] # None => files'[i].path \in Paths
      /\ UNCHANGED <<shares, users, member, now>>
  BY DEF MoveDirectory
<1>4. p \in Path /\ t \in Path /\ t \in Paths /\ Len(p) \in Nat /\ q.path \in Path /\ q.path # <<>>
  <2>1. p \in Dirs
    BY <1>1, <1>3, RowsAre DEF DirRows
  <2> QED  BY <1>1, <2>1, PathsAreNotTheRoot, LenProperties DEF Path
<1> HIDE DEF p
<1>5. CASE q.path = p \/ IsStrictPrefix(p, q.path)
  <2>1. \A e \in DirIds : dirs'[e] # None /\ IsPrefix(dirs'[e].path, q.left) => dirs'[e] = dirs[e]
    <3> SUFFICES ASSUME NEW e \in DirIds, dirs'[e] # None, IsPrefix(dirs'[e].path, q.left),
                        dirs'[e] # dirs[e]
                 PROVE  FALSE
      OBVIOUS
    <3>1. /\ dirs[e] # None
          /\ dirs'[e].path = t \o SubSeq(dirs[e].path, Len(p) + 1, Len(dirs[e].path))
      <4> DEFINE new == Relocated(dirs, p, t)[e]
      <4>1. dirs'[e] = new
        BY <1>3
      <4>2. /\ dirs[e] = None => new = None
            /\ dirs[e] # None =>
                 \/ new = dirs[e]
                 \/ new.path = t \o SubSeq(dirs[e].path, Len(p) + 1, Len(dirs[e].path))
        BY <1>1, DirectoriesRelocated, Zenon
      <4> HIDE DEF new
      <4> QED  BY <4>1, <4>2, Zenon
    <3>2. dirs[e].path \in Path
      BY <1>1, <3>1, RowsAre, PathsAreNotTheRoot DEF DirRows
    <3>3. IsPrefix(t, q.left)
      BY <1>1, <1>4, <3>1, <3>2, SuffixesArePaths, PrefixOfConcatenation
    <3>4. IsPrefix(t, q.path)
      <4>1. Front(q.path) \in Path /\ IsPrefix(Front(q.path), q.path)
        BY <1>4, AboveIsInParent
      <4>2. IsPrefix(t, Front(q.path))
        BY <1>1, <1>4, <3>3, <4>1, PrefixOrder
      <4> QED  BY <1>4, <4>1, <4>2, PrefixOrder
    <3>5. IsPrefix(p, q.path)
      BY <1>4, <1>5, PrefixOrder DEF IsStrictPrefix
    <3>6. IsPrefix(p, t) \/ IsPrefix(t, p)
      BY <1>4, <3>4, <3>5, PrefixOrder
    <3> QED  BY <1>3, <1>4, <3>6 DEF IsStrictPrefix, Below
  <2>2. \A e \in DirIds : dirs'[e] # None => dirs[e] # None
    BY <1>1, MoveDirectoryTypes
  <2> QED  BY <1>3, <2>1, <2>2 DEF Narrows
<1>6. CASE q.path # p /\ ~IsStrictPrefix(p, q.path)
  <2>3. Stays(q)
    <3> SUFFICES ASSUME q.dir # None
                 PROVE  dirs'[q.dir] = dirs[q.dir] /\ dirs[q.dir] # None
      BY DEF Stays
    <3> DEFINE e == q.dir
    <3>1. e \in DirIds /\ dirs[e] # None /\ IsStrictPrefix(dirs[e].path, q.path)
      BY DEF Current, TypeInv, Request
    <3>2. dirs[e].path \in Path
      BY <1>1, <3>1, RowsAre, PathsAreNotTheRoot DEF DirRows
    <3>3. ~IsPrefix(p, dirs[e].path)
      BY <1>4, <1>6, <3>1, <3>2, PrefixOrder DEF IsStrictPrefix
    <3>4. dirs[e].path # p /\ ~IsStrictPrefix(p, dirs[e].path)
      BY <1>4, <3>3, PrefixOrder DEF IsStrictPrefix
    <3> HIDE DEF e
    <3>5. dirs'[e] = dirs[e]
      BY <1>1, <1>3, <3>1, <3>4, DirectoriesRelocated
    <3> QED  BY <3>1, <3>5 DEF e
  <2>1. CASE q.id \in DirIds
    <3>1. Row(q.id) = dirs[q.id]
      BY <1>1, <2>1, RowsAre
    <3>2. dirs'[q.id] = dirs[q.id]
      BY <1>1, <1>2, <1>3, <1>6, <2>1, <3>1, DirectoriesRelocated
    <3>3. Row(q.id)' # None /\ Row(q.id)'.path = Row(q.id).path
      BY <1>1, <1>2, <2>1, <3>1, <3>2 DEF Row
    <3> QED  BY <1>3, <2>3, <3>3, StaysCurrent
  <2>2. CASE q.id \in FileIds
    <3>1. Row(q.id) = files[q.id] /\ q.id \notin DirIds
      BY <1>1, <2>2, RowsAre, NoneIsNoRow
    <3>2. files'[q.id] = files[q.id]
      BY <1>1, <1>2, <1>3, <1>6, <2>2, <3>1, FilesRelocated
    <3>3. Row(q.id)' # None /\ Row(q.id)'.path = Row(q.id).path
      BY <1>1, <1>2, <3>1, <3>2 DEF Row
    <3> QED  BY <1>3, <2>3, <3>3, StaysCurrent
  <2> QED  BY <1>1, <2>1, <2>2 DEF Items
<1> QED  BY <1>5, <1>6

\* Every change leaves the request with what is true, or takes from what it can find.
LEMMA ActsNarrow ==
  ASSUME TypeInv, NEW r \in Requests, req[r].pc \in InProgress, Waits(r), Current(req[r]), Acts
  PROVE  Current(req[r])' \/ Narrows(r)
<1> DEFINE q == req[r]
<1>1. /\ TypeOK /\ q.id \in Items /\ req'[r].id = q.id /\ Row(q.id) # None
      /\ q.dir # None => q.dir \in DirIds /\ dirs[q.dir] # None
  BY DEF TypeInv, ReqOK, Waits, Current, Request
<1>2. ASSUME UNCHANGED <<dirs, files, now>>
      PROVE  Current(q)'
  BY <1>1, <1>2, StaysCurrent DEF Row, Stays
<1>3. ASSUME NEW s \in ShareIds, NEW in \in Share, CreateShare(s, in)
      PROVE  Current(q)'
  BY <1>2, <1>3 DEF CreateShare, tree
<1>4. ASSUME NEW s \in ShareIds, RevokeShare(s)
      PROVE  Current(q)'
  BY <1>2, <1>4 DEF RevokeShare, tree
<1>5. ASSUME NEW g \in Guests, AddUserToGroup(g) \/ DeleteUser(g)
      PROVE  Current(q)'
  BY <1>2, <1>5 DEF AddUserToGroup, DeleteUser, tree
<1>6. ASSUME NEW d \in DirIds, NEW p \in Dirs, Mkdir(d, p)
      PROVE  Current(q)'
  <2>1. UNCHANGED <<files, now>> /\ \A e \in DirIds : dirs[e] # None => dirs'[e] = dirs[e]
    BY <1>1, <1>6, MkdirTypes DEF Mkdir
  <2>2. Row(q.id)' # None /\ Row(q.id)'.path = Row(q.id).path
    BY <1>1, <2>1 DEF Row
  <2>3. Stays(q)
    BY <1>1, <2>1 DEF Stays
  <2> QED  BY <2>1, <2>2, <2>3, StaysCurrent
<1>7. ASSUME NEW d \in DirIds, DeleteDirectory(d) \/ RestoreDirectory(d)
      PROVE  Current(q)' \/ Narrows(r)
  <2>1. UNCHANGED <<files, now>> /\ \A e \in DirIds : /\ dirs'[e] # None <=> dirs[e] # None
                                                      /\ dirs[e] # None => dirs'[e].path = dirs[e].path
    BY <1>1, <1>7, TrashTypes
  <2>2. Row(q.id)' # None /\ Row(q.id)'.path = Row(q.id).path
    BY <1>1, <2>1 DEF Row
  <2>3. CASE Stays(q)
    BY <2>1, <2>2, <2>3, StaysCurrent
  <2>4. CASE ~Stays(q)
    <3>1. q.dir \in DirIds /\ ~dirs[q.dir].trashed /\ dirs'[q.dir].trashed
      BY <1>1, <2>1, <2>4 DEF Stays
    <3>2. UNCHANGED <<shares, member>>
      BY <1>1, <1>7, TrashTypes
    <3>3. DeleteDirectory(d) /\ ~dirs[d].trashed
      <4>1. dirs \in [DirIds -> DirRows \union {None}]
        BY <1>1 DEF TypeOK
      <4>2. ASSUME RestoreDirectory(d)
            PROVE  FALSE
        <5>1. dirs[d] # None /\ dirs' = [dirs EXCEPT ![d] = [dirs[d] EXCEPT !.trashed = FALSE]]
          BY <4>2 DEF RestoreDirectory
        <5>2. [dirs[d] EXCEPT !.trashed = FALSE].trashed = FALSE
          BY <1>1, <5>1, RowsAre DEF DirRows
        <5>3. dirs'[q.dir].trashed = IF q.dir = d THEN FALSE ELSE dirs[q.dir].trashed
          BY <3>1, <4>1, <5>1, <5>2
        <5> QED  BY <3>1, <5>3
      <4> QED  BY <1>7, <4>2 DEF DeleteDirectory
    <3>4. \A e \in DirIds : dirs[e] # None /\ dirs[e].trashed => dirs'[e] = dirs[e]
      BY <1>1, <3>3 DEF DeleteDirectory, TypeOK
    <3> QED  BY <2>1, <3>2, <3>4 DEF Narrows
  <2> QED  BY <2>3, <2>4
<1>8. ASSUME NEW d \in DirIds, EraseDirectory(d)
      PROVE  Narrows(r)
  BY <1>1, <1>8, EraseDirectoryTypes DEF EraseDirectory, Narrows
<1>9. ASSUME NEW f \in FileIds, EraseFile(f)
      PROVE  Narrows(r)
  BY <1>1, <1>9, EraseFileTypes DEF EraseFile, Narrows
<1>10. ASSUME NEW f \in FileIds, NEW p \in Dirs, MoveFile(f, p)
       PROVE  Narrows(r)
  BY <1>10 DEF MoveFile, Narrows
<1>11. ASSUME NEW u \in 0..Horizon, Tick(u)
       PROVE  Current(q)' \/ Narrows(r)
  <2>1. UNCHANGED <<dirs, files, shares, member>>
    BY <1>11 DEF Tick, tables
  <2>2. CASE q.at = None
    BY <1>1, <2>1, <2>2, StaysCurrent DEF Row, Stays
  <2>3. CASE q.at # None
    BY <2>1, <2>3 DEF Narrows
  <2> QED  BY <2>2, <2>3
<1> QED  BY <1>3, <1>4, <1>5, <1>6, <1>7, <1>8, <1>9, <1>10, <1>11, ActsAre, MoveDirectoryNarrows, Zenon

\* What is found is still covered where nothing happens but to the others.
LEMMA WaitingIsCovered ==
  ASSUME TypeInv, NEW r \in Requests, Covered(r), Waits(r), req'[r].late \/ ~req[r].late,
         ~req'[r].late /\ req[r].pc \in InProgress =>
           \/ Current(req[r])'
           \/ Narrows(r) /\ (Current(req[r]) \/ Looking(req[r]) => \A s \in Findable(req[r]) :
                Allowed(req[r], s) \in req[r].ever \union Grants(req[r]))
  PROVE  Covered(r)'
<1> DEFINE q == req[r]
<1>1. /\ req'[r].pc = q.pc /\ req'[r].op = q.op /\ req'[r].found = q.found /\ req'[r].limit = q.limit
      /\ req'[r].size = q.size
      /\ q.ever \subseteq req'[r].ever
      /\ q.pc \in InProgress => req'[r].ever = q.ever \union Grants(q)
  BY DEF Waits
<1> SUFFICES ASSUME ~req'[r].late
             PROVE  Covered(r)'
  BY Zenon DEF Covered
<1>2. ~q.late
  OBVIOUS
<1>3. /\ q.pc = "walk" => q.found \subseteq q.ever
      /\ q.pc = "upload" => q.limit \in q.ever
      /\ q.pc = "granted" => q.ever # {}
      /\ q.pc = "stored" => \E max \in q.ever : max = None \/ q.size <= max
  BY <1>2 DEF Covered
<1>4. /\ req'[r].pc = "walk" => req'[r].found \subseteq req'[r].ever
      /\ req'[r].pc = "upload" => req'[r].limit \in req'[r].ever
      /\ req'[r].pc = "granted" => req'[r].ever # {}
      /\ req'[r].pc = "stored" => \E max \in req'[r].ever : max = None \/ req'[r].size <= max
  BY <1>1, <1>3
<1>5. ASSUME Looking(req[r])', ~Current(req[r])'
      PROVE  \A s \in Findable(req[r])' : Allowed(req[r], s)' \in req'[r].ever
  <2>1. Looking(q) /\ q.pc \in InProgress
    BY <1>1, <1>5 DEF Looking, InProgress
  <2>2. Narrows(r) /\ \A s \in Findable(q) : Allowed(q, s) \in q.ever \union Grants(q)
    BY <1>5, <2>1
  <2>3. \A s \in Findable(req[r])' :
          s \in Findable(req[r]) /\ Allowed(req[r], s)' = Allowed(req[r], s)
    BY <2>2, NarrowsFinds
  <2> QED  BY <1>1, <2>1, <2>2, <2>3
<1> QED  BY <1>4, <1>5, Zenon DEF Covered

LEMMA ActsAreCovered ==
  ASSUME TypeInv, NEW r \in Requests, Covered(r), Acts
  PROVE  Covered(r)'
<1>1. Waiting(r)
  BY ActsTypes, OthersWait
<1>2. CASE req[r].pc \notin InProgress
  BY <1>1, <1>2, WaitingIsCovered DEF Waiting, Waits
<1>3. CASE req[r].pc \in InProgress
  <2>1. Waits(r) /\ req'[r].late = (req[r].late \/ ~Current(req[r]))
    BY <1>1, <1>3 DEF Waiting
  <2>2. req'[r].late \/ ~req[r].late
    BY <2>1, Zenon
  <2>3. ASSUME ~req'[r].late
        PROVE  /\ Current(req[r])' \/ Narrows(r)
               /\ \A s \in Findable(req[r]) : Allowed(req[r], s) \in req[r].ever \union Grants(req[r])
    <3>1. Current(req[r])
      BY <2>1, <2>3, Zenon
    <3> QED  BY <1>3, <2>1, <3>1, ActsNarrow, FindableCovers
  <2> QED  BY <2>1, <2>2, <2>3, WaitingIsCovered
<1> QED  BY <1>2, <1>3

LEMMA OthersAreCovered ==
  ASSUME TypeInv, NEW r \in Requests, Serve(r), NEW s \in Requests \ {r}, Covered(s)
  PROVE  Covered(s)'
<1>1. /\ Waits(s) /\ req'[s].late = req[s].late /\ UNCHANGED <<dirs, shares, member, now>>
      /\ \A f \in FileIds : files[f] # None => files'[f] = files[f]
  BY ServeWaits
<1>2. Narrows(s)
  BY <1>1 DEF Narrows
<1>3. req'[s].late \/ ~req[s].late
  BY <1>1, Zenon
<1>4. ASSUME ~req'[s].late, req[s].pc \in InProgress, Current(req[s])
      PROVE  \A u \in Findable(req[s]) : Allowed(req[s], u) \in req[s].ever \union Grants(req[s])
  BY <1>4, FindableCovers
<1>5. ASSUME ~req'[s].late, req[s].pc \in InProgress, ~Current(req[s]), Looking(req[s])
      PROVE  \A u \in Findable(req[s]) : Allowed(req[s], u) \in req[s].ever \union Grants(req[s])
  <2>1. ~req[s].late
    BY <1>1, <1>5, Zenon
  <2> QED  BY <1>5, <2>1 DEF Covered
<1> QED  BY <1>1, <1>2, <1>3, <1>4, <1>5, WaitingIsCovered

\* A step of a request that has not come late, as what is found and what counts go.
LEMMA CoveredBy ==
  ASSUME NEW r \in Requests,
         ~req'[r].late =>
           /\ Looking(req[r])' /\ ~Current(req[r])' =>
                \A s \in Findable(req[r])' : Allowed(req[r], s)' \in req'[r].ever
           /\ req'[r].pc = "walk" => req'[r].found \subseteq req'[r].ever
           /\ req'[r].pc = "upload" => req'[r].limit \in req'[r].ever
           /\ req'[r].pc = "granted" => req'[r].ever # {}
           /\ req'[r].pc = "stored" => \E max \in req'[r].ever : max = None \/ req'[r].size <= max
  PROVE  Covered(r)'
BY Zenon DEF Covered

\* The climb goes on: what it can still find, it could find before.
LEMMA StillFound ==
  ASSUME NEW r \in Requests, Apart(r), Advances(r), At(req[r])' = At(req[r]),
         \A d \in DirIds : Sees(req[r], d)' => Sees(req[r], d)
  PROVE  \A s \in Findable(req[r])' :
           s \in Findable(req[r]) /\ Allowed(req[r], s)' = Allowed(req[r], s)
<1> DEFINE q == req[r]
<1>1. /\ req'[r].who = q.who /\ req'[r].op = q.op /\ UNCHANGED <<dirs, shares, member, now>>
  BY DEF Advances, Apart, tables
<1> SUFFICES ASSUME NEW s \in Findable(q)'
             PROVE  s \in Findable(q) /\ Allowed(q, s)' = Allowed(q, s)
  OBVIOUS
<1>3. s \in ShareIds /\ shares'[s] # None /\ IsFor(shares[s], q.who)' /\ InForce(shares[s], At(q))'
  BY DEF Findable
<1>4. PICK d \in DirIds : shares'[s].on = d /\ Sees(q, d)'
  BY DEF Findable
<1>5. Sees(q, d) /\ (q.op = "upload" => shares[s].up)
  BY <1>1, <1>4 DEF Findable
<1>7. IsFor(shares[s], q.who) /\ InForce(shares[s], At(q))
  BY <1>1, <1>3 DEF IsFor, InForce, SortsAfter
<1>8. s \in Findable(q)
  BY <1>1, <1>3, <1>4, <1>5, <1>7 DEF Findable
<1> QED  BY <1>1, <1>8 DEF Allowed

LEMMA OwnIsCovered ==
  ASSUME TypeInv, NEW r \in Requests, Covered(r), Own(r)
  PROVE  Covered(r)'
<1> DEFINE q == req[r]
<1>1. /\ Apart(r) /\ Advances(r) /\ q.pc \in {"own", "probe"}
      /\ req'[r].left = q.left /\ req'[r].dir = q.dir /\ req'[r].late = q.late
      /\ UNCHANGED <<dirs, files, shares, users, member, now>>
      /\ req'[r].ever = q.ever \union Grants(q) /\ req'[r].id = q.id /\ req'[r].path = q.path
      /\ req'[r].op = q.op
  BY OwnIs DEF Advances, Apart, tables
<1>2. TypeOK /\ q \in Request /\ ReqOK(r) /\ now \in Nat
  BY TermsAreLimits DEF TypeInv
<1>3. q.at = None /\ q.dir = None /\ (q.pc = "probe" => q.op = "upload") /\ q.id \in Items
  BY <1>1, <1>2 DEF ReqOK, InProgress
<1>4. At(q) = now /\ (req'[r].at \in {None, now} => At(q)' = At(q))
  BY <1>1, <1>3 DEF At
<1>5. \A s \in SharesOn(q.who, q.id) : InForce(shares[s], now) /\ (q.op = "upload" => shares[s].up)
        => Allowed(q, s) \in Grants(q)
  <2> TAKE s \in SharesOn(q.who, q.id)
  <2>1. s \in ShareIds /\ shares[s] # None /\ shares[s].on = q.id /\ IsFor(shares[s], q.who)
    BY DEF SharesOn
  <2>2. Row(q.id) # None
    BY <1>2, <2>1, AnchoredRows
  <2> QED  BY <1>2, <2>1, <2>2, CountsNow
<1>6. ASSUME ~q.late, Looking(q), req'[r].at \in {None, now}, ~Current(q)'
      PROVE  \A s \in Findable(q)' : Allowed(q, s)' \in req'[r].ever
  <2>1. \A s \in Findable(q)' : s \in Findable(q) /\ Allowed(q, s)' = Allowed(q, s)
    <3>1. \A d \in DirIds : Sees(q, d)' => Sees(q, d)
      BY <1>1 DEF Sees, Ahead
    <3> QED  BY <1>1, <1>4, <1>6, <3>1, StillFound
  <2>2. ~Current(q)
    BY <1>1, <1>3, <1>6 DEF Current, Row
  <2>3. \A s \in Findable(q) : Allowed(q, s) \in q.ever
    BY <1>6, <2>2 DEF Covered
  <2> QED  BY <1>1, <2>1, <2>3
<1>7. CASE /\ q.op = "upload" /\ q.pc = "own" /\ req'[r].pc = "walk" /\ req'[r].at = now
           /\ req'[r].found = Terms(UploadShares(q.who, q.id, now))
  <2>1. req'[r].found \subseteq Grants(q)
    <3>1. \A s \in UploadShares(q.who, q.id, now) : shares[s].max \in Grants(q)
      BY <1>5, <1>7 DEF UploadShares, Allowed
    <3> QED  BY <1>7, <3>1 DEF Terms
  <2>2. Looking(q)
    BY <1>7 DEF Looking
  <2> QED  BY <1>1, <1>6, <1>7, <2>1, <2>2, CoveredBy
<1>8. CASE req'[r].pc = "climb"
  <2>1. req'[r].at = None
    BY <1>3, <1>8, OwnIs
  <2>2. Looking(q)' => Looking(q)
    BY <1>1, <1>3, <1>8 DEF Looking
  <2> QED  BY <1>1, <1>6, <1>8, <2>1, <2>2, CoveredBy
<1>9. CASE req'[r].pc = "granted" /\ q.op # "upload" /\ HasAccess(q.who, q.id, now)
  <2>1. PICK s \in SharesOn(q.who, q.id) : InForce(shares[s], now)
    BY <1>9 DEF HasAccess
  <2>2. Grants(q) # {}
    BY <1>5, <1>9, <2>1
  <2> QED  BY <1>1, <1>9, <2>2, CoveredBy DEF Looking
<1>10. CASE req'[r].pc = "not_allowed"
  BY <1>10, CoveredBy DEF Looking
<1> QED  BY <1>7, <1>8, <1>9, <1>10, OwnIs

\* Where it looks, what it can find counts or has counted.
LEMMA FindableIsCovered ==
  ASSUME TypeInv, NEW r \in Requests, Covered(r), Advances(r), ~req[r].late, Looking(req[r])
  PROVE  \A s \in Findable(req[r]) : Allowed(req[r], s) \in req'[r].ever
<1>1. req[r].pc \in InProgress /\ req'[r].ever = req[r].ever \union Grants(req[r])
  BY DEF Advances
<1>2. CASE Current(req[r])
  BY <1>1, <1>2, FindableCovers
<1>3. CASE ~Current(req[r])
  BY <1>1, <1>3 DEF Covered
<1> QED  BY <1>2, <1>3

LEMMA LookUpIsCovered ==
  ASSUME TypeInv, NEW r \in Requests, Covered(r), LookUp(r)
  PROVE  Covered(r)'
<1> DEFINE q == req[r]
<1>1. /\ Apart(r) /\ Advances(r) /\ q.pc \in {"walk", "climb"}
      /\ q.left # <<>> /\ req'[r].left = Front(q.left) /\ req'[r].at = At(q)
      /\ req'[r].pc = q.pc /\ req'[r].found = q.found
      /\ req'[r].dir = None \/ req'[r].dir \in Here(r)
      /\ req'[r].late = q.late /\ UNCHANGED <<dirs, files, shares, users, member, now>>
      /\ q.ever \subseteq req'[r].ever /\ req'[r].op = q.op
  BY LookUpIs DEF Advances, Apart, tables
<1>2. TypeOK /\ At(q) \in Nat /\ q.left \in Path /\ Front(q.left) \in Path
  BY LookUpKeepsWhatIsRead DEF TypeInv
<1>3. ASSUME ~q.late, Looking(q)
      PROVE  \A s \in Findable(q)' : Allowed(q, s)' \in req'[r].ever
  <2>1. At(q)' = At(q)
    BY <1>1, <1>2, NoneIsNoRow DEF At
  <2>2. \A d \in DirIds : Sees(q, d)' => Sees(q, d)
    <3> SUFFICES ASSUME NEW d \in DirIds, Sees(q, d)'
                 PROVE  Sees(q, d)
      OBVIOUS
    <3>1. CASE d = req'[r].dir
      <4>1. d # None
        BY NoneIsNoRow DEF Items
      <4>2. dirs[d] # None /\ dirs[d].path = q.left /\ (q.pc = "walk" => ~dirs[d].trashed)
        BY <1>1, <3>1, <4>1 DEF Here, DirsAt
      <4>3. q.op = "upload" => q.pc = "walk"
        BY <1>1, <1>3 DEF Looking
      <4> QED  BY <1>2, <4>2, <4>3, PrefixOrder DEF Sees, Ahead
    <3>2. CASE d # req'[r].dir
      <4>1. dirs[d] # None /\ IsPrefix(dirs[d].path, Front(q.left)) /\ (q.op = "upload" => ~dirs[d].trashed)
        BY <1>1, <3>2 DEF Sees, Ahead
      <4>2. dirs[d].path \in Path
        BY <1>2, <4>1, RowsAre, PathsAreNotTheRoot DEF DirRows
      <4>3. IsPrefix(Front(q.left), q.left)
        BY <1>1, <1>2, AboveIsInParent
      <4> QED  BY <1>2, <4>1, <4>2, <4>3, PrefixOrder DEF Sees, Ahead
    <3> QED  BY <3>1, <3>2
  <2>3. \A s \in Findable(q)' : s \in Findable(q) /\ Allowed(q, s)' = Allowed(q, s)
    BY <1>1, <2>1, <2>2, StillFound
  <2> QED  BY <1>1, <1>3, <2>3, FindableIsCovered
<1>4. Looking(q)' => Looking(q)
  BY <1>1 DEF Looking
<1>5. ~q.late /\ q.pc = "walk" => q.found \subseteq q.ever
  BY DEF Covered
<1> QED  BY <1>1, <1>3, <1>4, <1>5, CoveredBy

LEMMA AskSharesIsCovered ==
  ASSUME TypeInv, NEW r \in Requests, Covered(r), AskShares(r)
  PROVE  Covered(r)'
<1> DEFINE q == req[r]
           d == req[r].dir
<1>1. /\ Apart(r) /\ Advances(r) /\ q.pc \in {"walk", "climb"} /\ d \in DirIds
      /\ req'[r].dir = None /\ req'[r].left = q.left /\ req'[r].at = q.at /\ q.at \in Nat
      /\ req'[r].late = q.late /\ UNCHANGED <<dirs, files, shares, users, member, now>>
      /\ q.ever \subseteq req'[r].ever /\ req'[r].op = q.op
  BY AskSharesIs DEF Advances, Apart, tables
<1>2. TypeOK /\ At(q) = q.at /\ (q.pc = "walk" => q.op = "upload")
  BY <1>1, NoneIsNoRow DEF TypeInv, At, ReqOK
<1>3. ASSUME ~q.late, Looking(q)
      PROVE  \A s \in Findable(q)' : Allowed(q, s)' \in req'[r].ever
  <2>1. At(q)' = At(q)
    BY <1>1, <1>2 DEF At
  <2>2. \A e \in DirIds : Sees(q, e)' => Sees(q, e)
    BY <1>1, NoneIsNoRow DEF Sees, Ahead, Items
  <2>3. \A s \in Findable(q)' : s \in Findable(q) /\ Allowed(q, s)' = Allowed(q, s)
    BY <1>1, <2>1, <2>2, StillFound
  <2> QED  BY <1>1, <1>3, <2>3, FindableIsCovered
<1>4. \A s \in SharesOn(q.who, d) :
        InForce(shares[s], q.at) /\ (q.op = "upload" => shares[s].up) => s \in Findable(q)
  BY <1>1, <1>2 DEF SharesOn, Findable, Sees
<1>5. CASE /\ q.pc = "walk" /\ req'[r].pc = "walk"
           /\ req'[r].found = q.found \union Terms(UploadShares(q.who, d, q.at))
  <2>1. Looking(q)
    BY <1>5 DEF Looking
  <2>2. ASSUME ~q.late, NEW s \in UploadShares(q.who, d, q.at)
        PROVE  shares[s].max \in req'[r].ever
    <3>1. s \in Findable(q)
      BY <1>4 DEF UploadShares
    <3> QED  BY <1>1, <1>2, <1>5, <2>1, <2>2, <3>1, FindableIsCovered DEF Allowed
  <2>3. ~q.late => req'[r].found \subseteq req'[r].ever
    BY <1>1, <1>5, <2>2 DEF Covered, Terms
  <2> QED  BY <1>1, <1>3, <1>5, <2>1, <2>3, CoveredBy
<1>6. CASE q.pc = "climb" /\ req'[r].pc = "climb"
  <2>1. Looking(q)' => Looking(q)
    BY <1>1, <1>6 DEF Looking
  <2> QED  BY <1>1, <1>3, <1>6, <2>1, CoveredBy
<1>7. CASE req'[r].pc = "not_allowed"
  BY <1>7, CoveredBy DEF Looking
<1>8. CASE /\ q.pc = "climb" /\ req'[r].pc = "granted" /\ q.op # "upload"
           /\ HasAccess(q.who, d, q.at)
  <2>1. PICK s \in SharesOn(q.who, d) : InForce(shares[s], q.at)
    BY <1>8 DEF HasAccess
  <2>2. s \in Findable(q) /\ Looking(q)
    BY <1>4, <1>8, <2>1 DEF Looking
  <2>3. ~q.late => req'[r].ever # {}
    BY <1>1, <2>2, FindableIsCovered
  <2> QED  BY <1>1, <1>8, <2>3, CoveredBy DEF Looking
<1> QED  BY <1>5, <1>6, <1>7, <1>8, AskSharesIs

LEMMA ServeIsCovered ==
  ASSUME TypeInv, NEW r \in Requests, Covered(r), Serve(r)
  PROVE  Covered(r)'
<1>1. TypeOK /\ users \subseteq Guests /\ req[r] \in Request
  BY DEF TypeInv, TypeOK
<1>2. ASSUME NEW op \in {"download", "browse", "upload"}, NEW g \in Guests, NEW x \in Items,
             op = "upload" => x \in DirIds, Ask(r, op, g, x)
      PROVE  Covered(r)'
  <2>1. Apart(r) /\ (req'[r].pc = "not_found" \/ Begins(r))
    BY <1>2, AskIs
  <2>2. CASE req'[r].pc = "not_found"
    BY <2>2, CoveredBy DEF Looking
  <2>3. CASE Begins(r)
    <3>1. req'[r].pc = "own" /\ Current(req[r])'
      BY <2>1, <2>3 DEF Begins, Current, Apart, tables, Row
    <3> QED  BY <3>1, CoveredBy
  <2> QED  BY <2>1, <2>2, <2>3
<1>3. ASSUME Arrive(r)
      PROVE  Covered(r)'
  <2>1. Advances(r) /\ req[r].pc \in {"walk", "climb"}
    BY <1>3, ArriveIs
  <2>2. req[r].ever \subseteq req'[r].ever /\ req'[r].late = req[r].late /\ req'[r].op = req[r].op
    BY <2>1 DEF Advances
  <2>3. CASE req'[r].pc \in {"forbidden", "probe"}
    BY <2>3, CoveredBy DEF Looking
  <2>4. CASE /\ req[r].pc = "walk" /\ req[r].found # {} /\ req'[r].pc = "upload"
             /\ req'[r].limit = MostPermissive(req[r].found)
    <3>1. req'[r].limit \in req[r].found
      BY <1>1, <2>4, MostPermissiveIs DEF Request
    <3>2. ~req[r].late => req[r].found \subseteq req[r].ever
      BY <2>4 DEF Covered
    <3> QED  BY <2>2, <2>4, <3>1, <3>2, CoveredBy DEF Looking
  <2> QED  BY <1>3, <2>3, <2>4, ArriveIs
<1>4. ASSUME NEW n \in Names, NEW size \in Nat, Store(r, n, size)
      PROVE  Covered(r)'
  <2>1. /\ req[r].pc = "upload" /\ req'[r].ever = req[r].ever /\ req'[r].late = req[r].late
        /\ req'[r].size = size
        /\ \/ req'[r].pc \in {"occupied", "too_large"}
           \/ req'[r].pc = "stored" /\ (req[r].limit = None \/ size <= req[r].limit)
    BY <1>4, StoreIs
  <2>2. ~req[r].late => req[r].limit \in req[r].ever
    BY <2>1 DEF Covered
  <2> QED  BY <2>1, <2>2, CoveredBy DEF Looking
<1> QED  BY <1>1, <1>2, <1>3, <1>4, ServeIs, OwnIsCovered, LookUpIsCovered, AskSharesIsCovered, Zenon

LEMMA CoverStep ==
  ASSUME TypeInv, CoverInv, [Next]_vars
  PROVE  CoverInv'
<1>1. ASSUME Acts
      PROVE  CoverInv'
  BY <1>1, ActsAreCovered DEF CoverInv
<1>2. ASSUME NEW r \in Requests, Serve(r)
      PROVE  CoverInv'
  <2>1. \A s \in Requests \ {r} : Covered(s)'
    BY <1>2, OthersAreCovered DEF CoverInv
  <2>2. Covered(r)'
    BY <1>2, ServeIsCovered DEF CoverInv
  <2> QED  BY <2>1, <2>2 DEF CoverInv
<1>3. CASE UNCHANGED vars
  <2>1. \A r \in Requests : Covered(r)'
    <3> TAKE r \in Requests
    <3>1. Covered(r)
      BY DEF CoverInv
    <3> QED  BY <1>3, <3>1 DEF vars, tables, Covered, Looking, Current, Findable, Allowed, Row,
              IsFor, InForce, SortsAfter, At, Ahead, Sees
  <2> QED  BY <2>1 DEF CoverInv
<1> QED  BY <1>1, <1>2, <1>3 DEF Next, Acts

LEMMA CoverInit ==
  ASSUME Init
  PROVE  CoverInv
<1>1. \A r \in Requests : req[r].pc = "idle"
  BY DEF Init, Idle
<1> QED  BY <1>1 DEF CoverInv, Covered, Looking

\* Whoever is let in was covered at some instant of the request, and what is stored
\* fits the limit of a share that covered its folder then.
THEOREM Covers == Spec => []GrantedWhileCovered
<1>1. Init => TypeInv /\ CoverInv
  BY TypeInit, CoverInit
<1>2. TypeInv /\ CoverInv /\ [Next]_vars => TypeInv' /\ CoverInv'
  BY TypeStep, CoverStep
<1>3. CoverInv => GrantedWhileCovered
  BY DEF CoverInv, Covered, GrantedWhileCovered
<1> QED  BY <1>1, <1>2, <1>3, PTL DEF Spec

(***************************************************************************)
(* Who was covered all the time is let in.                                 *)
(***************************************************************************)
\* A share that covers the resource beyond this second counts now, and did before;
\* it is on the resource, or on a folder of the path.
LEMMA CertainlyCovers ==
  ASSUME TypeInv, NEW r \in Requests, req[r].pc \in InProgress, NEW up \in BOOLEAN,
         NEW s \in Certain(Covering(req[r].who, req[r].id, up)), Row(req[r].id).path = req[r].path
  PROVE  /\ s \in ShareIds /\ shares[s] # None /\ Row(req[r].id) # None
         /\ IsFor(shares[s], req[r].who) /\ (up => shares[s].up)
         /\ \A t \in Nat : t <= now => InForce(shares[s], t)
         /\ \/ shares[s].on = req[r].id
            \/ \E d \in DirIds : /\ shares[s].on = d /\ dirs[d] # None /\ (up => ~dirs[d].trashed)
                                 /\ IsPrefix(dirs[d].path, Front(req[r].path))
<1> DEFINE q == req[r]
<1>1. TypeOK /\ now \in Nat /\ q.path \in Paths
  BY TermsAreLimits DEF TypeInv, ReqOK
<1>2. /\ s \in ShareIds /\ Row(q.id) # None /\ shares[s] # None /\ ~shares[s].revoked
      /\ IsFor(shares[s], q.who) /\ (up => shares[s].up)
      /\ \/ shares[s].on = q.id
         \/ \E d \in DirIds : /\ dirs[d] # None /\ IsStrictPrefix(dirs[d].path, Row(q.id).path)
                              /\ shares[s].on = d /\ (up => ~dirs[d].trashed)
  BY DEF Certain, Covering
<1>3. shares[s].expires = None \/ Second(now) < Second(shares[s].expires)
  BY DEF Certain
<1>4. \A t \in Nat : t <= now => InForce(shares[s], t)
  BY <1>1, <1>2, <1>3, AnchoredRows, CertainIsInForce
<1>5. \A d \in DirIds : dirs[d] # None /\ IsStrictPrefix(dirs[d].path, q.path)
                          => IsPrefix(dirs[d].path, Front(q.path))
  <2> TAKE d \in DirIds
  <2> HAVE dirs[d] # None /\ IsStrictPrefix(dirs[d].path, q.path)
  <2>1. dirs[d].path \in Path /\ q.path \in Path /\ q.path # <<>>
    BY <1>1, RowsAre, PathsAreNotTheRoot DEF DirRows
  <2> QED  BY <2>1, AboveIsInParent
<1> QED  BY <1>2, <1>4, <1>5

\* Where the climb comes to the folder of such a share, the share counts; else the
\* folder lies further up.
LEMMA HereOrAbove ==
  ASSUME TypeInv, NEW r \in Requests, req[r].pc \in {"walk", "climb"}, req[r].left # <<>>,
         NEW up \in BOOLEAN, NEW s \in Certain(Covering(req[r].who, req[r].id, up)),
         Row(req[r].id).path = req[r].path, req[r].dir = None, Lies(req[r], s)
  PROVE  \/ \E d \in DirsAt(req[r].left) :
              /\ s \in SharesOn(req[r].who, d) /\ InForce(shares[s], At(req[r]))
              /\ up => ~dirs[d].trashed /\ shares[s].up
         \/ \E d \in DirIds : /\ shares[s].on = d /\ dirs[d] # None
                              /\ IsPrefix(dirs[d].path, Front(req[r].left))
<1> DEFINE q == req[r]
<1>1. TypeOK /\ now \in Nat /\ q.path \in Paths /\ q.left \in Path /\ q.pc \in InProgress
      /\ IsPrefix(q.left, Front(q.path)) /\ At(q) \in Nat /\ At(q) <= now /\ q.id \in Items
  BY TermsAreLimits DEF TypeInv, ReqOK, Request, InProgress, At
<1>2. PICK d \in DirIds : shares[s].on = d /\ dirs[d] # None /\ IsPrefix(dirs[d].path, q.left)
  BY NoneIsNoRow DEF Lies, Ahead, Items
<1>3. /\ s \in ShareIds /\ shares[s] # None
      /\ IsFor(shares[s], q.who) /\ (up => shares[s].up) /\ InForce(shares[s], At(q))
      /\ shares[s].on = q.id \/ (up => ~dirs[d].trashed)
  BY <1>1, <1>2, CertainlyCovers
<1>4. dirs[d].path \in Path
  BY <1>1, <1>2, RowsAre, PathsAreNotTheRoot DEF DirRows
<1>5. CASE dirs[d].path = q.left
  <2>1. d # q.id
    <3> SUFFICES ASSUME d = q.id
                 PROVE  FALSE
      OBVIOUS
    <3>1. q.left = q.path
      BY <1>1, <1>5, RowsAre
    <3>2. IsStrictPrefix(q.path, q.path)
      BY <1>1, <3>1, PathsAreNotTheRoot, AboveIsInParent
    <3> QED  BY <3>2 DEF IsStrictPrefix
  <2>2. d \in DirsAt(q.left) /\ s \in SharesOn(q.who, d)
    BY <1>2, <1>3, <1>5 DEF DirsAt, SharesOn
  <2> QED  BY <1>2, <1>3, <2>1, <2>2
<1>6. CASE dirs[d].path # q.left
  <2>1. IsStrictPrefix(dirs[d].path, q.left)
    BY <1>2, <1>6 DEF IsStrictPrefix
  <2>2. IsPrefix(dirs[d].path, Front(q.left))
    BY <1>1, <1>4, <2>1, AboveIsInParent
  <2> QED  BY <1>2, <2>2
<1> QED  BY <1>5, <1>6

\* No folder lies at the root.
LEMMA NothingLiesThere ==
  ASSUME TypeInv, NEW r \in Requests, req[r].left = <<>>, req[r].dir = None, NEW s \in ShareIds
  PROVE  ~Lies(req[r], s)
<1>1. \A d \in DirIds : dirs[d] # None => dirs[d].path \in Path /\ dirs[d].path # <<>>
  BY RowsAre, PathsAreNotTheRoot DEF TypeInv, DirRows
<1> QED  BY <1>1, NothingAboveTheRoot, NoneIsNoRow DEF Lies, Ahead, Items

\* Rows that are there before and after keep their paths, shares what they are on and
\* what they allow.
Steady ==
  /\ \A s \in ShareIds : shares[s] # None /\ shares'[s] # None =>
       shares'[s].on = shares[s].on /\ shares'[s].max = shares[s].max
  /\ \A d \in DirIds : dirs[d] # None /\ dirs'[d] # None => dirs'[d].path = dirs[d].path
  /\ \A f \in FileIds : files[f] # None /\ files'[f] # None => files'[f].path = files[f].path

LEMMA ActsAreSteady ==
  ASSUME TypeInv, Acts
  PROVE  Moving \/ (Others /\ Steady)
<1>1. TypeOK
  BY DEF TypeInv
<1>2. ASSUME NEW s \in ShareIds, NEW in \in Share, CreateShare(s, in)
      PROVE  Others /\ Steady
  <2>1. shares' = [shares EXCEPT ![s] = in] /\ shares[s] = None /\ UNCHANGED <<dirs, files>> /\ Others
    BY <1>2 DEF CreateShare, tree
  <2>2. \A u \in ShareIds : u # s => shares'[u] = shares[u]
    BY <1>1, <2>1 DEF TypeOK
  <2> QED  BY <2>1, <2>2 DEF Steady
<1>3. ASSUME NEW s \in ShareIds, RevokeShare(s)
      PROVE  Others /\ Steady
  BY <1>1, <1>3, RevokeShareTypes DEF RevokeShare, Steady, tree
<1>4. ASSUME NEW g \in Guests, AddUserToGroup(g)
      PROVE  Others /\ Steady
  BY <1>4 DEF AddUserToGroup, Steady, tree
<1>5. ASSUME NEW g \in Guests, DeleteUser(g)
      PROVE  Others /\ Steady
  BY <1>1, <1>5, DeleteUserTypes DEF DeleteUser, Steady, tree
<1>6. ASSUME NEW d \in DirIds, NEW p \in Dirs, Mkdir(d, p)
      PROVE  Others /\ Steady
  BY <1>1, <1>6, MkdirTypes DEF Mkdir, Steady
<1>7. ASSUME NEW d \in DirIds, DeleteDirectory(d) \/ RestoreDirectory(d)
      PROVE  Others /\ Steady
  BY <1>1, <1>7, TrashTypes DEF DeleteDirectory, RestoreDirectory, Steady
<1>8. ASSUME NEW d \in DirIds, EraseDirectory(d)
      PROVE  Others /\ Steady
  BY <1>1, <1>8, EraseDirectoryTypes DEF EraseDirectory, Steady
<1>9. ASSUME NEW f \in FileIds, EraseFile(f)
      PROVE  Others /\ Steady
  <2>1. files' = [files EXCEPT ![f] = None] /\ UNCHANGED dirs /\ Others
    BY <1>9 DEF EraseFile
  <2>2. \A e \in FileIds : files'[e] # None => files'[e] = files[e]
    BY <1>1, <2>1 DEF TypeOK
  <2> QED  BY <1>1, <1>9, <2>1, <2>2, EraseFileTypes DEF Steady
<1>10. ASSUME NEW u \in 0..Horizon, Tick(u)
       PROVE  Others /\ Steady
  BY <1>10 DEF Tick, Steady, tables
<1>11. ASSUME NEW f \in FileIds, NEW p \in Dirs, MoveFile(f, p)
       PROVE  Moving
  BY <1>11 DEF MoveFile
<1>12. ASSUME NEW d \in DirIds, NEW p \in Dirs, MoveDirectory(d, p)
       PROVE  Moving
  BY <1>12 DEF MoveDirectory
<1> QED  BY <1>2, <1>3, <1>4, <1>5, <1>6, <1>7, <1>8, <1>9, <1>10, <1>11, <1>12, ActsAre, Zenon

LEMMA WaitingIsPromised ==
  ASSUME TypeInv, TypeOK', NEW r \in Requests, Promised(r), Waits(r), Steady
  PROVE  Promised(r)'
<1> DEFINE q == req[r]
<1>1. /\ req'[r].pc = q.pc /\ req'[r].op = q.op /\ req'[r].who = q.who /\ req'[r].id = q.id
      /\ req'[r].path = q.path /\ req'[r].left = q.left /\ req'[r].found = q.found
      /\ req'[r].limit = q.limit /\ req'[r].size = q.size /\ req'[r].dir = q.dir
      /\ q.pc \in InProgress =>
           /\ req'[r].uploads \subseteq q.uploads \intersect Offers(Certain(Uploads(q)))
           /\ req'[r].reads \subseteq q.reads \intersect Certain(Reads(q))
      /\ q.pc \notin InProgress => req'[r] = q
  BY DEF Waits
<1>2. TypeOK /\ (q.pc \in InProgress => q.id \in Items)
  BY DEF TypeInv, ReqOK
<1>3. ASSUME NEW x \in Items, Row(x) # None, Row(x)' # None
      PROVE  Row(x)'.path = Row(x).path
  BY <1>3 DEF Row, Steady, Items
<1>4. ASSUME NEW s \in ShareIds, shares[s] # None, shares'[s] # None, Lies(q, s)
      PROVE  Lies(q, s)'
  <2>1. PICK d \in DirIds : shares[s].on = d /\ (d = q.dir \/ Ahead(q, d))
    BY <1>4 DEF Lies
  <2>2. shares'[s].on = d
    BY <1>4, <2>1 DEF Steady
  <2>3. dirs'[d] # None
    BY <1>4, <2>2 DEF TypeOK, Row
  <2>4. dirs[d] # None => dirs'[d].path = dirs[d].path
    BY <2>1, <2>3 DEF Steady
  <2> QED  BY <1>1, <2>1, <2>2, <2>3, <2>4 DEF Lies, Ahead
<1>5. \A g, x, up : \A s \in Certain(Covering(g, x, up)) : s \in ShareIds /\ shares[s] # None /\ Row(x) # None
  BY DEF Certain, Covering
<1>6. \A g, x, up : \A s \in Certain(Covering(g, x, up))' : s \in ShareIds /\ shares'[s] # None /\ Row(x)' # None
  BY DEF Certain, Covering
<1>7. ASSUME q.pc \in InProgress, NEW s \in req'[r].reads, s \in Certain(Reads(q))'
      PROVE  Row(q.id)'.path = q.path /\ (q.pc = "climb" => Lies(q, s)')
  <2>1. s \in q.reads /\ s \in Certain(Reads(q))
    BY <1>1, <1>7
  <2>2. s \in ShareIds /\ shares[s] # None /\ Row(q.id) # None
    BY <1>5, <2>1 DEF Reads
  <2>3. s \in Certain(Covering(q.who, q.id, FALSE))'
    BY <1>7 DEF Reads
  <2>4. s \in ShareIds /\ shares'[s] # None /\ Row(q.id)' # None
    BY <1>1, <2>3 DEF Certain, Covering, Row
  <2>5. Row(q.id).path = q.path /\ (q.pc = "climb" => Lies(q, s))
    BY <1>7, <2>1 DEF Promised
  <2> QED  BY <1>1, <1>2, <1>3, <1>4, <1>7, <2>2, <2>4, <2>5 DEF Row
<1>8. ASSUME q.pc \in {"own", "walk"}, NEW s \in Certain(Uploads(q))', <<s, shares'[s].max>> \in req'[r].uploads
      PROVE  Row(q.id)'.path = q.path /\ (q.pc = "walk" => shares'[s].max \in q.found \/ Lies(q, s)')
  <2>1. q.pc \in InProgress
    BY <1>8 DEF InProgress
  <2>2. <<s, shares'[s].max>> \in q.uploads /\ <<s, shares'[s].max>> \in Offers(Certain(Uploads(q)))
    BY <1>1, <1>8, <2>1
  <2>3. PICK u \in Certain(Uploads(q)) : <<s, shares'[s].max>> = <<u, shares[u].max>>
    BY <2>2 DEF Offers
  <2>4. u = s /\ shares'[s].max = shares[s].max
    BY <2>3
  <2>5. s \in ShareIds /\ shares[s] # None /\ Row(q.id) # None
    <3>1. s \in Certain(Covering(q.who, q.id, TRUE))
      BY <2>3, <2>4 DEF Uploads, Certain
    <3> QED  BY <1>5, <3>1
  <2>6. shares'[s] # None /\ Row(q.id)' # None
    BY <1>1, <1>8 DEF Certain, Uploads, Covering, Row
  <2>7. Row(q.id).path = q.path /\ (q.pc = "walk" => shares[s].max \in q.found \/ Lies(q, s))
    BY <1>8, <2>2, <2>3, <2>4 DEF Promised
  <2> QED  BY <1>1, <1>2, <1>3, <1>4, <2>1, <2>4, <2>5, <2>6, <2>7 DEF Row
<1>9. CASE q.pc \in InProgress
  <2>1. req'[r].uploads \subseteq q.uploads
    BY <1>1, <1>9
  <2>2. q.pc \in {"probe", "climb"} /\ q.op = "upload" => req'[r].uploads = {}
    BY <2>1 DEF Promised
  <2> QED  BY <1>1, <1>7, <1>8, <1>9, <2>2 DEF Promised, InProgress
<1>10. CASE q.pc \notin InProgress
  BY <1>1, <1>10 DEF Promised, InProgress
<1> QED  BY <1>9, <1>10

LEMMA MovingIsPromised ==
  ASSUME TypeInv, NEW r \in Requests, Promised(r), Moving
  PROVE  Promised(r)'
<1>1. req'[r] = Unpromised(Late(req[r]))
  BY Zenon DEF Moving
<1>2. /\ Waits(r)
      /\ req[r].pc \in InProgress => req'[r].uploads = {} /\ req'[r].reads = {}
  BY <1>1, UnpromisedWaits
<1>3. CASE req[r].pc \in InProgress
  BY <1>2, <1>3 DEF Waits, Promised, InProgress
<1>4. CASE req[r].pc \notin InProgress
  <2>1. req'[r] = req[r]
    BY <1>2, <1>4 DEF Waits
  <2> QED  BY <1>4, <2>1 DEF Promised, InProgress
<1> QED  BY <1>3, <1>4

LEMMA SameCover ==
  ASSUME NEW r \in Requests, Apart(r), Advances(r)
  PROVE  /\ Certain(Reads(req[r]))' = Certain(Reads(req[r]))
         /\ Certain(Uploads(req[r]))' = Certain(Uploads(req[r]))
         /\ Row(req[r].id)' = Row(req[r].id)
         /\ \A s \in ShareIds : shares'[s] = shares[s]
         /\ \A s \in req'[r].reads : s \in req[r].reads /\ s \in Certain(Reads(req[r]))
         /\ \A o \in req'[r].uploads : o \in req[r].uploads /\ o \in Offers(Certain(Uploads(req[r])))
<1>1. /\ req'[r].op = req[r].op /\ req'[r].who = req[r].who /\ req'[r].id = req[r].id
      /\ UNCHANGED <<dirs, files, shares, member, now>>
  BY DEF Apart, Advances, tables
<1>2. Row(req[r].id)' = Row(req[r].id)
  BY <1>1 DEF Row
<1>3. \A up \in BOOLEAN : Covering(req[r].who, req[r].id, up)' = Covering(req[r].who, req[r].id, up)
  BY <1>1, <1>2 DEF Covering, IsFor
<1>4. Reads(req[r])' = Reads(req[r]) /\ Uploads(req[r])' = Uploads(req[r])
  BY <1>1, <1>3 DEF Reads, Uploads
<1>5. Certain(Reads(req[r]))' = Certain(Reads(req[r])) /\ Certain(Uploads(req[r]))' = Certain(Uploads(req[r]))
  BY <1>1, <1>4 DEF Certain, Second
<1> QED  BY <1>1, <1>2, <1>5 DEF Advances

\* What a request is still promised where it goes on.
LEMMA GoesOnPromised ==
  ASSUME TypeInv, NEW r \in Requests, Promised(r), Apart(r), Advances(r),
         req'[r].pc \in {"walk", "probe", "climb"},
         \A s \in req[r].reads \intersect Certain(Reads(req[r])) :
           s \in req'[r].reads /\ req'[r].pc = "climb" => Lies(req[r], s)',
         \A s \in Certain(Uploads(req[r])) :
           <<s, shares[s].max>> \in req'[r].uploads /\ req'[r].pc = "walk" =>
             req[r].pc \in {"own", "walk"} /\ (shares[s].max \in req'[r].found \/ Lies(req[r], s)'),
         req'[r].pc \in {"probe", "climb"} /\ req[r].op = "upload" => req'[r].uploads = {}
  PROVE  Promised(r)'
<1> DEFINE q == req[r]
<1>1. /\ req'[r].op = q.op /\ req'[r].id = q.id /\ req'[r].path = q.path /\ q.pc \in InProgress
  BY DEF Advances
<1>2. \A s \in req'[r].reads \intersect Certain(Reads(q))' :
        /\ Row(q.id)'.path = q.path
        /\ req'[r].pc = "climb" => Lies(q, s)'
  <2> TAKE s \in req'[r].reads \intersect Certain(Reads(q))'
  <2>1. s \in q.reads \intersect Certain(Reads(q)) /\ Row(q.id)' = Row(q.id)
    BY SameCover
  <2>2. Row(q.id).path = q.path
    BY <1>1, <2>1 DEF Promised
  <2> QED  BY <2>1, <2>2
<1>3. ASSUME req'[r].pc = "walk", NEW s \in Certain(Uploads(q))',
             <<s, shares'[s].max>> \in req'[r].uploads
      PROVE  /\ Row(q.id)'.path = q.path
             /\ shares'[s].max \in req'[r].found \/ Lies(q, s)'
  <2>1. /\ s \in Certain(Uploads(q)) /\ Row(q.id)' = Row(q.id) /\ shares'[s] = shares[s]
        /\ <<s, shares[s].max>> \in q.uploads
    BY <1>3, SameCover DEF Apart, tables
  <2>2. q.pc \in {"own", "walk"}
    BY <1>3, <2>1
  <2>3. Row(q.id).path = q.path
    BY <2>1, <2>2 DEF Promised
  <2> QED  BY <1>3, <2>1, <2>3
<1> QED  BY <1>1, <1>2, <1>3 DEF Promised, InProgress

LEMMA OwnIsPromised ==
  ASSUME TypeInv, NEW r \in Requests, Promised(r), Own(r)
  PROVE  Promised(r)'
<1> DEFINE q == req[r]
<1>1. /\ Apart(r) /\ Advances(r) /\ q.pc \in {"own", "probe"} /\ q.pc \in InProgress
      /\ req'[r].left = q.left /\ UNCHANGED <<dirs, files, shares, users, member, now>>
      /\ req'[r].op = q.op /\ req'[r].uploads \subseteq q.uploads
  BY OwnIs DEF Advances, Apart, tables, InProgress
<1>2. TypeOK /\ ReqOK(r) /\ now \in Nat /\ now <= now
  BY TermsAreLimits DEF TypeInv
<1>3. q.left = Front(q.path) /\ (q.pc = "probe" => q.op = "upload")
  BY <1>1, <1>2 DEF ReqOK
<1>4. \A s : (\E d \in DirIds : shares[s].on = d /\ dirs[d] # None /\ IsPrefix(dirs[d].path, Front(q.path)))
               => Lies(q, s)'
  BY <1>1, <1>3 DEF Lies, Ahead
<1>5. CASE /\ q.op = "upload" /\ q.pc = "own" /\ req'[r].pc = "walk"
           /\ req'[r].found = Terms(UploadShares(q.who, q.id, now))
  <2>1. \A s \in Certain(Uploads(q)) : <<s, shares[s].max>> \in req'[r].uploads =>
          shares[s].max \in req'[r].found \/ Lies(q, s)'
    <3> TAKE s \in Certain(Uploads(q))
    <3> HAVE <<s, shares[s].max>> \in req'[r].uploads
    <3>1. Uploads(q) = Covering(q.who, q.id, TRUE)
      BY <1>5 DEF Uploads
    <3>2. Row(q.id).path = q.path
      BY <1>1, <1>5 DEF Promised
    <3>3. /\ s \in ShareIds /\ shares[s] # None /\ IsFor(shares[s], q.who) /\ shares[s].up
          /\ InForce(shares[s], now)
          /\ \/ shares[s].on = q.id
             \/ \E d \in DirIds : /\ shares[s].on = d /\ dirs[d] # None
                                  /\ IsPrefix(dirs[d].path, Front(q.path))
      BY <1>1, <1>2, <3>1, <3>2, CertainlyCovers
    <3>4. shares[s].on = q.id => s \in UploadShares(q.who, q.id, now)
      BY <3>3 DEF UploadShares, SharesOn
    <3> QED  BY <1>4, <1>5, <3>3, <3>4 DEF Terms
  <2> QED  BY <1>1, <1>5, <2>1, GoesOnPromised DEF InProgress
<1>6. CASE ~HasAccess(q.who, q.id, now) /\ req'[r].pc = "climb"
  <2>1. \A s \in q.reads \intersect Certain(Reads(q)) : Lies(q, s)'
    <3> TAKE s \in q.reads \intersect Certain(Reads(q))
    <3>1. Row(q.id).path = q.path /\ s \in Certain(Covering(q.who, q.id, FALSE))
      BY <1>1 DEF Promised, Reads
    <3>2. /\ s \in ShareIds /\ shares[s] # None /\ IsFor(shares[s], q.who)
          /\ InForce(shares[s], now)
          /\ \/ shares[s].on = q.id
             \/ \E d \in DirIds : /\ shares[s].on = d /\ dirs[d] # None
                                  /\ IsPrefix(dirs[d].path, Front(q.path))
      BY <1>1, <1>2, <3>1, CertainlyCovers
    <3>3. shares[s].on # q.id
      BY <1>6, <3>2 DEF HasAccess, SharesOn
    <3> QED  BY <1>4, <3>2, <3>3
  <2>2. q.op = "upload" => req'[r].uploads = {}
    <3>1. q.op = "upload" => q.pc = "probe"
      BY <1>1, <1>6, OwnIs
    <3> QED  BY <1>1, <3>1 DEF Promised
  <2> QED  BY <1>1, <1>6, <2>1, <2>2, GoesOnPromised DEF InProgress
<1>7. CASE q.op = "upload" /\ req'[r].pc = "not_allowed"
  <2>1. q.pc = "probe"
    BY <1>1, <1>7, OwnIs
  <2>2. req'[r].uploads = {}
    BY <1>1, <1>7, <2>1 DEF Promised
  <2> QED  BY <1>7, <2>2 DEF Promised, InProgress
<1>8. CASE req'[r].pc = "granted"
  BY <1>8 DEF Promised, InProgress
<1> QED  BY <1>5, <1>6, <1>7, <1>8, OwnIs

LEMMA LookUpIsPromised ==
  ASSUME TypeInv, NEW r \in Requests, Promised(r), LookUp(r)
  PROVE  Promised(r)'
<1> DEFINE q == req[r]
<1>1. /\ Apart(r) /\ Advances(r) /\ q.pc \in {"walk", "climb"} /\ q.pc \in InProgress
      /\ q.left # <<>> /\ q.dir = None /\ req'[r].left = Front(q.left)
      /\ req'[r].pc = q.pc /\ req'[r].found = q.found
      /\ UNCHANGED <<dirs, files, shares, users, member, now>>
      /\ req'[r].op = q.op /\ req'[r].uploads \subseteq q.uploads
  BY LookUpIs DEF Advances, Apart, tables, InProgress
<1>2. TypeOK /\ (q.pc = "walk" => q.op = "upload")
  BY DEF TypeInv, ReqOK
<1>3. ASSUME Here(r) = {} \/ req'[r].dir \in Here(r), NEW up \in BOOLEAN, q.pc = "walk" => up,
             NEW s \in Certain(Covering(q.who, q.id, up)), Row(q.id).path = q.path, Lies(q, s)
      PROVE  Lies(q, s)'
  <2>1. CASE \E d \in DirsAt(q.left) : /\ s \in SharesOn(q.who, d)
                                       /\ up => ~dirs[d].trashed /\ shares[s].up
    <3>1. PICK d \in DirsAt(q.left) : s \in SharesOn(q.who, d) /\ (up => ~dirs[d].trashed)
      BY <2>1
    <3>2. d \in Here(r)
      BY <1>3, <3>1 DEF Here
    <3>3. req'[r].dir \in DirsAt(q.left)
      BY <1>3, <3>2 DEF Here
    <3>4. d = req'[r].dir
      BY <1>2, <3>3 DEF DirsAt, TypeOK, Unique
    <3> QED  BY <1>1, <3>1, <3>3, <3>4 DEF Lies, SharesOn, DirsAt
  <2>2. CASE \E d \in DirIds : shares[s].on = d /\ dirs[d] # None /\ IsPrefix(dirs[d].path, Front(q.left))
    BY <1>1, <2>2 DEF Lies, Ahead
  <2> QED  BY <1>1, <1>3, <2>1, <2>2, HereOrAbove
<1>4. CASE (Here(r) = {} \/ req'[r].dir \in Here(r)) /\ q.pc = "walk"
  <2>1. \A s \in Certain(Uploads(q)) : <<s, shares[s].max>> \in req'[r].uploads =>
          shares[s].max \in req'[r].found \/ Lies(q, s)'
    <3> TAKE s \in Certain(Uploads(q))
    <3> HAVE <<s, shares[s].max>> \in req'[r].uploads
    <3>1. s \in Certain(Covering(q.who, q.id, TRUE))
      BY <1>2, <1>4 DEF Uploads
    <3>2. Row(q.id).path = q.path /\ (shares[s].max \in q.found \/ Lies(q, s))
      BY <1>1, <1>4 DEF Promised
    <3> QED  BY <1>1, <1>3, <1>4, <3>1, <3>2
  <2> QED  BY <1>1, <1>4, <2>1, GoesOnPromised
<1>5. CASE (Here(r) = {} \/ req'[r].dir \in Here(r)) /\ q.pc = "climb"
  <2>1. \A s \in q.reads \intersect Certain(Reads(q)) : Lies(q, s)'
    <3> TAKE s \in q.reads \intersect Certain(Reads(q))
    <3>1. /\ Row(q.id).path = q.path /\ Lies(q, s)
          /\ s \in Certain(Covering(q.who, q.id, FALSE))
      BY <1>1, <1>5 DEF Promised, Reads
    <3> QED  BY <1>3, <1>5, <3>1
  <2>2. q.op = "upload" => req'[r].uploads = {}
    BY <1>1, <1>5 DEF Promised
  <2> QED  BY <1>1, <1>5, <2>1, <2>2, GoesOnPromised
<1>6. CASE req'[r].uploads = {} /\ req'[r].reads = {}
  BY <1>1, <1>6 DEF Promised, InProgress
<1> QED  BY <1>1, <1>4, <1>5, <1>6, LookUpIs

LEMMA AskSharesIsPromised ==
  ASSUME TypeInv, NEW r \in Requests, Promised(r), AskShares(r)
  PROVE  Promised(r)'
<1> DEFINE q == req[r]
           d == req[r].dir
<1>1. /\ Apart(r) /\ Advances(r) /\ q.pc \in {"walk", "climb"} /\ q.pc \in InProgress
      /\ req'[r].left = q.left /\ q.at \in Nat
      /\ UNCHANGED <<dirs, files, shares, users, member, now>>
      /\ req'[r].op = q.op /\ req'[r].uploads \subseteq q.uploads
  BY AskSharesIs DEF Advances, Apart, tables, InProgress
<1>2. TypeOK /\ (q.pc = "walk" => q.op = "upload") /\ q.at <= now
  BY <1>1, NoneIsNoRow DEF TypeInv, ReqOK
<1>3. ASSUME NEW s, Lies(q, s)
      PROVE  shares[s].on = d \/ Lies(q, s)'
  BY <1>1, <1>3 DEF Lies, Ahead
<1>4. ASSUME NEW up \in BOOLEAN, NEW s \in Certain(Covering(q.who, q.id, up)), Row(q.id).path = q.path,
             shares[s].on = d
      PROVE  s \in SharesOn(q.who, d) /\ InForce(shares[s], q.at) /\ (up => shares[s].up)
  BY <1>1, <1>2, <1>4, CertainlyCovers DEF SharesOn
<1>5. CASE /\ q.pc = "walk" /\ req'[r].pc = "walk"
           /\ req'[r].found = q.found \union Terms(UploadShares(q.who, d, q.at))
  <2>1. \A s \in Certain(Uploads(q)) : <<s, shares[s].max>> \in req'[r].uploads =>
          shares[s].max \in req'[r].found \/ Lies(q, s)'
    <3> TAKE s \in Certain(Uploads(q))
    <3> HAVE <<s, shares[s].max>> \in req'[r].uploads
    <3>1. s \in Certain(Covering(q.who, q.id, TRUE))
      BY <1>2, <1>5 DEF Uploads
    <3>2. Row(q.id).path = q.path /\ (shares[s].max \in q.found \/ Lies(q, s))
      BY <1>1, <1>5 DEF Promised
    <3>3. shares[s].on = d => shares[s].max \in Terms(UploadShares(q.who, d, q.at))
      BY <1>4, <3>1, <3>2 DEF UploadShares, Terms
    <3> QED  BY <1>3, <1>5, <3>2, <3>3
  <2> QED  BY <1>1, <1>5, <2>1, GoesOnPromised
<1>6. CASE q.pc = "climb" /\ req'[r].pc = "climb" /\ ~HasAccess(q.who, d, q.at)
  <2>1. \A s \in q.reads \intersect Certain(Reads(q)) : Lies(q, s)'
    <3> TAKE s \in q.reads \intersect Certain(Reads(q))
    <3>1. /\ Row(q.id).path = q.path /\ Lies(q, s)
          /\ s \in Certain(Covering(q.who, q.id, FALSE))
      BY <1>1, <1>6 DEF Promised, Reads
    <3>2. shares[s].on # d
      BY <1>4, <1>6, <3>1 DEF HasAccess
    <3> QED  BY <1>3, <3>1, <3>2
  <2>2. q.op = "upload" => req'[r].uploads = {}
    BY <1>1, <1>6 DEF Promised
  <2> QED  BY <1>1, <1>6, <2>1, <2>2, GoesOnPromised
<1>7. CASE q.pc = "climb" /\ q.op = "upload" /\ req'[r].pc = "not_allowed"
  <2>1. req'[r].uploads = {}
    BY <1>1, <1>7 DEF Promised
  <2> QED  BY <1>7, <2>1 DEF Promised, InProgress
<1>8. CASE req'[r].pc = "granted"
  BY <1>8 DEF Promised, InProgress
<1> QED  BY <1>5, <1>6, <1>7, <1>8, AskSharesIs

LEMMA ArriveIsPromised ==
  ASSUME TypeInv, NEW r \in Requests, Promised(r), Arrive(r)
  PROVE  Promised(r)'
<1> DEFINE q == req[r]
<1>1. /\ Apart(r) /\ Advances(r) /\ q.pc \in {"walk", "climb"} /\ q.pc \in InProgress
      /\ q.left = <<>> /\ q.dir = None /\ req'[r].op = q.op
      /\ req'[r].uploads \subseteq q.uploads \intersect Offers(Certain(Uploads(q)))
      /\ req'[r].reads \subseteq q.reads \intersect Certain(Reads(q))
  BY ArriveIs DEF Advances, InProgress
<1>2. TypeOK /\ q \in Request
  BY DEF TypeInv
<1>3. \A s \in ShareIds : ~Lies(q, s)
  BY <1>1, NothingLiesThere
<1>4. \A g, x, up : \A s \in Certain(Covering(g, x, up)) : s \in ShareIds
  BY DEF Certain, Covering
<1>5. CASE q.pc = "climb" /\ req'[r].pc = "forbidden"
  <2>1. \A s \in q.reads \intersect Certain(Reads(q)) : FALSE
    <3> TAKE s \in q.reads \intersect Certain(Reads(q))
    <3>1. Lies(q, s)
      BY <1>1, <1>5 DEF Promised
    <3>2. s \in ShareIds
      BY <1>4 DEF Reads
    <3> QED  BY <1>3, <3>1, <3>2
  <2>2. req'[r].reads = {}
    BY <1>1, <2>1
  <2> QED  BY <1>5, <2>2 DEF Promised, InProgress
<1>6. ASSUME q.pc = "walk", NEW o \in req'[r].uploads
      PROVE  o[2] \in q.found
  <2>1. o \in q.uploads /\ o \in Offers(Certain(Uploads(q)))
    BY <1>1
  <2>2. PICK s \in Certain(Uploads(q)) : o = <<s, shares[s].max>>
    BY <2>1 DEF Offers
  <2>3. shares[s].max \in q.found \/ Lies(q, s)
    BY <1>6, <2>1, <2>2 DEF Promised
  <2>4. s \in ShareIds
    BY <1>4 DEF Uploads, Certain
  <2> QED  BY <1>3, <2>2, <2>3, <2>4
<1>7. CASE q.pc = "walk" /\ q.found = {} /\ req'[r].pc = "probe"
  <2>1. req'[r].uploads = {}
    BY <1>6, <1>7
  <2> QED  BY <1>1, <1>7, <2>1, GoesOnPromised
<1>8. CASE /\ q.pc = "walk" /\ q.found # {} /\ req'[r].pc = "upload"
           /\ req'[r].limit = MostPermissive(q.found)
  <2>1. MostPermissive(q.found) # None =>
          \A m \in q.found : m # None /\ m <= MostPermissive(q.found)
    BY <1>2, <1>8, MostPermissiveIs DEF Request
  <2>2. req'[r].limit = None \/ \A o \in req'[r].uploads : o[2] # None /\ o[2] <= req'[r].limit
    BY <1>6, <1>8, <2>1
  <2> QED  BY <1>8, <2>2 DEF Promised, InProgress
<1> QED  BY <1>5, <1>7, <1>8, ArriveIs

LEMMA ServeIsPromised ==
  ASSUME TypeInv, NEW r \in Requests, Promised(r), Serve(r)
  PROVE  Promised(r)'
<1>1. users \subseteq Guests /\ req[r] \in Request
  BY DEF TypeInv, TypeOK
<1>2. ASSUME NEW op \in {"download", "browse", "upload"}, NEW g \in Guests, NEW x \in Items,
             op = "upload" => x \in DirIds, Ask(r, op, g, x)
      PROVE  Promised(r)'
  <2>1. Apart(r) /\ (req'[r].pc = "not_found" \/ Begins(r))
    BY <1>2, AskIs
  <2>2. CASE req'[r].pc = "not_found"
    BY <2>2 DEF Promised, InProgress
  <2>3. CASE Begins(r)
    <3>1. req'[r].pc = "own" /\ Row(req[r].id)'.path = req'[r].path
      BY <2>1, <2>3 DEF Begins, Apart, tables, Row
    <3> QED  BY <3>1 DEF Promised, InProgress
  <2> QED  BY <2>1, <2>2, <2>3
<1>3. ASSUME NEW n \in Names, NEW size \in Nat, Store(r, n, size)
      PROVE  Promised(r)'
  <2>1. /\ req[r].pc = "upload" /\ req'[r].uploads = req[r].uploads /\ req'[r].size = size
        /\ \/ req'[r].pc \in {"occupied", "stored"}
           \/ req'[r].pc = "too_large" /\ req[r].limit # None /\ ~(size <= req[r].limit)
    BY <1>3, StoreIs
  <2>2. ASSUME req'[r].pc = "too_large", NEW o \in req'[r].uploads
        PROVE  o[2] # None /\ o[2] < req'[r].size
    <3>1. o[2] # None /\ o[2] <= req[r].limit
      BY <2>1, <2>2 DEF Promised
    <3>2. o[2] \in Limits /\ req[r].limit \in Limits
      BY <1>1, <2>1, <2>2 DEF Request
    <3>3. o[2] \in Nat /\ req[r].limit \in Nat
      BY <2>1, <2>2, <3>1, <3>2 DEF Limits
    <3> QED  BY <2>1, <2>2, <3>1, <3>3
  <2> QED  BY <2>1, <2>2 DEF Promised, InProgress
<1> QED  BY <1>1, <1>2, <1>3, ServeIs, OwnIsPromised, LookUpIsPromised, AskSharesIsPromised,
           ArriveIsPromised, Zenon

LEMMA PromiseStep ==
  ASSUME TypeInv, PromiseInv, [Next]_vars
  PROVE  PromiseInv'
<1>1. TypeInv'
  BY TypeStep
<1>2. ASSUME Acts
      PROVE  PromiseInv'
  <2> SUFFICES ASSUME NEW r \in Requests
               PROVE  Promised(r)'
    BY DEF PromiseInv
  <2>1. Promised(r)
    BY DEF PromiseInv
  <2>2. CASE Moving
    BY <2>1, <2>2, MovingIsPromised
  <2>3. CASE Others /\ Steady
    <3>1. Waits(r)
      BY <2>3, OthersWait DEF Waiting
    <3> QED  BY <1>1, <2>1, <2>3, <3>1, WaitingIsPromised DEF TypeInv
  <2> QED  BY <1>2, <2>2, <2>3, ActsAreSteady
<1>3. ASSUME NEW r \in Requests, Serve(r)
      PROVE  PromiseInv'
  <2>1. /\ \A s \in Requests \ {r} : Waits(s)
        /\ UNCHANGED <<dirs, shares>> /\ \A f \in FileIds : files[f] # None => files'[f] = files[f]
    BY <1>3, ServeWaits
  <2>2. Steady
    BY <2>1 DEF Steady
  <2>3. \A s \in Requests \ {r} : Promised(s)'
    BY <1>1, <2>1, <2>2, WaitingIsPromised DEF PromiseInv, TypeInv
  <2>4. Promised(r)'
    BY <1>3, ServeIsPromised DEF PromiseInv
  <2> QED  BY <2>3, <2>4 DEF PromiseInv
<1>4. CASE UNCHANGED vars
  <2>1. \A r \in Requests : Promised(r)'
    <3> TAKE r \in Requests
    <3>1. Promised(r)
      BY DEF PromiseInv
    <3>2. Certain(Reads(req[r]))' = Certain(Reads(req[r])) /\ Certain(Uploads(req[r]))' = Certain(Uploads(req[r]))
      BY <1>4, Zenon DEF vars, tables, Certain, Reads, Uploads, Covering, Row, IsFor, Second
    <3> QED  BY <1>4, <3>1, <3>2 DEF vars, tables, Promised, Row, Lies, Ahead
  <2> QED  BY <2>1 DEF PromiseInv
<1> QED  BY <1>2, <1>3, <1>4 DEF Next, Acts

LEMMA PromiseInit ==
  ASSUME Init
  PROVE  PromiseInv
<1>1. \A r \in Requests : req[r].pc = "idle"
  BY DEF Init, Idle
<1> QED  BY <1>1 DEF PromiseInv, Promised, InProgress

\* Nobody who was covered all the time is turned away, nor told that the upload is not
\* allowed, nor held to a smaller limit than the share gives.
THEOREM NobodyOverlooked == Spec => []NeverOverlooked
<1>1. Init => TypeInv /\ PromiseInv
  BY TypeInit, PromiseInit
<1>2. TypeInv /\ PromiseInv /\ [Next]_vars => TypeInv' /\ PromiseInv'
  BY TypeStep, PromiseStep
<1>3. PromiseInv => NeverOverlooked
  BY DEF PromiseInv, Promised, NeverOverlooked
<1> QED  BY <1>1, <1>2, <1>3, PTL DEF Spec
=============================================================================
