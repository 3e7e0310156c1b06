-------------------------- MODULE FileStoreProofs --------------------------
(***************************************************************************)
(* Proofs about module FileStore.                                          *)
(***************************************************************************)
EXTENDS FileStoreInv, TLAPS, FiniteSetTheorems, WellFoundedInduction

(***************************************************************************)
(* Version numbers.                                                        *)
(***************************************************************************)
LEMMA HasNewest ==
  ASSUME NEW S \in SUBSET Nums, S # {}
  PROVE  \E m \in S : \A n \in S : n <= m
<1> DEFINE Gap == {MaxNum - n : n \in S}
<1>1. Gap \subseteq Nat /\ Gap # {}
  <2>1. \A n \in 1..MaxNum : MaxNum - n \in Nat
    BY FileStoreAssumption
  <2>2. \A n \in S : MaxNum - n \in Nat
    BY <2>1 DEF Nums
  <2> QED  BY <2>2
<1>2. PICK g \in Gap : \A h \in Gap : ~(<<h, g>> \in OpToRel(<, Nat))
  <2> HIDE DEF Gap
  <2> QED  BY <1>1, NatLessThanWellFounded, WFMin, ZenonT(60)
<1>3. PICK m \in S : g = MaxNum - m
  OBVIOUS
<1>4. \A h \in Gap : g <= h
  <2> TAKE h \in Gap
  <2>1. g \in Nat /\ h \in Nat
    BY <1>1
  <2>2. ~(g > h)
    BY <1>2, <2>1 DEF OpToRel
  <2> QED  BY <2>1, <2>2
<1>5. \A n \in S : n <= m
  <2> TAKE n \in S
  <2>1. MaxNum - m <= MaxNum - n
    BY <1>3, <1>4
  <2> QED  BY <2>1, FileStoreAssumption DEF Nums
<1> QED  BY <1>5

\* A history has a newest version, and LatestVersionNum finds it: before and
\* after a step.
LEMMA LatestIsNewest ==
  ASSUME NEW i \in Ids
  PROVE  /\ LatestVersionNum(i) \in 0..MaxNum
         /\ \A n \in Recorded(i) : n <= LatestVersionNum(i)
         /\ Recorded(i) = {} => LatestVersionNum(i) = 0
         /\ Recorded(i) # {} => LatestVersionNum(i) \in Recorded(i)
<1>1. Recorded(i) \subseteq Nums /\ Nums \subseteq 0..MaxNum
  BY FileStoreAssumption DEF Recorded, Nums
<1>2. CASE Recorded(i) = {}
  BY <1>2, FileStoreAssumption DEF LatestVersionNum
<1>3. CASE Recorded(i) # {}
  <2>1. \E m \in Recorded(i) : \A n \in Recorded(i) : n <= m
    BY <1>1, <1>3, HasNewest
  <2> QED  BY <1>1, <1>3, <2>1 DEF LatestVersionNum
<1> QED  BY <1>2, <1>3

LEMMA LatestIsNewestNext ==
  ASSUME NEW i \in Ids
  PROVE  /\ LatestVersionNum(i)' \in 0..MaxNum
         /\ \A n \in Recorded(i)' : n <= LatestVersionNum(i)'
<1>1. Recorded(i)' \subseteq Nums /\ Nums \subseteq 0..MaxNum
  BY FileStoreAssumption DEF Recorded, Nums
<1>2. CASE Recorded(i)' = {}
  BY <1>2, FileStoreAssumption DEF LatestVersionNum
<1>3. CASE Recorded(i)' # {}
  <2>1. \E m \in Recorded(i)' : \A n \in Recorded(i)' : n <= m
    BY <1>1, <1>3, HasNewest
  <2> QED  BY <1>1, <1>3, <2>1 DEF LatestVersionNum
<1> QED  BY <1>2, <1>3

(***************************************************************************)
(* Types.                                                                  *)
(***************************************************************************)
LEMMA IdleIsRequest == Idle \in Request /\ WellFormed(Idle)
BY FileStoreAssumption
   DEF Idle, Request, Places, Nums, WellFormed, OnFile, WithContent, Snapshotting

LEMMA TypeInit == Init => TInv
BY IdleIsRequest, FileStoreAssumption DEF Init, TInv, TypeOK

\* A step that gives one request a well-formed record keeps the others so.
LEMMA TypeUpdate ==
  ASSUME TInv, NEW r \in Requests, NEW q \in Request, WellFormed(q),
         req' = [req EXCEPT ![r] = q]
  PROVE  /\ req' \in [Requests -> Request]
         /\ \A s \in Requests : WellFormed(req'[s])
BY DEF TInv, TypeOK

LEMMA TypeFinish ==
  ASSUME TInv, NEW r \in Requests, Finish(r)
  PROVE  /\ req' \in [Requests -> Request]
         /\ \A s \in Requests : WellFormed(req'[s])
BY IdleIsRequest, TypeUpdate DEF Finish

LEMMA TypeGoto ==
  ASSUME TInv, NEW r \in Requests, NEW place \in Places, Goto(r, place),
         WellFormed([req[r] EXCEPT !.pc = place])
  PROVE  /\ req' \in [Requests -> Request]
         /\ \A s \in Requests : WellFormed(req'[s])
<1>1. req[r] \in Request
  BY DEF TInv, TypeOK
<1>2. [req[r] EXCEPT !.pc = place] \in Request
  BY <1>1 DEF Request
<1>3. req' = [req EXCEPT ![r] = [req[r] EXCEPT !.pc = place]]
  BY DEF Goto
<1> QED  BY <1>2, <1>3, TypeUpdate

LEMMA TypeEraseNext ==
  ASSUME TInv, NEW r \in Requests, NEW listed \in SUBSET (Ids \X Keys),
         EraseNext(r, listed)
  PROVE  /\ req' \in [Requests -> Request]
         /\ \A s \in Requests : WellFormed(req'[s])
<1>1. PICK p \in listed :
        req' = [req EXCEPT ![r] = [Idle EXCEPT !.pc = "erase.content",
                  !.op = "purge", !.id = p[1], !.key = p[2],
                  !.purge = listed \ {p}]]
  BY ZenonT(60) DEF EraseNext
<1> DEFINE q == [Idle EXCEPT !.pc = "erase.content", !.op = "purge",
                   !.id = p[1], !.key = p[2], !.purge = listed \ {p}]
<1>2. p[1] \in Ids /\ p[2] \in Keys /\ listed \ {p} \subseteq Ids \X Keys
  OBVIOUS
<1>3. q \in Request
  BY <1>2, IdleIsRequest, ZenonT(60) DEF Request, Places, OpNames
<1>4. WellFormed(q)
  BY <1>2, FileStoreAssumption DEF Idle, WellFormed, OnFile, WithContent, Snapshotting
<1> HIDE DEF q
<1> QED  BY <1>1, <1>3, <1>4, TypeUpdate DEF q

\* One cell of the version table or of the version store.
LEMMA CellUpdate ==
  ASSUME NEW f \in [Ids -> [Nums -> Contents \cup {Nothing}]],
         NEW i \in Ids, NEW n \in Nums, NEW c \in Contents \cup {Nothing}
  PROVE  [f EXCEPT ![i][n] = c] \in [Ids -> [Nums -> Contents \cup {Nothing}]]
OBVIOUS

LEMMA OverwriteType ==
  ASSUME TypeOK, NEW i \in Ids, InUse(i), NEW c \in Contents, Overwrite(i, c)
  PROVE  rows' \in [Ids -> Row \cup {NoRow}]
<1>1. rows[i] \in Row
  BY DEF InUse, TypeOK
<1>2. [rows[i] EXCEPT !.sha = c, !.trashed = FALSE] \in Row
  BY <1>1 DEF Row
<1>3. rows' = [rows EXCEPT ![i] = [rows[i] EXCEPT !.sha = c, !.trashed = FALSE]]
  BY DEF Overwrite
<1> QED  BY <1>2, <1>3 DEF TypeOK

LEMMA TypeBegin ==
  ASSUME TInv, NEW r \in Requests, Begin(r)
  PROVE  TInv'
<1> USE FileStoreAssumption, NoRowAssumption
<1>1. ASSUME NEW k \in Keys, NEW c \in Contents,
             UploadBegin(r, k, c) \/ UploadBeginBlind(r, k, c)
      PROVE  TInv'
  <2> DEFINE q == [Idle EXCEPT !.pc = "upload.read", !.op = "upload",
                               !.key = k, !.sha = c]
  <2>1. q \in Request
    BY IdleIsRequest, ZenonT(60) DEF Request, Places, OpNames
  <2>2. WellFormed(q)
    BY DEF Idle, WellFormed, OnFile, WithContent, Snapshotting
  <2>3. req' = [req EXCEPT ![r] = q]
    BY <1>1 DEF UploadBegin, UploadBeginBlind
  <2> HIDE DEF q
  <2>4. /\ req' \in [Requests -> Request]
        /\ \A s \in Requests : WellFormed(req'[s])
    BY <2>1, <2>2, <2>3, TypeUpdate
  <2> QED  BY <1>1, <2>4 DEF UploadBegin, UploadBeginBlind, TInv, TypeOK,
                             stores, history, Lookup
<1>2. ASSUME NEW i \in Ids, NEW n \in Nums, RestoreVersionBegin(r, i, n)
      PROVE  TInv'
  <2> DEFINE place == IF versioning THEN "snap.number" ELSE "restore.discard"
             q == [Idle EXCEPT !.pc = place,
                    !.op = "restoreVersion", !.id = i, !.key = rows[i].key,
                    !.old = rows[i].sha, !.target = n, !.sha = vrows[i][n]]
  <2>1. /\ rows[i] \in Row /\ vrows[i][n] \in Contents
    BY <1>2 DEF RestoreVersionBegin, InUse, Recorded, TInv, TypeOK
  <2>2. rows[i].key \in Keys /\ rows[i].sha \in Contents /\ n \in 0..MaxNum
    BY <2>1 DEF Row, Nums
  <2>3. place \in Places /\ place \in {"snap.number", "restore.discard"}
    BY DEF Places
  <2> HIDE DEF place
  <2>4. q \in Request /\ WellFormed(q)
    <3>1. q \in Request
      BY <2>1, <2>2, <2>3, IdleIsRequest DEF Request, OpNames
    <3>2. WellFormed(q)
      BY <2>1, <2>2, <2>3 DEF Idle, WellFormed, OnFile, WithContent, Snapshotting
    <3> QED  BY <3>1, <3>2
  <2>5. req' = [req EXCEPT ![r] = q]
    BY <1>2 DEF RestoreVersionBegin, place
  <2> HIDE DEF q
  <2>6. /\ req' \in [Requests -> Request]
        /\ \A s \in Requests : WellFormed(req'[s])
    BY <2>4, <2>5, TypeUpdate
  <2> QED  BY <1>2, <2>6 DEF RestoreVersionBegin, TInv, TypeOK, stores, history
<1>3. ASSUME NEW i \in Ids, EraseBegin(r, i)
      PROVE  TInv'
  <2> DEFINE q == [Idle EXCEPT !.pc = "erase.content", !.op = "erase",
                               !.id = i, !.key = rows[i].key]
  <2>1. rows[i].key \in Keys
    BY <1>3 DEF EraseBegin, InUse, TInv, TypeOK, Row
  <2>2. q \in Request
    BY <2>1, IdleIsRequest, ZenonT(60) DEF Request, Places, OpNames
  <2>3. WellFormed(q)
    BY <2>1 DEF Idle, WellFormed, OnFile, WithContent, Snapshotting
  <2>4. req' = [req EXCEPT ![r] = q]
    BY <1>3 DEF EraseBegin
  <2> HIDE DEF q
  <2>5. /\ req' \in [Requests -> Request]
        /\ \A s \in Requests : WellFormed(req'[s])
    BY <2>2, <2>3, <2>4, TypeUpdate
  <2> QED  BY <1>3, <2>5 DEF EraseBegin, TInv, TypeOK, stores, history
<1>4. ASSUME NEW S \in SUBSET Ids, PurgeBegin(r, S)
      PROVE  TInv'
  <2>1. {<<i, rows[i].key>> : i \in S} \in SUBSET (Ids \X Keys)
    BY <1>4 DEF PurgeBegin, Trashed, InUse, TInv, TypeOK, Row
  <2>2. /\ req' \in [Requests -> Request]
        /\ \A s \in Requests : WellFormed(req'[s])
    BY <1>4, <2>1, TypeEraseNext DEF PurgeBegin
  <2> QED  BY <1>4, <2>2 DEF PurgeBegin, TInv, TypeOK, stores, history
<1>5. ASSUME NEW i \in Ids, NEW k \in Keys, MoveBegin(r, i, k)
      PROVE  TInv'
  <2> DEFINE q == [Idle EXCEPT !.pc = "move.rename", !.op = "move",
                               !.id = i, !.key = rows[i].key, !.to = k]
  <2>1. rows[i].key \in Keys /\ rows[i].key # k
    BY <1>5 DEF MoveBegin, InUse, TInv, TypeOK, Row
  <2>2. q \in Request
    BY <2>1, IdleIsRequest, ZenonT(60) DEF Request, Places, OpNames
  <2>3. WellFormed(q)
    BY <2>1 DEF Idle, WellFormed, OnFile, WithContent, Snapshotting
  <2>4. req' = [req EXCEPT ![r] = q]
    BY <1>5 DEF MoveBegin
  <2> HIDE DEF q
  <2>5. /\ req' \in [Requests -> Request]
        /\ \A s \in Requests : WellFormed(req'[s])
    BY <2>2, <2>3, <2>4, TypeUpdate
  <2> QED  BY <1>5, <2>5 DEF MoveBegin, TInv, TypeOK, stores, history
<1> QED  BY <1>1, <1>2, <1>3, <1>4, <1>5 DEF Begin

LEMMA TypeUpload ==
  ASSUME TInv, NEW r \in Requests,
         UploadRead(r) \/ UploadReadBlind(r) \/ UploadPlace(r)
           \/ UploadCommit(r)
  PROVE  TInv'
<1> USE FileStoreAssumption, NoRowAssumption
<1>0. req[r] \in Request /\ WellFormed(req[r])
  BY DEF TInv, TypeOK
<1>1. ASSUME UploadRead(r)  PROVE TInv'
  <2>1. CASE Goto(r, "upload.place")
    <3>1. WellFormed([req[r] EXCEPT !.pc = "upload.place"])
      BY <1>0, <1>1, ZenonT(60) DEF UploadRead, At, Request, WellFormed, OnFile, WithContent, Snapshotting
    <3>2. "upload.place" \in Places
      BY DEF Places
    <3> QED  BY <1>1, <2>1, <3>1, <3>2, TypeGoto, ZenonT(60)
             DEF UploadRead, TInv, TypeOK, stores, history
  <2>2. ASSUME NEW i \in Ids, InUse(i),
               NEW place \in {"snap.number", "upload.place"},
               req' = [req EXCEPT ![r].pc = place, ![r].id = i,
                                  ![r].old = rows[i].sha]
        PROVE  TInv'
    <3> DEFINE q == [req[r] EXCEPT !.pc = place, !.id = i,
                                   !.old = rows[i].sha]
    <3>1. rows[i].sha \in Contents
      BY <2>2 DEF InUse, TInv, TypeOK, Row
    <3>2. q \in Request
      BY <1>0, <3>1, ZenonT(60) DEF Request, Places
    <3>3. WellFormed(q)
      BY <1>0, <1>1, <3>1, ZenonT(60)
         DEF UploadRead, At, Request, WellFormed, OnFile, WithContent, Snapshotting
    <3>4. req' = [req EXCEPT ![r] = q]
      BY <2>2
    <3> HIDE DEF q
    <3>5. /\ req' \in [Requests -> Request]
          /\ \A s \in Requests : WellFormed(req'[s])
      BY <3>2, <3>3, <3>4, TypeUpdate
    <3> QED  BY <1>1, <3>5, ZenonT(60) DEF UploadRead, TInv, TypeOK, stores, history
  <2> QED  BY <1>1, <2>1, <2>2, ZenonT(60) DEF UploadRead, Lookup, InUse
<1>2. ASSUME UploadReadBlind(r)  PROVE TInv'
  <2>1. WellFormed([req[r] EXCEPT !.pc = "upload.place"])
    BY <1>0, <1>2
       DEF UploadReadBlind, At, Request, WellFormed, OnFile, WithContent, Snapshotting
  <2>2. "upload.place" \in Places
    BY DEF Places
  <2> QED  BY <1>2, <2>1, <2>2, TypeGoto
           DEF UploadReadBlind, TInv, TypeOK, stores, Lookup
<1>3. ASSUME UploadPlace(r)  PROVE TInv'
  <2>1. WellFormed([req[r] EXCEPT !.pc = "upload.commit"])
    BY <1>0, <1>3 DEF UploadPlace, At, Request, WellFormed, OnFile, WithContent, Snapshotting
  <2>2. "upload.commit" \in Places
    BY DEF Places
  <2>3. disk' \in [Keys -> Contents \cup {Nothing}]
    BY <1>0, <1>3 DEF UploadPlace, TInv, TypeOK, Request
  <2> QED  BY <1>3, <2>1, <2>2, <2>3, TypeGoto
           DEF UploadPlace, TInv, TypeOK, history
<1>4. ASSUME UploadCommit(r)  PROVE TInv'
  <2>1. req[r].sha \in Contents /\ req[r].key \in Keys
    BY <1>0, <1>4 DEF UploadCommit, At, Request, WellFormed, WithContent, Snapshotting
  <2>2. /\ rows' \in [Ids -> Row \cup {NoRow}]
        /\ vault' \in [Ids -> [Nums -> Contents \cup {Nothing}]]
    <3>1. ASSUME NEW i \in Lookup(req[r].key), Overwrite(i, req[r].sha)
          PROVE  /\ rows' \in [Ids -> Row \cup {NoRow}]
                 /\ vault' = vault
      BY <2>1, <3>1, OverwriteType DEF Lookup, TInv, Overwrite
    <3>2. ASSUME NEW i \in Ids, Insert(i, req[r].key, req[r].sha)
          PROVE  /\ rows' \in [Ids -> Row \cup {NoRow}]
                 /\ vault' \in [Ids -> [Nums -> Contents \cup {Nothing}]]
      BY <2>1, <3>2 DEF Insert, TInv, TypeOK, Row
    <3> QED  BY <1>4, <3>1, <3>2 DEF UploadCommit, TInv, TypeOK
  <2>3. doomed' \subseteq Ids
    BY <1>4 DEF UploadCommit, Insert, TInv, TypeOK
  <2> QED  BY <1>4, <2>2, <2>3, TypeFinish DEF UploadCommit, TInv, TypeOK
<1> QED  BY <1>1, <1>2, <1>3, <1>4

LEMMA TypeSnapshot ==
  ASSUME TInv, NEW r \in Requests,
         SnapshotNumber(r) \/ SnapshotMove(r) \/ SnapshotRecord(r)
  PROVE  TInv'
<1> USE FileStoreAssumption, NoRowAssumption
<1>0. req[r] \in Request /\ WellFormed(req[r])
  BY DEF TInv, TypeOK
<1>1. ASSUME SnapshotNumber(r)  PROVE TInv'
  <2> DEFINE m == LatestVersionNum(req[r].id) + 1
             q == [req[r] EXCEPT !.pc = "snap.move", !.num = m]
  <2>1. req[r].id \in Ids
    BY <1>0, <1>1 DEF SnapshotNumber, At, Request, WellFormed, OnFile, Places
  <2>2. m \in 1..MaxNum /\ m \in 0..MaxNum
    BY <1>1, <2>1, LatestIsNewest DEF SnapshotNumber
  <2> HIDE DEF m
  <2>3. q \in Request
    BY <1>0, <2>2, ZenonT(60) DEF Request, Places
  <2>4. WellFormed(q)
    BY <1>0, <1>1, <2>2 DEF SnapshotNumber, At, Request, WellFormed, OnFile,
                            WithContent, Snapshotting, Nums, Places
  <2>5. req' = [req EXCEPT ![r] = q]
    BY <1>1 DEF SnapshotNumber, m
  <2> HIDE DEF q
  <2>6. /\ req' \in [Requests -> Request]
        /\ \A s \in Requests : WellFormed(req'[s])
    BY <2>3, <2>4, <2>5, TypeUpdate
  <2> QED  BY <1>1, <2>6 DEF SnapshotNumber, TInv, TypeOK, stores, history
<1>2. ASSUME SnapshotMove(r)  PROVE TInv'
  <2>1. WellFormed([req[r] EXCEPT !.pc = "snap.record"])
    BY <1>0, <1>2
       DEF SnapshotMove, At, Request, WellFormed, OnFile, WithContent, Snapshotting, Places
  <2>2. "snap.record" \in Places
    BY DEF Places
  <2>3. req[r].key \in Keys /\ req[r].id \in Ids /\ req[r].num \in Nums
    BY <1>0, <1>2 DEF SnapshotMove, At, Request, WellFormed, OnFile, Places
  <2>4. /\ disk' \in [Keys -> Contents \cup {Nothing}]
        /\ vault' \in [Ids -> [Nums -> Contents \cup {Nothing}]]
    <3>1. disk[req[r].key] \in Contents \cup {Nothing}
      BY <2>3 DEF TInv, TypeOK
    <3>2. vault \in [Ids -> [Nums -> Contents \cup {Nothing}]]
      BY DEF TInv, TypeOK
    <3>3. [vault EXCEPT ![req[r].id][req[r].num] = disk[req[r].key]]
            \in [Ids -> [Nums -> Contents \cup {Nothing}]]
      BY <2>3, <3>1, <3>2, CellUpdate
    <3> QED  BY <1>2, <2>3, <3>2, <3>3 DEF SnapshotMove, TInv, TypeOK
  <2>5. /\ req' \in [Requests -> Request]
        /\ \A s \in Requests : WellFormed(req'[s])
    BY <1>2, <2>1, <2>2, TypeGoto, TypeFinish DEF SnapshotMove
  <2> QED  BY <1>2, <2>4, <2>5 DEF SnapshotMove, TInv, TypeOK, history
<1>3. ASSUME SnapshotRecord(r)  PROVE TInv'
  <2>1. WellFormed([req[r] EXCEPT !.pc = "prune.list"])
    BY <1>0, <1>3
       DEF SnapshotRecord, At, Request, WellFormed, OnFile, WithContent, Snapshotting, Places
  <2>2. "prune.list" \in Places
    BY DEF Places
  <2>3. req[r].id \in Ids /\ req[r].num \in Nums /\ req[r].old \in Contents
    BY <1>0, <1>3 DEF SnapshotRecord, At, Request, WellFormed, OnFile, Places
  <2>4. vrows' \in [Ids -> [Nums -> Contents \cup {Nothing}]]
    <3>1. vrows \in [Ids -> [Nums -> Contents \cup {Nothing}]]
      BY DEF TInv, TypeOK
    <3>2. [vrows EXCEPT ![req[r].id][req[r].num] = req[r].old]
            \in [Ids -> [Nums -> Contents \cup {Nothing}]]
      BY <2>3, <3>1, CellUpdate
    <3> QED  BY <1>3, <3>1, <3>2 DEF SnapshotRecord
  <2>5. /\ req' \in [Requests -> Request]
        /\ \A s \in Requests : WellFormed(req'[s])
    BY <1>3, <2>1, <2>2, TypeGoto, TypeFinish DEF SnapshotRecord
  <2> QED  BY <1>3, <2>4, <2>5 DEF SnapshotRecord, TInv, TypeOK, history
<1> QED  BY <1>1, <1>2, <1>3

LEMMA TypePrune ==
  ASSUME TInv, NEW r \in Requests,
         PruneList(r) \/ PruneContent(r) \/ PruneRow(r)
  PROVE  TInv'
<1> USE FileStoreAssumption
<1>0. /\ req[r] \in Request /\ WellFormed(req[r])
      /\ req[r].nums \subseteq Nums
  BY DEF TInv, TypeOK, Request
<1>1. /\ vrows \in [Ids -> [Nums -> Contents \cup {Nothing}]]
      /\ vault \in [Ids -> [Nums -> Contents \cup {Nothing}]]
  BY DEF TInv, TypeOK
<1>2. AfterSnapshot(r) \in {"upload.place", "restore.place"}
  BY DEF AfterSnapshot
<1>3. ASSUME NEW place \in {AfterSnapshot(r), "prune.content"},
             NEW nums \in SUBSET Nums,
             At(r, "prune.list") \/ At(r, "prune.row"),
             GotoWith(r, place, nums)
      PROVE  /\ req' \in [Requests -> Request]
             /\ \A s \in Requests : WellFormed(req'[s])
  <2> DEFINE q == [req[r] EXCEPT !.nums = nums, !.pc = place]
  <2>1. q \in Request
    BY <1>0, <1>2, ZenonT(60) DEF Request, Places
  <2>2. WellFormed(q)
    BY <1>0, <1>3 DEF AfterSnapshot, At, Request, WellFormed, OnFile,
                      WithContent, Snapshotting, Places
  <2>3. req' = [req EXCEPT ![r] = q]
    BY <1>3 DEF GotoWith
  <2> HIDE DEF q
  <2> QED  BY <2>1, <2>2, <2>3, TypeUpdate
<1>4. ASSUME PruneList(r)  PROVE TInv'
  <2> DEFINE place == IF Surplus(req[r].id) = {} THEN AfterSnapshot(r)
                                                 ELSE "prune.content"
  <2>1. /\ place \in {AfterSnapshot(r), "prune.content"}
        /\ Surplus(req[r].id) \in SUBSET Nums
    BY <1>2 DEF Surplus, Recorded
  <2>2. /\ At(r, "prune.list")
        /\ GotoWith(r, place, Surplus(req[r].id))
    BY <1>4 DEF PruneList
  <2> HIDE DEF place
  <2> QED  BY <1>3, <1>4, <2>1, <2>2
           DEF PruneList, TInv, TypeOK, stores, history
<1>5. ASSUME PruneContent(r)  PROVE TInv'
  <2>1. req[r].id \in Ids
    BY <1>0, <1>5 DEF PruneContent, At, Request, WellFormed, OnFile, Places
  <2>2. PICK n \in Newest(req[r].nums) :
          vault' = [vault EXCEPT ![req[r].id][n] = Nothing]
    BY <1>5 DEF PruneContent
  <2>3. [vault EXCEPT ![req[r].id][n] = Nothing]
          \in [Ids -> [Nums -> Contents \cup {Nothing}]]
    BY <1>0, <1>1, <2>1, CellUpdate DEF Newest
  <2>4. WellFormed([req[r] EXCEPT !.pc = "prune.row"])
    BY <1>0, <1>5
       DEF PruneContent, At, Request, WellFormed, OnFile, WithContent, Snapshotting, Places
  <2>5. "prune.row" \in Places
    BY DEF Places
  <2> QED  BY <1>5, <2>2, <2>3, <2>4, <2>5, TypeGoto
           DEF PruneContent, TInv, TypeOK, history
<1>6. ASSUME PruneRow(r)  PROVE TInv'
  <2>1. req[r].id \in Ids
    BY <1>0, <1>6 DEF PruneRow, At, Request, WellFormed, OnFile, Places
  <2>2. CASE Finish(r) /\ UNCHANGED vrows
    BY <1>6, <2>2, TypeFinish DEF PruneRow, TInv, TypeOK, history
  <2>3. ASSUME NEW n \in Newest(req[r].nums),
               vrows' = [vrows EXCEPT ![req[r].id][n] = Nothing],
               GotoWith(r, IF req[r].nums = {n} THEN AfterSnapshot(r)
                                                ELSE "prune.content",
                        req[r].nums \ {n})
        PROVE  TInv'
    <3>1. [vrows EXCEPT ![req[r].id][n] = Nothing]
            \in [Ids -> [Nums -> Contents \cup {Nothing}]]
      BY <1>0, <1>1, <2>1, CellUpdate DEF Newest
    <3> DEFINE place == IF req[r].nums = {n} THEN AfterSnapshot(r)
                                             ELSE "prune.content"
    <3>2. /\ place \in {AfterSnapshot(r), "prune.content"}
          /\ req[r].nums \ {n} \in SUBSET Nums
          /\ At(r, "prune.row")
      BY <1>0, <1>2, <1>6 DEF PruneRow
    <3>3. GotoWith(r, place, req[r].nums \ {n})
      BY <2>3
    <3> HIDE DEF place
    <3> QED  BY <1>3, <1>6, <2>3, <3>1, <3>2, <3>3
             DEF PruneRow, TInv, TypeOK, history
  <2>4. req \in [Requests -> Request]
    BY DEF TInv, TypeOK
  <2> QED  BY <1>6, <2>2, <2>3, <2>4 DEF PruneRow
<1> QED  BY <1>4, <1>5, <1>6

LEMMA TypeRestore ==
  ASSUME TInv, NEW r \in Requests,
         RestoreDiscard(r) \/ RestorePlace(r) \/ RestoreRow(r)
           \/ RestoreCommit(r)
  PROVE  TInv'
<1> USE FileStoreAssumption, NoRowAssumption
<1>0. req[r] \in Request /\ WellFormed(req[r])
  BY DEF TInv, TypeOK
<1>1. /\ req[r].id \in Ids /\ req[r].key \in Keys /\ req[r].sha \in Contents
      /\ req[r].target \in Nums
      /\ At(r, "restore.discard") \/ At(r, "restore.place")
           \/ At(r, "restore.row") \/ At(r, "restore.commit")
  BY <1>0 DEF RestoreDiscard, RestorePlace, RestoreRow, RestoreCommit, At,
              Request, WellFormed, OnFile, WithContent, Snapshotting, Places
<1>2. ASSUME NEW place \in {"restore.place", "restore.row", "restore.commit"},
             Goto(r, place)
      PROVE  /\ req' \in [Requests -> Request]
             /\ \A s \in Requests : WellFormed(req'[s])
  <2>1. WellFormed([req[r] EXCEPT !.pc = place])
    BY <1>0, <1>1 DEF At, Request, WellFormed, OnFile, WithContent,
                      Snapshotting, Places
  <2>2. place \in Places
    BY DEF Places
  <2> QED  BY <1>2, <2>1, <2>2, TypeGoto
<1>3. CASE RestoreDiscard(r)
  BY <1>1, <1>2, <1>3 DEF RestoreDiscard, TInv, TypeOK, history
<1>4. CASE RestorePlace(r)
  <2>1. CASE UNCHANGED <<disk, vault>> /\ Finish(r)
    BY <1>4, <2>1, TypeFinish DEF RestorePlace, TInv, TypeOK, history
  <2>2. CASE /\ vault[req[r].id][req[r].target] # Nothing
             /\ Goto(r, "restore.row")
             /\ disk' = [disk EXCEPT ![req[r].key] =
                                       vault[req[r].id][req[r].target]]
             /\ vault' = [vault EXCEPT ![req[r].id][req[r].target] = Nothing]
    <3>1. vault \in [Ids -> [Nums -> Contents \cup {Nothing}]]
      BY DEF TInv, TypeOK
    <3>2. [vault EXCEPT ![req[r].id][req[r].target] = Nothing]
            \in [Ids -> [Nums -> Contents \cup {Nothing}]]
      BY <1>1, <3>1, CellUpdate
    <3>3. vault[req[r].id][req[r].target] \in Contents \cup {Nothing}
      BY <1>1, <3>1
    <3>4. disk' \in [Keys -> Contents \cup {Nothing}]
      BY <1>1, <2>2, <3>3 DEF TInv, TypeOK
    <3> QED  BY <1>2, <1>4, <2>2, <3>2, <3>4
             DEF RestorePlace, TInv, TypeOK, history
  <2> QED  BY <1>4, <2>1, <2>2 DEF RestorePlace
<1>5. CASE RestoreRow(r)
  <2>1. CASE UNCHANGED vrows /\ Finish(r)
    BY <1>5, <2>1, TypeFinish DEF RestoreRow, TInv, TypeOK, history
  <2>2. CASE /\ req[r].target \in Recorded(req[r].id)
             /\ vrows' = [vrows EXCEPT ![req[r].id][req[r].target] = Nothing]
             /\ Goto(r, "restore.commit")
    <3>1. vrows \in [Ids -> [Nums -> Contents \cup {Nothing}]]
      BY DEF TInv, TypeOK
    <3>2. [vrows EXCEPT ![req[r].id][req[r].target] = Nothing]
            \in [Ids -> [Nums -> Contents \cup {Nothing}]]
      BY <1>1, <2>2, <3>1, CellUpdate DEF Recorded
    <3> QED  BY <1>2, <1>5, <2>2, <3>2 DEF RestoreRow, TInv, TypeOK, history
  <2> QED  BY <1>5, <2>1, <2>2 DEF RestoreRow
<1>6. CASE RestoreCommit(r)
  <2>1. rows' \in [Ids -> Row \cup {NoRow}] /\ vault' = vault
    <3>1. ASSUME NEW i \in Lookup(req[r].key), Overwrite(i, req[r].sha)
          PROVE  rows' \in [Ids -> Row \cup {NoRow}] /\ vault' = vault
      BY <1>1, <3>1, OverwriteType DEF Lookup, TInv, Overwrite
    <3>2. [key |-> req[r].key, sha |-> req[r].sha, trashed |-> FALSE] \in Row
      BY <1>1 DEF Row
    <3>3. rows \in [Ids -> Row \cup {NoRow}]
      BY DEF TInv, TypeOK
    <3> QED  BY <1>1, <1>6, <3>1, <3>2, <3>3 DEF RestoreCommit
  <2>2. exposed' \subseteq Ids
    BY <1>6 DEF RestoreCommit, Lookup, TInv, TypeOK
  <2> QED  BY <1>6, <2>1, <2>2, TypeFinish
           DEF RestoreCommit, TInv, TypeOK
<1> QED  BY <1>3, <1>4, <1>5, <1>6

LEMMA TypeErase ==
  ASSUME TInv, NEW r \in Requests,
         EraseContent(r) \/ EraseList(r) \/ EraseVault(r)
           \/ EraseHistory(r) \/ EraseFile(r)
  PROVE  TInv'
<1> USE FileStoreAssumption, NoRowAssumption
<1>0. /\ req[r] \in Request /\ WellFormed(req[r])
      /\ req[r].nums \subseteq Nums /\ req[r].purge \subseteq Ids \X Keys
  BY DEF TInv, TypeOK, Request
<1>1. /\ req[r].id \in Ids /\ req[r].key \in Keys
      /\ At(r, "erase.content") \/ At(r, "erase.list") \/ At(r, "erase.vault")
           \/ At(r, "erase.history") \/ At(r, "erase.file")
  BY <1>0 DEF EraseContent, EraseList, EraseVault, EraseHistory, EraseFile, At,
              Request, WellFormed, OnFile, Places
<1> DEFINE places == {"erase.list", "erase.vault", "erase.history",
                      "erase.file"}
<1>2. ASSUME NEW place \in places, Goto(r, place)
      PROVE  /\ req' \in [Requests -> Request]
             /\ \A s \in Requests : WellFormed(req'[s])
  <2>1. WellFormed([req[r] EXCEPT !.pc = place])
    BY <1>0, <1>1 DEF At, Request, WellFormed, OnFile, WithContent,
                      Snapshotting, Places
  <2>2. place \in Places
    BY DEF Places
  <2> QED  BY <1>2, <2>1, <2>2, TypeGoto
<1>3. ASSUME NEW place \in places, NEW nums \in SUBSET Nums,
             GotoWith(r, place, nums)
      PROVE  /\ req' \in [Requests -> Request]
             /\ \A s \in Requests : WellFormed(req'[s])
  <2> DEFINE q == [req[r] EXCEPT !.nums = nums, !.pc = place]
  <2>1. q \in Request
    BY <1>0, ZenonT(60) DEF Request, Places
  <2>2. WellFormed(q)
    BY <1>0, <1>1 DEF At, Request, WellFormed, OnFile, WithContent,
                      Snapshotting, Places
  <2>3. req' = [req EXCEPT ![r] = q]
    BY <1>3 DEF GotoWith
  <2> HIDE DEF q
  <2> QED  BY <2>1, <2>2, <2>3, TypeUpdate
<1>4. CASE EraseContent(r)
  BY <1>1, <1>2, <1>4 DEF EraseContent, TInv, TypeOK
<1>5. CASE EraseList(r)
  <2>1. Recorded(req[r].id) \in SUBSET Nums
    BY DEF Recorded
  <2> QED  BY <1>3, <1>5, <2>1 DEF EraseList, TInv, TypeOK, stores, history
<1>6. CASE EraseVault(r)
  <2>1. PICK n \in Newest(req[r].nums) :
          /\ vault' = [vault EXCEPT ![req[r].id][n] = Nothing]
          /\ GotoWith(r, IF req[r].nums = {n} THEN "erase.history"
                                              ELSE "erase.vault",
                      req[r].nums \ {n})
    BY <1>6 DEF EraseVault
  <2> DEFINE place == IF req[r].nums = {n} THEN "erase.history"
                                           ELSE "erase.vault"
  <2>2. GotoWith(r, place, req[r].nums \ {n})
    BY <2>1
  <2>3. place \in places /\ req[r].nums \ {n} \in SUBSET Nums
    BY <1>0
  <2> HIDE DEF place
  <2>4. vault \in [Ids -> [Nums -> Contents \cup {Nothing}]]
    BY DEF TInv, TypeOK
  <2>5. [vault EXCEPT ![req[r].id][n] = Nothing]
          \in [Ids -> [Nums -> Contents \cup {Nothing}]]
    BY <1>0, <1>1, <2>4, CellUpdate DEF Newest
  <2> QED  BY <1>3, <1>6, <2>1, <2>2, <2>3, <2>5
           DEF EraseVault, TInv, TypeOK, history
<1>7. ASSUME ForgetVersions(req[r].id)
      PROVE  vrows' \in [Ids -> [Nums -> Contents \cup {Nothing}]]
  BY <1>1, <1>7 DEF ForgetVersions, TInv, TypeOK
<1>8. CASE EraseHistory(r)
  BY <1>2, <1>7, <1>8 DEF EraseHistory, TInv, TypeOK, history
<1>9. CASE EraseFile(r)
  <2>1. /\ req' \in [Requests -> Request]
        /\ \A s \in Requests : WellFormed(req'[s])
    BY <1>0, <1>9, TypeFinish, TypeEraseNext DEF EraseFile
  <2>2. /\ vrows' \in [Ids -> [Nums -> Contents \cup {Nothing}]]
        /\ rows' \in [Ids -> Row \cup {NoRow}]
        /\ doomed' \subseteq Ids /\ exposed' \subseteq Ids
    BY <1>1, <1>7, <1>9 DEF EraseFile, TInv, TypeOK
  <2> QED  BY <1>9, <2>1, <2>2 DEF EraseFile, TInv, TypeOK
<1> QED  BY <1>4, <1>5, <1>6, <1>8, <1>9

LEMMA TypeMove ==
  ASSUME TInv, NEW r \in Requests, MoveRename(r) \/ MoveRow(r) \/ MoveUndo(r)
  PROVE  TInv'
<1> USE FileStoreAssumption, NoRowAssumption
<1>0. req[r] \in Request /\ WellFormed(req[r])
  BY DEF TInv, TypeOK
<1>1. /\ req[r].id \in Ids /\ req[r].key \in Keys /\ req[r].to \in Keys
      /\ At(r, "move.rename") \/ At(r, "move.row") \/ At(r, "move.undo")
  BY <1>0 DEF MoveRename, MoveRow, MoveUndo, At, Request, WellFormed, OnFile,
              Places
<1>2. ASSUME NEW place \in {"move.row", "move.undo"}, Goto(r, place)
      PROVE  /\ req' \in [Requests -> Request]
             /\ \A s \in Requests : WellFormed(req'[s])
  <2>1. WellFormed([req[r] EXCEPT !.pc = place])
    BY <1>0, <1>1 DEF At, Request, WellFormed, OnFile, WithContent,
                      Snapshotting, Places
  <2>2. place \in Places
    BY DEF Places
  <2> QED  BY <1>2, <2>1, <2>2, TypeGoto
<1>3. CASE MoveRename(r)
  BY <1>1, <1>2, <1>3, TypeFinish
     DEF MoveRename, Rename, TInv, TypeOK, history
<1>4. CASE MoveRow(r)
  <2>1. ASSUME InUse(req[r].id), rows' = [rows EXCEPT ![req[r].id].key = req[r].to]
        PROVE  rows' \in [Ids -> Row \cup {NoRow}]
    <3>1. [rows[req[r].id] EXCEPT !.key = req[r].to] \in Row
      BY <1>1, <2>1, ZenonT(60) DEF InUse, Row, TInv, TypeOK
    <3> QED  BY <2>1, <3>1 DEF TInv, TypeOK
  <2> QED  BY <1>2, <1>4, <2>1, TypeFinish DEF MoveRow, TInv, TypeOK, history
<1>5. CASE MoveUndo(r)
  BY <1>1, <1>5, TypeFinish DEF MoveUndo, Rename, TInv, TypeOK, history
<1> QED  BY <1>3, <1>4, <1>5

LEMMA TypeTrash ==
  ASSUME TInv, NEW i \in Ids, Delete(i) \/ RestoreFile(i)
  PROVE  TInv'
<1>1. PICK flag \in BOOLEAN : SetTrashed(i, flag)
  BY DEF Delete, RestoreFile
<1>2. [rows[i] EXCEPT !.trashed = flag] \in Row
  BY <1>1 DEF SetTrashed, InUse, Row, TInv, TypeOK
<1> QED  BY <1>1, <1>2 DEF SetTrashed, TInv, TypeOK, history

LEMMA TypeFailure ==
  ASSUME TInv, Crash \/ \E r \in Requests : Fail(r)
  PROVE  TInv'
<1> USE FileStoreAssumption
<1>1. \A q \in Requests : Stranded(q) \subseteq Ids
  <2> TAKE q \in Requests
  <2>1. req[q] \in Request /\ WellFormed(req[q])
    BY DEF TInv, TypeOK
  <2> QED  BY <2>1 DEF Stranded, WellFormed, Request, OnFile, Places
<1>2. CASE Crash
  <2>1. exposed' \subseteq Ids
    BY <1>1, <1>2 DEF Crash, TInv, TypeOK
  <2> QED  BY <1>2, <2>1, IdleIsRequest DEF Crash, TInv, TypeOK, stores
<1>3. ASSUME NEW r \in Requests, Fail(r)
      PROVE  TInv'
  <2>1. req[r] \in Request /\ WellFormed(req[r])
    BY DEF TInv, TypeOK
  <2>2. CASE Finish(r)
    BY <1>1, <1>3, <2>2, TypeFinish DEF Fail, TInv, TypeOK, stores
  <2>3. CASE At(r, "move.row") /\ Goto(r, "move.undo") /\ UNCHANGED exposed
    <3>1. WellFormed([req[r] EXCEPT !.pc = "move.undo"])
      BY <2>1, <2>3 DEF At, Request, WellFormed, OnFile, WithContent,
                        Snapshotting, Places
    <3>2. "move.undo" \in Places
      BY DEF Places
    <3> QED  BY <1>3, <2>3, <3>1, <3>2, TypeGoto
             DEF Fail, TInv, TypeOK, stores
  <2> QED  BY <1>3, <2>2, <2>3 DEF Fail
<1> QED  BY <1>2, <1>3

LEMMA TypeStep == TInv /\ [Next]_vars => TInv'
<1> SUFFICES ASSUME TInv, [Next]_vars  PROVE TInv'
  OBVIOUS
<1>1. ASSUME NEW r \in Requests, Begin(r)  PROVE TInv'
  BY <1>1, TypeBegin
<1>2. ASSUME NEW r \in Requests, Step(r)  PROVE TInv'
  BY <1>2, TypeUpload, TypeSnapshot, TypePrune, TypeRestore, TypeErase,
     TypeMove DEF Step
<1>3. ASSUME NEW i \in Ids, Delete(i) \/ RestoreFile(i)  PROVE TInv'
  BY <1>3, TypeTrash
<1>4. CASE Reconfigure
  BY <1>4 DEF Reconfigure, TInv, TypeOK, stores, history
<1>5. CASE UNCHANGED vars
  BY <1>5 DEF vars, TInv, TypeOK
<1> QED  BY <1>1, <1>2, <1>3, <1>4, <1>5, TypeFailure DEF Next

\* Every value the handlers and the two stores hold has its type, whatever
\* the interleaving and the failures.
THEOREM TypeInvariant == Spec => []TypeOK
<1>1. TInv => TypeOK
  BY DEF TInv
<1> QED  BY <1>1, TypeInit, TypeStep, PTL DEF Spec

(***************************************************************************)
(* One request moves.                                                      *)
(***************************************************************************)
LEMMA GotoFields ==
  ASSUME TInv, NEW r \in Requests, NEW place, Goto(r, place)
  PROVE  /\ req'[r] = [req[r] EXCEPT !.pc = place]
         /\ req'[r].pc = place
         /\ req'[r].id = req[r].id /\ req'[r].key = req[r].key
         /\ req'[r].to = req[r].to /\ req'[r].sha = req[r].sha
         /\ req'[r].num = req[r].num /\ req'[r].nums = req[r].nums
         /\ req'[r].target = req[r].target
         /\ req'[r].purge = req[r].purge
         /\ req'[r].op = req[r].op /\ req'[r].old = req[r].old
         /\ Footprint(r)' = Footprint(r)
         /\ \A q \in Requests : q # r => req'[q] = req[q]
<1>1. req[r] \in Request
  BY DEF TInv, TypeOK
<1>2. /\ req'[r] = [req[r] EXCEPT !.pc = place]
      /\ \A q \in Requests : q # r => req'[q] = req[q]
  BY DEF Goto, TInv, TypeOK
<1>3. /\ req'[r].pc = place
      /\ req'[r].id = req[r].id /\ req'[r].key = req[r].key
      /\ req'[r].to = req[r].to /\ req'[r].sha = req[r].sha
      /\ req'[r].num = req[r].num /\ req'[r].nums = req[r].nums
      /\ req'[r].target = req[r].target
      /\ req'[r].purge = req[r].purge
      /\ req'[r].op = req[r].op /\ req'[r].old = req[r].old
  BY <1>1, <1>2 DEF Request
<1>4. Footprint(r)' = Footprint(r)
  BY <1>3 DEF Footprint
<1> QED  BY <1>2, <1>3, <1>4

LEMMA NumsFields ==
  ASSUME TInv, NEW r \in Requests, NEW nums \in SUBSET Nums,
         NEW place \in Places, GotoWith(r, place, nums)
  PROVE  /\ req'[r].pc = place /\ req'[r].nums = nums
         /\ req'[r].id = req[r].id /\ req'[r].key = req[r].key
         /\ req'[r].to = req[r].to /\ req'[r].sha = req[r].sha
         /\ req'[r].num = req[r].num /\ req'[r].target = req[r].target
         /\ req'[r].purge = req[r].purge
         /\ req'[r].op = req[r].op /\ req'[r].old = req[r].old
         /\ Footprint(r)' = Footprint(r)
         /\ \A q \in Requests : q # r => req'[q] = req[q]
<1> DEFINE e == [req[r] EXCEPT !.nums = nums, !.pc = place]
<1>1. req[r] \in Request
  BY DEF TInv, TypeOK
<1>2. /\ req'[r] = e
      /\ \A q \in Requests : q # r => req'[q] = req[q]
  BY DEF GotoWith, TInv, TypeOK
<1>3. /\ e.pc = place /\ e.nums = nums
      /\ e.id = req[r].id /\ e.key = req[r].key
      /\ e.to = req[r].to /\ e.sha = req[r].sha
      /\ e.num = req[r].num /\ e.target = req[r].target
      /\ e.purge = req[r].purge
      /\ e.op = req[r].op /\ e.old = req[r].old
  BY <1>1 DEF Request
<1> HIDE DEF e
<1>4. Footprint(r)' = Footprint(r)
  BY <1>2, <1>3 DEF Footprint
<1> QED  BY <1>2, <1>3, <1>4

(***************************************************************************)
(* Version numbers only grow, whatever requests cross.                     *)
(***************************************************************************)
Grows(i) == LatestVersionNum(i)' >= LatestVersionNum(i)

\* The newest version stays, or there was none.
LEMMA NewestStays ==
  ASSUME NEW i \in Ids, Recorded(i) # {} => LatestVersionNum(i) \in Recorded(i)'
  PROVE  Grows(i)
<1>1. LatestVersionNum(i) \in 0..MaxNum /\ LatestVersionNum(i)' \in 0..MaxNum
  BY LatestIsNewest, LatestIsNewestNext
<1>2. CASE Recorded(i) = {}
  BY <1>1, <1>2, LatestIsNewest, FileStoreAssumption DEF Grows
<1>3. CASE Recorded(i) # {}
  BY <1>3, LatestIsNewestNext, <1>1, FileStoreAssumption DEF Grows
<1> QED  BY <1>2, <1>3

LEMMA HistoryStands ==
  ASSUME NEW i \in Ids, vrows'[i] = vrows[i]
  PROVE  Grows(i)
<1>1. Recorded(i)' = Recorded(i)
  BY DEF Recorded
<1> QED  BY <1>1, NewestStays, LatestIsNewest

\* One version is recorded, or one that is not the newest is deleted.
LEMMA OneCellChanges ==
  ASSUME TypeOK, NEW j \in Ids, NEW n \in Nums, NEW c \in Contents \cup {Nothing},
         vrows' = [vrows EXCEPT ![j][n] = c], NEW i \in Ids,
         i = j => c # Nothing \/ n < LatestVersionNum(i)
  PROVE  Grows(i)
<1>1. vrows \in [Ids -> [Nums -> Contents \cup {Nothing}]]
  BY DEF TypeOK
<1>2. CASE i # j
  BY <1>1, <1>2, HistoryStands
<1>3. CASE i = j
  <2>1. \A m \in Nums : m # n => vrows'[i][m] = vrows[i][m]
    BY <1>1, <1>3
  <2>2. vrows'[i][n] = c
    BY <1>1, <1>3
  <2>3. \A m \in Recorded(i) : m # n \/ c # Nothing => m \in Recorded(i)'
    BY <2>1, <2>2 DEF Recorded
  <2>4. LatestVersionNum(i) \in 0..MaxNum /\ n \in 1..MaxNum
    BY LatestIsNewest DEF Nums
  <2>5. n < LatestVersionNum(i) => n # LatestVersionNum(i)
    BY <2>4, FileStoreAssumption
  <2> QED  BY <1>3, <2>3, <2>5, NewestStays, LatestIsNewest
<1> QED  BY <1>2, <1>3

\* A version to be pruned has a newer one.
LEMMA SurplusIsBehind ==
  ASSUME NEW i \in Ids, NEW n \in Surplus(i)
  PROVE  n \in Nums /\ n < LatestVersionNum(i)
<1>1. n \in Recorded(i) /\ n \in Nums /\ MaxVersions # 0 /\ Cardinality(Newer(i, n)) >= MaxVersions
  BY DEF Surplus, Recorded
<1>2. Newer(i, n) # {}
  <2>1. Cardinality({}) = 0
    BY FS_EmptySet
  <2> QED  BY <1>1, <2>1, FileStoreAssumption
<1>3. PICK m \in Recorded(i) : m > n
  BY <1>2 DEF Newer
<1>4. m \in 1..MaxNum /\ n \in 1..MaxNum
  BY <1>1 DEF Recorded, Nums
<1>5. m <= LatestVersionNum(i) /\ LatestVersionNum(i) \in 0..MaxNum
  BY LatestIsNewest
<1> QED  BY <1>1, <1>3, <1>4, <1>5, FileStoreAssumption

\* What is shown of a step of one request.
Orderly(r) ==
  /\ \A q \in Requests : q # r => req'[q] = req[q]
  /\ UNCHANGED versioning
  /\ \A i \in doomed : i \in doomed' \/ Fresh(i)
  /\ Erases(r)' => req'[r].id \in doomed'
  /\ versioning => Behind(r)' /\ \A i \in Ids \ doomed : Grows(i)

LEMMA HeldIsNotFresh ==
  ASSUME NEW q \in Requests
  PROVE  ~Fresh(req[q].id)
BY DEF Fresh, Footprint

LEMMA OthersBehind ==
  ASSUME TypeOK, NInv, NEW r \in Requests, Orderly(r), NEW q \in Requests, q # r
  PROVE  /\ Erases(q)' => req'[q].id \in doomed'
         /\ versioning' => Behind(q)'
<1>1. req'[q] = req[q] /\ versioning' = versioning
  BY DEF Orderly
<1>2. req[q].id \in doomed => req[q].id \in doomed'
  BY HeldIsNotFresh DEF Orderly
<1>3. Erases(q)' => req'[q].id \in doomed'
  BY <1>1, <1>2 DEF NInv, Erases
<1>4. ASSUME versioning PROVE Behind(q)'
  <2>1. Behind(q)
    BY <1>4 DEF NInv
  <2>2. CASE req[q].id \notin Ids \ doomed'
    BY <1>1, <2>1, <2>2 DEF Behind
  <2>3. ASSUME NEW i \in Ids, i = req[q].id, i \notin doomed'
        PROVE  Behind(q)'
    <3>1. i \in Ids \ doomed
      BY <1>2, <2>3
    <3>2. LatestVersionNum(i)' >= LatestVersionNum(i)
      BY <1>4, <3>1 DEF Orderly, Grows
    <3>3. LatestVersionNum(i)' \in Int /\ LatestVersionNum(i) \in Int
      BY LatestIsNewest, LatestIsNewestNext
    <3>4. PICK s \in Request : s = req[q]
      BY DEF TypeOK
    <3>5. s.target \in Int /\ s.nums \subseteq Int
      BY FileStoreAssumption DEF Request, Nums
    <3>6. \A n \in Int : /\ n <= LatestVersionNum(i) => n <= LatestVersionNum(i)'
                         /\ n < LatestVersionNum(i) => n < LatestVersionNum(i)'
      BY <3>2, <3>3
    <3>7. PICK old, new : old = LatestVersionNum(i) /\ new = LatestVersionNum(i)'
      OBVIOUS
    <3>8. Behind(q) => /\ s.pc = "snap.number" => s.target <= old
                       /\ s.pc \in {"prune.list", "prune.content", "prune.row",
                                    "restore.place", "restore.row"} => s.target < old
                       /\ s.pc \in {"prune.content", "prune.row"} => \A n \in s.nums : n < old
                       /\ s.pc \in {"snap.move", "snap.record"} => s.target < s.num
                       /\ s.pc # "restore.discard" /\ (s.pc = "upload.read" => s.target = 0)
      BY <2>3, <3>1, <3>4, <3>7 DEF Behind
    <3>9. /\ s.pc = "snap.number" => s.target <= new
          /\ s.pc \in {"prune.list", "prune.content", "prune.row",
                       "restore.place", "restore.row"} => s.target < new
          /\ s.pc \in {"prune.content", "prune.row"} => \A n \in s.nums : n < new
      BY <2>1, <3>5, <3>6, <3>7, <3>8
    <3> QED  BY <1>1, <2>1, <2>3, <3>4, <3>7, <3>8, <3>9 DEF Behind
  <2> QED  BY <2>2, <2>3
<1> QED  BY <1>1, <1>3, <1>4

\* Places from which a request deletes no version, but the whole history.
Quiet == Places \ ({"upload.read", "snap.number", "snap.move", "snap.record", "prune.list",
                    "prune.content", "prune.row", "restore.discard", "restore.place",
                    "restore.row", "erase.list", "erase.vault", "erase.history", "erase.file"})

LEMMA QuietBehind ==
  ASSUME NEW r \in Requests, req'[r].pc \in Quiet
  PROVE  Behind(r)' /\ ~Erases(r)'
BY DEF Quiet, Behind, Erases

LEMMA FinishFields ==
  ASSUME TInv, NEW r \in Requests, Finish(r)
  PROVE  req'[r].pc \in Quiet /\ \A q \in Requests : q # r => req'[q] = req[q]
<1>1. Idle.pc = "idle"
  BY DEF Idle
<1> QED  BY <1>1 DEF Finish, TInv, TypeOK, Quiet, Places

\* A step that changes no history, and after which the request deletes none
\* either.
LEMMA QuietStep ==
  ASSUME NEW r \in Requests, \A q \in Requests : q # r => req'[q] = req[q],
         UNCHANGED versioning, UNCHANGED vrows, \A i \in doomed : i \in doomed' \/ Fresh(i),
         req'[r].pc \in Quiet
  PROVE  Orderly(r)
BY QuietBehind, HistoryStands DEF Orderly

LEMMA OrderlyBegin ==
  ASSUME TInv, NInv, NEW r \in Requests, Begin(r)
  PROVE  Orderly(r)
<1>1. UNCHANGED <<vrows, versioning, doomed>>
  BY ZenonT(60) DEF Begin, UploadBegin, UploadBeginBlind, RestoreVersionBegin, EraseBegin, PurgeBegin,
         MoveBegin, stores, history
<1>2. ASSUME NEW q, req' = [req EXCEPT ![r] = q], q.pc \in Quiet
      PROVE  Orderly(r)
  BY <1>1, <1>2, QuietStep DEF TInv, TypeOK
<1>3. ASSUME NEW q, req' = [req EXCEPT ![r] = q], q.pc = "upload.read", q.id = Nothing,
             q.target = 0
      PROVE  Orderly(r)
  <2>1. req'[r] = q /\ \A p \in Requests : p # r => req'[p] = req[p]
    BY <1>3 DEF TInv, TypeOK
  <2>2. Behind(r)' /\ ~Erases(r)'
    BY <1>3, <2>1, FileStoreAssumption DEF Behind, Erases
  <2> QED  BY <1>1, <2>1, <2>2, HistoryStands DEF Orderly
<1>4. ASSUME NEW k, NEW c, UploadBegin(r, k, c) \/ UploadBeginBlind(r, k, c)
      PROVE  Orderly(r)
  <2> DEFINE q == [Idle EXCEPT !.pc = "upload.read", !.op = "upload", !.key = k, !.sha = c]
  <2>1. q.pc = "upload.read" /\ q.id = Nothing /\ q.target = 0
    BY DEF Idle
  <2>2. req' = [req EXCEPT ![r] = q]
    BY <1>4 DEF UploadBegin, UploadBeginBlind
  <2> HIDE DEF q
  <2> QED  BY <1>3, <2>1, <2>2
<1>5. ASSUME NEW i \in Ids, EraseBegin(r, i) PROVE Orderly(r)
  <2> DEFINE q == [Idle EXCEPT !.pc = "erase.content", !.op = "erase", !.id = i,
                               !.key = rows[i].key]
  <2>1. q.pc = "erase.content" /\ "erase.content" \in Quiet
    BY DEF Idle, Quiet, Places
  <2>2. req' = [req EXCEPT ![r] = q]
    BY <1>5 DEF EraseBegin
  <2> HIDE DEF q
  <2> QED  BY <1>2, <2>1, <2>2
<1>6. ASSUME NEW S, PurgeBegin(r, S) PROVE Orderly(r)
  <2>1. PICK l, p : req' = [req EXCEPT ![r] = [Idle EXCEPT !.pc = "erase.content",
              !.op = "purge", !.id = p[1], !.key = p[2], !.purge = l \ {p}]]
    BY <1>6, ZenonT(60) DEF PurgeBegin, EraseNext
  <2> DEFINE q == [Idle EXCEPT !.pc = "erase.content", !.op = "purge", !.id = p[1],
                               !.key = p[2], !.purge = l \ {p}]
  <2>2. q.pc = "erase.content" /\ "erase.content" \in Quiet /\ req' = [req EXCEPT ![r] = q]
    BY <2>1 DEF Idle, Quiet, Places
  <2> HIDE DEF q
  <2> QED  BY <1>2, <2>2
<1>7. ASSUME NEW i \in Ids, NEW k, MoveBegin(r, i, k) PROVE Orderly(r)
  <2> DEFINE q == [Idle EXCEPT !.pc = "move.rename", !.op = "move", !.id = i,
                               !.key = rows[i].key, !.to = k]
  <2>1. q.pc = "move.rename" /\ "move.rename" \in Quiet
    BY DEF Idle, Quiet, Places
  <2>2. req' = [req EXCEPT ![r] = q]
    BY <1>7 DEF MoveBegin
  <2> HIDE DEF q
  <2> QED  BY <1>2, <2>1, <2>2
<1>8. ASSUME NEW i \in Ids, NEW n \in Nums, RestoreVersionBegin(r, i, n) PROVE Orderly(r)
  <2> DEFINE place == IF versioning THEN "snap.number" ELSE "restore.discard"
             q == [Idle EXCEPT !.pc = place,
                    !.op = "restoreVersion", !.id = i, !.key = rows[i].key,
                    !.old = rows[i].sha, !.target = n, !.sha = vrows[i][n]]
  <2>1. q.pc = place /\ q.id = i /\ q.target = n
    BY DEF Idle
  <2>2. req' = [req EXCEPT ![r] = q]
    BY <1>8 DEF RestoreVersionBegin
  <2> HIDE DEF q
  <2>3. req'[r] = q /\ \A p \in Requests : p # r => req'[p] = req[p]
    BY <2>2 DEF TInv, TypeOK
  <2>4. n <= LatestVersionNum(i)'
    <3>1. n \in Recorded(i)'
      BY <1>1, <1>8 DEF RestoreVersionBegin, Recorded
    <3> QED  BY <3>1, LatestIsNewestNext
  <2>5. versioning => Behind(r)'
    BY <2>1, <2>3, <2>4 DEF Behind
  <2> QED  BY <1>1, <2>1, <2>3, <2>5, HistoryStands DEF Orderly, Erases
<1> QED  BY <1>4, <1>5, <1>6, <1>7, <1>8 DEF Begin

LEMMA OrderlyUpload ==
  ASSUME TInv, NInv, NEW r \in Requests,
         UploadRead(r) \/ UploadReadBlind(r) \/ UploadPlace(r) \/ UploadCommit(r)
  PROVE  Orderly(r)
<1>1. UNCHANGED <<vrows, versioning>> /\ \A i \in doomed : i \in doomed' \/ Fresh(i)
  BY ZenonT(60) DEF UploadRead, UploadReadBlind, UploadPlace, UploadCommit, Insert, stores, history
<1>2. CASE Goto(r, "upload.place") \/ Goto(r, "upload.commit") \/ Finish(r)
  <2>1. ASSUME NEW place \in {"upload.place", "upload.commit"}, Goto(r, place)
        PROVE  req'[r].pc \in Quiet /\ \A q \in Requests : q # r => req'[q] = req[q]
    <3>1. place \in Quiet
      BY DEF Quiet, Places
    <3> QED  BY <2>1, <3>1, GotoFields
  <2>2. req'[r].pc \in Quiet /\ \A q \in Requests : q # r => req'[q] = req[q]
    BY <1>2, <2>1, FinishFields
  <2> QED  BY <1>1, <2>2, QuietStep
<1>3. ASSUME NEW i \in Ids, NEW place \in {"snap.number", "upload.place"}, At(r, "upload.read"),
             req' = [req EXCEPT ![r].pc = place, ![r].id = i, ![r].old = rows[i].sha]
      PROVE  Orderly(r)
  <2> DEFINE q == [req[r] EXCEPT !.pc = place, !.id = i, !.old = rows[i].sha]
  <2>1. q.pc = place /\ q.id = i /\ q.target = req[r].target
    BY DEF TInv, TypeOK, Request
  <2>2. req'[r] = q /\ \A p \in Requests : p # r => req'[p] = req[p]
    BY <1>3 DEF TInv, TypeOK
  <2> HIDE DEF q
  <2>3. versioning => req[r].target = 0
    BY <1>3 DEF NInv, Behind, At
  <2>4. 0 <= LatestVersionNum(i)'
    BY LatestIsNewestNext, FileStoreAssumption
  <2>5. versioning => Behind(r)'
    BY <2>1, <2>2, <2>3, <2>4 DEF Behind
  <2> QED  BY <1>1, <2>1, <2>2, <2>5, HistoryStands DEF Orderly, Erases
<1> QED  BY <1>2, <1>3, ZenonT(60) DEF UploadRead, UploadReadBlind, UploadPlace, UploadCommit, Lookup

LEMMA OrderlySnapshot ==
  ASSUME TInv, NInv, NEW r \in Requests,
         SnapshotNumber(r) \/ SnapshotMove(r) \/ SnapshotRecord(r)
  PROVE  Orderly(r)
<1>1. req[r] \in Request /\ WellFormed(req[r]) /\ TypeOK
  BY DEF TInv, TypeOK
<1>2. UNCHANGED <<versioning, doomed>>
  BY DEF SnapshotNumber, SnapshotMove, SnapshotRecord, history
<1>3. PICK i \in Ids : i = req[r].id
  BY <1>1 DEF SnapshotNumber, SnapshotMove, SnapshotRecord, At, WellFormed, OnFile, Places, Request
<1>4. CASE Finish(r) /\ UNCHANGED vrows
  BY <1>2, <1>4, FinishFields, QuietStep
<1>5. CASE SnapshotNumber(r)
  <2> DEFINE m == LatestVersionNum(req[r].id) + 1
             q == [req[r] EXCEPT !.pc = "snap.move", !.num = m]
  <2>1. q.pc = "snap.move" /\ q.id = i /\ q.target = req[r].target /\ q.num = m
    BY <1>1, <1>3 DEF Request
  <2>2. req'[r] = q /\ (\A p \in Requests : p # r => req'[p] = req[p]) /\ vrows' = vrows
    BY <1>5 DEF SnapshotNumber, TInv, TypeOK, stores
  <2> HIDE DEF q
  <2>3. versioning /\ i \notin doomed => req[r].target < m
    <3>1. LatestVersionNum(i) \in Int /\ req[r].target \in Int
      BY <1>1, LatestIsNewest DEF Request
    <3>2. versioning /\ i \notin doomed => req[r].target <= LatestVersionNum(i)
      BY <1>3, <1>5 DEF NInv, Behind, SnapshotNumber, At
    <3> QED  BY <1>3, <3>1, <3>2
  <2>4. versioning => Behind(r)'
    BY <1>2, <2>1, <2>2, <2>3 DEF Behind
  <2> QED  BY <1>2, <2>1, <2>2, <2>4, HistoryStands DEF Orderly, Erases
<1>6. CASE SnapshotMove(r) /\ Goto(r, "snap.record")
  <2>1. /\ req'[r].pc = "snap.record" /\ req'[r].id = i /\ req'[r].target = req[r].target
        /\ req'[r].num = req[r].num /\ \A q \in Requests : q # r => req'[q] = req[q]
    BY <1>3, <1>6, GotoFields
  <2>2. vrows' = vrows
    BY <1>6 DEF SnapshotMove
  <2>3. versioning /\ i \notin doomed => req[r].target < req[r].num
    BY <1>3, <1>6 DEF NInv, Behind, SnapshotMove, At
  <2>4. versioning => Behind(r)'
    BY <1>2, <2>1, <2>3 DEF Behind
  <2> QED  BY <1>2, <2>1, <2>2, <2>4, HistoryStands DEF Orderly, Erases
<1>7. CASE /\ SnapshotRecord(r) /\ Goto(r, "prune.list")
           /\ vrows' = [vrows EXCEPT ![req[r].id][req[r].num] = req[r].old]
  <2>1. /\ req'[r].pc = "prune.list" /\ req'[r].id = i /\ req'[r].target = req[r].target
        /\ \A q \in Requests : q # r => req'[q] = req[q]
    BY <1>3, <1>7, GotoFields
  <2>2. PICK n \in Nums : n = req[r].num
    BY <1>1, <1>7 DEF SnapshotRecord, At, WellFormed
  <2>3. PICK c \in Contents : c = req[r].old /\ c # Nothing
    BY <1>1, <1>7 DEF SnapshotRecord, At, WellFormed, Request
  <2>4. vrows' = [vrows EXCEPT ![i][n] = c]
    BY <1>3, <1>7, <2>2, <2>3
  <2>5. ASSUME NEW j \in Ids PROVE Grows(j)
    <3>1. c \in Contents \cup {Nothing} /\ (j = i => c # Nothing \/ n < LatestVersionNum(j))
      BY <2>3
    <3> QED  BY <1>1, <2>4, <3>1, OneCellChanges
  <2>6. n <= LatestVersionNum(i)'
    <3>1. n \in Recorded(i)'
      BY <1>1, <2>3, <2>4 DEF Recorded, TypeOK
    <3> QED  BY <3>1, LatestIsNewestNext
  <2>7. versioning /\ i \notin doomed => req[r].target < n
    BY <1>3, <1>7, <2>2 DEF NInv, Behind, SnapshotRecord, At
  <2>8. versioning /\ i \notin doomed => req[r].target < LatestVersionNum(i)'
    <3>1. n \in Int /\ LatestVersionNum(i)' \in Int /\ req[r].target \in Int
      BY <1>1, LatestIsNewestNext DEF Nums, Request
    <3> QED  BY <2>6, <2>7, <3>1
  <2>9. versioning => Behind(r)'
    BY <1>2, <2>1, <2>8 DEF Behind
  <2> QED  BY <1>2, <2>1, <2>5, <2>9 DEF Orderly, Erases
<1> QED  BY <1>4, <1>5, <1>6, <1>7 DEF SnapshotNumber, SnapshotMove, SnapshotRecord

\* After the last pruning, or before the next.
LEMMA AfterPruning ==
  ASSUME TInv, NInv, NEW r \in Requests, NEW i \in Ids, i = req[r].id,
         NEW nums \in SUBSET Nums, NEW place \in {AfterSnapshot(r), "prune.content"},
         GotoWith(r, place, nums), UNCHANGED <<versioning, doomed>>,
         req[r].pc \in {"prune.list", "prune.row"},
         \A j \in Ids \ doomed : versioning => Grows(j),
         versioning /\ i \notin doomed => \A n \in nums : n < LatestVersionNum(i)'
  PROVE  Orderly(r)
<1>1. place \in {"upload.place", "restore.place", "prune.content"} /\ place \in Places
  BY DEF AfterSnapshot, Places
<1>2. /\ req'[r].pc = place /\ req'[r].nums = nums /\ req'[r].id = i
      /\ req'[r].target = req[r].target /\ \A q \in Requests : q # r => req'[q] = req[q]
  BY <1>1, NumsFields
<1>3. versioning /\ i \notin doomed => req[r].target < LatestVersionNum(i)'
  <2>1. LatestVersionNum(i) \in Int /\ LatestVersionNum(i)' \in Int /\ req[r].target \in Int
    BY LatestIsNewest, LatestIsNewestNext DEF TInv, TypeOK, Request
  <2>2. versioning /\ i \notin doomed => req[r].target < LatestVersionNum(i)
    BY DEF NInv, Behind
  <2> QED  BY <2>1, <2>2 DEF Grows
<1>4. versioning => Behind(r)'
  BY <1>1, <1>2, <1>3 DEF Behind
<1> QED  BY <1>1, <1>2, <1>4 DEF Orderly, Erases

LEMMA OrderlyPrune ==
  ASSUME TInv, NInv, NEW r \in Requests, PruneList(r) \/ PruneContent(r) \/ PruneRow(r)
  PROVE  Orderly(r)
<1>1. req[r] \in Request /\ WellFormed(req[r]) /\ TypeOK /\ req[r].nums \subseteq Nums
  BY DEF TInv, TypeOK, Request
<1>2. UNCHANGED <<versioning, doomed>>
  BY DEF PruneList, PruneContent, PruneRow, history
<1>3. PICK i \in Ids : i = req[r].id
  BY <1>1 DEF PruneList, PruneContent, PruneRow, At, WellFormed, OnFile, Places, Request
<1>4. CASE PruneList(r)
  <2>1. Surplus(i) \in SUBSET Nums /\ \A n \in Surplus(i) : n < LatestVersionNum(i)
    BY SurplusIsBehind
  <2>2. PICK place \in {AfterSnapshot(r), "prune.content"} : GotoWith(r, place, Surplus(i))
    BY <1>3, <1>4 DEF PruneList
  <2>3. vrows' = vrows /\ LatestVersionNum(i)' = LatestVersionNum(i)
    BY <1>4 DEF PruneList, stores, LatestVersionNum, Recorded
  <2> QED  BY <1>2, <1>3, <1>4, <2>1, <2>2, <2>3, HistoryStands, AfterPruning DEF PruneList, At
<1>5. CASE PruneContent(r)
  <2>1. /\ req'[r].pc = "prune.row" /\ req'[r].id = i /\ req'[r].target = req[r].target
        /\ req'[r].nums = req[r].nums /\ \A q \in Requests : q # r => req'[q] = req[q]
    BY <1>3, <1>5, GotoFields DEF PruneContent
  <2>2. vrows' = vrows /\ LatestVersionNum(i)' = LatestVersionNum(i)
    BY <1>5 DEF PruneContent, LatestVersionNum, Recorded
  <2>3. versioning /\ i \notin doomed =>
          /\ req[r].target < LatestVersionNum(i)
          /\ \A n \in req[r].nums : n < LatestVersionNum(i)
    BY <1>3, <1>5 DEF NInv, Behind, PruneContent, At
  <2>4. versioning => Behind(r)'
    BY <1>2, <2>1, <2>2, <2>3 DEF Behind
  <2> QED  BY <1>2, <2>1, <2>2, <2>4, HistoryStands DEF Orderly, Erases
<1>6. CASE Finish(r) /\ UNCHANGED vrows
  BY <1>2, <1>6, FinishFields, QuietStep
<1>7. ASSUME NEW n \in Newest(req[r].nums), At(r, "prune.row"),
             vrows' = [vrows EXCEPT ![req[r].id][n] = Nothing],
             GotoWith(r, IF req[r].nums = {n} THEN AfterSnapshot(r) ELSE "prune.content",
                      req[r].nums \ {n})
      PROVE  Orderly(r)
  <2>1. n \in Nums /\ n \in req[r].nums /\ req[r].nums \ {n} \in SUBSET Nums
    BY <1>1 DEF Newest
  <2>2. versioning /\ i \notin doomed => \A m \in req[r].nums : m < LatestVersionNum(i)
    BY <1>3, <1>7 DEF NInv, Behind, At
  <2>3. ASSUME NEW j \in Ids \ doomed, versioning PROVE Grows(j)
    <3>1. j = i => n < LatestVersionNum(j)
      BY <2>1, <2>2, <2>3
    <3> QED  BY <1>1, <1>3, <1>7, <2>1, <3>1, OneCellChanges
  <2>4. versioning /\ i \notin doomed => \A m \in req[r].nums : m < LatestVersionNum(i)'
    <3>1. LatestVersionNum(i) \in Int /\ LatestVersionNum(i)' \in Int /\ req[r].nums \subseteq Int
      BY <1>1, LatestIsNewest, LatestIsNewestNext DEF Nums
    <3> QED  BY <2>2, <2>3, <3>1 DEF Grows
  <2>5. PICK place \in {AfterSnapshot(r), "prune.content"} : GotoWith(r, place, req[r].nums \ {n})
    BY <1>7
  <2> QED  BY <1>2, <1>3, <1>7, <2>1, <2>3, <2>4, <2>5, AfterPruning DEF At
<1> QED  BY <1>4, <1>5, <1>6, <1>7 DEF PruneRow

LEMMA OrderlyRestore ==
  ASSUME TInv, NInv, NEW r \in Requests,
         RestoreDiscard(r) \/ RestorePlace(r) \/ RestoreRow(r) \/ RestoreCommit(r)
  PROVE  Orderly(r)
<1>1. req[r] \in Request /\ WellFormed(req[r]) /\ TypeOK
  BY DEF TInv, TypeOK
<1>2. UNCHANGED <<versioning, doomed>>
  BY DEF RestoreDiscard, RestorePlace, RestoreRow, RestoreCommit, history
<1>3. PICK i \in Ids : i = req[r].id
  BY <1>1 DEF RestoreDiscard, RestorePlace, RestoreRow, RestoreCommit, At, WellFormed, OnFile,
              Places, Request
<1>4. CASE Finish(r) /\ UNCHANGED vrows
  BY <1>2, <1>4, FinishFields, QuietStep
<1>5. CASE RestoreDiscard(r)
  <2>1. ~versioning
    BY <1>5 DEF NInv, Behind, RestoreDiscard, At
  <2>2. req'[r].pc = "restore.place" /\ \A q \in Requests : q # r => req'[q] = req[q]
    BY <1>5, GotoFields DEF RestoreDiscard
  <2> QED  BY <1>2, <2>1, <2>2 DEF Orderly, Erases
<1>6. CASE RestorePlace(r) /\ Goto(r, "restore.row")
  <2>1. /\ req'[r].pc = "restore.row" /\ req'[r].id = i /\ req'[r].target = req[r].target
        /\ \A q \in Requests : q # r => req'[q] = req[q]
    BY <1>3, <1>6, GotoFields
  <2>2. vrows' = vrows /\ LatestVersionNum(i)' = LatestVersionNum(i)
    BY <1>6 DEF RestorePlace, LatestVersionNum, Recorded
  <2>3. versioning /\ i \notin doomed => req[r].target < LatestVersionNum(i)
    BY <1>3, <1>6 DEF NInv, Behind, RestorePlace, At
  <2>4. versioning => Behind(r)'
    BY <1>2, <2>1, <2>2, <2>3 DEF Behind
  <2> QED  BY <1>2, <2>1, <2>2, <2>4, HistoryStands DEF Orderly, Erases
<1>7. CASE /\ RestoreRow(r) /\ Goto(r, "restore.commit")
           /\ vrows' = [vrows EXCEPT ![req[r].id][req[r].target] = Nothing]
  <2>1. req'[r].pc \in Quiet /\ \A q \in Requests : q # r => req'[q] = req[q]
    <3>1. "restore.commit" \in Quiet
      BY DEF Quiet, Places
    <3> QED  BY <1>7, <3>1, GotoFields
  <2>2. versioning /\ i \notin doomed => req[r].target < LatestVersionNum(i)
    BY <1>3, <1>7 DEF NInv, Behind, RestoreRow, At
  <2>3. PICK n \in Nums : n = req[r].target
    BY <1>1, <1>7 DEF RestoreRow, At, WellFormed
  <2>4. ASSUME NEW j \in Ids \ doomed, versioning PROVE Grows(j)
    <3>1. j = i => n < LatestVersionNum(j)
      BY <2>2, <2>3, <2>4
    <3>2. vrows' = [vrows EXCEPT ![i][n] = Nothing]
      BY <1>3, <1>7, <2>3
    <3> QED  BY <1>1, <3>1, <3>2, OneCellChanges
  <2> QED  BY <1>2, <2>1, <2>4, QuietBehind DEF Orderly
<1>8. CASE RestoreCommit(r)
  BY <1>4, <1>8 DEF RestoreCommit
<1> QED  BY <1>4, <1>5, <1>6, <1>7, <1>8 DEF RestorePlace, RestoreRow

LEMMA OrderlyErase ==
  ASSUME TInv, NInv, NEW r \in Requests,
         EraseContent(r) \/ EraseList(r) \/ EraseVault(r) \/ EraseHistory(r) \/ EraseFile(r)
  PROVE  Orderly(r)
<1>1. req[r] \in Request /\ WellFormed(req[r]) /\ TypeOK
  BY DEF TInv, TypeOK
<1>2. UNCHANGED versioning /\ doomed \subseteq doomed'
  BY DEF EraseContent, EraseList, EraseVault, EraseHistory, EraseFile, history
<1>3. req[r].id \in doomed'
  <2>1. CASE EraseContent(r)
    BY <2>1 DEF EraseContent
  <2>2. CASE ~EraseContent(r)
    <3>1. Erases(r)
      BY <2>2 DEF Erases, EraseList, EraseVault, EraseHistory, EraseFile, At
    <3> QED  BY <1>2, <3>1 DEF NInv
  <2> QED  BY <2>1, <2>2
<1>4. ASSUME NEW i \in Ids \ doomed PROVE Grows(i)
  <2>1. CASE UNCHANGED vrows
    BY <2>1, HistoryStands
  <2>2. CASE EraseHistory(r) \/ EraseFile(r)
    <3>1. req[r].id \in doomed /\ req[r].id # i
      BY <2>2 DEF NInv, Erases, EraseHistory, EraseFile, At
    <3>2. vrows'[i] = vrows[i]
      BY <1>1, <2>2, <3>1 DEF EraseHistory, EraseFile, ForgetVersions, TypeOK
    <3> QED  BY <3>2, HistoryStands
  <2> QED  BY <2>1, <2>2 DEF EraseContent, EraseList, EraseVault, stores
<1>5. /\ req'[r].pc \notin {"restore.discard", "upload.read", "snap.number", "snap.move", "snap.record", "prune.list",
                            "prune.content", "prune.row", "restore.place", "restore.row"}
      /\ req'[r].pc \in {"erase.list", "erase.vault", "erase.history", "erase.file"} =>
           req'[r].id = req[r].id
      /\ \A q \in Requests : q # r => req'[q] = req[q]
  <2>1. ASSUME NEW place \in {"erase.list", "erase.history", "erase.file"}, Goto(r, place)
        PROVE  <1>5!1 /\ <1>5!2 /\ <1>5!3
    BY <2>1, GotoFields
  <2>2. ASSUME NEW place \in {"erase.vault", "erase.history"}, NEW nums \in SUBSET Nums,
               GotoWith(r, place, nums)
        PROVE  <1>5!1 /\ <1>5!2 /\ <1>5!3
    BY <2>2, NumsFields DEF Places
  <2>3. CASE Finish(r)
    BY <2>3, FinishFields DEF Quiet
  <2>4. ASSUME NEW l, EraseNext(r, l) PROVE <1>5!1 /\ <1>5!2 /\ <1>5!3
    <3>1. PICK p : req' = [req EXCEPT ![r] = [Idle EXCEPT !.pc = "erase.content",
              !.op = "purge", !.id = p[1], !.key = p[2], !.purge = l \ {p}]]
      BY <2>4, ZenonT(60) DEF EraseNext
    <3> DEFINE q == [Idle EXCEPT !.pc = "erase.content", !.op = "purge", !.id = p[1],
                                 !.key = p[2], !.purge = l \ {p}]
    <3>2. q.pc = "erase.content" /\ req' = [req EXCEPT ![r] = q]
      BY <3>1 DEF Idle
    <3> HIDE DEF q
    <3> QED  BY <3>2 DEF TInv, TypeOK
  <2>5. req[r].nums \subseteq Nums /\ Recorded(req[r].id) \subseteq Nums
    BY <1>1 DEF Request, Recorded
  <2>6. CASE EraseContent(r)
    BY <2>1, <2>6 DEF EraseContent
  <2>7. CASE EraseList(r)
    <3>1. PICK place \in {"erase.vault", "erase.history"} : GotoWith(r, place, Recorded(req[r].id))
      <4>1. CASE Recorded(req[r].id) = {}
        BY <2>7, <4>1 DEF EraseList
      <4>2. CASE Recorded(req[r].id) # {}
        BY <2>7, <4>2 DEF EraseList
      <4> QED  BY <4>1, <4>2
    <3> QED  BY <2>2, <2>5, <3>1
  <2>8. CASE EraseVault(r)
    <3>1. PICK n : GotoWith(r, IF req[r].nums = {n} THEN "erase.history" ELSE "erase.vault",
                            req[r].nums \ {n})
      BY <2>8 DEF EraseVault
    <3>2. PICK place \in {"erase.vault", "erase.history"} : GotoWith(r, place, req[r].nums \ {n})
      <4>1. CASE req[r].nums = {n}
        BY <3>1, <4>1
      <4>2. CASE req[r].nums # {n}
        BY <3>1, <4>2
      <4> QED  BY <4>1, <4>2
    <3>3. req[r].nums \ {n} \in SUBSET Nums
      BY <2>5
    <3> QED  BY <2>2, <3>2, <3>3
  <2>9. CASE EraseHistory(r)
    BY <2>1, <2>9 DEF EraseHistory
  <2>10. CASE EraseFile(r)
    BY <2>3, <2>4, <2>10 DEF EraseFile
  <2> QED  BY <2>6, <2>7, <2>8, <2>9, <2>10
<1>6. Behind(r)'
  BY <1>5 DEF Behind
<1> QED  BY <1>2, <1>3, <1>4, <1>5, <1>6 DEF Orderly, Erases

LEMMA OrderlyMove ==
  ASSUME TInv, NInv, NEW r \in Requests,
         MoveRename(r) \/ MoveRow(r) \/ MoveUndo(r) \/ Fail(r)
  PROVE  Orderly(r)
<1>1. UNCHANGED <<vrows, versioning, doomed>>
  BY DEF MoveRename, MoveRow, MoveUndo, Fail, stores, history
<1>2. ASSUME NEW place \in {"move.row", "move.undo"}, Goto(r, place) PROVE Orderly(r)
  <2>1. place \in Quiet
    BY DEF Quiet, Places
  <2> QED  BY <1>1, <1>2, <2>1, GotoFields, QuietStep
<1>3. CASE Finish(r)
  BY <1>1, <1>3, FinishFields, QuietStep
<1> QED  BY <1>2, <1>3 DEF MoveRename, MoveRow, MoveUndo, Fail

LEMMA NumbersStep ==
  ASSUME TInv, NInv, [Next]_vars
  PROVE  /\ NInv'
         /\ versioning => \A i \in Ids \ doomed : Grows(i)
<1>1. ASSUME NEW r \in Requests, Begin(r) \/ Step(r) \/ Fail(r)
      PROVE  NInv' /\ (versioning => \A i \in Ids \ doomed : Grows(i))
  <2>1. Orderly(r)
    BY <1>1, OrderlyBegin, OrderlyUpload, OrderlySnapshot, OrderlyPrune, OrderlyRestore,
       OrderlyErase, OrderlyMove DEF Step
  <2>2. \A q \in Requests : q # r => (Erases(q)' => req'[q].id \in doomed')
                                     /\ (versioning' => Behind(q)')
    BY <2>1, OthersBehind DEF TInv
  <2>3. (Erases(r)' => req'[r].id \in doomed') /\ (versioning' => Behind(r)')
    BY <2>1 DEF Orderly
  <2> QED  BY <2>1, <2>2, <2>3 DEF NInv, Orderly
<1>2. CASE UNCHANGED <<vrows, req, doomed, versioning>>
  <2>1. \A r \in Requests : (Erases(r)' <=> Erases(r)) /\ (Behind(r)' <=> Behind(r))
    BY <1>2 DEF Erases, Behind, LatestVersionNum, Recorded
  <2> QED  BY <1>2, <2>1, HistoryStands DEF NInv
<1>3. ASSUME UNCHANGED vrows, \A r \in Requests : req'[r] = Idle
      PROVE  NInv' /\ \A i \in Ids \ doomed : Grows(i)
  <2>1. Idle.pc \in Quiet
    BY DEF Idle, Quiet, Places
  <2> QED  BY <1>3, <2>1, QuietBehind, HistoryStands DEF NInv
<1>4. CASE Crash
  BY <1>3, <1>4 DEF Crash, stores
<1>5. CASE Reconfigure
  BY <1>3, <1>5 DEF Reconfigure, Ready, stores
<1>6. ASSUME NEW i \in Ids, Delete(i) \/ RestoreFile(i)
      PROVE  UNCHANGED <<vrows, req, doomed, versioning>>
  BY <1>6 DEF Delete, RestoreFile, SetTrashed, history
<1> QED  BY <1>1, <1>2, <1>4, <1>5, <1>6 DEF Next, vars

\* A version number is given to one content only: with versioning on, the
\* number of the newest version of a file never falls before its permanent
\* deletion begins - for any number of requests that cross on the file, and
\* any failures (snapshotVersion, enforceMaxVersions, RestoreVersion).
THEOREM VersionNumbersGrow == Spec => NumbersGrow
<1>1. Init => NInv
  <2>1. Idle.pc = "idle" /\ Idle.id = Nothing
    BY DEF Idle
  <2> QED  BY <2>1, FileStoreAssumption DEF Init, NInv, Behind, Erases
<1>2. TInv /\ NInv /\ [Next]_vars => NInv'
  BY NumbersStep
<1>3. TInv /\ NInv /\ [Next]_vars =>
        [versioning => \A i \in Ids \ doomed :
                         LatestVersionNum(i)' >= LatestVersionNum(i)]_vars
  BY NumbersStep DEF Grows
<1> QED  BY <1>1, <1>2, <1>3, TypeInit, TypeStep, PTL DEF Spec, NumbersGrow

(***************************************************************************)
(* Requests that keep apart do not disturb each other, and no content is   *)
(* lost: the inductive invariants GInv and IInv (module FileStoreInv) and, *)
(* from them, Recoverable, for instances whose requests keep apart and     *)
(* whose configuration keeps versioning on.                                *)
(***************************************************************************)

(***************************************************************************)
(* Footprints.                                                             *)
(***************************************************************************)
LEMMA FootprintMember ==
  ASSUME NEW q \in Requests, NEW x
  PROVE  x \in Footprint(q) <=>
           \/ x \in {req[q].id, req[q].key, req[q].to}
           \/ \E p \in req[q].purge : x = p[1] \/ x = p[2]
BY DEF Footprint

\* A file is in the footprint of a request together with its path.
LEMMA FileAndPath ==
  ASSUME GInv, NEW q \in Requests, NEW i \in Ids, i \in Footprint(q)
  PROVE  InUse(i) /\ rows[i].key \in Footprint(q)
<1> USE FileStoreAssumption
<1>1. /\ req[q] \in Request /\ GroundedAt(q)
  BY DEF GInv, TInv, TypeOK
<1>2. /\ i # req[q].key /\ i # req[q].to /\ i # Nothing
      /\ \A p \in req[q].purge : p[1] \in Ids /\ p[2] \in Keys
  BY <1>1 DEF Request
<1>3. i = req[q].id \/ \E p \in req[q].purge : i = p[1]
  BY <1>2, FootprintMember
<1>4. CASE i = req[q].id
  <2>1. Names(i, req[q].key)
    BY <1>1, <1>2, <1>4 DEF GroundedAt, ReadsHold
  <2>2. req[q].key \in Footprint(q)
    BY FootprintMember
  <2> QED  BY <2>1, <2>2 DEF Names
<1>5. ASSUME NEW p \in req[q].purge, i = p[1]
      PROVE  InUse(i) /\ rows[i].key \in Footprint(q)
  <2>1. Names(i, p[2])
    BY <1>1, <1>5 DEF GroundedAt, ReadsHold
  <2>2. p[2] \in Footprint(q)
    BY FootprintMember
  <2> QED  BY <2>1, <2>2 DEF Names
<1> QED  BY <1>3, <1>4, <1>5

\* No other request holds a file whose path a request holds.
LEMMA NotOthers ==
  ASSUME GInv, NEW q \in Requests, NEW r \in Requests, q # r,
         NEW i \in Ids, InUse(i), rows[i].key \in Footprint(r)
  PROVE  i \notin Footprint(q)
<1>1. SUFFICES ASSUME i \in Footprint(q)  PROVE FALSE
  OBVIOUS
<1>2. rows[i].key \in Footprint(q)
  BY <1>1, FileAndPath
<1>3. rows[i].key \in Keys
  BY DEF GInv, TInv, TypeOK, InUse, Row
<1> QED  BY <1>2, <1>3, FileStoreAssumption DEF GInv, Apart

LEMMA IdleFootprint ==
  ASSUME NEW r \in Requests, req[r] = Idle
  PROVE  \A x : x \in Footprint(r) => x = Nothing
BY FootprintMember DEF Idle

(***************************************************************************)
(* What a request relies on survives a step that stays off its footprint.  *)
(***************************************************************************)
LEMMA GroundFrame ==
  ASSUME GInv, NEW q \in Requests, req'[q] = req[q],
         \A i \in Ids : \/ rows'[i] = rows[i]
                        \/ /\ i \notin Footprint(q)
                           /\ InUse(i) => rows[i].key \notin Footprint(q)
                           /\ InUse(i)' => rows'[i].key \notin Footprint(q),
         \A k \in Keys : k \in Footprint(q) => disk'[k] = disk[k],
         \A i \in Ids : i \in Footprint(q) => vrows'[i] = vrows[i],
         \A i \in exposed : i \in exposed' \/ ~InUse(i)'
  PROVE  GroundedAt(q)'
<1> USE FileStoreAssumption
<1>1. /\ req[q] \in Request /\ GroundedAt(q) /\ WellFormed(req[q])
  BY DEF GInv, TInv, TypeOK
<1>2. \A k \in Keys : k \in Footprint(q) => Lookup(k)' = Lookup(k)
  BY DEF Lookup, InUse
<1>3. \A i \in Ids : i \in Footprint(q) => rows'[i] = rows[i]
  OBVIOUS
<1>4. /\ req[q].id \in Footprint(q) /\ req[q].key \in Footprint(q)
      /\ req[q].to \in Footprint(q)
      /\ \A p \in req[q].purge : p[1] \in Footprint(q) /\ p[1] \in Ids
  BY <1>1, FootprintMember DEF Request
<1>5. /\ req[q].id \in Ids \cup {Nothing} /\ req[q].key \in Keys \cup {Nothing}
      /\ req[q].to \in Keys \cup {Nothing}
  BY <1>1 DEF Request
<1>6. ReadsHold(q)'
  BY <1>1, <1>3, <1>4, <1>5 DEF GroundedAt, ReadsHold, Names, InUse
<1>7. Unnamed(q)'
  <2>1. CASE req[q].pc \in {"upload.read", "upload.place", "upload.commit"}
    <3>1. req[q].key \in Keys
      BY <1>1, <1>5, <2>1 DEF WellFormed
    <3>2. Lookup(req[q].key)' = Lookup(req[q].key)
      BY <1>2, <1>4, <3>1
    <3>3. \A i \in Lookup(req[q].key) :
            i \in Ids /\ rows'[i] = rows[i] /\ InUse(i)' /\ InUse(i)
      BY <1>4, <3>1 DEF Lookup, InUse
    <3> QED  BY <1>1, <3>2, <3>3 DEF GroundedAt, Unnamed, At, Trashed
  <2>2. CASE req[q].pc \notin {"upload.read", "upload.place", "upload.commit"}
    BY <2>2 DEF Unnamed, At
  <2> QED  BY <2>1, <2>2
<1>8. BytesHold(q)'
  <2>1. req[q].key \in Keys => disk'[req[q].key] = disk[req[q].key]
    BY <1>4
  <2>2. req[q].pc # "idle" => req[q].key \in Keys
    BY <1>1, <1>5 DEF WellFormed
  <2>3. req[q].id # Nothing => rows'[req[q].id] = rows[req[q].id]
    BY <1>3, <1>4, <1>5
  <2> QED  BY <1>1, <2>1, <2>2, <2>3 DEF GroundedAt, BytesHold, At
<1>9. SnapshotHolds(q)'
  <2>1. req[q].pc \in {"snap.move", "snap.record"} => req[q].id \in Ids
    BY <1>1, <1>5 DEF WellFormed, OnFile, Places
  <2>2. req[q].id \in Ids => Recorded(req[q].id)' = Recorded(req[q].id)
    BY <1>4 DEF Recorded
  <2> QED  BY <1>1, <2>1, <2>2 DEF GroundedAt, SnapshotHolds
<1>10. MoveHolds(q)'
  <2>1. req[q].pc \in {"move.rename", "move.row", "move.undo"} =>
          req[q].to \in Keys
    BY <1>1, <1>5 DEF WellFormed
  <2> QED  BY <1>1, <1>2, <1>4, <2>1 DEF GroundedAt, MoveHolds
<1> QED  BY <1>6, <1>7, <1>8, <1>9, <1>10 DEF GroundedAt

\* What a step of request r may change: its own record, the rows of its paths
\* (a row that no request knows may appear there), the blobs at its paths and
\* the versions of its files.
Confined(r) ==
  /\ \A q \in Requests : q # r => req'[q] = req[q]
  /\ \A i \in Ids : \/ rows'[i] = rows[i]
                    \/ /\ InUse(i) \/ Fresh(i)
                       /\ InUse(i) => rows[i].key \in Footprint(r)
                       /\ InUse(i)' => rows'[i].key \in Footprint(r)
  /\ \A k \in Keys : disk'[k] = disk[k] \/ k \in Footprint(r)
  /\ \A i \in Ids : vrows'[i] = vrows[i] \/ i \in Footprint(r)
  /\ \A i \in exposed : i \in exposed' \/ ~InUse(i)'

LEMMA OthersGrounded ==
  ASSUME GInv, TypeOK', NEW r \in Requests, Confined(r),
         NEW q \in Requests, q # r
  PROVE  GroundedAt(q)'
<1> USE FileStoreAssumption
<1>1. \A k \in Keys : k \in Footprint(r) => k \notin Footprint(q)
  BY DEF GInv, Apart
<1>2. \A i \in Ids : i \in Footprint(r) => i \notin Footprint(q)
  BY DEF GInv, Apart
<1>3. ASSUME NEW i \in Ids
      PROVE  \/ rows'[i] = rows[i]
             \/ /\ i \notin Footprint(q)
                /\ InUse(i) => rows[i].key \notin Footprint(q)
                /\ InUse(i)' => rows'[i].key \notin Footprint(q)
  <2>1. InUse(i) => rows[i].key \in Keys
    BY DEF InUse, GInv, TInv, TypeOK, Row
  <2>2. InUse(i)' => rows'[i].key \in Keys
    BY DEF InUse, TypeOK, Row
  <2>3. InUse(i) /\ rows[i].key \in Footprint(r) => i \notin Footprint(q)
    BY NotOthers
  <2> QED  BY <1>1, <2>1, <2>2, <2>3 DEF Confined, Fresh
<1> QED  BY <1>1, <1>2, <1>3, GroundFrame DEF Confined

LEMMA ApartStep ==
  ASSUME Apart, NEW r \in Requests,
         \A q \in Requests : q # r => req'[q] = req[q],
         \A q \in Requests : \A x :
           q # r /\ x \in Footprint(r)' /\ x \in Footprint(q) => x = Nothing
  PROVE  Apart'
<1>1. \A q \in Requests : q # r => Footprint(q)' = Footprint(q)
  BY DEF Footprint
<1> QED  BY <1>1 DEF Apart

\* A step that confines itself to the footprint of its request, and does not
\* widen it, keeps the requests apart.
LEMMA ApartKept ==
  ASSUME GInv, NEW r \in Requests,
         \A q \in Requests : q # r => req'[q] = req[q],
         \A x : x \in Footprint(r)' => x \in Footprint(r) \/ x = Nothing
  PROVE  Apart'
BY ApartStep DEF GInv, Apart

LEMMA KeysUniqueKept ==
  ASSUME GInv, UNCHANGED rows
  PROVE  KeysUnique'
BY DEF GInv, KeysUnique, InUse

LEMMA FinishGrounds ==
  ASSUME TInv, NEW r \in Requests, Finish(r)
  PROVE  /\ GroundedAt(r)'
         /\ \A x : x \in Footprint(r)' => x = Nothing
         /\ \A q \in Requests : q # r => req'[q] = req[q]
<1>1. req'[r] = Idle /\ \A q \in Requests : q # r => req'[q] = req[q]
  BY DEF Finish, TInv, TypeOK
<1>2. /\ req'[r].pc = "idle" /\ req'[r].id = Nothing
      /\ req'[r].purge = {}
  BY <1>1 DEF Idle
<1>3. GroundedAt(r)'
  BY <1>2 DEF GroundedAt, ReadsHold, Unnamed, BytesHold, SnapshotHolds,
              MoveHolds, At
<1>4. \A x : x \in Footprint(r)' => x = Nothing
  BY <1>1 DEF Footprint, Idle
<1> QED  BY <1>1, <1>3, <1>4

LEMMA GroundStep ==
  ASSUME GInv, TInv', versioning', NEW r \in Requests, Confined(r), Apart',
         KeysUnique', GroundedAt(r)'
  PROVE  GInv'
BY OthersGrounded DEF GInv, TInv

LEMMA GroundFinish ==
  ASSUME GInv, TInv', versioning', NEW r \in Requests, Confined(r),
         KeysUnique', Finish(r)
  PROVE  GInv'
<1>1. TInv
  BY DEF GInv
<1>2. /\ GroundedAt(r)'
      /\ \A x : x \in Footprint(r)' => x = Nothing
      /\ \A q \in Requests : q # r => req'[q] = req[q]
  BY <1>1, FinishGrounds
<1>3. Apart'
  BY <1>2, ApartKept
<1> QED  BY <1>2, <1>3, GroundStep

LEMMA GroundGoto ==
  ASSUME GInv, TInv', versioning', NEW r \in Requests, Confined(r),
         KeysUnique', NEW place, Goto(r, place), GroundedAt(r)'
  PROVE  GInv'
<1>1. TInv
  BY DEF GInv
<1>2. /\ Footprint(r)' = Footprint(r)
      /\ \A q \in Requests : q # r => req'[q] = req[q]
  BY <1>1, GotoFields
<1>3. Apart'
  BY <1>2, ApartKept
<1> QED  BY <1>3, GroundStep

\* A step that only reads and changes the record of its request.
LEMMA GroundRead ==
  ASSUME GInv, TInv', NEW r \in Requests, UNCHANGED <<stores, versioning>>,
         exposed \subseteq exposed',
         \A q \in Requests : q # r => req'[q] = req[q],
         Apart', GroundedAt(r)'
  PROVE  GInv'
<1>1. KeysUnique'
  BY KeysUniqueKept DEF stores
<1>2. Confined(r)
  BY DEF Confined, stores
<1>3. versioning'
  BY DEF GInv
<1> QED  BY <1>1, <1>2, <1>3, GroundStep

(***************************************************************************)
(* The beginnings.                                                         *)
(***************************************************************************)
\* What MayTouch guarantees.
LEMMA StartApart ==
  ASSUME GInv, Disjoint, NEW r \in Requests, NEW S, MayTouch(S),
         \A q \in Requests : q # r => req'[q] = req[q],
         \A x : x \in Footprint(r)' => x \in S \/ x = Nothing
  PROVE  Apart'
<1>1. Apart
  BY DEF GInv
<1>2. \A q \in Requests : \A x : x \in Footprint(q) /\ x \in S => x = Nothing
  BY DEF MayTouch
<1> QED  BY <1>1, <1>2, ApartStep

LEMMA GroundUploadBegin ==
  ASSUME GInv, TInv', Disjoint, NEW r \in Requests, NEW k \in Keys,
         NEW c \in Contents, UploadBegin(r, k, c) \/ UploadBeginBlind(r, k, c)
  PROVE  GInv'
<1> DEFINE q == [Idle EXCEPT !.pc = "upload.read", !.op = "upload",
                             !.key = k, !.sha = c]
<1>1. req' = [req EXCEPT ![r] = q]
  BY DEF UploadBegin, UploadBeginBlind
<1>2. /\ q.pc = "upload.read" /\ q.id = Nothing /\ q.key = k
      /\ q.to = Nothing /\ q.purge = {}
  BY DEF Idle
<1> HIDE DEF q
<1>3. req'[r] = q /\ \A s \in Requests : s # r => req'[s] = req[s]
  BY <1>1 DEF GInv, TInv, TypeOK
<1>4. UNCHANGED <<stores, versioning>> /\ exposed \subseteq exposed'
  BY DEF UploadBegin, UploadBeginBlind, history
<1>5. Apart'
  <2>1. MayTouch({k} \cup Lookup(k))
    BY DEF UploadBegin, UploadBeginBlind
  <2>2. \A x : x \in Footprint(r)' => x \in {k} \cup Lookup(k) \/ x = Nothing
    BY <1>2, <1>3 DEF Footprint
  <2> QED  BY <1>3, <2>1, <2>2, StartApart
<1>6. GroundedAt(r)'
  <2>1. \A i \in Lookup(k) : Trashed(i) => i \in exposed'
    BY DEF UploadBegin, UploadBeginBlind, TrashOccupies
  <2>2. /\ Lookup(k)' = Lookup(k)
        /\ \A i \in Lookup(k) : Trashed(i)' <=> Trashed(i)
    BY <1>4 DEF Lookup, Trashed, InUse, stores
  <2> QED  BY <1>2, <1>3, <2>1, <2>2
           DEF GroundedAt, ReadsHold, Unnamed, BytesHold, SnapshotHolds,
               MoveHolds, At
<1> QED  BY <1>3, <1>4, <1>5, <1>6, GroundRead

LEMMA GroundRestoreBegin ==
  ASSUME GInv, TInv', Disjoint, NEW r \in Requests, NEW i \in Ids,
         NEW n \in Nums, RestoreVersionBegin(r, i, n)
  PROVE  GInv'
<1> DEFINE q == [Idle EXCEPT !.pc = "snap.number",
                    !.op = "restoreVersion", !.id = i, !.key = rows[i].key,
                    !.old = rows[i].sha, !.target = n, !.sha = vrows[i][n]]
<1>1. req' = [req EXCEPT ![r] = q]
  BY DEF RestoreVersionBegin, GInv
<1>2. /\ q.pc = "snap.number" /\ q.id = i /\ q.key = rows[i].key
      /\ q.to = Nothing /\ q.purge = {}
  BY DEF Idle
<1> HIDE DEF q
<1>3. req'[r] = q /\ \A s \in Requests : s # r => req'[s] = req[s]
  BY <1>1 DEF GInv, TInv, TypeOK
<1>4. UNCHANGED <<stores, versioning>> /\ exposed \subseteq exposed'
  BY DEF RestoreVersionBegin, history
<1>5. Apart'
  <2>1. MayTouch({i, rows[i].key})
    BY DEF RestoreVersionBegin
  <2>2. \A x : x \in Footprint(r)' => x \in {i, rows[i].key} \/ x = Nothing
    BY <1>2, <1>3 DEF Footprint
  <2> QED  BY <1>3, <2>1, <2>2, StartApart
<1>6. GroundedAt(r)'
  <2>1. Names(i, rows[i].key)'
    BY <1>4 DEF RestoreVersionBegin, Names, InUse, stores
  <2> QED  BY <1>2, <1>3, <1>4, <2>1
           DEF GroundedAt, ReadsHold, Unnamed, BytesHold, SnapshotHolds,
               MoveHolds, At, Names, InUse, stores
<1> QED  BY <1>3, <1>4, <1>5, <1>6, GroundRead

LEMMA GroundEraseBegin ==
  ASSUME GInv, TInv', Disjoint, NEW r \in Requests, NEW i \in Ids,
         EraseBegin(r, i)
  PROVE  GInv'
<1> DEFINE q == [Idle EXCEPT !.pc = "erase.content", !.op = "erase",
                             !.id = i, !.key = rows[i].key]
<1>1. req' = [req EXCEPT ![r] = q]
  BY DEF EraseBegin
<1>2. /\ q.pc = "erase.content" /\ q.id = i /\ q.key = rows[i].key
      /\ q.to = Nothing /\ q.purge = {}
  BY DEF Idle
<1> HIDE DEF q
<1>3. req'[r] = q /\ \A s \in Requests : s # r => req'[s] = req[s]
  BY <1>1 DEF GInv, TInv, TypeOK
<1>4. UNCHANGED <<stores, versioning>> /\ exposed \subseteq exposed'
  BY DEF EraseBegin, history
<1>5. Apart'
  <2>1. MayTouch({i, rows[i].key})
    BY DEF EraseBegin
  <2>2. \A x : x \in Footprint(r)' => x \in {i, rows[i].key} \/ x = Nothing
    BY <1>2, <1>3 DEF Footprint
  <2> QED  BY <1>3, <2>1, <2>2, StartApart
<1>6. GroundedAt(r)'
  BY <1>2, <1>3, <1>4
     DEF EraseBegin, GroundedAt, ReadsHold, Unnamed, BytesHold, SnapshotHolds,
         MoveHolds, At, Names, InUse, stores
<1> QED  BY <1>3, <1>4, <1>5, <1>6, GroundRead

LEMMA GroundMoveBegin ==
  ASSUME GInv, TInv', Disjoint, NEW r \in Requests, NEW i \in Ids,
         NEW k \in Keys, MoveBegin(r, i, k)
  PROVE  GInv'
<1> DEFINE q == [Idle EXCEPT !.pc = "move.rename", !.op = "move",
                             !.id = i, !.key = rows[i].key, !.to = k]
<1>1. req' = [req EXCEPT ![r] = q]
  BY DEF MoveBegin
<1>2. /\ q.pc = "move.rename" /\ q.id = i /\ q.key = rows[i].key
      /\ q.to = k /\ q.purge = {}
  BY DEF Idle
<1> HIDE DEF q
<1>3. req'[r] = q /\ \A s \in Requests : s # r => req'[s] = req[s]
  BY <1>1 DEF GInv, TInv, TypeOK
<1>4. UNCHANGED <<stores, versioning>> /\ exposed \subseteq exposed'
  BY DEF MoveBegin, history
<1>5. Apart'
  <2>1. MayTouch({i, rows[i].key, k})
    BY DEF MoveBegin
  <2>2. \A x : x \in Footprint(r)' => x \in {i, rows[i].key, k}
    BY <1>2, <1>3 DEF Footprint
  <2> QED  BY <1>3, <2>1, <2>2, StartApart
<1>6. GroundedAt(r)'
  BY <1>2, <1>3, <1>4
     DEF MoveBegin, GroundedAt, ReadsHold, Unnamed, BytesHold, SnapshotHolds,
         MoveHolds, At, Names, InUse, Lookup, stores
<1> QED  BY <1>3, <1>4, <1>5, <1>6, GroundRead

\* A request that goes on to the next file of a list of distinct files.
LEMMA EraseNextGrounds ==
  ASSUME TInv, NEW r \in Requests, NEW listed \in SUBSET (Ids \X Keys),
         EraseNext(r, listed),
         \A p \in listed : Names(p[1], p[2])',
         \A p, o \in listed : p[1] = o[1] => p = o
  PROVE  /\ GroundedAt(r)'
         /\ \A q \in Requests : q # r => req'[q] = req[q]
         /\ \A x : x \in Footprint(r)' =>
              x = Nothing \/ \E p \in listed : x = p[1] \/ x = p[2]
<1>1. PICK p \in listed :
        req' = [req EXCEPT ![r] = [Idle EXCEPT !.pc = "erase.content",
                  !.op = "purge", !.id = p[1], !.key = p[2],
                  !.purge = listed \ {p}]]
  BY ZenonT(60) DEF EraseNext
<1> DEFINE e == [Idle EXCEPT !.pc = "erase.content", !.op = "purge",
                   !.id = p[1], !.key = p[2], !.purge = listed \ {p}]
<1>2. /\ e.pc = "erase.content" /\ e.id = p[1] /\ e.key = p[2]
      /\ e.to = Nothing /\ e.purge = listed \ {p}
  BY DEF Idle
<1> HIDE DEF e
<1>3. req'[r] = e /\ \A q \in Requests : q # r => req'[q] = req[q]
  BY <1>1 DEF e, TInv, TypeOK
<1>4. \A o \in listed \ {p} : Names(o[1], o[2])' /\ o[1] # p[1]
  OBVIOUS
<1>5. GroundedAt(r)'
  BY <1>2, <1>3, <1>4
     DEF GroundedAt, ReadsHold, Unnamed, BytesHold, SnapshotHolds, MoveHolds, At
<1>6. \A x : x \in Footprint(r)' =>
              x = Nothing \/ \E o \in listed : x = o[1] \/ x = o[2]
  BY <1>2, <1>3 DEF Footprint
<1> QED  BY <1>3, <1>5, <1>6

LEMMA GroundPurgeBegin ==
  ASSUME GInv, TInv', Disjoint, NEW r \in Requests, NEW S \in SUBSET Ids,
         PurgeBegin(r, S)
  PROVE  GInv'
<1> DEFINE listed == {<<i, rows[i].key>> : i \in S}
<1>1. TInv
  BY DEF GInv
<1>2. \A i \in S : InUse(i) /\ rows[i].key \in Keys
  BY <1>1 DEF PurgeBegin, Trashed, InUse, TInv, TypeOK, Row
<1>3. listed \in SUBSET (Ids \X Keys)
  BY <1>2
<1>4. UNCHANGED <<stores, versioning>> /\ exposed \subseteq exposed'
  BY DEF PurgeBegin, history
<1>5. \A p \in listed : Names(p[1], p[2])'
  BY <1>2, <1>4 DEF Names, InUse, stores
<1>6. \A p, o \in listed : p[1] = o[1] => p = o
  OBVIOUS
<1>7. \A p \in listed : p[1] \in S \/ p[1] = Nothing
  OBVIOUS
<1>8. \A p \in listed : p[2] \in {rows[i].key : i \in S}
  OBVIOUS
<1>9. EraseNext(r, listed)
  BY DEF PurgeBegin
<1> HIDE DEF listed
<1>10. /\ GroundedAt(r)'
       /\ \A q \in Requests : q # r => req'[q] = req[q]
       /\ \A x : x \in Footprint(r)' =>
            x = Nothing \/ \E p \in listed : x = p[1] \/ x = p[2]
  BY <1>1, <1>3, <1>5, <1>6, <1>9, EraseNextGrounds
<1>11. Apart'
  <2> DEFINE T == S \cup {rows[i].key : i \in S}
  <2>1. MayTouch(T)
    BY DEF PurgeBegin
  <2>2. \A x : x \in Footprint(r)' => x \in T \/ x = Nothing
    BY <1>7, <1>8, <1>10
  <2> HIDE DEF T
  <2> QED  BY <1>10, <2>1, <2>2, StartApart
<1> QED  BY <1>4, <1>10, <1>11, GroundRead

LEMMA GroundBegin ==
  ASSUME GInv, TInv', Disjoint, NEW r \in Requests, Begin(r)
  PROVE  GInv'
BY GroundUploadBegin, GroundRestoreBegin, GroundEraseBegin, GroundPurgeBegin,
   GroundMoveBegin DEF Begin

(***************************************************************************)
(* The steps of an upload.                                                 *)
(***************************************************************************)
LEMMA GroundUploadRead ==
  ASSUME GInv, TInv', NEW r \in Requests,
         UploadRead(r) \/ UploadReadBlind(r)
  PROVE  GInv'
<1> USE FileStoreAssumption
<1>0. /\ req[r] \in Request /\ WellFormed(req[r]) /\ GroundedAt(r) /\ TInv
      /\ versioning
  BY DEF GInv, TInv, TypeOK
<1>1. /\ At(r, "upload.read") /\ req[r].id = Nothing /\ req[r].key \in Keys
      /\ req[r].purge = {}
      /\ UNCHANGED <<stores, versioning>> /\ exposed \subseteq exposed'
  BY <1>0, ZenonT(60) DEF UploadRead, UploadReadBlind, At, WellFormed, Request, history
<1>2. /\ \A k \in Keys : Lookup(k)' = Lookup(k)
      /\ \A i \in Ids : Trashed(i)' <=> Trashed(i)
  BY <1>1 DEF Lookup, Trashed, InUse, stores
<1>3. CASE Goto(r, "upload.place") /\ Lookup(req[r].key) \subseteq exposed'
  <2>1. /\ req'[r].pc = "upload.place" /\ req'[r].id = Nothing
        /\ req'[r].key = req[r].key /\ req'[r].purge = req[r].purge
        /\ Footprint(r)' = Footprint(r)
        /\ \A q \in Requests : q # r => req'[q] = req[q]
    BY <1>0, <1>1, <1>3, GotoFields, ZenonT(60)
  <2>2. GroundedAt(r)'
    BY <1>0, <1>1, <1>2, <1>3, <2>1
       DEF GroundedAt, ReadsHold, Unnamed, BytesHold, SnapshotHolds,
           MoveHolds, At, Names, InUse, stores
  <2>3. Apart'
    BY <2>1, ApartKept
  <2> QED  BY <1>1, <2>1, <2>2, <2>3, GroundRead
<1>4. ASSUME NEW i \in Lookup(req[r].key),
             NEW place \in {"snap.number", "upload.place"},
             place = "upload.place" => rows[i].sha = req[r].sha,
             req' = [req EXCEPT ![r].pc = place, ![r].id = i,
                                ![r].old = rows[i].sha]
      PROVE  GInv'
  <2> DEFINE q == [req[r] EXCEPT !.pc = place, !.id = i, !.old = rows[i].sha]
  <2>1. /\ q.pc = place /\ q.id = i /\ q.key = req[r].key
        /\ q.to = req[r].to /\ q.purge = req[r].purge /\ q.sha = req[r].sha
    BY <1>0 DEF Request
  <2>2. req'[r] = q /\ \A s \in Requests : s # r => req'[s] = req[s]
    BY <1>0, <1>4 DEF TInv, TypeOK
  <2> HIDE DEF q
  <2>3. i \in Ids /\ InUse(i) /\ rows[i].key = req[r].key
    BY DEF Lookup
  <2>4. \A s \in Requests : s # r => i \notin Footprint(s)
    BY <2>3, FootprintMember, NotOthers
  <2>5. \A x : x \in Footprint(r)' => x \in Footprint(r) \/ x = i
    BY <2>1, <2>2 DEF Footprint
  <2>6. Apart'
    BY <2>2, <2>4, <2>5, ApartStep DEF GInv, Apart
  <2>7. GroundedAt(r)'
    BY <1>0, <1>1, <1>2, <1>4, <2>1, <2>2, <2>3, ZenonT(60)
       DEF GroundedAt, ReadsHold, Unnamed, BytesHold, SnapshotHolds,
           MoveHolds, At, Names, InUse, stores
  <2> QED  BY <1>1, <2>2, <2>6, <2>7, GroundRead
<1>5. CASE UploadReadBlind(r)
  BY <1>3, <1>5 DEF UploadReadBlind
<1>6. CASE UploadRead(r)
  <2>1. CASE {i \in Lookup(req[r].key) : ~Trashed(i)} = {}
             /\ Goto(r, "upload.place")
    <3>1. Lookup(req[r].key) \subseteq exposed'
      BY <1>0, <1>1, <2>1 DEF GroundedAt, Unnamed
    <3> QED  BY <1>3, <2>1, <3>1
  <2> QED  BY <1>0, <1>4, <1>6, <2>1, ZenonT(60) DEF UploadRead
<1> QED  BY <1>5, <1>6

LEMMA GroundUploadPlace ==
  ASSUME GInv, TInv', NEW r \in Requests, UploadPlace(r)
  PROVE  GInv'
<1> USE FileStoreAssumption
<1>0. /\ req[r] \in Request /\ WellFormed(req[r]) /\ GroundedAt(r) /\ TInv
  BY DEF GInv, TInv, TypeOK
<1>1. /\ At(r, "upload.place") /\ req[r].key \in Keys
      /\ req[r].key \in Footprint(r)
      /\ Goto(r, "upload.commit")
      /\ UNCHANGED <<rows, vrows, vault, versioning, exposed>>
      /\ disk' = [disk EXCEPT ![req[r].key] = req[r].sha]
  BY <1>0, FootprintMember
     DEF UploadPlace, At, WellFormed, Request, history
<1>2. /\ req'[r].pc = "upload.commit" /\ req'[r].id = req[r].id
      /\ req'[r].key = req[r].key /\ req'[r].purge = req[r].purge
      /\ req'[r].sha = req[r].sha
      /\ \A q \in Requests : q # r => req'[q] = req[q]
  BY <1>0, <1>1, GotoFields
<1>3. disk'[req[r].key] = req[r].sha
  BY <1>1 DEF GInv, TInv, TypeOK
<1>4. /\ \A k \in Keys : Lookup(k)' = Lookup(k)
      /\ Confined(r)
  BY <1>1, <1>2 DEF Lookup, InUse, Confined, GInv, TInv, TypeOK
<1>5. GroundedAt(r)'
  BY <1>0, <1>1, <1>2, <1>3, <1>4
     DEF GroundedAt, ReadsHold, Unnamed, BytesHold, SnapshotHolds,
         MoveHolds, At, Names, InUse
<1>6. versioning' /\ KeysUnique'
  BY <1>1, KeysUniqueKept DEF GInv
<1> QED  BY <1>1, <1>4, <1>5, <1>6, GroundGoto

LEMMA OverwriteKeeps ==
  ASSUME TInv, NEW i \in Ids, InUse(i), NEW c \in Contents, Overwrite(i, c)
  PROVE  /\ \A j \in Ids : j # i => rows'[j] = rows[j]
         /\ rows'[i].key = rows[i].key /\ rows'[i].sha = c /\ rows'[i].trashed = FALSE
         /\ \A j \in Ids : InUse(j)' <=> InUse(j)
         /\ \A j \in Ids : InUse(j) => rows'[j].key = rows[j].key
<1> USE NoRowAssumption
<1>1. rows[i] \in Row
  BY DEF InUse, TInv, TypeOK
<1> DEFINE row == [rows[i] EXCEPT !.sha = c, !.trashed = FALSE]
<1>2. row \in Row /\ row.key = rows[i].key /\ row.sha = c /\ row.trashed = FALSE
  BY <1>1 DEF Row
<1>3. rows' = [rows EXCEPT ![i] = row]
  BY DEF Overwrite
<1> HIDE DEF row
<1> QED  BY <1>1, <1>2, <1>3 DEF InUse, TInv, TypeOK

LEMMA GroundUploadCommit ==
  ASSUME GInv, TInv', NEW r \in Requests, UploadCommit(r)
  PROVE  GInv'
<1> USE FileStoreAssumption, NoRowAssumption
<1>0. /\ req[r] \in Request /\ WellFormed(req[r]) /\ GroundedAt(r) /\ TInv
  BY DEF GInv, TInv, TypeOK
<1>1. /\ req[r].key \in Keys /\ req[r].sha \in Contents
      /\ req[r].key \in Footprint(r)
      /\ Finish(r) /\ UNCHANGED <<vrows, disk, versioning, exposed>>
  BY <1>0, FootprintMember
     DEF UploadCommit, At, WellFormed, WithContent, Request, history
<1>2. /\ versioning'
      /\ \A q \in Requests : q # r => req'[q] = req[q]
  BY <1>0, <1>1, FinishGrounds DEF GInv
<1>3. ASSUME NEW i \in Lookup(req[r].key), Overwrite(i, req[r].sha)
      PROVE  GInv'
  <2>1. i \in Ids /\ InUse(i) /\ rows[i].key = req[r].key
    BY DEF Lookup
  <2>2. /\ \A j \in Ids : j # i => rows'[j] = rows[j]
        /\ rows'[i].key = rows[i].key
        /\ \A j \in Ids : InUse(j)' <=> InUse(j)
        /\ \A j \in Ids : InUse(j) => rows'[j].key = rows[j].key
    BY <1>0, <1>1, <1>3, <2>1, OverwriteKeeps
  <2>3. KeysUnique'
    BY <2>2 DEF GInv, KeysUnique
  <2>4. Confined(r)
    BY <1>1, <1>2, <2>1, <2>2 DEF Confined
  <2> QED  BY <1>1, <1>2, <2>3, <2>4, GroundFinish
<1>4. ASSUME Lookup(req[r].key) = {}, NEW i \in Ids, Fresh(i),
             Insert(i, req[r].key, req[r].sha)
      PROVE  GInv'
  <2>1. /\ \A j \in Ids : j # i => rows'[j] = rows[j]
        /\ rows'[i].key = req[r].key
    BY <1>4 DEF Insert, GInv, TInv, TypeOK
  <2>2. \A j \in Ids : InUse(j) => rows[j].key # req[r].key
    BY <1>4 DEF Lookup
  <2>3. KeysUnique'
    BY <2>1, <2>2 DEF GInv, KeysUnique, InUse
  <2>4. Confined(r)
    BY <1>1, <1>2, <1>4, <2>1 DEF Confined, Fresh
  <2> QED  BY <1>1, <1>2, <2>3, <2>4, GroundFinish
<1> QED  BY <1>3, <1>4 DEF UploadCommit

(***************************************************************************)
(* The steps of a snapshot.                                                *)
(***************************************************************************)
LEMMA GroundSnapshotNumber ==
  ASSUME GInv, TInv', NEW r \in Requests, SnapshotNumber(r)
  PROVE  GInv'
<1> USE FileStoreAssumption
<1>0. /\ req[r] \in Request /\ WellFormed(req[r]) /\ GroundedAt(r) /\ TInv
  BY DEF GInv, TInv, TypeOK
<1> DEFINE m == LatestVersionNum(req[r].id) + 1
           q == [req[r] EXCEPT !.pc = "snap.move", !.num = m]
<1>1. /\ At(r, "snap.number") /\ req[r].id \in Ids
      /\ UNCHANGED <<stores, versioning, exposed>>
      /\ req' = [req EXCEPT ![r] = q]
  BY <1>0, ZenonT(60) DEF SnapshotNumber, At, WellFormed, OnFile, Places, Request, history
<1>2. \A n \in Recorded(req[r].id) : n < m
  BY <1>1, LatestIsNewest DEF Recorded, Nums
<1>3. /\ q.pc = "snap.move" /\ q.id = req[r].id /\ q.key = req[r].key
      /\ q.to = req[r].to /\ q.purge = req[r].purge /\ q.num = m
  BY <1>0 DEF Request
<1>4. req'[r] = q /\ \A s \in Requests : s # r => req'[s] = req[s]
  BY <1>1 DEF GInv, TInv, TypeOK
<1> HIDE DEF q, m
<1>5. Footprint(r)' = Footprint(r)
  BY <1>3, <1>4 DEF Footprint
<1>6. Apart'
  BY <1>4, <1>5, ApartKept
<1>7. Recorded(req[r].id)' = Recorded(req[r].id)
  BY <1>1, <1>3, <1>4 DEF Recorded, stores
<1>8. GroundedAt(r)'
  BY <1>0, <1>1, <1>2, <1>3, <1>4, <1>7
     DEF GroundedAt, ReadsHold, Unnamed, BytesHold, SnapshotHolds,
         MoveHolds, At, Names, InUse, stores
<1> QED  BY <1>1, <1>4, <1>6, <1>8, GroundRead

LEMMA GroundSnapshotMove ==
  ASSUME GInv, TInv', NEW r \in Requests, SnapshotMove(r)
  PROVE  GInv'
<1> USE FileStoreAssumption
<1>0. /\ req[r] \in Request /\ WellFormed(req[r]) /\ GroundedAt(r) /\ TInv
  BY DEF GInv, TInv, TypeOK
<1>1. /\ At(r, "snap.move") /\ req[r].id \in Ids /\ req[r].key \in Keys
      /\ req[r].key \in Footprint(r)
      /\ UNCHANGED <<rows, vrows, versioning, exposed>>
  BY <1>0, FootprintMember
     DEF SnapshotMove, At, WellFormed, OnFile, Places, Request, history
<1>2. versioning' /\ KeysUnique'
  BY <1>1, KeysUniqueKept DEF GInv
<1>3. CASE Finish(r) /\ UNCHANGED disk
  <2>1. Confined(r)
    BY <1>0, <1>1, <1>3, FinishGrounds DEF Confined
  <2> QED  BY <1>2, <1>3, <2>1, GroundFinish
<1>4. CASE Goto(r, "snap.record") /\ disk' = [disk EXCEPT ![req[r].key] = Nothing]
  <2>1. /\ req'[r].pc = "snap.record" /\ req'[r].id = req[r].id
        /\ req'[r].key = req[r].key /\ req'[r].purge = req[r].purge
        /\ req'[r].num = req[r].num
        /\ \A q \in Requests : q # r => req'[q] = req[q]
    BY <1>0, <1>4, GotoFields
  <2>2. disk'[req[r].key] = Nothing /\ Confined(r)
    BY <1>1, <1>4, <2>1 DEF Confined, GInv, TInv, TypeOK
  <2>3. Recorded(req[r].id)' = Recorded(req[r].id)
    BY <1>1, <2>1 DEF Recorded
  <2>4. GroundedAt(r)'
    BY <1>0, <1>1, <2>1, <2>2, <2>3
       DEF GroundedAt, ReadsHold, Unnamed, BytesHold, SnapshotHolds,
           MoveHolds, At, Names, InUse
  <2> QED  BY <1>2, <1>4, <2>2, <2>4, GroundGoto
<1> QED  BY <1>3, <1>4 DEF SnapshotMove

LEMMA GroundSnapshotRecord ==
  ASSUME GInv, TInv', NEW r \in Requests, SnapshotRecord(r)
  PROVE  GInv'
<1> USE FileStoreAssumption
<1>0. /\ req[r] \in Request /\ WellFormed(req[r]) /\ GroundedAt(r) /\ TInv
  BY DEF GInv, TInv, TypeOK
<1>1. /\ At(r, "snap.record") /\ req[r].id \in Ids
      /\ req[r].id \in Footprint(r)
      /\ UNCHANGED <<rows, disk, versioning, exposed>>
      /\ \A i \in Ids : i # req[r].id => vrows'[i] = vrows[i]
  BY <1>0, FootprintMember
     DEF SnapshotRecord, At, WellFormed, OnFile, Places, Request, history,
         TInv, TypeOK
<1>2. versioning' /\ KeysUnique'
  BY <1>1, KeysUniqueKept DEF GInv
<1>3. CASE Finish(r)
  <2>1. Confined(r)
    BY <1>0, <1>1, <1>3, FinishGrounds DEF Confined
  <2> QED  BY <1>2, <1>3, <2>1, GroundFinish
<1>4. CASE Goto(r, "prune.list")
  <2>1. /\ req'[r].pc = "prune.list" /\ req'[r].id = req[r].id
        /\ req'[r].key = req[r].key /\ req'[r].purge = req[r].purge
        /\ \A q \in Requests : q # r => req'[q] = req[q]
    BY <1>0, <1>4, GotoFields
  <2>2. Confined(r)
    BY <1>1, <2>1 DEF Confined
  <2>3. GroundedAt(r)'
    BY <1>0, <1>1, <2>1
       DEF GroundedAt, ReadsHold, Unnamed, BytesHold, SnapshotHolds,
           MoveHolds, At, Names, InUse
  <2> QED  BY <1>2, <1>4, <2>2, <2>3, GroundGoto
<1> QED  BY <1>3, <1>4 DEF SnapshotRecord

LEMMA GroundPrune ==
  ASSUME GInv, TInv', NEW r \in Requests,
         PruneList(r) \/ PruneContent(r) \/ PruneRow(r)
  PROVE  GInv'
<1> USE FileStoreAssumption
<1>0. /\ req[r] \in Request /\ WellFormed(req[r]) /\ GroundedAt(r) /\ TInv
      /\ req \in [Requests -> Request]
  BY DEF GInv, TInv, TypeOK
<1>1. /\ At(r, "prune.list") \/ At(r, "prune.content") \/ At(r, "prune.row")
      /\ req[r].id \in Ids /\ req[r].id \in Footprint(r)
      /\ UNCHANGED <<rows, disk, versioning, exposed>>
      /\ \A i \in Ids : i # req[r].id => vrows'[i] = vrows[i]
  <2>1. /\ At(r, "prune.list") \/ At(r, "prune.content") \/ At(r, "prune.row")
        /\ UNCHANGED <<rows, disk, versioning, exposed>>
    BY DEF PruneList, PruneContent, PruneRow, stores, history
  <2>2. req[r].id \in Ids /\ req[r].id \in Footprint(r)
    BY <1>0, <2>1, FootprintMember DEF At, WellFormed, OnFile, Places, Request
  <2>3. \/ vrows' = vrows
        \/ \E n : vrows' = [vrows EXCEPT ![req[r].id][n] = Nothing]
    BY DEF PruneList, PruneContent, PruneRow, stores
  <2> QED  BY <2>1, <2>2, <2>3 DEF GInv, TInv, TypeOK
<1>2. versioning' /\ KeysUnique'
  BY <1>1, KeysUniqueKept DEF GInv
<1>3. disk[req[r].key] = Nothing
  BY <1>0, <1>1 DEF GroundedAt, BytesHold, At
<1>4. ASSUME NEW place \in {"prune.row", "prune.content", AfterSnapshot(r)},
             /\ req'[r].pc = place
             /\ req'[r].id = req[r].id /\ req'[r].key = req[r].key
             /\ req'[r].to = req[r].to /\ req'[r].purge = req[r].purge
             /\ \A q \in Requests : q # r => req'[q] = req[q]
             /\ Footprint(r)' = Footprint(r)
      PROVE  GInv'
  <2>1. Confined(r)
    BY <1>1, <1>4 DEF Confined
  <2>2. GroundedAt(r)'
    BY <1>0, <1>1, <1>3, <1>4
       DEF AfterSnapshot, GroundedAt, ReadsHold, Unnamed, BytesHold,
           SnapshotHolds, MoveHolds, At, Names, InUse
  <2>3. Apart'
    BY <1>4, ApartKept
  <2> QED  BY <1>2, <2>1, <2>2, <2>3, GroundStep
<1>5. CASE PruneList(r)
  <2> DEFINE place == IF Surplus(req[r].id) = {} THEN AfterSnapshot(r)
                                                 ELSE "prune.content"
  <2>1. GotoWith(r, place, Surplus(req[r].id))
    BY <1>5 DEF PruneList
  <2>2. place \in {"prune.content", AfterSnapshot(r)} /\ place \in Places
        /\ Surplus(req[r].id) \in SUBSET Nums
    BY DEF AfterSnapshot, Places, Surplus, Recorded
  <2> HIDE DEF place
  <2>3. /\ req'[r].pc = place
        /\ req'[r].id = req[r].id /\ req'[r].key = req[r].key
        /\ req'[r].to = req[r].to /\ req'[r].purge = req[r].purge
        /\ \A q \in Requests : q # r => req'[q] = req[q]
        /\ Footprint(r)' = Footprint(r)
    BY <1>0, <2>1, <2>2, NumsFields
  <2> QED  BY <1>4, <2>2, <2>3
<1>6. CASE PruneContent(r)
  BY <1>0, <1>4, <1>6, GotoFields, ZenonT(60) DEF PruneContent
<1>7. CASE PruneRow(r)
  <2>1. CASE Finish(r)
    <3>1. Confined(r)
      BY <1>0, <1>1, <2>1, FinishGrounds DEF Confined
    <3> QED  BY <1>2, <2>1, <3>1, GroundFinish
  <2>2. ASSUME NEW n,
               GotoWith(r, IF req[r].nums = {n} THEN AfterSnapshot(r)
                                                ELSE "prune.content",
                        req[r].nums \ {n})
        PROVE  GInv'
    <3> DEFINE place == IF req[r].nums = {n} THEN AfterSnapshot(r)
                                             ELSE "prune.content"
               rest == req[r].nums \ {n}
    <3>1. GotoWith(r, place, rest)
      BY <2>2
    <3>2. place \in {"prune.content", AfterSnapshot(r)} /\ place \in Places
          /\ rest \in SUBSET Nums
      BY <1>0 DEF AfterSnapshot, Places, Request
    <3> HIDE DEF place, rest
    <3>3. /\ req'[r].pc = place
          /\ req'[r].id = req[r].id /\ req'[r].key = req[r].key
          /\ req'[r].to = req[r].to /\ req'[r].purge = req[r].purge
          /\ \A q \in Requests : q # r => req'[q] = req[q]
          /\ Footprint(r)' = Footprint(r)
      BY <1>0, <3>1, <3>2, NumsFields, ZenonT(60)
    <3> QED  BY <1>4, <3>2, <3>3
  <2> QED  BY <1>0, <1>7, <2>1, <2>2 DEF PruneRow
<1> QED  BY <1>5, <1>6, <1>7

(***************************************************************************)
(* The steps of a restore.                                                 *)
(***************************************************************************)
LEMMA GroundRestore ==
  ASSUME GInv, TInv', NEW r \in Requests,
         RestoreDiscard(r) \/ RestorePlace(r) \/ RestoreRow(r)
  PROVE  GInv'
<1> USE FileStoreAssumption
<1>0. /\ req[r] \in Request /\ WellFormed(req[r]) /\ GroundedAt(r) /\ TInv
  BY DEF GInv, TInv, TypeOK
<1>1. /\ At(r, "restore.place") \/ At(r, "restore.row")
      /\ req[r].id \in Ids /\ req[r].key \in Keys
      /\ req[r].id \in Footprint(r) /\ req[r].key \in Footprint(r)
      /\ UNCHANGED <<rows, versioning, exposed>>
      /\ ~RestoreDiscard(r)
  BY <1>0, FootprintMember
     DEF RestoreDiscard, RestorePlace, RestoreRow, At, WellFormed, OnFile,
         Places, Request, history, GroundedAt, BytesHold
<1>2. /\ \A k \in Keys : k # req[r].key => disk'[k] = disk[k]
      /\ \A i \in Ids : i # req[r].id => vrows'[i] = vrows[i]
  BY <1>1 DEF RestorePlace, RestoreRow, TInv, TypeOK, GInv
<1>3. versioning' /\ KeysUnique'
  BY <1>1, KeysUniqueKept DEF GInv
<1>4. CASE Finish(r)
  <2>1. Confined(r)
    BY <1>0, <1>1, <1>2, <1>4, FinishGrounds DEF Confined
  <2> QED  BY <1>3, <1>4, <2>1, GroundFinish
<1>5. ASSUME NEW place \in {"restore.row", "restore.commit"}, Goto(r, place)
      PROVE  GInv'
  <2>1. /\ req'[r].pc = place /\ req'[r].id = req[r].id
        /\ req'[r].key = req[r].key /\ req'[r].purge = req[r].purge
        /\ \A q \in Requests : q # r => req'[q] = req[q]
    BY <1>0, <1>5, GotoFields, ZenonT(60)
  <2>2. Confined(r)
    BY <1>1, <1>2, <2>1 DEF Confined
  <2>3. GroundedAt(r)'
    BY <1>0, <1>1, <2>1
       DEF GroundedAt, ReadsHold, Unnamed, BytesHold, SnapshotHolds,
           MoveHolds, At, Names, InUse
  <2> QED  BY <1>3, <1>5, <2>2, <2>3, GroundGoto
<1> QED  BY <1>1, <1>4, <1>5 DEF RestorePlace, RestoreRow

LEMMA GroundRestoreCommit ==
  ASSUME GInv, TInv', NEW r \in Requests, RestoreCommit(r)
  PROVE  /\ GInv'
         /\ Lookup(req[r].key) = {req[r].id}
         /\ Overwrite(req[r].id, req[r].sha)
<1> USE FileStoreAssumption
<1>0. /\ req[r] \in Request /\ WellFormed(req[r]) /\ GroundedAt(r) /\ TInv
  BY DEF GInv, TInv, TypeOK
<1>1. /\ req[r].key \in Keys /\ req[r].sha \in Contents /\ req[r].id \in Ids
      /\ req[r].key \in Footprint(r)
      /\ Finish(r) /\ UNCHANGED <<vrows, disk, versioning>>
      /\ exposed \subseteq exposed'
  BY <1>0, FootprintMember
     DEF RestoreCommit, At, WellFormed, WithContent, OnFile, Places, Request
<1>2. /\ versioning'
      /\ \A q \in Requests : q # r => req'[q] = req[q]
  BY <1>0, <1>1, FinishGrounds DEF GInv
<1>3. Names(req[r].id, req[r].key)
  BY <1>0, <1>1 DEF GroundedAt, ReadsHold
<1>4. Lookup(req[r].key) = {req[r].id}
  BY <1>1, <1>3 DEF Lookup, Names, GInv, KeysUnique
<1> DEFINE i == req[r].id
<1>5. Overwrite(i, req[r].sha)
  BY <1>4 DEF RestoreCommit
<1>6. i \in Ids /\ InUse(i) /\ rows[i].key = req[r].key
  BY <1>1, <1>3 DEF Names
<1>7. /\ \A j \in Ids : j # i => rows'[j] = rows[j]
      /\ rows'[i].key = rows[i].key
      /\ \A j \in Ids : InUse(j)' <=> InUse(j)
      /\ \A j \in Ids : InUse(j) => rows'[j].key = rows[j].key
  <2> HIDE DEF i
  <2> QED  BY <1>0, <1>1, <1>5, <1>6, OverwriteKeeps
<1>8. KeysUnique'
  BY <1>7 DEF GInv, KeysUnique
<1>9. Confined(r)
  BY <1>1, <1>2, <1>6, <1>7 DEF Confined
<1> QED  BY <1>1, <1>2, <1>4, <1>5, <1>8, <1>9, GroundFinish

(***************************************************************************)
(* The steps of a permanent deletion.                                      *)
(***************************************************************************)
LEMMA GroundErase ==
  ASSUME GInv, TInv', NEW r \in Requests,
         EraseContent(r) \/ EraseList(r) \/ EraseVault(r) \/ EraseHistory(r)
  PROVE  GInv'
<1> USE FileStoreAssumption
<1>0. /\ req[r] \in Request /\ WellFormed(req[r]) /\ GroundedAt(r) /\ TInv
  BY DEF GInv, TInv, TypeOK
<1>1. /\ At(r, "erase.content") \/ At(r, "erase.list") \/ At(r, "erase.vault")
           \/ At(r, "erase.history")
      /\ UNCHANGED <<rows, versioning, exposed>>
  BY DEF EraseContent, EraseList, EraseVault, EraseHistory, stores, history
<1>2. /\ req[r].id \in Ids /\ req[r].key \in Keys
      /\ req[r].id \in Footprint(r) /\ req[r].key \in Footprint(r)
  BY <1>0, <1>1, FootprintMember DEF At, WellFormed, OnFile, Places, Request
<1>3. /\ \A k \in Keys : k # req[r].key => disk'[k] = disk[k]
      /\ \A i \in Ids : i # req[r].id => vrows'[i] = vrows[i]
  BY DEF EraseContent, EraseList, EraseVault, EraseHistory, ForgetVersions,
         stores, GInv, TInv, TypeOK
<1>4. versioning' /\ KeysUnique'
  BY <1>1, KeysUniqueKept DEF GInv
<1>5. ASSUME NEW place \in {"erase.list", "erase.vault", "erase.history",
                            "erase.file"},
             /\ req'[r].pc = place
             /\ req'[r].id = req[r].id /\ req'[r].key = req[r].key
             /\ req'[r].purge = req[r].purge
             /\ \A q \in Requests : q # r => req'[q] = req[q]
             /\ Footprint(r)' = Footprint(r)
      PROVE  GInv'
  <2>1. Confined(r)
    BY <1>1, <1>2, <1>3, <1>5 DEF Confined
  <2>2. GroundedAt(r)'
    BY <1>0, <1>1, <1>5
       DEF GroundedAt, ReadsHold, Unnamed, BytesHold, SnapshotHolds,
           MoveHolds, At, Names, InUse
  <2>3. Apart'
    BY <1>5, ApartKept
  <2> QED  BY <1>4, <2>1, <2>2, <2>3, GroundStep
<1>6. CASE EraseContent(r)
  BY <1>0, <1>5, <1>6, GotoFields, ZenonT(60) DEF EraseContent
<1>7. CASE EraseHistory(r)
  BY <1>0, <1>5, <1>7, GotoFields DEF EraseHistory
<1>8. ASSUME NEW place \in {"erase.vault", "erase.history"},
             NEW nums \in SUBSET Nums, GotoWith(r, place, nums)
      PROVE  GInv'
  <2>1. place \in Places
    BY DEF Places
  <2>2. /\ req'[r].pc = place
        /\ req'[r].id = req[r].id /\ req'[r].key = req[r].key
        /\ req'[r].purge = req[r].purge
        /\ \A q \in Requests : q # r => req'[q] = req[q]
        /\ Footprint(r)' = Footprint(r)
    BY <1>0, <1>8, <2>1, NumsFields
  <2> QED  BY <1>5, <2>2
<1>9. CASE EraseList(r)
  <2>1. Recorded(req[r].id) \in SUBSET Nums
    BY DEF Recorded
  <2> QED  BY <1>8, <1>9, <2>1 DEF EraseList
<1>10. CASE EraseVault(r)
  <2>1. PICK n \in Newest(req[r].nums) :
          GotoWith(r, IF req[r].nums = {n} THEN "erase.history"
                                           ELSE "erase.vault",
                   req[r].nums \ {n})
    BY <1>10 DEF EraseVault
  <2> DEFINE rest == req[r].nums \ {n}
  <2>2. rest \in SUBSET Nums
    BY <1>0 DEF Request
  <2>3. \/ GotoWith(r, "erase.history", rest)
        \/ GotoWith(r, "erase.vault", rest)
    BY <2>1
  <2> HIDE DEF rest
  <2> QED  BY <1>8, <2>2, <2>3
<1> QED  BY <1>6, <1>7, <1>9, <1>10

LEMMA GroundEraseFile ==
  ASSUME GInv, TInv', NEW r \in Requests, EraseFile(r)
  PROVE  GInv'
<1> USE FileStoreAssumption, NoRowAssumption
<1>0. /\ req[r] \in Request /\ WellFormed(req[r]) /\ GroundedAt(r) /\ TInv
      /\ versioning'
  BY DEF GInv, TInv, TypeOK, EraseFile
<1>i. PICK i : i = req[r].id
  OBVIOUS
<1>1. /\ At(r, "erase.file") /\ i \in Ids /\ i \in Footprint(r)
      /\ UNCHANGED <<disk, versioning>>
  BY <1>0, <1>i, FootprintMember
     DEF EraseFile, At, WellFormed, OnFile, Places, Request
<1>2. Names(i, req[r].key) /\ req[r].key \in Footprint(r)
  BY <1>0, <1>1, <1>i, FootprintMember DEF GroundedAt, ReadsHold
<1>3. /\ rows' = [rows EXCEPT ![i] = NoRow] /\ ForgetVersions(i)
      /\ exposed' = exposed \ {i}
      /\ \/ req[r].purge = {} /\ Finish(r)
         \/ req[r].purge # {} /\ EraseNext(r, req[r].purge)
  BY <1>2, <1>i DEF EraseFile, Names
<1>4. /\ \A j \in Ids : j # i => rows'[j] = rows[j] /\ vrows'[j] = vrows[j]
      /\ ~InUse(i)'
  BY <1>1, <1>3 DEF ForgetVersions, InUse, GInv, TInv, TypeOK
<1>5. KeysUnique'
  BY <1>4 DEF GInv, KeysUnique, InUse
<1>6. ASSUME \A q \in Requests : q # r => req'[q] = req[q]
      PROVE  Confined(r)
  BY <1>1, <1>2, <1>3, <1>4, <1>6 DEF Confined, Names
<1>7. CASE Finish(r)
  BY <1>0, <1>5, <1>6, <1>7, FinishGrounds, GroundFinish
<1>8. CASE EraseNext(r, req[r].purge)
  <2>1. req[r].purge \in SUBSET (Ids \X Keys)
    BY <1>0 DEF Request
  <2>2. \A p \in req[r].purge : Names(p[1], p[2]) /\ p[1] # i /\ p[1] \in Ids
    BY <1>0, <1>i, <2>1 DEF GroundedAt, ReadsHold
  <2>3. \A p \in req[r].purge : (rows'[p[1]] # NoRow /\ rows'[p[1]].key = p[2])
    BY <1>4, <2>2 DEF Names, InUse
  <2>4. \A p, o \in req[r].purge : p[1] = o[1] => p = o
    BY <2>1, <2>2 DEF Names
  <2> DEFINE listed == req[r].purge
  <2>5. /\ GroundedAt(r)'
        /\ \A q \in Requests : q # r => req'[q] = req[q]
        /\ \A x : x \in Footprint(r)' =>
             x = Nothing \/ \E p \in listed : x = p[1] \/ x = p[2]
    <3>1. PICK L : L = listed
      OBVIOUS
    <3>2. \A p \in L : Names(p[1], p[2])'
      BY <2>3, <3>1 DEF Names, InUse
    <3>3. /\ L \in SUBSET (Ids \X Keys) /\ EraseNext(r, L)
          /\ \A p, o \in L : p[1] = o[1] => p = o
      BY <1>8, <2>1, <2>4, <3>1
    <3>4. /\ GroundedAt(r)'
          /\ \A q \in Requests : q # r => req'[q] = req[q]
          /\ \A x : x \in Footprint(r)' =>
               x = Nothing \/ \E p \in L : x = p[1] \/ x = p[2]
      BY <1>0, <3>2, <3>3, EraseNextGrounds
    <3> QED  BY <3>1, <3>4
  <2>6. \A x : x \in Footprint(r)' => x \in Footprint(r) \/ x = Nothing
    BY <2>5, FootprintMember
  <2>7. Apart'
    BY <2>5, <2>6, ApartKept
  <2> QED  BY <1>0, <1>5, <1>6, <2>5, <2>7, GroundStep
<1> QED  BY <1>3, <1>7, <1>8

(***************************************************************************)
(* The steps of a move.                                                    *)
(***************************************************************************)
LEMMA GroundMove ==
  ASSUME GInv, TInv', NEW r \in Requests,
         MoveRename(r) \/ MoveRow(r) \/ MoveUndo(r)
  PROVE  GInv'
<1> USE FileStoreAssumption, NoRowAssumption
<1>0. /\ req[r] \in Request /\ WellFormed(req[r]) /\ GroundedAt(r) /\ TInv
  BY DEF GInv, TInv, TypeOK
<1>1. /\ At(r, "move.rename") \/ At(r, "move.row") \/ At(r, "move.undo")
      /\ UNCHANGED <<vrows, versioning, exposed>> /\ versioning'
  BY DEF MoveRename, MoveRow, MoveUndo, history, GInv
<1>2. /\ req[r].id \in Ids /\ req[r].key \in Keys /\ req[r].to \in Keys
      /\ req[r].id \in Footprint(r) /\ req[r].key \in Footprint(r)
      /\ req[r].to \in Footprint(r)
      /\ Names(req[r].id, req[r].key) /\ Lookup(req[r].to) = {}
  BY <1>0, <1>1, FootprintMember
     DEF At, WellFormed, OnFile, Places, Request, GroundedAt, ReadsHold,
         MoveHolds
<1>3. \A k \in Keys : k # req[r].key /\ k # req[r].to => disk'[k] = disk[k]
  BY DEF MoveRename, MoveRow, MoveUndo, Rename, GInv, TInv, TypeOK
<1>4. ASSUME UNCHANGED rows, Finish(r)  PROVE GInv'
  <2>1. KeysUnique'
    BY <1>4, KeysUniqueKept
  <2>2. Confined(r)
    BY <1>0, <1>1, <1>2, <1>3, <1>4, FinishGrounds DEF Confined
  <2> QED  BY <1>1, <1>4, <2>1, <2>2, GroundFinish
<1>5. ASSUME UNCHANGED rows, NEW place \in {"move.row", "move.undo"},
             Goto(r, place)
      PROVE  GInv'
  <2>1. /\ req'[r].pc = place /\ req'[r].id = req[r].id
        /\ req'[r].key = req[r].key /\ req'[r].to = req[r].to
        /\ req'[r].purge = req[r].purge
        /\ \A q \in Requests : q # r => req'[q] = req[q]
    BY <1>0, <1>5, GotoFields, ZenonT(60)
  <2>2. KeysUnique' /\ Confined(r)
    BY <1>1, <1>2, <1>3, <1>5, <2>1, KeysUniqueKept DEF Confined
  <2>3. \A k \in Keys : Lookup(k)' = Lookup(k)
    BY <1>5 DEF Lookup, InUse
  <2>4. GroundedAt(r)'
    BY <1>0, <1>1, <1>2, <1>5, <2>1, <2>3
       DEF GroundedAt, ReadsHold, Unnamed, BytesHold, SnapshotHolds,
           MoveHolds, At, Names, InUse
  <2> QED  BY <1>1, <1>5, <2>2, <2>4, GroundGoto
<1>6. CASE MoveRename(r)
  BY <1>4, <1>5, <1>6 DEF MoveRename
<1>7. CASE MoveUndo(r)
  BY <1>4, <1>7 DEF MoveUndo
<1>8. CASE MoveRow(r)
  <2>1. /\ rows' = [rows EXCEPT ![req[r].id].key = req[r].to]
        /\ Finish(r) /\ disk' = disk
    BY <1>2, <1>8 DEF MoveRow, Names
  <2>2. /\ \A j \in Ids : j # req[r].id => rows'[j] = rows[j]
        /\ rows'[req[r].id].key = req[r].to
    <3>1. rows[req[r].id] \in Row
      BY <1>2 DEF Names, InUse, GInv, TInv, TypeOK
    <3> DEFINE row == [rows[req[r].id] EXCEPT !.key = req[r].to]
    <3>2. row.key = req[r].to
      BY <3>1 DEF Row
    <3>3. rows' = [rows EXCEPT ![req[r].id] = row]
      BY <2>1
    <3> HIDE DEF row
    <3> QED  BY <1>2, <3>2, <3>3 DEF GInv, TInv, TypeOK
  <2>3. \A j \in Ids : InUse(j) => rows[j].key # req[r].to
    BY <1>2 DEF Lookup
  <2>4. KeysUnique'
    BY <2>2, <2>3 DEF GInv, KeysUnique, InUse
  <2>5. Confined(r)
    BY <1>0, <1>1, <1>2, <2>1, <2>2, FinishGrounds DEF Confined, Names
  <2> QED  BY <1>1, <2>1, <2>4, <2>5, GroundFinish
<1> QED  BY <1>6, <1>7, <1>8

(***************************************************************************)
(* The trash, failures and the whole step.                                 *)
(***************************************************************************)
LEMMA GroundTrash ==
  ASSUME GInv, TInv', Disjoint, NEW i \in Ids, Delete(i) \/ RestoreFile(i)
  PROVE  GInv'
<1> USE FileStoreAssumption, NoRowAssumption
<1>1. PICK flag \in BOOLEAN : SetTrashed(i, flag)
  BY DEF Delete, RestoreFile
<1>2. /\ UNCHANGED <<vrows, disk, vault, versioning, req>>
      /\ exposed' = exposed /\ InUse(i) /\ MayTouch({i, rows[i].key})
      /\ rows' = [rows EXCEPT ![i].trashed = flag]
  BY <1>1 DEF SetTrashed, history
<1>3. rows[i] \in Row /\ rows[i].key \in Keys
  BY <1>2 DEF GInv, TInv, TypeOK, InUse, Row
<1> DEFINE row == [rows[i] EXCEPT !.trashed = flag]
<1>4. row.key = rows[i].key /\ row # NoRow
  BY <1>3 DEF Row
<1>5. rows' = [rows EXCEPT ![i] = row]
  BY <1>2
<1> HIDE DEF row
<1>6. /\ \A j \in Ids : j # i => rows'[j] = rows[j]
      /\ rows'[i].key = rows[i].key /\ rows'[i] # NoRow
  BY <1>4, <1>5 DEF GInv, TInv, TypeOK
<1>7. KeysUnique'
  BY <1>2, <1>6 DEF GInv, KeysUnique, InUse
<1>8. Apart'
  BY <1>2 DEF GInv, Apart, Footprint
<1>9. \A q \in Requests : i \notin Footprint(q) /\ rows[i].key \notin Footprint(q)
  <2>1. i # Nothing /\ rows[i].key # Nothing
    BY <1>3
  <2> QED  BY <1>2, <2>1 DEF MayTouch
<1>10. ASSUME NEW q \in Requests  PROVE GroundedAt(q)'
  <2>1. \A j \in Ids : \/ rows'[j] = rows[j]
                       \/ /\ j \notin Footprint(q)
                          /\ InUse(j) => rows[j].key \notin Footprint(q)
                          /\ InUse(j)' => rows'[j].key \notin Footprint(q)
    BY <1>6, <1>9
  <2> QED  BY <1>2, <2>1, GroundFrame
<1> QED  BY <1>2, <1>7, <1>8, <1>10 DEF GInv

LEMMA GroundFailure ==
  ASSUME GInv, TInv', Crash \/ \E r \in Requests : Fail(r)
  PROVE  GInv'
<1> USE FileStoreAssumption
<1>1. CASE Crash
  <2>1. /\ \A r \in Requests : req'[r] = Idle
        /\ UNCHANGED <<rows, vrows, disk, vault, versioning>>
    BY <1>1 DEF Crash, stores
  <2>2. \A r \in Requests : /\ req'[r].pc = "idle" /\ req'[r].id = Nothing
                            /\ req'[r].purge = {} /\ req'[r].key = Nothing
                            /\ req'[r].to = Nothing
    BY <2>1 DEF Idle
  <2>3. Apart'
    BY <2>2 DEF Apart, Footprint
  <2>4. \A r \in Requests : GroundedAt(r)'
    BY <2>2 DEF GroundedAt, ReadsHold, Unnamed, BytesHold, SnapshotHolds,
                MoveHolds, At
  <2> QED  BY <2>1, <2>3, <2>4, KeysUniqueKept DEF GInv
<1>2. ASSUME NEW r \in Requests, Fail(r)  PROVE GInv'
  <2>0. TInv /\ GroundedAt(r)
    BY DEF GInv
  <2>1. UNCHANGED <<stores, versioning>> /\ exposed \subseteq exposed'
    BY <1>2 DEF Fail
  <2>2. CASE Finish(r)
    <3>1. /\ GroundedAt(r)'
          /\ \A x : x \in Footprint(r)' => x = Nothing
          /\ \A q \in Requests : q # r => req'[q] = req[q]
      BY <2>0, <2>2, FinishGrounds
    <3>2. Apart'
      BY <3>1, ApartKept
    <3> QED  BY <2>1, <3>1, <3>2, GroundRead
  <2>3. CASE At(r, "move.row") /\ Goto(r, "move.undo")
    <3>1. /\ req'[r].pc = "move.undo"
          /\ req'[r].id = req[r].id /\ req'[r].key = req[r].key
          /\ req'[r].to = req[r].to
          /\ req'[r].purge = req[r].purge
          /\ Footprint(r)' = Footprint(r)
          /\ \A q \in Requests : q # r => req'[q] = req[q]
      BY <2>0, <2>3, GotoFields, ZenonT(60)
    <3>2. Apart'
      BY <3>1, ApartKept
    <3>3. \A k \in Keys : Lookup(k)' = Lookup(k)
      BY <2>1 DEF Lookup, InUse, stores
    <3>4. req[r].to \in Keys
      <4>1. req[r] \in Request /\ WellFormed(req[r])
        BY <2>0 DEF TInv, TypeOK
      <4> QED  BY <2>3, <4>1 DEF At, WellFormed, Request
    <3>5. GroundedAt(r)'
      BY <2>0, <2>1, <2>3, <3>1, <3>3, <3>4
         DEF GroundedAt, ReadsHold, Unnamed, BytesHold, SnapshotHolds,
             MoveHolds, At, Names, InUse, stores
    <3> QED  BY <2>1, <3>1, <3>2, <3>5, GroundRead
  <2> QED  BY <1>2, <2>2, <2>3 DEF Fail
<1> QED  BY <1>1, <1>2

LEMMA GroundInit == Init => GInv
<1> SUFFICES ASSUME Init  PROVE GInv
  OBVIOUS
<1>1. TInv
  BY TypeInit
<1>2. \A r \in Requests : /\ req[r].pc = "idle" /\ req[r].id = Nothing
                          /\ req[r].purge = {} /\ req[r].key = Nothing
                          /\ req[r].to = Nothing
  BY DEF Init, Idle
<1>3. Apart
  BY <1>2 DEF Apart, Footprint
<1>4. \A r \in Requests : GroundedAt(r)
  BY <1>2 DEF GroundedAt, ReadsHold, Unnamed, BytesHold, SnapshotHolds,
              MoveHolds, At
<1> QED  BY <1>1, <1>3, <1>4 DEF GInv, KeysUnique, InUse, Init

LEMMA GroundNext ==
  ASSUME Disjoint, "reconfigure" \notin Ops, GInv, [Next]_vars
  PROVE  GInv'
<1>0. TInv'
  BY TypeStep DEF GInv
<1>1. ASSUME NEW r \in Requests, Begin(r)  PROVE GInv'
  BY <1>0, <1>1, GroundBegin
<1>2. ASSUME NEW r \in Requests, Step(r)  PROVE GInv'
  BY <1>0, <1>2, GroundUploadRead, GroundUploadPlace, GroundUploadCommit,
     GroundSnapshotNumber, GroundSnapshotMove, GroundSnapshotRecord,
     GroundPrune, GroundRestore, GroundRestoreCommit, GroundErase,
     GroundEraseFile, GroundMove
     DEF Step
<1>3. ASSUME NEW i \in Ids, Delete(i) \/ RestoreFile(i)  PROVE GInv'
  BY <1>0, <1>3, GroundTrash
<1>4. CASE Reconfigure
  BY <1>4 DEF Reconfigure
<1>5. CASE UNCHANGED vars
  <2>1. Apart' /\ KeysUnique' /\ versioning'
    BY <1>5, ZenonT(60) DEF vars, GInv, Apart, Footprint, KeysUnique, InUse
  <2>2. ASSUME NEW r \in Requests  PROVE GroundedAt(r)'
    BY <1>5, GroundFrame DEF vars
  <2> QED  BY <1>0, <2>1, <2>2 DEF GInv
<1> QED  BY <1>0, <1>1, <1>2, <1>3, <1>4, <1>5, GroundFailure DEF Next

\* Requests that keep apart when they start stay apart to their end: every
\* handler still finds, at each of its steps, the row it read and the bytes it
\* put in place.
THEOREM RequestsGrounded ==
  ASSUME Disjoint, "reconfigure" \notin Ops
  PROVE  Spec => []GInv
<1>1. GInv /\ [Next]_vars => GInv'
  BY GroundNext
<1> QED  BY <1>1, GroundInit, PTL DEF Spec

(***************************************************************************)
(* The request that works on a file.                                       *)
(***************************************************************************)
LEMMA WorkerIs ==
  ASSUME Apart, NEW r \in Requests, NEW i, i # Nothing, req[r].id = i
  PROVE  Worker(i) = req[r]
<1> DEFINE c == CHOOSE q \in Requests : req[q].id = i
<1>1. c \in Requests /\ req[c].id = i
  OBVIOUS
<1>2. i \in Footprint(c) /\ i \in Footprint(r)
  BY <1>1, FootprintMember
<1>3. c = r
  BY <1>1, <1>2 DEF Apart
<1> QED  BY <1>3 DEF Worker

LEMMA WorkerIsNext ==
  ASSUME Apart', NEW r \in Requests, NEW i, i # Nothing, req'[r].id = i
  PROVE  Worker(i)' = req'[r]
<1>0. PICK c : c = (CHOOSE q \in Requests : req'[q].id = i)
  OBVIOUS
<1>1. c \in Requests /\ req'[c].id = i
  BY <1>0
<1>2. i \in Footprint(c)' /\ i \in Footprint(r)'
  BY <1>1 DEF Footprint
<1>3. c = r
  BY <1>1, <1>2 DEF Apart
<1> QED  BY <1>0, <1>3 DEF Worker

LEMMA NoWorker ==
  ASSUME NEW i
  PROVE  /\ (\A r \in Requests : req[r].id # i) => Worker(i) = Idle
         /\ (\A r \in Requests : req'[r].id # i) => Worker(i)' = Idle
<1>1. Idle' = Idle
  BY DEF Idle
<1> QED  BY <1>1 DEF Worker

LEMMA WorkerKept ==
  ASSUME Apart, Apart', NEW r \in Requests, NEW i, i # Nothing,
         \A q \in Requests : q # r => req'[q] = req[q],
         req[r].id # i, req'[r].id # i
  PROVE  Worker(i)' = Worker(i)
<1>1. CASE \E q \in Requests : req[q].id = i
  <2>1. PICK q \in Requests : req[q].id = i
    BY <1>1
  <2>2. q # r /\ req'[q] = req[q]
    BY <2>1
  <2>3. Worker(i) = req[q] /\ Worker(i)' = req'[q]
    BY <2>1, <2>2, WorkerIs, WorkerIsNext
  <2> QED  BY <2>2, <2>3
<1>2. CASE ~\E q \in Requests : req[q].id = i
  <2>1. \A q \in Requests : req[q].id # i /\ req'[q].id # i
    BY <1>2
  <2> QED  BY <2>1, NoWorker
<1> QED  BY <1>1, <1>2

\* The file a request has read.
LEMMA OwnFile ==
  ASSUME GInv, NEW r \in Requests, NEW i, i = req[r].id, i # Nothing
  PROVE  /\ i \in Ids /\ InUse(i) /\ Worker(i) = req[r]
         /\ rows[i].key = req[r].key /\ rows[i].key \in Keys
         /\ rows[i].sha \in Contents
         /\ req[r].key # Nothing
<1> USE FileStoreAssumption
<1>1. req[r] \in Request /\ GroundedAt(r) /\ Apart
  BY DEF GInv, TInv, TypeOK
<1>2. i \in Ids /\ Names(i, req[r].key)
  BY <1>1 DEF Request, GroundedAt, ReadsHold
<1>3. rows[i] \in Row
  BY <1>2 DEF Names, InUse, GInv, TInv, TypeOK
<1>4. rows[i].key \in Keys /\ rows[i].sha \in Contents
  BY <1>3 DEF Row
<1> QED  BY <1>1, <1>2, <1>4, WorkerIs DEF Names

(***************************************************************************)
(* Counting the newer versions.                                            *)
(***************************************************************************)
LEMMA NumsFinite ==
  ASSUME NEW S, S \subseteq Nums
  PROVE  IsFiniteSet(S) /\ Cardinality(S) \in Nat
<1>1. IsFiniteSet(Nums)
  BY FileStoreAssumption, FS_Interval DEF Nums
<1> QED  BY <1>1, FS_Subset, FS_CardinalityType

LEMMA NewerCount ==
  ASSUME NEW i, NEW n
  PROVE  /\ Newer(i, n) \subseteq Nums /\ Cardinality(Newer(i, n)) \in Nat
         /\ Newer(i, n)' \subseteq Nums /\ Cardinality(Newer(i, n))' \in Nat
<1>1. Newer(i, n) \subseteq Nums /\ Newer(i, n)' \subseteq Nums
  BY DEF Newer, Recorded
<1> QED  BY <1>1, NumsFinite

LEMMA Counters ==
  ASSUME NEW i
  PROVE  /\ Shadow(i) \in {0, 1} /\ Placed(i) \in {0, 1}
         /\ Shadow(i)' \in {0, 1} /\ Placed(i)' \in {0, 1}
BY DEF Shadow, Placed

(***************************************************************************)
(* A step that leaves the row, the path and the history of a file alone.   *)
(***************************************************************************)
LEMMA SafeFrame ==
  ASSUME NEW i, Safe(i), faults \in Nat, faults' \in Nat,
         rows'[i].key = rows[i].key, rows'[i].sha = rows[i].sha,
         disk'[rows[i].key] = disk[rows[i].key],
         vault'[i] = vault[i], vrows'[i] = vrows[i],
         Shadow(i)' + faults + Placed(i) <= Shadow(i) + faults' + Placed(i)',
         Condemned(i)' \subseteq Condemned(i),
         Moving(i) => Moving(i)',
         \A n \in Nums : LooseAt(i, n) => LooseAt(i, n)'
  PROVE  Safe(i)'
<1>1. AtPath(i) => AtPath(i)'
  BY DEF AtPath
<1>2. Recorded(i)' = Recorded(i)
  BY DEF Recorded
<1>3. ASSUME NEW n \in Nums, InHistory(i, n)  PROVE InHistory(i, n)'
  <2>1. Newer(i, n)' = Newer(i, n)
    BY <1>2 DEF Newer
  <2>2. Cardinality(Newer(i, n))' = Cardinality(Newer(i, n))
    BY <2>1
  <2>3. Cardinality(Newer(i, n)) + Shadow(i) <= faults + Placed(i)
    BY <1>3 DEF InHistory
  <2>4. Cardinality(Newer(i, n))' + Shadow(i)' <= faults' + Placed(i)'
    BY <2>2, <2>3, NewerCount, Counters
  <2> QED  BY <1>2, <1>3, <2>4 DEF InHistory
<1>4. ASSUME NEW n \in Nums, Loose(i, n)  PROVE Loose(i, n)'
  BY <1>2, <1>4 DEF Loose
<1> QED  BY <1>1, <1>3, <1>4 DEF Safe

\* ... and whose request stays as it is.
LEMMA SafeUntouched ==
  ASSUME NEW i, Safe(i), faults \in Nat, faults' \in Nat, faults <= faults',
         rows'[i].key = rows[i].key, rows'[i].sha = rows[i].sha,
         disk'[rows[i].key] = disk[rows[i].key],
         vault'[i] = vault[i], vrows'[i] = vrows[i],
         Worker(i)' = Worker(i),
         Worker(i).pc \in {"move.row", "move.undo"} =>
           disk'[Worker(i).to] = disk[Worker(i).to]
  PROVE  Safe(i)'
<1>1. Shadow(i)' = Shadow(i) /\ Placed(i)' = Placed(i)
  BY DEF Shadow, Placed
<1>2. Shadow(i)' + faults + Placed(i) <= Shadow(i) + faults' + Placed(i)'
  BY <1>1, Counters
<1>3. /\ Condemned(i)' \subseteq Condemned(i)
      /\ Moving(i) => Moving(i)'
      /\ \A n \in Nums : LooseAt(i, n) => LooseAt(i, n)'
  BY DEF Condemned, Moving, LooseAt
<1> QED  BY <1>2, <1>3, SafeFrame

(***************************************************************************)
(* What a step of a request leaves alone.                                  *)
(***************************************************************************)
Local(r) ==
  /\ \A q \in Requests : q # r => req'[q] = req[q]
  /\ \A k \in Keys : \/ disk'[k] = disk[k]
                     \/ /\ k \in Footprint(r)
                        /\ Lookup(k) \subseteq {req[r].id} \cup exposed
  /\ \A i \in Ids : vrows'[i] = vrows[i] \/ i = req[r].id
  /\ \A i \in Ids : \/ vault'[i] = vault[i] \/ i = req[r].id
                    \/ (Fresh(i) /\ vault'[i] = [n \in Nums |-> Nothing])
  /\ \A i \in Ids : \/ rows'[i] = rows[i] \/ i = req[r].id
                    \/ (AtPath(i)' /\ (i \in exposed \/ ~InUse(i)))
  /\ \A i \in doomed : i \in doomed' \/ Fresh(i)
  /\ \A i \in exposed : i \in exposed' \/ (i = req[r].id /\ ~InUse(i)')
  /\ faults <= faults'

LEMMA UnderwayFrame ==
  ASSUME GInv, NEW q \in Requests, req'[q] = req[q], Underway(q),
         \A i \in Ids : i \in Footprint(q) =>
           vault'[i] = vault[i] /\ vrows'[i] = vrows[i],
         \A k \in Keys : k \in Footprint(q) => disk'[k] = disk[k],
         \A i \in doomed : i \in Footprint(q) => i \in doomed'
  PROVE  Underway(q)'
<1> USE FileStoreAssumption
<1>1. req[q] \in Request /\ WellFormed(req[q])
  BY DEF GInv, TInv, TypeOK
<1>2. req[q].id \in Footprint(q) /\ req[q].key \in Footprint(q)
  BY FootprintMember
<1>3. /\ req[q].pc \in OnFile => req[q].id \in Ids
      /\ req[q].pc \in {"move.row", "move.undo"} => req[q].key \in Keys
  BY <1>1 DEF WellFormed, Request
<1>4. req[q].id \in Ids =>
        /\ vault'[req[q].id] = vault[req[q].id]
        /\ Recorded(req[q].id)' = Recorded(req[q].id)
        /\ req[q].id \in doomed => req[q].id \in doomed'
  BY <1>2 DEF Recorded
<1>5. req[q].key \in Keys => disk'[req[q].key] = disk[req[q].key]
  BY <1>2
<1> QED  BY <1>3, <1>4, <1>5 DEF Underway, OnFile, Places, Newest

LEMMA OthersUnderway ==
  ASSUME GInv, NEW r \in Requests, Local(r), NEW q \in Requests, q # r,
         Underway(q)
  PROVE  Underway(q)'
<1> USE FileStoreAssumption
<1>1. Apart /\ req[r] \in Request
  BY DEF GInv, TInv, TypeOK
<1>2. \A i \in Ids : i \in Footprint(q) => i # req[r].id
  BY <1>1, FootprintMember DEF Apart
<1>3. \A k \in Keys : k \in Footprint(q) => k \notin Footprint(r)
  BY <1>1 DEF Apart
<1>4. \A i \in doomed : i \in Ids
  BY DEF GInv, TInv, TypeOK
<1> QED  BY <1>2, <1>3, <1>4, UnderwayFrame DEF Local, Fresh

LEMMA OthersSafe ==
  ASSUME GInv, GInv', KeptSafe, Tolerated', NEW r \in Requests, Local(r),
         NEW i \in Ids, Kept(i)', i # req[r].id, i # req'[r].id
  PROVE  Safe(i)'
<1> USE FileStoreAssumption, NoRowAssumption
<1>1. /\ Apart /\ Apart' /\ i # Nothing
      /\ faults \in Nat /\ faults' \in Nat /\ faults <= faults'
  BY DEF GInv, TInv, TypeOK, Local
<1>2. CASE AtPath(i)'
  BY <1>2 DEF Safe
<1>3. CASE rows'[i] = rows[i]
  <2>1. Kept(i) /\ InUse(i)
    BY <1>3 DEF Kept, InUse, Local, Fresh
  <2>2. Tolerated
    BY <1>1 DEF Tolerated
  <2>3. Safe(i)
    BY <2>1, <2>2 DEF KeptSafe
  <2>4. rows[i].key \in Keys /\ i \in Lookup(rows[i].key) /\ i \notin exposed
    BY <2>1 DEF Lookup, Kept, InUse, GInv, TInv, TypeOK, Row
  <2>5. disk'[rows[i].key] = disk[rows[i].key]
    BY <2>4 DEF Local
  <2>6. vault'[i] = vault[i] /\ vrows'[i] = vrows[i]
    BY <2>1 DEF Local, Fresh
  <2>7. Worker(i)' = Worker(i)
    BY <1>1, WorkerKept DEF Local
  <2>8. Worker(i).pc \in {"move.row", "move.undo"} =>
          disk'[Worker(i).to] = disk[Worker(i).to]
    <3>1. CASE \E q \in Requests : req[q].id = i
      <4>1. PICK q \in Requests : req[q].id = i
        BY <3>1
      <4>2. q # r /\ Worker(i) = req[q]
        BY <1>1, <4>1, WorkerIs
      <4>3. req[q] \in Request /\ WellFormed(req[q])
        BY DEF GInv, TInv, TypeOK
      <4>4. req[q].pc \in {"move.row", "move.undo"} =>
              req[q].to \in Keys /\ req[q].to \in Footprint(q)
        BY <4>3, FootprintMember DEF WellFormed, Request
      <4>5. req[q].pc \in {"move.row", "move.undo"} =>
              req[q].to \notin Footprint(r)
        BY <1>1, <4>2, <4>4 DEF Apart
      <4> QED  BY <4>2, <4>4, <4>5 DEF Local
    <3>2. CASE ~\E q \in Requests : req[q].id = i
      <4>1. Worker(i) = Idle
        BY <3>2, NoWorker
      <4> QED  BY <4>1 DEF Idle
    <3> QED  BY <3>1, <3>2
  <2> QED  BY <1>1, <1>3, <2>3, <2>5, <2>6, <2>7, <2>8, SafeUntouched
<1> QED  BY <1>2, <1>3 DEF Local

LEMMA OwnPath ==
  ASSUME GInv, NEW r \in Requests, req[r].pc \in OnFile
  PROVE  /\ req[r].id \in Ids /\ req[r].key \in Keys
         /\ req[r].key \in Footprint(r)
         /\ Lookup(req[r].key) = {req[r].id}
<1>1. req[r] \in Request /\ WellFormed(req[r])
  BY DEF GInv, TInv, TypeOK
<1>2. req[r].id \in Ids
  BY <1>1 DEF WellFormed, Request
<1>3. PICK i \in Ids : i = req[r].id
  BY <1>2
<1>4. InUse(i) /\ rows[i].key = req[r].key /\ rows[i].key \in Keys
  BY <1>3, OwnFile, FileStoreAssumption
<1>5. Lookup(req[r].key) = {i}
  BY <1>3, <1>4 DEF Lookup, GInv, KeysUnique
<1> QED  BY <1>3, <1>4, <1>5, FootprintMember

LEMMA LocalUpload ==
  ASSUME GInv, GInv', NEW r \in Requests,
         UploadRead(r) \/ UploadReadBlind(r) \/ UploadPlace(r)
           \/ UploadCommit(r)
  PROVE  Local(r)
<1> USE FileStoreAssumption, NoRowAssumption
<1>0. /\ req[r] \in Request /\ WellFormed(req[r]) /\ GroundedAt(r) /\ TInv
  BY DEF GInv, TInv, TypeOK
<1>1. /\ req[r].key \in Keys /\ req[r].key \in Footprint(r)
  BY <1>0, FootprintMember, ZenonT(60)
     DEF UploadRead, UploadReadBlind, UploadPlace, UploadCommit, At,
         WellFormed, Request
<1>2. faults \in Nat
  BY <1>0 DEF TInv, TypeOK
<1>3. \A q \in Requests : q # r => req'[q] = req[q]
  BY <1>0, GotoFields, FinishGrounds, ZenonT(60)
     DEF UploadRead, UploadReadBlind, UploadPlace, UploadCommit, TInv, TypeOK
<1>4. CASE UploadRead(r) \/ UploadReadBlind(r)
  <2>1. UNCHANGED <<rows, vrows, disk, vault, doomed>>
    BY <1>4, ZenonT(60) DEF UploadRead, UploadReadBlind, stores, history
  <2>2. exposed \subseteq exposed'
    BY <1>4, ZenonT(60) DEF UploadRead, UploadReadBlind, history
  <2>3. faults <= faults'
    <3>1. CASE UploadRead(r)
      <4>1. faults' = faults
        BY <3>1, ZenonT(60) DEF UploadRead, history
      <4> QED  BY <1>2, <4>1
    <3>2. CASE UploadReadBlind(r)
      BY <1>2, <3>2 DEF UploadReadBlind
    <3> QED  BY <1>4, <3>1, <3>2
  <2> QED  BY <1>3, <2>1, <2>2, <2>3 DEF Local
<1>5. CASE UploadPlace(r)
  <2>1. Lookup(req[r].key) \subseteq {req[r].id} \cup exposed
    <3>1. CASE req[r].id = Nothing
      BY <1>0, <1>5, <3>1 DEF UploadPlace, At, GroundedAt, Unnamed
    <3>2. CASE req[r].id # Nothing
      BY <1>0, <3>2 DEF GroundedAt, ReadsHold, Names, Lookup, GInv, KeysUnique,
                        Request
    <3> QED  BY <3>1, <3>2
  <2>2. \A k \in Keys : k # req[r].key => disk'[k] = disk[k]
    BY <1>5 DEF UploadPlace, GInv, TInv, TypeOK
  <2> QED  BY <1>1, <1>2, <1>3, <1>5, <2>1, <2>2 DEF UploadPlace, Local, history
<1>6. CASE UploadCommit(r)
  <2>1. /\ disk' = disk /\ vrows' = vrows /\ UNCHANGED <<faults, exposed>>
        /\ disk[req[r].key] = req[r].sha
    BY <1>0, <1>6 DEF UploadCommit, GroundedAt, BytesHold
  <2>2. \A i \in Ids : \/ vault'[i] = vault[i]
                      \/ (Fresh(i) /\ vault'[i] = [n \in Nums |-> Nothing])
    BY <1>6 DEF UploadCommit, Overwrite, Insert, GInv, TInv, TypeOK
  <2>3. \A i \in Ids : \/ rows'[i] = rows[i] \/ i = req[r].id
                       \/ (AtPath(i)' /\ (i \in exposed \/ ~InUse(i)))
    <3>1. CASE \E i \in Lookup(req[r].key) : Overwrite(i, req[r].sha)
      <4>1. PICK i \in Lookup(req[r].key) : Overwrite(i, req[r].sha)
        BY <3>1
      <4>2. i \in Ids /\ rows[i].key = req[r].key /\ rows[i] \in Row
        BY <4>1 DEF Lookup, InUse, GInv, TInv, TypeOK
      <4> DEFINE row == [rows[i] EXCEPT !.sha = req[r].sha, !.trashed = FALSE]
      <4>3. row.key = rows[i].key /\ row.sha = req[r].sha
        BY <4>2 DEF Row
      <4>4. rows' = [rows EXCEPT ![i] = row]
        BY <4>1 DEF Overwrite
      <4> HIDE DEF row
      <4>5. /\ rows'[i] = row /\ \A j \in Ids : j # i => rows'[j] = rows[j]
        BY <4>2, <4>4 DEF GInv, TInv, TypeOK
      <4>6. i = req[r].id \/ i \in exposed
        <5>1. CASE req[r].id = Nothing
          BY <1>0, <1>6, <5>1 DEF UploadCommit, At, GroundedAt, Unnamed
        <5>2. CASE req[r].id # Nothing
          BY <1>0, <4>2, <5>2 DEF GroundedAt, ReadsHold, Names, Lookup, GInv, KeysUnique,
                                  Request
        <5> QED  BY <5>1, <5>2
      <4>7. ASSUME NEW j \in Ids, rows'[j] # rows[j]
            PROVE  AtPath(j)' /\ (j = req[r].id \/ j \in exposed)
        BY <2>1, <4>2, <4>3, <4>5, <4>6, <4>7 DEF AtPath
      <4> QED  BY <4>7
    <3>2. CASE \E i \in Ids : Fresh(i) /\ Insert(i, req[r].key, req[r].sha)
      <4>1. PICK i \in Ids : Fresh(i) /\ Insert(i, req[r].key, req[r].sha)
        BY <3>2
      <4>2. /\ rows'[i].key = req[r].key /\ rows'[i].sha = req[r].sha
            /\ \A j \in Ids : j # i => rows'[j] = rows[j]
        BY <4>1 DEF Insert, GInv, TInv, TypeOK
      <4>3. ASSUME NEW j \in Ids, rows'[j] # rows[j]
            PROVE  AtPath(j)' /\ ~InUse(j)
        BY <2>1, <4>1, <4>2, <4>3 DEF AtPath, Fresh
      <4> QED  BY <4>3
    <3> QED  BY <1>6, <3>1, <3>2 DEF UploadCommit
  <2>4. \A i \in doomed : i \in doomed' \/ Fresh(i)
    BY <1>6 DEF UploadCommit, Insert
  <2> QED  BY <1>2, <1>3, <2>1, <2>2, <2>3, <2>4 DEF Local
<1> QED  BY <1>4, <1>5, <1>6

LEMMA LocalOnFile ==
  ASSUME GInv, GInv', NEW r \in Requests,
         \/ SnapshotNumber(r) \/ SnapshotMove(r) \/ SnapshotRecord(r)
         \/ PruneList(r) \/ PruneContent(r) \/ PruneRow(r)
         \/ RestoreDiscard(r) \/ RestorePlace(r) \/ RestoreRow(r)
         \/ EraseContent(r) \/ EraseList(r) \/ EraseVault(r)
         \/ EraseHistory(r) \/ EraseFile(r)
  PROVE  Local(r)
<1>0. TInv /\ faults \in Nat
  BY DEF GInv, TInv, TypeOK
<1>1. /\ req[r].id \in Ids /\ req[r].key \in Keys
      /\ req[r].key \in Footprint(r) /\ Lookup(req[r].key) = {req[r].id}
  BY OwnPath, ZenonT(60)
     DEF SnapshotNumber, SnapshotMove, SnapshotRecord, PruneList, PruneContent,
         PruneRow, RestoreDiscard, RestorePlace, RestoreRow, EraseContent,
         EraseList, EraseVault, EraseHistory, EraseFile, At, OnFile, Places
<1>2. \A q \in Requests : q # r => req'[q] = req[q]
  BY <1>0, ZenonT(60)
     DEF SnapshotNumber, SnapshotMove, SnapshotRecord, PruneList, PruneContent,
         PruneRow, RestoreDiscard, RestorePlace, RestoreRow, EraseContent,
         EraseList, EraseVault, EraseHistory, EraseFile, EraseNext,
         Goto, GotoWith, Finish, TInv, TypeOK
<1>3. \A k \in Keys : k # req[r].key => disk'[k] = disk[k]
  BY <1>0
     DEF SnapshotNumber, SnapshotMove, SnapshotRecord, PruneList, PruneContent,
         PruneRow, RestoreDiscard, RestorePlace, RestoreRow, EraseContent,
         EraseList, EraseVault, EraseHistory, EraseFile, TInv, TypeOK, stores
<1>4. \A i \in Ids : i # req[r].id => vault'[i] = vault[i]
  BY <1>0
     DEF SnapshotNumber, SnapshotMove, SnapshotRecord, PruneList, PruneContent,
         PruneRow, RestoreDiscard, RestorePlace, RestoreRow, EraseContent,
         EraseList, EraseVault, EraseHistory, EraseFile, TInv, TypeOK, stores
<1>5. \A i \in Ids : i # req[r].id => vrows'[i] = vrows[i]
  BY <1>0
     DEF SnapshotNumber, SnapshotMove, SnapshotRecord, PruneList, PruneContent,
         PruneRow, RestoreDiscard, RestorePlace, RestoreRow, EraseContent,
         EraseList, EraseVault, EraseHistory, EraseFile, ForgetVersions,
         TInv, TypeOK, stores
<1>6. \A i \in Ids : i # req[r].id => rows'[i] = rows[i]
  BY <1>0
     DEF SnapshotNumber, SnapshotMove, SnapshotRecord, PruneList, PruneContent,
         PruneRow, RestoreDiscard, RestorePlace, RestoreRow, EraseContent,
         EraseList, EraseVault, EraseHistory, EraseFile, TInv, TypeOK, stores
<1>7. /\ \A i \in doomed : i \in doomed'
      /\ \A i \in exposed : i \in exposed' \/ (i = req[r].id /\ ~InUse(i)')
      /\ faults <= faults'
  <2>1. CASE EraseContent(r)
    BY <1>0, <2>1 DEF EraseContent
  <2>2. CASE EraseFile(r)
    <3>1. PICK i \in Ids : i = req[r].id
      BY <1>1
    <3>2. InUse(i)
      BY <1>1, <3>1 DEF Lookup
    <3>3. ~InUse(i)'
      BY <2>2, <3>1, <3>2 DEF EraseFile, InUse, GInv, TInv, TypeOK
    <3>4. doomed' = doomed /\ exposed' = exposed \ {i} /\ faults' = faults
      BY <2>2, <3>1, <3>2 DEF EraseFile
    <3> QED  BY <1>0, <3>1, <3>3, <3>4
  <2>3. CASE UNCHANGED history
    BY <1>0, <2>3 DEF history
  <2> QED  BY <2>1, <2>2, <2>3, ZenonT(60)
           DEF SnapshotNumber, SnapshotMove, SnapshotRecord, PruneList,
               PruneContent, PruneRow, RestoreDiscard, RestorePlace,
               RestoreRow, EraseList, EraseVault, EraseHistory
<1> QED  BY <1>1, <1>2, <1>3, <1>4, <1>5, <1>6, <1>7 DEF Local

LEMMA LocalRestoreCommit ==
  ASSUME GInv, GInv', NEW r \in Requests, RestoreCommit(r)
  PROVE  Local(r)
<1> USE FileStoreAssumption
<1>0. TInv /\ TInv' /\ faults \in Nat /\ req[r] \in Request /\ WellFormed(req[r])
  BY DEF GInv, TInv, TypeOK
<1>1. PICK i : i = req[r].id
  OBVIOUS
<1>2. i \in Ids /\ Lookup(req[r].key) = {i} /\ req[r].sha \in Contents
  BY <1>0, <1>1, OwnPath
     DEF RestoreCommit, At, OnFile, Places, WellFormed, WithContent, Request
<1>3. Overwrite(i, req[r].sha)
  BY <1>0, <1>1, GroundRestoreCommit
<1>4. InUse(i)
  BY <1>2 DEF Lookup
<1>5. \A j \in Ids : j # i => rows'[j] = rows[j]
  BY <1>0, <1>2, <1>3, <1>4, OverwriteKeeps
<1>6. /\ UNCHANGED <<vrows, vault, disk, faults, doomed>>
      /\ exposed \subseteq exposed'
  BY <1>3 DEF RestoreCommit, Overwrite
<1>7. \A q \in Requests : q # r => req'[q] = req[q]
  BY <1>0, FinishGrounds DEF RestoreCommit
<1> QED  BY <1>0, <1>1, <1>5, <1>6, <1>7 DEF Local

LEMMA LocalMove ==
  ASSUME GInv, GInv', NEW r \in Requests,
         MoveRename(r) \/ MoveRow(r) \/ MoveUndo(r)
  PROVE  Local(r)
<1> USE FileStoreAssumption
<1>0. TInv /\ faults \in Nat /\ req[r] \in Request /\ WellFormed(req[r])
      /\ GroundedAt(r)
  BY DEF GInv, TInv, TypeOK
<1>1. /\ req[r].id \in Ids /\ req[r].key \in Keys
      /\ req[r].key \in Footprint(r) /\ Lookup(req[r].key) = {req[r].id}
  BY OwnPath DEF MoveRename, MoveRow, MoveUndo, At, OnFile, Places
<1>2. Lookup(req[r].to) = {} /\ req[r].to \in Footprint(r)
  BY <1>0, FootprintMember
     DEF GroundedAt, MoveHolds, MoveRename, MoveRow, MoveUndo, At
<1>3. \A q \in Requests : q # r => req'[q] = req[q]
  BY <1>0 DEF MoveRename, MoveRow, MoveUndo, Goto, Finish, TInv, TypeOK
<1>4. \A k \in Keys : k # req[r].key /\ k # req[r].to => disk'[k] = disk[k]
  BY <1>0 DEF MoveRename, MoveRow, MoveUndo, Rename, TInv, TypeOK
<1>5. \A i \in Ids : i # req[r].id => rows'[i] = rows[i]
  BY <1>0 DEF MoveRename, MoveRow, MoveUndo, TInv, TypeOK
<1>6. UNCHANGED <<vrows, vault, history>>
  BY DEF MoveRename, MoveRow, MoveUndo
<1> QED  BY <1>0, <1>1, <1>2, <1>3, <1>4, <1>5, <1>6 DEF Local, history

(***************************************************************************)
(* What a step does to the file it works on.                               *)
(***************************************************************************)
Carried(r) ==
  /\ Underway(r)'
  /\ \A i \in Ids :
       (i = req[r].id \/ i = req'[r].id) /\ Safe(i) /\ Tolerated' /\ Kept(i)' =>
         Safe(i)'

LEMMA WorkerGone ==
  ASSUME Apart, NEW r \in Requests, NEW i, i # Nothing, req[r].id = i,
         \A q \in Requests : q # r => req'[q] = req[q], req'[r].id # i
  PROVE  Worker(i)' = Idle
<1>1. \A q \in Requests : q # r => req[q].id # i
  BY FootprintMember DEF Apart
<1> QED  BY <1>1, NoWorker

LEMMA WorkerCame ==
  ASSUME Apart', NEW r \in Requests, NEW i, i # Nothing, req'[r].id = i,
         \A q \in Requests : q # r => req'[q] = req[q], req[r].id # i
  PROVE  Worker(i) = Idle
<1>1. \A q \in Requests : q # r => req[q].id # i
  <2>1. i \in Footprint(r)'
    BY DEF Footprint
  <2>2. \A q \in Requests : q # r => Footprint(q)' = Footprint(q)
    BY DEF Footprint
  <2> QED  BY <2>1, <2>2, FootprintMember DEF Apart
<1> QED  BY <1>1, NoWorker

\* A file whose stores stay as they are and whose request leaves it, or takes
\* it up, at a harmless place.
LEMMA SafeLeft ==
  ASSUME NEW i, Safe(i), faults \in Nat, faults' = faults,
         UNCHANGED <<rows, vrows, vault, disk>>,
         Worker(i)' = Idle,
         Worker(i).pc \notin {"upload.commit", "restore.row", "restore.commit"},
         ~Moving(i)
  PROVE  Safe(i)'
<1>1. Worker(i)'.pc = "idle"
  BY DEF Idle
<1>2. Placed(i) = 0 /\ Placed(i)' = 0 /\ Shadow(i)' <= Shadow(i)
  BY <1>1 DEF Placed, Shadow
<1>3. Shadow(i)' + faults + Placed(i) <= Shadow(i) + faults' + Placed(i)'
  BY <1>2, Counters
<1>4. /\ Condemned(i)' \subseteq Condemned(i)
      /\ \A n \in Nums : LooseAt(i, n)'
  BY <1>1 DEF Condemned, LooseAt
<1> QED  BY <1>3, <1>4, SafeFrame

LEMMA SafeTaken ==
  ASSUME NEW i, Safe(i), faults \in Nat, faults' = faults,
         rows'[i] = rows[i], vrows'[i] = vrows[i],
         UNCHANGED <<vault, disk>>,
         Worker(i) = Idle,
         \/ Worker(i)'.pc \in {"snap.number", "move.rename", "erase.content"}
         \/ /\ Worker(i)'.pc = "upload.place"
            /\ Worker(i)'.sha = rows[i].sha
  PROVE  Safe(i)'
<1>1. Worker(i).pc = "idle"
  BY DEF Idle
<1>2. Placed(i) = 0 /\ Placed(i)' = 0 /\ Shadow(i)' = Shadow(i)
  BY <1>1 DEF Placed, Shadow
<1>3. Shadow(i)' + faults + Placed(i) <= Shadow(i) + faults' + Placed(i)'
  BY <1>2, Counters
<1>4. /\ Condemned(i)' \subseteq Condemned(i) /\ ~Moving(i)
      /\ \A n \in Nums : LooseAt(i, n)'
  BY <1>1 DEF Condemned, LooseAt, Moving
<1> QED  BY <1>3, <1>4, SafeFrame

LEMMA CarriedUploadRead ==
  ASSUME GInv, GInv', NEW r \in Requests, UploadRead(r), Underway(r)
  PROVE  Carried(r)
<1> USE FileStoreAssumption
<1>0. /\ req[r] \in Request /\ WellFormed(req[r]) /\ GroundedAt(r) /\ TInv
      /\ versioning /\ Apart' /\ faults \in Nat
  BY DEF GInv, TInv, TypeOK
<1>1. /\ req[r].pc = "upload.read" /\ req[r].id = Nothing /\ req[r].target = 0
      /\ UNCHANGED <<rows, vrows, vault, disk>> /\ faults' = faults
  BY <1>0, ZenonT(60) DEF UploadRead, At, WellFormed, Underway, stores, history
<1>2. \A q \in Requests : q # r => req'[q] = req[q]
  BY <1>0, GotoFields, ZenonT(60) DEF UploadRead, TInv, TypeOK
<1>3. CASE Goto(r, "upload.place")
  <2>1. req'[r].pc = "upload.place" /\ req'[r].id = Nothing
    BY <1>0, <1>1, <1>3, GotoFields
  <2> QED  BY <1>1, <2>1 DEF Carried, Underway
<1>4. ASSUME NEW i \in Ids,
             NEW place \in {"snap.number", "upload.place"},
             place = "upload.place" => rows[i].sha = req[r].sha,
             req' = [req EXCEPT ![r].pc = place, ![r].id = i,
                                ![r].old = rows[i].sha]
      PROVE  Carried(r)
  <2> DEFINE q == [req[r] EXCEPT !.pc = place, !.id = i, !.old = rows[i].sha]
  <2>1. /\ q.pc = place /\ q.id = i /\ q.sha = req[r].sha /\ q.target = 0
    BY <1>0, <1>1 DEF Request
  <2>2. req'[r] = q
    BY <1>0, <1>4 DEF TInv, TypeOK
  <2> HIDE DEF q
  <2>3. Underway(r)'
    BY <2>1, <2>2 DEF Underway
  <2>4. Worker(i) = Idle /\ Worker(i)' = req'[r] /\ i # Nothing
    BY <1>0, <1>1, <1>2, <2>1, <2>2, WorkerCame, WorkerIsNext
  <2>5. Safe(i) => Safe(i)'
    BY <1>0, <1>1, <1>4, <2>1, <2>2, <2>4, SafeTaken
  <2> QED  BY <1>1, <2>1, <2>2, <2>3, <2>5 DEF Carried
<1> QED  BY <1>0, <1>3, <1>4, ZenonT(60) DEF UploadRead, Lookup

LEMMA UnderwayIdle ==
  ASSUME NEW r \in Requests, req'[r] = Idle
  PROVE  Underway(r)'
<1>1. req'[r].pc = "idle"
  BY DEF Idle
<1> QED  BY <1>1 DEF Underway

LEMMA CarriedUploadPlace ==
  ASSUME GInv, GInv', NEW r \in Requests, UploadPlace(r)
  PROVE  Carried(r)
<1> USE FileStoreAssumption
<1>0. /\ req[r] \in Request /\ GroundedAt(r) /\ TInv
      /\ Apart' /\ faults \in Nat
  BY DEF GInv, TInv, TypeOK
<1>1. /\ req[r].pc = "upload.place"
      /\ UNCHANGED <<rows, vrows, vault>> /\ faults' = faults
      /\ Goto(r, "upload.commit")
      /\ disk' = [disk EXCEPT ![req[r].key] = req[r].sha]
  BY DEF UploadPlace, At, history
<1>2. /\ req'[r].pc = "upload.commit" /\ req'[r].id = req[r].id
  BY <1>0, <1>1, GotoFields
<1>3. Underway(r)'
  BY <1>2 DEF Underway
<1>4. ASSUME NEW i \in Ids, i = req[r].id, Safe(i)
      PROVE  Safe(i)'
  <2>1. /\ Worker(i) = req[r] /\ Worker(i)' = req'[r]
        /\ rows[i].key = req[r].key /\ rows[i].key \in Keys
        /\ rows[i].sha \in Contents
    BY <1>0, <1>2, <1>4, OwnFile, WorkerIsNext
  <2>2. disk'[rows[i].key] = req[r].sha
    BY <1>0, <1>1, <2>1 DEF TInv, TypeOK
  <2>3. CASE req[r].sha = rows[i].sha
    BY <1>1, <2>2, <2>3 DEF Safe, AtPath
  <2>4. CASE req[r].sha # rows[i].sha
    <3>1. disk[rows[i].key] = Nothing
      BY <1>0, <1>1, <1>4, <2>1, <2>4 DEF GroundedAt, BytesHold, At
    <3>2. ~AtPath(i) /\ ~Moving(i) /\ \A n \in Nums : ~Loose(i, n)
      BY <1>1, <2>1, <2>4, <3>1 DEF AtPath, Moving, Loose, LooseAt
    <3>3. PICK n \in Nums : InHistory(i, n)
      BY <1>4, <3>2 DEF Safe
    <3>4. Placed(i)' = 1 /\ Placed(i) = 0
      BY <1>1, <1>2, <2>1 DEF Placed
    <3>5. Shadow(i) = 0
      BY <1>1, <2>1, <3>1 DEF Shadow
    <3>6. Recorded(i)' = Recorded(i) /\ Newer(i, n)' = Newer(i, n)
      BY <1>1 DEF Recorded, Newer
    <3>7. Cardinality(Newer(i, n))' = Cardinality(Newer(i, n))
      BY <3>6
    <3>8. Cardinality(Newer(i, n)) <= faults
      BY <1>0, <3>3, <3>4, <3>5, NewerCount DEF InHistory
    <3>9. Cardinality(Newer(i, n))' + Shadow(i)' <= faults' + Placed(i)'
      BY <1>0, <1>1, <3>4, <3>7, <3>8, NewerCount, Counters
    <3>10. Condemned(i)' = {}
      BY <1>2, <2>1 DEF Condemned
    <3>11. InHistory(i, n)'
      BY <1>1, <3>3, <3>6, <3>9, <3>10 DEF InHistory
    <3> QED  BY <3>11 DEF Safe
  <2> QED  BY <2>3, <2>4
<1> QED  BY <1>2, <1>3, <1>4 DEF Carried

LEMMA OverwriteAtPath ==
  ASSUME TypeOK, NEW i \in Ids, InUse(i), NEW c, Overwrite(i, c),
         disk'[rows[i].key] = c
  PROVE  AtPath(i)'
<1>1. rows[i] \in Row
  BY DEF InUse, TypeOK
<1> DEFINE row == [rows[i] EXCEPT !.sha = c, !.trashed = FALSE]
<1>2. row.key = rows[i].key /\ row.sha = c
  BY <1>1 DEF Row
<1>3. rows' = [rows EXCEPT ![i] = row]
  BY DEF Overwrite
<1> HIDE DEF row
<1>4. rows'[i] = row
  BY <1>3 DEF TypeOK
<1> QED  BY <1>2, <1>4 DEF AtPath

LEMMA CarriedUploadCommit ==
  ASSUME GInv, GInv', NEW r \in Requests, UploadCommit(r)
  PROVE  Carried(r)
<1> USE FileStoreAssumption
<1>0. /\ GroundedAt(r) /\ TInv /\ TypeOK
  BY DEF GInv, TInv
<1>1. req'[r] = Idle /\ req'[r].id = Nothing
  BY <1>0 DEF UploadCommit, Finish, Idle, TypeOK
<1>2. Underway(r)'
  BY <1>1, UnderwayIdle
<1>3. ASSUME NEW i \in Ids, i = req[r].id  PROVE Safe(i)'
  <2>1. InUse(i) /\ rows[i].key = req[r].key
    BY <1>3, OwnFile
  <2>2. Lookup(req[r].key) = {i}
    BY <2>1 DEF Lookup, GInv, KeysUnique
  <2>3. Overwrite(i, req[r].sha) /\ disk' = disk
    BY <2>2 DEF UploadCommit
  <2>4. disk[rows[i].key] = req[r].sha
    BY <1>0, <2>1 DEF UploadCommit, GroundedAt, BytesHold
  <2> QED  BY <1>0, <2>1, <2>3, <2>4, OverwriteAtPath DEF Safe
<1> QED  BY <1>1, <1>2, <1>3 DEF Carried

LEMMA CarriedSnapshotNumber ==
  ASSUME GInv, GInv', NEW r \in Requests, SnapshotNumber(r), Underway(r)
  PROVE  Carried(r)
<1> USE FileStoreAssumption
<1>0. /\ req[r] \in Request /\ TInv /\ Apart' /\ faults \in Nat
  BY DEF GInv, TInv, TypeOK
<1>1. /\ req[r].pc = "snap.number"
      /\ UNCHANGED <<rows, vrows, vault, disk>> /\ faults' = faults
  BY DEF SnapshotNumber, At, stores, history
<1>2. /\ req'[r].pc = "snap.move" /\ req'[r].id = req[r].id
      /\ req'[r].target = req[r].target
  <2> DEFINE m == LatestVersionNum(req[r].id) + 1
             q == [req[r] EXCEPT !.pc = "snap.move", !.num = m]
  <2>1. q.pc = "snap.move" /\ q.id = req[r].id /\ q.target = req[r].target
    BY <1>0 DEF Request
  <2>2. req' = [req EXCEPT ![r] = q]
    BY DEF SnapshotNumber
  <2> HIDE DEF q
  <2> QED  BY <1>0, <2>1, <2>2 DEF TInv, TypeOK
<1>3. Underway(r)'
  BY <1>1, <1>2 DEF Underway, Recorded
<1>4. ASSUME NEW i \in Ids, i = req[r].id, Safe(i)
      PROVE  Safe(i)'
  <2>1. Worker(i) = req[r] /\ Worker(i)' = req'[r]
    BY <1>0, <1>2, <1>4, OwnFile, WorkerIsNext
  <2>2. Shadow(i)' = Shadow(i) /\ Placed(i)' = Placed(i)
    BY <1>1, <1>2, <2>1 DEF Shadow, Placed
  <2>3. Shadow(i)' + faults + Placed(i) <= Shadow(i) + faults' + Placed(i)'
    BY <1>0, <1>1, <2>2, Counters
  <2>4. /\ Condemned(i)' \subseteq Condemned(i) /\ ~Moving(i)
        /\ \A n \in Nums : LooseAt(i, n)'
    BY <1>1, <1>2, <2>1 DEF Condemned, Moving, LooseAt
  <2> QED  BY <1>0, <1>1, <1>4, <2>3, <2>4, SafeFrame
<1> QED  BY <1>2, <1>3, <1>4 DEF Carried

\* A request that gives up with nothing placed.
LEMMA CarriedGiveUp ==
  ASSUME GInv, GInv', NEW r \in Requests, Finish(r),
         UNCHANGED <<rows, vrows, vault, disk>>, faults' = faults,
         req[r].pc \notin {"upload.commit", "restore.row", "restore.commit",
                           "move.row", "move.undo"}
  PROVE  Carried(r)
<1> USE FileStoreAssumption
<1>0. TInv /\ Apart /\ faults \in Nat
  BY DEF GInv, TInv, TypeOK
<1>1. /\ req'[r] = Idle /\ req'[r].id = Nothing
      /\ \A q \in Requests : q # r => req'[q] = req[q]
  BY <1>0 DEF Finish, Idle, TInv, TypeOK
<1>2. Underway(r)'
  BY <1>1, UnderwayIdle
<1>3. ASSUME NEW i \in Ids, i = req[r].id, Safe(i)  PROVE Safe(i)'
  <2>1. Worker(i) = req[r] /\ Worker(i)' = Idle
    BY <1>0, <1>1, <1>3, OwnFile, WorkerGone
  <2>2. ~Moving(i)
    BY <2>1 DEF Moving
  <2> QED  BY <1>0, <1>3, <2>1, <2>2, SafeLeft
<1> QED  BY <1>1, <1>2, <1>3 DEF Carried

LEMMA CarriedSnapshotMove ==
  ASSUME GInv, GInv', NEW r \in Requests, SnapshotMove(r), Underway(r)
  PROVE  Carried(r)
<1> USE FileStoreAssumption
<1>0. /\ req[r] \in Request /\ WellFormed(req[r]) /\ GroundedAt(r) /\ TInv
      /\ Apart' /\ faults \in Nat
  BY DEF GInv, TInv, TypeOK
<1>1. PICK i, m : i = req[r].id /\ m = req[r].num
  OBVIOUS
<1>2. /\ req[r].pc = "snap.move" /\ i \in Ids /\ m \in Nums
      /\ UNCHANGED <<rows, vrows>> /\ faults' = faults
  BY <1>0, <1>1
     DEF SnapshotMove, At, WellFormed, OnFile, Places, Request, history
<1>3. /\ Worker(i) = req[r] /\ rows[i].key = req[r].key
      /\ rows[i].key \in Keys /\ rows[i].sha \in Contents
  BY <1>1, <1>2, OwnFile
<1>4. CASE Finish(r) /\ UNCHANGED <<disk, vault>>
  BY <1>2, <1>4, CarriedGiveUp
<1>5. CASE /\ disk[req[r].key] # Nothing
           /\ vault' = [vault EXCEPT ![i][m] = disk[req[r].key]]
           /\ disk' = [disk EXCEPT ![req[r].key] = Nothing]
           /\ Goto(r, "snap.record")
  <2>1. /\ req'[r].pc = "snap.record" /\ req'[r].id = i /\ req'[r].num = m
        /\ req'[r].target = req[r].target
    BY <1>0, <1>1, <1>5, GotoFields
  <2>2. Worker(i)' = req'[r]
    BY <1>0, <1>2, <2>1, WorkerIsNext
  <2>3. /\ disk'[rows[i].key] = Nothing
        /\ vault'[i][m] = disk[rows[i].key]
        /\ \A n \in Nums : n # m => vault'[i][n] = vault[i][n]
    BY <1>2, <1>3, <1>5 DEF GInv, TInv, TypeOK
  <2>4. \A n \in Recorded(i) : n < m /\ n # m
    BY <1>0, <1>1, <1>2 DEF GroundedAt, SnapshotHolds, Recorded, Nums
  <2>5. Recorded(i)' = Recorded(i)
    BY <1>2 DEF Recorded
  <2>6. Underway(r)'
    BY <1>1, <1>2, <2>1, <2>5 DEF Underway
  <2>7. ASSUME AtPath(i)  PROVE Safe(i)'
    <3>1. vault'[i][m] = rows'[i].sha /\ m \notin Recorded(i)'
      BY <1>2, <2>3, <2>4, <2>5, <2>7 DEF AtPath
    <3>2. LooseAt(i, m)'
      BY <2>1, <2>2 DEF LooseAt
    <3> QED  BY <1>2, <2>3, <3>1, <3>2 DEF Safe, Loose
  <2>8. ASSUME NEW n \in Nums, InHistory(i, n)  PROVE Safe(i)'
    <3>1. n \in Recorded(i)' /\ vault'[i][n] = rows'[i].sha
      BY <1>2, <2>3, <2>4, <2>5, <2>8 DEF InHistory
    <3>2. /\ Shadow(i)' = 1 /\ Shadow(i) = 1
          /\ Placed(i) = 0 /\ Placed(i)' = 0 /\ Condemned(i)' = {}
      BY <1>2, <1>3, <1>5, <2>1, <2>2 DEF Shadow, Placed, Condemned
    <3>3. Cardinality(Newer(i, n))' = Cardinality(Newer(i, n))
      BY <2>5 DEF Newer
    <3>4. Cardinality(Newer(i, n))' + Shadow(i)' <= faults' + Placed(i)'
      BY <1>2, <2>8, <3>2, <3>3 DEF InHistory
    <3> QED  BY <3>1, <3>2, <3>4 DEF Safe, InHistory
  <2>9. ~Moving(i) /\ \A n \in Nums : ~Loose(i, n)
    BY <1>2, <1>3, <1>5 DEF Moving, Loose
  <2> QED  BY <1>1, <2>1, <2>6, <2>7, <2>8, <2>9 DEF Carried, Safe
<1> QED  BY <1>1, <1>4, <1>5 DEF SnapshotMove

LEMMA CarriedSnapshotRecord ==
  ASSUME GInv, GInv', NEW r \in Requests, SnapshotRecord(r), Underway(r)
  PROVE  Carried(r)
<1> USE FileStoreAssumption
<1>0. /\ req[r] \in Request /\ WellFormed(req[r]) /\ GroundedAt(r) /\ TInv
      /\ Apart' /\ faults \in Nat
  BY DEF GInv, TInv, TypeOK
<1>1. PICK i, m : i = req[r].id /\ m = req[r].num
  OBVIOUS
<1>2. /\ req[r].pc = "snap.record" /\ i \in Ids /\ m \in Nums
      /\ UNCHANGED <<rows, vault, disk>> /\ faults' = faults
      /\ req[r].old \in Contents
  BY <1>0, <1>1
     DEF SnapshotRecord, At, WellFormed, OnFile, Places, Request, history
<1>3. /\ Worker(i) = req[r] /\ rows[i].key = req[r].key /\ InUse(i)
      /\ rows[i].key \in Keys /\ rows[i].sha \in Contents
      /\ disk[rows[i].key] = Nothing
  BY <1>0, <1>1, <1>2, OwnFile DEF GroundedAt, BytesHold
<1>4. \A n \in Recorded(i) : n < m /\ n # m
  BY <1>0, <1>1, <1>2 DEF GroundedAt, SnapshotHolds, Recorded, Nums
<1>5. /\ vrows' = [vrows EXCEPT ![i][m] = req[r].old]
      /\ Goto(r, "prune.list")
  BY <1>1, <1>3, <1>4 DEF SnapshotRecord
<1>6. /\ req'[r].pc = "prune.list" /\ req'[r].id = i
      /\ req'[r].target = req[r].target
  BY <1>0, <1>1, <1>5, GotoFields
<1>7. Worker(i)' = req'[r]
  BY <1>0, <1>2, <1>6, WorkerIsNext
<1>8. Recorded(i)' = Recorded(i) \cup {m}
  BY <1>2, <1>5 DEF Recorded, GInv, TInv, TypeOK
<1>9. Underway(r)'
  BY <1>1, <1>2, <1>6, <1>8 DEF Underway
<1>10. /\ Shadow(i)' = 0 /\ Shadow(i) = 1
       /\ Placed(i) = 0 /\ Placed(i)' = 0 /\ Condemned(i)' = {}
  BY <1>2, <1>3, <1>6, <1>7 DEF Shadow, Placed, Condemned
<1>11. ~AtPath(i) /\ ~Moving(i)
  BY <1>2, <1>3 DEF AtPath, Moving
<1>12. ASSUME NEW n \in Nums, InHistory(i, n)  PROVE Safe(i)'
  <2>1. n \in Recorded(i)' /\ vault'[i][n] = rows'[i].sha /\ n < m
    BY <1>2, <1>4, <1>8, <1>12 DEF InHistory
  <2>2. /\ Newer(i, n)' = Newer(i, n) \cup {m} /\ m \notin Newer(i, n)
    BY <1>4, <1>8, <2>1 DEF Newer
  <2>3. IsFiniteSet(Newer(i, n))
    BY NumsFinite, NewerCount
  <2>4. Cardinality(Newer(i, n))' = Cardinality(Newer(i, n)) + 1
    BY <2>2, <2>3, FS_AddElement
  <2>5. Cardinality(Newer(i, n))' + Shadow(i)' <= faults' + Placed(i)'
    BY <1>2, <1>10, <1>12, <2>4, NewerCount DEF InHistory
  <2> QED  BY <1>10, <2>1, <2>5 DEF Safe, InHistory
<1>13. ASSUME NEW n \in Nums, Loose(i, n)  PROVE Safe(i)'
  <2>1. n = m
    BY <1>1, <1>2, <1>3, <1>13 DEF Loose, LooseAt
  <2>2. n \in Recorded(i)' /\ vault'[i][n] = rows'[i].sha
    BY <1>2, <1>8, <1>13, <2>1 DEF Loose
  <2>3. Newer(i, n)' = {}
    BY <1>2, <1>4, <1>8, <2>1 DEF Newer, Nums, Recorded
  <2>4. Cardinality(Newer(i, n))' = 0
    BY <2>3, FS_EmptySet
  <2>5. Cardinality(Newer(i, n))' + Shadow(i)' <= faults' + Placed(i)'
    BY <1>0, <1>2, <1>10, <2>4
  <2> QED  BY <1>10, <2>2, <2>5 DEF Safe, InHistory
<1> QED  BY <1>1, <1>6, <1>9, <1>11, <1>12, <1>13 DEF Carried, Safe

\* While enforceMaxVersions runs there is nothing at the path, so the content
\* is in the history, and no deeper than the failures allow.
LEMMA SafeWhilePruning ==
  ASSUME GInv, NEW r \in Requests, NEW i \in Ids, i = req[r].id, Safe(i),
         req[r].pc \in {"prune.list", "prune.content", "prune.row",
                        "restore.place"}
  PROVE  \E n \in Nums : /\ InHistory(i, n)
                         /\ Cardinality(Newer(i, n)) <= faults
<1> USE FileStoreAssumption
<1>1. /\ GroundedAt(r) /\ faults \in Nat
  BY DEF GInv, TInv, TypeOK
<1>2. /\ Worker(i) = req[r] /\ rows[i].key = req[r].key
      /\ rows[i].sha \in Contents /\ disk[rows[i].key] = Nothing
  BY <1>1, OwnFile DEF GroundedAt, BytesHold
<1>3. ~AtPath(i) /\ ~Moving(i) /\ \A n \in Nums : ~Loose(i, n)
  BY <1>2 DEF AtPath, Moving, Loose, LooseAt
<1>4. PICK n \in Nums : InHistory(i, n)
  BY <1>3 DEF Safe
<1>5. Shadow(i) = 0 /\ Placed(i) = 0
  BY <1>2 DEF Shadow, Placed
<1>6. Cardinality(Newer(i, n)) <= faults
  BY <1>1, <1>4, <1>5, NewerCount DEF InHistory
<1> QED  BY <1>4, <1>6

\* ... and it stays there when no newer version is added.
LEMMA HistoryKept ==
  ASSUME NEW i, NEW n \in Nums, n \in Recorded(i)', n \notin Condemned(i)',
         vault'[i][n] = rows'[i].sha, Newer(i, n)' \subseteq Newer(i, n),
         Cardinality(Newer(i, n)) <= faults, faults' = faults, faults \in Nat,
         Shadow(i)' <= Placed(i)'
  PROVE  Safe(i)'
<1>1. Cardinality(Newer(i, n))' <= Cardinality(Newer(i, n))
  BY NumsFinite, NewerCount, FS_Subset
<1>2. Cardinality(Newer(i, n))' + Shadow(i)' <= faults' + Placed(i)'
  BY <1>1, NewerCount, Counters
<1> QED  BY <1>2 DEF Safe, InHistory

LEMMA CarriedPruneList ==
  ASSUME GInv, GInv', NEW r \in Requests, PruneList(r), Underway(r)
  PROVE  Carried(r)
<1> USE FileStoreAssumption
<1>0. /\ req[r] \in Request /\ GroundedAt(r) /\ TInv
      /\ Apart' /\ faults \in Nat
  BY DEF GInv, TInv, TypeOK
<1>1. PICK i : i = req[r].id
  OBVIOUS
<1>2. /\ req[r].pc = "prune.list" /\ i \in Ids
      /\ UNCHANGED <<rows, vrows, vault, disk>> /\ faults' = faults
  BY <1>1, OwnPath DEF PruneList, At, OnFile, Places, stores, history
<1>3. rows[i].key = req[r].key /\ disk[rows[i].key] = Nothing
  BY <1>0, <1>1, <1>2, OwnFile DEF GroundedAt, BytesHold
<1> DEFINE place == IF Surplus(i) = {} THEN AfterSnapshot(r)
                                       ELSE "prune.content"
<1>4. /\ place \in {"upload.place", "restore.place", "prune.content"}
      /\ Surplus(i) \in SUBSET Nums /\ GotoWith(r, place, Surplus(i))
  BY <1>1 DEF PruneList, AfterSnapshot, Surplus, Recorded
<1> HIDE DEF place
<1>5. /\ req'[r].pc = place /\ req'[r].nums = Surplus(i) /\ req'[r].id = i
      /\ req'[r].target = req[r].target
  <2>1. place \in Places
    BY <1>4 DEF Places
  <2> QED  BY <1>0, <1>1, <1>4, <2>1, NumsFields
<1>6. Worker(i)' = req'[r]
  BY <1>0, <1>2, <1>5, WorkerIsNext
<1>7. Underway(r)'
  BY <1>1, <1>2, <1>4, <1>5 DEF Underway, Recorded
<1>8. ASSUME Safe(i), Tolerated'  PROVE Safe(i)'
  <2>1. PICK n \in Nums : InHistory(i, n) /\ Cardinality(Newer(i, n)) <= faults
    BY <1>1, <1>2, <1>8, SafeWhilePruning
  <2>2. n \notin Surplus(i)
    BY <1>0, <1>2, <1>8, <2>1, NewerCount DEF Surplus, Tolerated
  <2>3. n \in Recorded(i)' /\ Newer(i, n)' = Newer(i, n)
    BY <1>2, <2>1 DEF InHistory, Newer, Recorded
  <2>4. n \notin Condemned(i)'
    BY <1>5, <1>6, <2>2 DEF Condemned
  <2>5. Shadow(i)' <= Placed(i)'
    BY <1>2, <1>3, <1>4, <1>5, <1>6 DEF Shadow, Placed
  <2>6. vault'[i][n] = rows'[i].sha
    BY <1>2, <2>1 DEF InHistory
  <2> QED  BY <1>0, <1>2, <2>1, <2>3, <2>4, <2>5, <2>6, HistoryKept
<1> QED  BY <1>1, <1>5, <1>7, <1>8 DEF Carried

LEMMA CarriedPruneContent ==
  ASSUME GInv, GInv', NEW r \in Requests, PruneContent(r), Underway(r)
  PROVE  Carried(r)
<1> USE FileStoreAssumption
<1>0. /\ req[r] \in Request /\ GroundedAt(r) /\ TInv
      /\ Apart' /\ faults \in Nat
  BY DEF GInv, TInv, TypeOK
<1>1. PICK i : i = req[r].id
  OBVIOUS
<1>2. /\ req[r].pc = "prune.content" /\ i \in Ids
      /\ UNCHANGED <<rows, vrows, disk>> /\ faults' = faults
      /\ Goto(r, "prune.row")
  BY <1>1, OwnPath DEF PruneContent, At, OnFile, Places, history
<1>3. /\ rows[i].key = req[r].key /\ disk[rows[i].key] = Nothing
      /\ Worker(i) = req[r]
  BY <1>0, <1>1, <1>2, OwnFile DEF GroundedAt, BytesHold
<1>4. PICK m \in Newest(req[r].nums) :
        vault' = [vault EXCEPT ![i][m] = Nothing]
  BY <1>1 DEF PruneContent
<1>5. m \in req[r].nums /\ m \in Nums
  BY <1>0 DEF Newest, Request
<1>6. /\ vault'[i][m] = Nothing
      /\ \A n \in Nums : n # m => vault'[i][n] = vault[i][n]
  BY <1>2, <1>4, <1>5 DEF GInv, TInv, TypeOK
<1>7. /\ req'[r].pc = "prune.row" /\ req'[r].nums = req[r].nums
      /\ req'[r].id = i /\ req'[r].target = req[r].target
  BY <1>0, <1>1, <1>2, GotoFields, ZenonT(60)
<1>8. Worker(i)' = req'[r]
  BY <1>0, <1>2, <1>7, WorkerIsNext
<1>9. Underway(r)'
  <2>1. \A n \in Newest(req[r].nums) : n = m
    BY <1>0 DEF Newest, Request, Nums
  <2>2. Recorded(i)' = Recorded(i)
    BY <1>2 DEF Recorded
  <2>3. req[r].target \in Nums \cup {0}
    BY <1>0 DEF Request, Nums
  <2> QED  BY <1>1, <1>2, <1>6, <1>7, <2>1, <2>2, <2>3 DEF Underway
<1>10. ASSUME Safe(i)  PROVE Safe(i)'
  <2>1. PICK n \in Nums : InHistory(i, n) /\ Cardinality(Newer(i, n)) <= faults
    BY <1>1, <1>2, <1>10, SafeWhilePruning
  <2>2. n # m /\ n \notin Condemned(i)'
    BY <1>2, <1>3, <1>5, <1>7, <1>8, <2>1 DEF InHistory, Condemned
  <2>3. n \in Recorded(i)' /\ Newer(i, n)' = Newer(i, n)
    BY <1>2, <2>1 DEF InHistory, Newer, Recorded
  <2>4. Shadow(i)' <= Placed(i)'
    BY <1>2, <1>3, <1>7, <1>8 DEF Shadow, Placed
  <2>5. vault'[i][n] = rows'[i].sha
    BY <1>2, <1>6, <2>1, <2>2 DEF InHistory
  <2> QED  BY <1>0, <1>2, <2>1, <2>2, <2>3, <2>4, <2>5, HistoryKept
<1> QED  BY <1>1, <1>7, <1>9, <1>10 DEF Carried

LEMMA CarriedPruneRow ==
  ASSUME GInv, GInv', NEW r \in Requests, PruneRow(r), Underway(r)
  PROVE  Carried(r)
<1> USE FileStoreAssumption
<1>0. /\ req[r] \in Request /\ GroundedAt(r) /\ TInv
      /\ Apart' /\ faults \in Nat
  BY DEF GInv, TInv, TypeOK
<1>1. PICK i : i = req[r].id
  OBVIOUS
<1>2. /\ req[r].pc = "prune.row" /\ i \in Ids
      /\ UNCHANGED <<rows, vault, disk>> /\ faults' = faults
  BY <1>1, OwnPath DEF PruneRow, At, OnFile, Places, history
<1>3. /\ rows[i].key = req[r].key /\ disk[rows[i].key] = Nothing
      /\ Worker(i) = req[r]
  BY <1>0, <1>1, <1>2, OwnFile DEF GroundedAt, BytesHold
<1>4. CASE Finish(r) /\ UNCHANGED vrows
  BY <1>2, <1>4, CarriedGiveUp
<1>5. ASSUME NEW m \in Newest(req[r].nums),
             vrows' = [vrows EXCEPT ![i][m] = Nothing],
             GotoWith(r, IF req[r].nums = {m} THEN AfterSnapshot(r)
                                              ELSE "prune.content",
                      req[r].nums \ {m})
      PROVE  Carried(r)
  <2> DEFINE place == IF req[r].nums = {m} THEN AfterSnapshot(r)
                                           ELSE "prune.content"
             rest == req[r].nums \ {m}
  <2>1. /\ place \in {"upload.place", "restore.place", "prune.content"}
        /\ rest \in SUBSET Nums /\ rest \subseteq req[r].nums
        /\ GotoWith(r, place, rest) /\ m \in Nums /\ m \in req[r].nums
    BY <1>0, <1>5 DEF AfterSnapshot, Newest, Request
  <2> HIDE DEF place, rest
  <2>2. place \in Places
    BY <2>1 DEF Places
  <2>3. /\ req'[r].pc = place /\ req'[r].nums = rest /\ req'[r].id = i
        /\ req'[r].target = req[r].target
    BY <1>0, <1>1, <2>1, <2>2, NumsFields, ZenonT(60)
  <2>4. Worker(i)' = req'[r]
    BY <1>0, <1>2, <2>3, WorkerIsNext
  <2>5. Recorded(i)' = Recorded(i) \ {m}
    BY <1>2, <1>5, <2>1 DEF Recorded, GInv, TInv, TypeOK
  <2>6. Underway(r)'
    BY <1>1, <1>2, <2>1, <2>3, <2>5 DEF Underway
  <2>7. ASSUME Safe(i)  PROVE Safe(i)'
    <3>1. PICK n \in Nums : InHistory(i, n) /\ Cardinality(Newer(i, n)) <= faults
      BY <1>1, <1>2, <2>7, SafeWhilePruning
    <3>2. n \notin req[r].nums
      BY <1>2, <1>3, <3>1 DEF InHistory, Condemned
    <3>3. n \in Recorded(i)' /\ Newer(i, n)' \subseteq Newer(i, n)
      BY <2>1, <2>5, <3>1, <3>2 DEF InHistory, Newer
    <3>4. n \notin Condemned(i)'
      BY <2>1, <2>3, <2>4, <3>2 DEF Condemned
    <3>5. Shadow(i)' <= Placed(i)'
      BY <1>2, <1>3, <2>1, <2>3, <2>4 DEF Shadow, Placed
    <3>6. vault'[i][n] = rows'[i].sha
      BY <1>2, <3>1 DEF InHistory
    <3> QED  BY <1>0, <1>2, <3>1, <3>3, <3>4, <3>5, <3>6, HistoryKept
  <2> QED  BY <1>1, <2>3, <2>6, <2>7 DEF Carried
<1> QED  BY <1>1, <1>4, <1>5 DEF PruneRow

LEMMA CarriedRestorePlace ==
  ASSUME GInv, GInv', NEW r \in Requests, RestorePlace(r), Underway(r)
  PROVE  Carried(r)
<1> USE FileStoreAssumption
<1>0. /\ req[r] \in Request /\ WellFormed(req[r]) /\ GroundedAt(r) /\ TInv
      /\ Apart' /\ faults \in Nat
  BY DEF GInv, TInv, TypeOK
<1>1. PICK i, t : i = req[r].id /\ t = req[r].target
  OBVIOUS
<1>2. /\ req[r].pc = "restore.place" /\ i \in Ids /\ t \in Nums /\ t # 0
      /\ UNCHANGED <<rows, vrows>> /\ faults' = faults
  BY <1>0, <1>1, OwnPath
     DEF RestorePlace, At, OnFile, Places, history, WellFormed, Nums
<1>3. /\ rows[i].key = req[r].key /\ disk[rows[i].key] = Nothing
      /\ Worker(i) = req[r] /\ rows[i].key \in Keys
      /\ rows[i].sha \in Contents
  BY <1>0, <1>1, <1>2, OwnFile DEF GroundedAt, BytesHold
<1>4. CASE Finish(r) /\ UNCHANGED <<disk, vault>>
  BY <1>2, <1>4, CarriedGiveUp
<1>5. CASE /\ vault[i][t] # Nothing
           /\ disk' = [disk EXCEPT ![req[r].key] = vault[i][t]]
           /\ vault' = [vault EXCEPT ![i][t] = Nothing]
           /\ Goto(r, "restore.row")
  <2>1. /\ req'[r].pc = "restore.row" /\ req'[r].id = i
        /\ req'[r].target = t
    BY <1>0, <1>1, <1>5, GotoFields, ZenonT(60)
  <2>2. Worker(i)' = req'[r]
    BY <1>0, <1>2, <2>1, WorkerIsNext
  <2>3. /\ disk'[rows[i].key] = vault[i][t] /\ vault'[i][t] = Nothing
        /\ \A n \in Nums : n # t => vault'[i][n] = vault[i][n]
    BY <1>2, <1>3, <1>5 DEF GInv, TInv, TypeOK
  <2>4. Recorded(i)' = Recorded(i)
    BY <1>2 DEF Recorded
  <2>5. Underway(r)'
    BY <1>1, <1>2, <1>5, <2>1, <2>3, <2>4 DEF Underway
  <2>6. ASSUME Safe(i)  PROVE Safe(i)'
    <3>1. PICK n \in Nums : InHistory(i, n) /\ Cardinality(Newer(i, n)) <= faults
      BY <1>1, <1>2, <2>6, SafeWhilePruning
    <3>2. CASE n = t
      BY <1>2, <2>3, <3>1, <3>2 DEF InHistory, Safe, AtPath
    <3>3. CASE n # t
      <4>1. n \in Recorded(i)' /\ Newer(i, n)' = Newer(i, n)
        BY <2>4, <3>1 DEF InHistory, Newer
      <4>2. Condemned(i)' = {} /\ Shadow(i)' <= Placed(i)'
        BY <2>1, <2>2, Counters DEF Condemned, Shadow, Placed
      <4>3. vault'[i][n] = rows'[i].sha
        BY <1>2, <2>3, <3>1, <3>3 DEF InHistory
      <4> QED  BY <1>0, <1>2, <3>1, <4>1, <4>2, <4>3, HistoryKept
    <3> QED  BY <3>2, <3>3
  <2> QED  BY <1>1, <2>1, <2>5, <2>6 DEF Carried
<1> QED  BY <1>1, <1>4, <1>5 DEF RestorePlace

LEMMA CarriedRestoreRow ==
  ASSUME Disjoint, GInv, GInv', NEW r \in Requests, RestoreRow(r), Underway(r)
  PROVE  Carried(r)
<1> USE FileStoreAssumption
<1>0. /\ req[r] \in Request /\ WellFormed(req[r]) /\ GroundedAt(r) /\ TInv
      /\ Apart' /\ faults \in Nat
  BY DEF GInv, TInv, TypeOK
<1>1. PICK i, t : i = req[r].id /\ t = req[r].target
  OBVIOUS
<1>2. /\ req[r].pc = "restore.row" /\ i \in Ids /\ t \in Nums
      /\ UNCHANGED <<rows, vault, disk>> /\ faults' = faults
      /\ t \in Recorded(i) /\ vault[i][t] = Nothing
  BY <1>0, <1>1, OwnPath
     DEF RestoreRow, At, OnFile, Places, history, Underway, Recorded
<1>3. /\ rows[i].key = req[r].key /\ Worker(i) = req[r]
      /\ rows[i].sha \in Contents
  BY <1>1, <1>2, OwnFile
<1>4. /\ vrows' = [vrows EXCEPT ![i][t] = Nothing]
      /\ Goto(r, "restore.commit")
  BY <1>1, <1>2 DEF RestoreRow, RowGone
<1>5. req'[r].pc = "restore.commit" /\ req'[r].id = i
  BY <1>0, <1>1, <1>4, GotoFields
<1>6. Worker(i)' = req'[r]
  BY <1>0, <1>2, <1>5, WorkerIsNext
<1>7. Recorded(i)' = Recorded(i) \ {t}
  BY <1>2, <1>4 DEF Recorded, GInv, TInv, TypeOK
<1>8. Underway(r)'
  BY <1>5 DEF Underway
<1>9. /\ Shadow(i)' = Shadow(i) /\ Placed(i) = 1 /\ Placed(i)' = 1
      /\ Condemned(i)' = {}
  BY <1>2, <1>3, <1>5, <1>6 DEF Shadow, Placed, Condemned
<1>10. ASSUME NEW n \in Nums, InHistory(i, n)  PROVE Safe(i)'
  <2>1. n # t
    BY <1>2, <1>3, <1>10 DEF InHistory
  <2>2. /\ n \in Recorded(i)' /\ Newer(i, n)' \subseteq Newer(i, n)
        /\ vault'[i][n] = rows'[i].sha
    BY <1>2, <1>7, <1>10, <2>1 DEF InHistory, Newer
  <2>3. Cardinality(Newer(i, n))' <= Cardinality(Newer(i, n))
    BY <2>2, NumsFinite, NewerCount, FS_Subset
  <2>4. Cardinality(Newer(i, n))' + Shadow(i)' <= faults' + Placed(i)'
    BY <1>0, <1>2, <1>9, <1>10, <2>3, NewerCount, Counters DEF InHistory
  <2> QED  BY <1>9, <2>2, <2>4 DEF Safe, InHistory
<1>11. ~Moving(i) /\ \A n \in Nums : ~Loose(i, n)
  BY <1>2, <1>3 DEF Moving, Loose, LooseAt
<1>12. AtPath(i) => AtPath(i)'
  BY <1>2 DEF AtPath
<1> QED  BY <1>1, <1>5, <1>8, <1>10, <1>11, <1>12 DEF Carried, Safe

LEMMA CarriedRestoreCommit ==
  ASSUME GInv, GInv', NEW r \in Requests, RestoreCommit(r)
  PROVE  Carried(r)
<1> USE FileStoreAssumption
<1>0. /\ TInv /\ TypeOK /\ TInv'
  BY DEF GInv, TInv
<1>1. /\ req'[r] = Idle /\ req'[r].id = Nothing
  BY <1>0 DEF RestoreCommit, Finish, Idle, TypeOK
<1>2. Underway(r)'
  BY <1>1, UnderwayIdle
<1>3. ASSUME NEW i \in Ids, i = req[r].id, Kept(i)'  PROVE Safe(i)'
  <2>1. InUse(i) /\ rows[i].key = req[r].key
    BY <1>3, OwnFile
  <2>2. Lookup(req[r].key) = {i} /\ Overwrite(i, req[r].sha)
    BY <1>0, <1>3, GroundRestoreCommit
  <2>3. i \notin exposed'
    BY <1>3 DEF Kept
  <2>4. disk[req[r].key] = req[r].sha /\ disk' = disk
    BY <2>2, <2>3 DEF RestoreCommit
  <2> QED  BY <1>0, <2>1, <2>2, <2>4, OverwriteAtPath DEF Safe
<1> QED  BY <1>1, <1>2, <1>3 DEF Carried

LEMMA CarriedErase ==
  ASSUME GInv, GInv', NEW r \in Requests, Underway(r),
         EraseContent(r) \/ EraseList(r) \/ EraseVault(r) \/ EraseHistory(r)
  PROVE  Carried(r)
<1> USE FileStoreAssumption
<1>0. /\ req[r] \in Request /\ WellFormed(req[r]) /\ TInv
  BY DEF GInv, TInv, TypeOK
<1> DEFINE places == {"erase.list", "erase.vault", "erase.history", "erase.file"}
<1>1. req[r].id \in doomed'
  BY DEF EraseContent, EraseList, EraseVault, EraseHistory, At, Underway,
         history
<1>2. req'[r].id = req[r].id /\ req'[r].pc \in places
  <2>1. CASE EraseContent(r) \/ EraseHistory(r)
    BY <1>0, <2>1, GotoFields, ZenonT(60) DEF EraseContent, EraseHistory
  <2>2. ASSUME NEW nums \in SUBSET Nums,
               NEW place \in {"erase.history", "erase.vault"},
               GotoWith(r, place, nums)
        PROVE  req'[r].id = req[r].id /\ req'[r].pc \in places
    <3>1. place \in Places
      BY DEF Places
    <3> QED  BY <1>0, <2>2, <3>1, NumsFields
  <2>3. CASE EraseList(r)
    BY <2>2, <2>3 DEF EraseList, Recorded
  <2>4. CASE EraseVault(r)
    <3>1. \A n : req[r].nums \ {n} \in SUBSET Nums
      BY <1>0 DEF Request
    <3> QED  BY <2>2, <2>4, <3>1 DEF EraseVault
  <2> QED  BY <2>1, <2>3, <2>4
<1>3. Underway(r)'
  BY <1>1, <1>2 DEF Underway
<1> QED  BY <1>1, <1>2, <1>3 DEF Carried, Kept

LEMMA CarriedEraseFile ==
  ASSUME GInv, GInv', NEW r \in Requests, EraseFile(r)
  PROVE  Carried(r)
<1> USE FileStoreAssumption, NoRowAssumption
<1>0. /\ req[r] \in Request /\ GroundedAt(r) /\ TInv
  BY DEF GInv, TInv, TypeOK
<1>1. PICK i : i = req[r].id
  OBVIOUS
<1>2. i \in Ids /\ InUse(i) /\ i # Nothing
  BY <1>1, OwnPath, OwnFile DEF EraseFile, At, OnFile, Places
<1>3. /\ rows' = [rows EXCEPT ![i] = NoRow] /\ ForgetVersions(i)
      /\ UNCHANGED <<disk, vault>> /\ faults' = faults
      /\ \/ req[r].purge = {} /\ Finish(r)
         \/ req[r].purge # {} /\ EraseNext(r, req[r].purge)
  BY <1>1, <1>2 DEF EraseFile
<1>4. ~Kept(i)'
  BY <1>2, <1>3 DEF Kept, InUse, GInv, TInv, TypeOK
<1>5. CASE Finish(r)
  <2>1. req'[r] = Idle /\ req'[r].id = Nothing
    BY <1>0, <1>5 DEF Finish, Idle, TInv, TypeOK
  <2> QED  BY <1>1, <1>4, <2>1, UnderwayIdle DEF Carried
<1>6. CASE EraseNext(r, req[r].purge)
  <2>1. PICK p \in req[r].purge :
          req' = [req EXCEPT ![r] = [Idle EXCEPT !.pc = "erase.content",
                    !.op = "purge", !.id = p[1], !.key = p[2],
                    !.purge = req[r].purge \ {p}]]
    BY <1>6, ZenonT(60) DEF EraseNext
  <2> DEFINE e == [Idle EXCEPT !.pc = "erase.content", !.op = "purge",
                     !.id = p[1], !.key = p[2], !.purge = req[r].purge \ {p}]
  <2>2. e.pc = "erase.content" /\ e.id = p[1]
    BY DEF Idle
  <2> HIDE DEF e
  <2>3. req'[r] = e /\ \A q \in Requests : q # r => req'[q] = req[q]
    BY <1>0, <2>1 DEF e, TInv, TypeOK
  <2>4. PICK j \in Ids : j = p[1]
    BY <1>0 DEF Request
  <2>5. j # i /\ j # Nothing /\ req'[r].id = j
    BY <1>0, <1>1, <2>2, <2>3, <2>4 DEF GroundedAt, ReadsHold
  <2>6. Worker(j) = Idle /\ Worker(j)' = req'[r]
    BY <1>1, <2>3, <2>5, WorkerCame, WorkerIsNext DEF GInv
  <2>7. Underway(r)'
    BY <2>2, <2>3 DEF Underway
  <2>8. /\ rows'[j] = rows[j] /\ vrows'[j] = vrows[j]
    BY <1>2, <1>3, <2>4, <2>5 DEF ForgetVersions, GInv, TInv, TypeOK
  <2>9. ASSUME Safe(j)  PROVE Safe(j)'
    <3>1. Worker(j)'.pc = "erase.content" /\ faults \in Nat
      BY <1>0, <2>2, <2>3, <2>6 DEF TInv, TypeOK
    <3> QED  BY <1>3, <2>6, <2>8, <2>9, <3>1, SafeTaken
  <2> QED  BY <1>1, <1>4, <2>5, <2>7, <2>9 DEF Carried
<1> QED  BY <1>3, <1>5, <1>6

LEMMA CarriedMove ==
  ASSUME GInv, GInv', NEW r \in Requests, Underway(r),
         MoveRename(r) \/ MoveRow(r) \/ MoveUndo(r)
  PROVE  Carried(r)
<1> USE FileStoreAssumption, NoRowAssumption
<1>0. /\ req[r] \in Request /\ WellFormed(req[r]) /\ GroundedAt(r) /\ TInv
      /\ Apart' /\ faults \in Nat
  BY DEF GInv, TInv, TypeOK
<1>1. PICK i, to : i = req[r].id /\ to = req[r].to
  OBVIOUS
<1>2. /\ req[r].pc \in {"move.rename", "move.row", "move.undo"}
      /\ i \in Ids /\ i # Nothing /\ to \in Keys /\ to # req[r].key
      /\ UNCHANGED <<vrows, vault>> /\ faults' = faults
  BY <1>0, <1>1, OwnPath
     DEF MoveRename, MoveRow, MoveUndo, At, OnFile, Places, history,
         WellFormed, Request
<1>3. /\ rows[i].key = req[r].key /\ Worker(i) = req[r] /\ InUse(i)
      /\ rows[i].sha \in Contents /\ rows[i].key \in Keys
  BY <1>1, <1>2, OwnFile
<1>4. /\ Recorded(i)' = Recorded(i) /\ \A n : Newer(i, n)' = Newer(i, n)
  BY <1>2 DEF Recorded, Newer
<1>5. ASSUME rows'[i].sha = rows[i].sha, Worker(i)' = Idle,
             NEW n \in Nums, InHistory(i, n), Shadow(i) = 1
      PROVE  Safe(i)'
  <2>1. n \in Recorded(i)' /\ vault'[i][n] = rows'[i].sha
    BY <1>2, <1>4, <1>5 DEF InHistory
  <2>2. Condemned(i)' = {} /\ Placed(i) = 0 /\ Placed(i)' = 0
    BY <1>2, <1>3, <1>5 DEF Condemned, Placed, Idle
  <2>3. Cardinality(Newer(i, n))' = Cardinality(Newer(i, n))
    BY <1>4
  <2>4. Cardinality(Newer(i, n))' + Shadow(i)' <= faults' + Placed(i)'
    BY <1>0, <1>2, <1>5, <2>2, <2>3, NewerCount, Counters DEF InHistory
  <2> QED  BY <2>1, <2>2, <2>4 DEF Safe, InHistory
<1>6. Finish(r) => /\ Worker(i)' = Idle /\ Underway(r)' /\ req'[r].id = Nothing
  <2>1. Finish(r) => /\ req'[r] = Idle /\ req'[r].id = Nothing
                     /\ \A q \in Requests : q # r => req'[q] = req[q]
    BY <1>0 DEF Finish, Idle, TInv, TypeOK
  <2> QED  BY <1>0, <1>1, <1>2, <2>1, UnderwayIdle, WorkerGone DEF GInv
<1>7. CASE MoveRename(r)
  <2>1. rows' = rows /\ req[r].pc = "move.rename"
    BY <1>7 DEF MoveRename, At
  <2>2. CASE Finish(r) /\ UNCHANGED disk
    BY <1>2, <2>1, <2>2, CarriedGiveUp
  <2>3. CASE /\ disk[req[r].key] # Nothing /\ Rename(req[r].key, to)
             /\ Goto(r, "move.row")
    <3>1. /\ req'[r].pc = "move.row" /\ req'[r].id = i /\ req'[r].to = to
          /\ req'[r].key = req[r].key
      BY <1>0, <1>1, <2>3, GotoFields
    <3>2. Worker(i)' = req'[r]
      BY <1>0, <1>2, <3>1, WorkerIsNext
    <3>3. disk'[rows[i].key] = Nothing /\ disk'[to] = disk[rows[i].key]
      BY <1>2, <1>3, <2>3 DEF Rename, GInv, TInv, TypeOK
    <3>4. Underway(r)'
      BY <1>3, <3>1, <3>3 DEF Underway
    <3>5. AtPath(i) => Moving(i)'
      BY <2>1, <3>1, <3>2, <3>3 DEF AtPath, Moving
    <3>6. ASSUME NEW n \in Nums, InHistory(i, n)  PROVE InHistory(i, n)'
      <4>1. n \in Recorded(i)' /\ vault'[i][n] = rows'[i].sha
        BY <1>2, <1>4, <2>1, <3>6 DEF InHistory
      <4>2. /\ Condemned(i)' = {} /\ Placed(i) = 0 /\ Placed(i)' = 0
            /\ Shadow(i) = 1 /\ Shadow(i)' = 1
        BY <1>3, <2>1, <2>3, <3>1, <3>2 DEF Condemned, Placed, Shadow
      <4>3. Cardinality(Newer(i, n))' = Cardinality(Newer(i, n))
        BY <1>4
      <4>4. Cardinality(Newer(i, n))' + Shadow(i)' <= faults' + Placed(i)'
        BY <1>2, <3>6, <4>2, <4>3 DEF InHistory
      <4> QED  BY <4>1, <4>2, <4>4 DEF InHistory
    <3>7. ~Moving(i) /\ \A n \in Nums : ~Loose(i, n)
      BY <1>3, <2>1, <2>3 DEF Moving, Loose
    <3> QED  BY <1>1, <3>1, <3>4, <3>5, <3>6, <3>7 DEF Carried, Safe
  <2> QED  BY <1>1, <1>7, <2>2, <2>3 DEF MoveRename
<1>8. ASSUME req[r].pc \in {"move.row", "move.undo"}
      PROVE  /\ Shadow(i) = 1 /\ ~AtPath(i)
             /\ \A n \in Nums : ~Loose(i, n)
  <2>1. disk[rows[i].key] = Nothing
    BY <1>3, <1>8 DEF Underway
  <2> QED  BY <1>3, <1>8, <2>1 DEF Shadow, AtPath, Loose, LooseAt
<1>9. CASE MoveRow(r)
  <2>1. /\ rows' = [rows EXCEPT ![i].key = to] /\ Finish(r) /\ disk' = disk
        /\ req[r].pc = "move.row"
    BY <1>0, <1>1, <1>3, <1>9 DEF MoveRow, At, GroundedAt, MoveHolds
  <2>2. rows'[i].key = to /\ rows'[i].sha = rows[i].sha
    <3>1. rows[i] \in Row
      BY <1>2, <1>3 DEF InUse, GInv, TInv, TypeOK
    <3> DEFINE row == [rows[i] EXCEPT !.key = to]
    <3>2. row.key = to /\ row.sha = rows[i].sha
      BY <3>1 DEF Row
    <3>3. rows' = [rows EXCEPT ![i] = row]
      BY <2>1
    <3> HIDE DEF row
    <3> QED  BY <1>2, <3>2, <3>3 DEF GInv, TInv, TypeOK
  <2>3. Moving(i) => AtPath(i)'
    BY <1>1, <1>3, <2>1, <2>2 DEF Moving, AtPath
  <2>4. Safe(i) => Safe(i)'
    BY <1>5, <1>6, <1>8, <2>1, <2>2, <2>3 DEF Safe
  <2> QED  BY <1>1, <1>2, <1>6, <2>1, <2>4 DEF Carried
<1>10. CASE MoveUndo(r)
  <2>1. /\ rows' = rows /\ Finish(r) /\ req[r].pc = "move.undo"
        /\ \/ disk[to] = Nothing /\ disk' = disk
           \/ Rename(to, req[r].key)
    BY <1>1, <1>10 DEF MoveUndo, At
  <2>2. Moving(i) => AtPath(i)'
    <3>1. disk[to] = rows[i].sha => disk[to] # Nothing
      BY <1>3
    <3>2. Rename(to, req[r].key) => disk'[req[r].key] = disk[to]
      BY <1>2, <1>3 DEF Rename, GInv, TInv, TypeOK
    <3> QED  BY <1>1, <1>3, <2>1, <3>1, <3>2 DEF Moving, AtPath
  <2>3. Safe(i) => Safe(i)'
    BY <1>5, <1>6, <1>8, <2>1, <2>2 DEF Safe
  <2> QED  BY <1>1, <1>2, <1>6, <2>1, <2>3 DEF Carried
<1> QED  BY <1>7, <1>9, <1>10

(***************************************************************************)
(* Failures.                                                               *)
(***************************************************************************)
LEMMA SafeFailed ==
  ASSUME NEW i, Safe(i), faults \in Nat, faults' = faults + 1,
         UNCHANGED <<rows, vrows, vault, disk>>,
         Worker(i)' = Idle, ~Moving(i)
  PROVE  Safe(i)'
<1>1. Worker(i)'.pc = "idle"
  BY DEF Idle
<1>2. Shadow(i)' <= Shadow(i) /\ Placed(i) <= Placed(i)' + 1
  BY <1>1, Counters DEF Shadow
<1>3. Shadow(i)' + faults + Placed(i) <= Shadow(i) + faults' + Placed(i)'
  BY <1>2, Counters
<1>4. /\ Condemned(i)' \subseteq Condemned(i)
      /\ \A n \in Nums : LooseAt(i, n)'
  BY <1>1 DEF Condemned, LooseAt
<1> QED  BY <1>3, <1>4, SafeFrame

LEMMA LocalRead ==
  ASSUME GInv, NEW r \in Requests, \A q \in Requests : q # r => req'[q] = req[q],
         UNCHANGED stores, doomed' = doomed, exposed \subseteq exposed',
         faults <= faults'
  PROVE  Local(r)
BY DEF Local, stores

LEMMA FailStep ==
  ASSUME GInv, GInv', NEW r \in Requests, Fail(r), Underway(r)
  PROVE  Local(r) /\ Carried(r)
<1> USE FileStoreAssumption
<1>0. /\ req[r] \in Request /\ TInv /\ Apart /\ Apart' /\ faults \in Nat
  BY DEF GInv, TInv, TypeOK
<1>1. /\ UNCHANGED <<rows, vrows, vault, disk>> /\ UNCHANGED stores
      /\ doomed' = doomed /\ exposed \subseteq exposed'
      /\ faults' = faults + 1
  BY DEF Fail, stores
<1>2. \A q \in Requests : q # r => req'[q] = req[q]
  BY <1>0 DEF Fail, Goto, Finish, TInv, TypeOK
<1>3. Local(r)
  BY <1>0, <1>1, <1>2, LocalRead
<1>4. CASE Finish(r) /\ exposed' = exposed \cup Stranded(r)
  <2>1. /\ req'[r] = Idle /\ req'[r].id = Nothing
    BY <1>0, <1>4 DEF Finish, Idle, TInv, TypeOK
  <2>2. ASSUME NEW i \in Ids, i = req[r].id, Safe(i), Kept(i)'
        PROVE  Safe(i)'
    <3>1. Worker(i) = req[r] /\ Worker(i)' = Idle
      BY <1>0, <1>2, <2>1, <2>2, OwnFile, WorkerGone
    <3>2. ~Moving(i)
      BY <1>4, <2>2, <3>1 DEF Moving, Kept, Stranded
    <3> QED  BY <1>0, <1>1, <2>2, <3>1, <3>2, SafeFailed
  <2> QED  BY <1>3, <2>1, <2>2, UnderwayIdle DEF Carried
<1>5. CASE At(r, "move.row") /\ Goto(r, "move.undo")
  <2>1. /\ req'[r].pc = "move.undo" /\ req'[r].id = req[r].id
        /\ req'[r].key = req[r].key /\ req'[r].to = req[r].to
        /\ req[r].pc = "move.row"
    BY <1>0, <1>5, GotoFields DEF At
  <2>2. Underway(r)'
    BY <1>1, <2>1 DEF Underway
  <2>3. ASSUME NEW i \in Ids, i = req[r].id, Safe(i)  PROVE Safe(i)'
    <3>1. Worker(i) = req[r] /\ Worker(i)' = req'[r]
      BY <1>0, <2>1, <2>3, OwnFile, WorkerIsNext
    <3>2. Shadow(i)' = Shadow(i) /\ Placed(i)' = Placed(i)
      BY <1>1, <2>1, <3>1 DEF Shadow, Placed
    <3>3. Shadow(i)' + faults + Placed(i) <= Shadow(i) + faults' + Placed(i)'
      BY <1>0, <1>1, <3>2, Counters
    <3>4. /\ Condemned(i)' \subseteq Condemned(i)
          /\ Moving(i) => Moving(i)'
          /\ \A n \in Nums : ~LooseAt(i, n)
      BY <1>1, <2>1, <3>1 DEF Condemned, Moving, LooseAt
    <3> QED  BY <1>0, <1>1, <2>3, <3>3, <3>4, SafeFrame
  <2> QED  BY <1>3, <2>1, <2>2, <2>3 DEF Carried
<1> QED  BY <1>4, <1>5 DEF Fail

LEMMA CrashStep ==
  ASSUME GInv, KeptSafe, Crash
  PROVE  UInv' /\ KeptSafe'
<1> USE FileStoreAssumption
<1>0. Apart /\ faults \in Nat
  BY DEF GInv, TInv, TypeOK
<1>1. /\ UNCHANGED <<rows, vrows, vault, disk>> /\ doomed' = doomed
      /\ faults' = faults + 1
      /\ \A r \in Requests : req'[r] = Idle /\ req'[r].id = Nothing
      /\ exposed' = exposed \cup UNION {Stranded(r) : r \in Requests}
  BY DEF Crash, stores, Idle
<1>2. UInv'
  BY <1>1, UnderwayIdle DEF UInv
<1>3. ASSUME Tolerated', NEW i \in Ids, Kept(i)'  PROVE Safe(i)'
  <2>1. Kept(i) /\ Tolerated
    BY <1>0, <1>1, <1>3 DEF Kept, InUse, Tolerated
  <2>2. Safe(i)
    BY <2>1 DEF KeptSafe
  <2>3. Worker(i)' = Idle /\ i # Nothing
    BY <1>1, NoWorker
  <2>4. ~Moving(i)
    <3>1. ASSUME NEW r \in Requests, req[r].id = i
          PROVE  req[r].pc \notin {"move.row", "move.undo"}
      BY <1>1, <1>3, <3>1 DEF Kept, Stranded
    <3>2. CASE \E r \in Requests : req[r].id = i
      BY <1>0, <2>3, <3>1, <3>2, WorkerIs DEF Moving
    <3>3. CASE ~\E r \in Requests : req[r].id = i
      <4>1. Worker(i) = Idle
        BY <3>3, NoWorker
      <4> QED  BY <4>1 DEF Moving, Idle
    <3> QED  BY <3>2, <3>3
  <2> QED  BY <1>0, <1>1, <2>2, <2>3, <2>4, SafeFailed
<1> QED  BY <1>2, <1>3 DEF KeptSafe

(***************************************************************************)
(* The trash and the beginnings.                                           *)
(***************************************************************************)
LEMMA TrashStep ==
  ASSUME GInv, UInv, KeptSafe, NEW i \in Ids, Delete(i) \/ RestoreFile(i)
  PROVE  UInv' /\ KeptSafe'
<1> USE FileStoreAssumption
<1>1. PICK flag \in BOOLEAN : SetTrashed(i, flag)
  BY DEF Delete, RestoreFile
<1>2. /\ UNCHANGED <<vrows, disk, vault, req, faults, doomed, exposed>>
      /\ rows' = [rows EXCEPT ![i].trashed = flag] /\ InUse(i)
  BY <1>1 DEF SetTrashed, history
<1>3. ASSUME NEW j \in Ids
      PROVE  /\ InUse(j) => /\ rows'[j].key = rows[j].key
                            /\ rows'[j].sha = rows[j].sha
             /\ InUse(j)' => InUse(j)
  <2>1. rows[i] \in Row
    BY <1>2 DEF InUse, GInv, TInv, TypeOK
  <2> DEFINE row == [rows[i] EXCEPT !.trashed = flag]
  <2>2. row.key = rows[i].key /\ row.sha = rows[i].sha
    BY <2>1 DEF Row
  <2>3. rows' = [rows EXCEPT ![i] = row]
    BY <1>2
  <2> HIDE DEF row
  <2> QED  BY <1>2, <2>2, <2>3 DEF InUse, GInv, TInv, TypeOK
<1>4. UInv'
  BY <1>2 DEF UInv, Underway, Recorded, Newest
<1>5. ASSUME Tolerated', NEW j \in Ids, Kept(j)'  PROVE Safe(j)'
  <2>1. Kept(j) /\ Tolerated
    BY <1>2, <1>3, <1>5 DEF Kept, Tolerated
  <2>2. Safe(j) /\ InUse(j)
    BY <2>1 DEF KeptSafe, Kept
  <2>3. Worker(j)' = Worker(j)
    BY <1>2 DEF Worker
  <2>4. faults \in Nat /\ faults' = faults /\ faults <= faults'
    BY <1>2 DEF GInv, TInv, TypeOK
  <2> QED  BY <1>2, <1>3, <2>2, <2>3, <2>4, SafeUntouched
<1> QED  BY <1>4, <1>5 DEF KeptSafe

LEMMA CarriedStart ==
  ASSUME GInv, GInv', NEW r \in Requests, req[r].id = Nothing,
         \A q \in Requests : q # r => req'[q] = req[q],
         UNCHANGED stores, faults' = faults,
         req'[r].pc \in {"snap.number", "move.rename", "erase.content"},
         Underway(r)'
  PROVE  Carried(r)
<1> USE FileStoreAssumption
<1>1. Apart' /\ faults \in Nat /\ UNCHANGED <<rows, vrows, vault, disk>>
  BY DEF GInv, TInv, TypeOK, stores
<1>2. ASSUME NEW i \in Ids, i = req'[r].id, Safe(i)  PROVE Safe(i)'
  <2>1. Worker(i) = Idle /\ Worker(i)' = req'[r]
    BY <1>1, <1>2, WorkerCame, WorkerIsNext
  <2> QED  BY <1>1, <1>2, <2>1, SafeTaken
<1> QED  BY <1>2 DEF Carried

LEMMA BeginStep ==
  ASSUME GInv, GInv', NEW r \in Requests, Begin(r)
  PROVE  Local(r) /\ Carried(r)
<1> USE FileStoreAssumption
<1>0. TypeOK /\ faults \in Nat /\ versioning
  BY DEF GInv, TInv, TypeOK
<1>1. ASSUME NEW e, req' = [req EXCEPT ![r] = e]
      PROVE  req'[r] = e /\ \A q \in Requests : q # r => req'[q] = req[q]
  BY <1>0, <1>1 DEF TypeOK
<1>2. req[r].id = Nothing
  <2>1. Ready(r)
    BY ZenonT(60) DEF Begin, UploadBegin, UploadBeginBlind, RestoreVersionBegin,
           EraseBegin, PurgeBegin, MoveBegin
  <2> QED  BY <2>1 DEF Ready, Idle
<1>3. ASSUME \A q \in Requests : q # r => req'[q] = req[q],
             UNCHANGED <<stores, history>>,
             req'[r].pc \in {"snap.number", "move.rename", "erase.content"},
             Underway(r)'
      PROVE  Local(r) /\ Carried(r)
  <2>1. /\ UNCHANGED stores /\ doomed' = doomed /\ exposed \subseteq exposed'
        /\ faults' = faults /\ faults <= faults'
    BY <1>0, <1>3 DEF history
  <2> QED  BY <1>2, <1>3, <2>1, LocalRead, CarriedStart
<1>4. ASSUME NEW k \in Keys, NEW c \in Contents,
             UploadBegin(r, k, c) \/ UploadBeginBlind(r, k, c)
      PROVE  Local(r) /\ Carried(r)
  <2> DEFINE e == [Idle EXCEPT !.pc = "upload.read", !.op = "upload",
                               !.key = k, !.sha = c]
  <2>1. req' = [req EXCEPT ![r] = e]
    BY <1>4 DEF UploadBegin, UploadBeginBlind
  <2>2. e.pc = "upload.read" /\ e.id = Nothing /\ e.target = 0 /\ e.num = 0
    BY DEF Idle
  <2> HIDE DEF e
  <2>3. /\ req'[r] = e /\ \A q \in Requests : q # r => req'[q] = req[q]
    BY <1>1, <2>1
  <2>4. /\ UNCHANGED stores /\ doomed' = doomed /\ exposed \subseteq exposed'
        /\ faults <= faults'
    <3>1. CASE UploadBegin(r, k, c)
      <4>1. UNCHANGED <<stores, doomed, exposed>> /\ faults' = faults
        BY <3>1 DEF UploadBegin, history
      <4> QED  BY <1>0, <4>1
    <3>2. CASE UploadBeginBlind(r, k, c)
      BY <1>0, <3>2 DEF UploadBeginBlind
    <3> QED  BY <1>4, <3>1, <3>2
  <2>5. Underway(r)'
    BY <2>2, <2>3 DEF Underway
  <2> QED  BY <1>2, <2>2, <2>3, <2>4, <2>5, LocalRead DEF Carried
<1>5. ASSUME NEW i \in Ids, NEW n \in Nums, RestoreVersionBegin(r, i, n)
      PROVE  Local(r) /\ Carried(r)
  <2> DEFINE e == [Idle EXCEPT !.pc = "snap.number",
                    !.op = "restoreVersion", !.id = i, !.key = rows[i].key,
                    !.old = rows[i].sha, !.target = n, !.sha = vrows[i][n]]
  <2>1. req' = [req EXCEPT ![r] = e] /\ UNCHANGED <<stores, history>>
    BY <1>0, <1>5 DEF RestoreVersionBegin
  <2>2. e.pc = "snap.number" /\ e.id = i /\ e.target = n
    BY DEF Idle
  <2> HIDE DEF e
  <2>3. /\ req'[r] = e /\ \A q \in Requests : q # r => req'[q] = req[q]
    BY <1>1, <2>1
  <2>4. n \in Recorded(i)'
    BY <1>5, <2>1 DEF RestoreVersionBegin, Recorded, stores
  <2>5. Underway(r)'
    BY <2>2, <2>3, <2>4 DEF Underway
  <2> QED  BY <1>3, <2>1, <2>2, <2>3, <2>5
<1>6. ASSUME req'[r].pc \in {"move.rename", "erase.content"},
             \A q \in Requests : q # r => req'[q] = req[q],
             UNCHANGED <<stores, history>>
      PROVE  Local(r) /\ Carried(r)
  <2>1. Underway(r)'
    BY <1>6 DEF Underway
  <2> QED  BY <1>3, <1>6, <2>1
<1>7. ASSUME NEW i \in Ids, EraseBegin(r, i)  PROVE Local(r) /\ Carried(r)
  <2> DEFINE e == [Idle EXCEPT !.pc = "erase.content", !.op = "erase",
                               !.id = i, !.key = rows[i].key]
  <2>1. req' = [req EXCEPT ![r] = e] /\ UNCHANGED <<stores, history>>
    BY <1>7 DEF EraseBegin
  <2>2. e.pc = "erase.content"
    BY DEF Idle
  <2> HIDE DEF e
  <2>3. req'[r] = e /\ \A q \in Requests : q # r => req'[q] = req[q]
    BY <1>1, <2>1
  <2> QED  BY <1>6, <2>1, <2>2, <2>3
<1>8. ASSUME NEW i \in Ids, NEW k \in Keys, MoveBegin(r, i, k)
      PROVE  Local(r) /\ Carried(r)
  <2> DEFINE e == [Idle EXCEPT !.pc = "move.rename", !.op = "move",
                               !.id = i, !.key = rows[i].key, !.to = k]
  <2>1. req' = [req EXCEPT ![r] = e] /\ UNCHANGED <<stores, history>>
    BY <1>8 DEF MoveBegin
  <2>2. e.pc = "move.rename"
    BY DEF Idle
  <2> HIDE DEF e
  <2>3. req'[r] = e /\ \A q \in Requests : q # r => req'[q] = req[q]
    BY <1>1, <2>1
  <2> QED  BY <1>6, <2>1, <2>2, <2>3
<1>9. ASSUME NEW S \in SUBSET Ids, PurgeBegin(r, S)
      PROVE  Local(r) /\ Carried(r)
  <2> DEFINE listed == {<<i, rows[i].key>> : i \in S}
  <2>1. EraseNext(r, listed) /\ UNCHANGED <<stores, history>>
    BY <1>9 DEF PurgeBegin
  <2> HIDE DEF listed
  <2>2. PICK p \in listed :
          req' = [req EXCEPT ![r] = [Idle EXCEPT !.pc = "erase.content",
                    !.op = "purge", !.id = p[1], !.key = p[2],
                    !.purge = listed \ {p}]]
    BY <2>1, ZenonT(60) DEF EraseNext
  <2> DEFINE e == [Idle EXCEPT !.pc = "erase.content", !.op = "purge",
                     !.id = p[1], !.key = p[2], !.purge = listed \ {p}]
  <2>3. e.pc = "erase.content" /\ req' = [req EXCEPT ![r] = e]
    BY <2>2 DEF Idle
  <2> HIDE DEF e
  <2>4. req'[r] = e /\ \A q \in Requests : q # r => req'[q] = req[q]
    BY <1>1, <2>3
  <2> QED  BY <1>6, <2>1, <2>3, <2>4
<1> QED  BY <1>4, <1>5, <1>7, <1>8, <1>9 DEF Begin

(***************************************************************************)
(* The whole step.                                                         *)
(***************************************************************************)
LEMMA StepCarried ==
  ASSUME Disjoint, GInv, GInv', UInv, NEW r \in Requests, Step(r)
  PROVE  Local(r) /\ Carried(r)
<1>1. Underway(r)
  BY DEF UInv
<1>2. CASE UploadReadBlind(r)
  <2>1. Local(r)
    BY <1>2, LocalUpload
  <2>2. req'[r].id = req[r].id /\ req'[r].pc = "upload.place"
    BY <1>2, GotoFields DEF UploadReadBlind, GInv
  <2>3. req[r].id = Nothing
    BY <1>2 DEF UploadReadBlind, At, GInv, TInv, WellFormed
  <2> QED  BY <2>1, <2>2, <2>3, FileStoreAssumption DEF Carried, Underway
<1>3. CASE RestoreDiscard(r)
  BY <1>3 DEF RestoreDiscard, GInv, GroundedAt, BytesHold
<1>4. CASE UploadRead(r) \/ UploadPlace(r) \/ UploadCommit(r)
  BY <1>1, <1>4, LocalUpload, CarriedUploadRead, CarriedUploadPlace,
     CarriedUploadCommit
<1>5. CASE SnapshotNumber(r) \/ SnapshotMove(r) \/ SnapshotRecord(r)
  BY <1>1, <1>5, LocalOnFile, CarriedSnapshotNumber, CarriedSnapshotMove,
     CarriedSnapshotRecord
<1>6. CASE PruneList(r) \/ PruneContent(r) \/ PruneRow(r)
  BY <1>1, <1>6, LocalOnFile, CarriedPruneList, CarriedPruneContent,
     CarriedPruneRow
<1>7. CASE RestorePlace(r) \/ RestoreRow(r)
  BY <1>1, <1>7, LocalOnFile, CarriedRestorePlace, CarriedRestoreRow
<1>8. CASE \/ EraseContent(r) \/ EraseList(r) \/ EraseVault(r)
           \/ EraseHistory(r) \/ EraseFile(r)
  BY <1>1, <1>8, LocalOnFile, CarriedErase, CarriedEraseFile
<1>9. CASE MoveRename(r) \/ MoveRow(r) \/ MoveUndo(r)
  BY <1>1, <1>9, LocalMove, CarriedMove
<1>10. CASE RestoreCommit(r)
  BY <1>10, LocalRestoreCommit, CarriedRestoreCommit
<1> QED  BY <1>2, <1>3, <1>4, <1>5, <1>6, <1>7, <1>8, <1>9, <1>10 DEF Step

\* A request's step carries the content of every file.
LEMMA RequestStep ==
  ASSUME GInv, GInv', UInv, KeptSafe, NEW r \in Requests, Local(r), Carried(r)
  PROVE  UInv' /\ KeptSafe'
<1> USE FileStoreAssumption
<1>1. UInv'
  BY OthersUnderway DEF UInv, Carried
<1>2. ASSUME Tolerated', NEW i \in Ids, Kept(i)'  PROVE Safe(i)'
  <2>1. CASE i # req[r].id /\ i # req'[r].id
    BY <1>2, <2>1, OthersSafe
  <2>2. CASE AtPath(i)'
    BY <2>2 DEF Safe
  <2>3. CASE (i = req[r].id \/ i = req'[r].id) /\ ~AtPath(i)'
    <3>1. InUse(i)
      <4>1. CASE i = req[r].id
        BY <4>1, OwnFile
      <4>2. CASE i # req[r].id
        BY <1>2, <2>3, <4>2 DEF Local, Kept, InUse
      <4> QED  BY <4>1, <4>2
    <3>2. Kept(i)
      BY <1>2, <3>1 DEF Kept, Local, Fresh
    <3>3. Tolerated
      BY <1>2 DEF Tolerated, Local, GInv, TInv, TypeOK
    <3>4. Safe(i)
      BY <3>2, <3>3 DEF KeptSafe
    <3> QED  BY <1>2, <2>3, <3>4 DEF Carried
  <2> QED  BY <2>1, <2>2, <2>3
<1> QED  BY <1>1, <1>2 DEF KeptSafe

LEMMA SafeNext ==
  ASSUME Disjoint, "reconfigure" \notin Ops, IInv, [Next]_vars
  PROVE  IInv'
<1>0. GInv /\ UInv /\ KeptSafe /\ GInv'
  BY GroundNext DEF IInv
<1>1. ASSUME NEW r \in Requests, Begin(r) \/ Step(r) \/ Fail(r)
      PROVE  IInv'
  <2>1. Underway(r)
    BY <1>0 DEF UInv
  <2>2. Local(r) /\ Carried(r)
    BY <1>0, <1>1, <2>1, BeginStep, StepCarried, FailStep
  <2> QED  BY <1>0, <2>2, RequestStep DEF IInv
<1>2. ASSUME NEW i \in Ids, Delete(i) \/ RestoreFile(i)  PROVE IInv'
  BY <1>0, <1>2, TrashStep DEF IInv
<1>3. CASE Crash
  BY <1>0, <1>3, CrashStep DEF IInv
<1>4. CASE Reconfigure
  BY <1>4 DEF Reconfigure
<1>5. CASE UNCHANGED vars
  <2>1. UInv'
    BY <1>0, <1>5 DEF vars, UInv, Underway, Recorded, Newest
  <2>2. ASSUME Tolerated', NEW i \in Ids, Kept(i)'  PROVE Safe(i)'
    <3>1. Tolerated /\ Kept(i)
      BY <1>5, <2>2 DEF vars, Tolerated, Kept, InUse
    <3>2. Safe(i) /\ faults \in Nat /\ faults' = faults /\ faults <= faults'
      BY <1>0, <1>5, <3>1 DEF KeptSafe, vars, GInv, TInv, TypeOK
    <3>3. Worker(i)' = Worker(i)
      BY <1>5 DEF vars, Worker
    <3> QED  BY <1>5, <3>2, <3>3, SafeUntouched DEF vars
  <2> QED  BY <1>0, <2>1, <2>2 DEF IInv, KeptSafe
<1> QED  BY <1>1, <1>2, <1>3, <1>4, <1>5 DEF Next

LEMMA SafeInit == Init => IInv
<1> SUFFICES ASSUME Init  PROVE IInv
  OBVIOUS
<1>1. GInv
  BY GroundInit
<1>2. \A r \in Requests : req[r].pc = "idle"
  BY DEF Init, Idle
<1>3. UInv
  BY <1>2 DEF UInv, Underway
<1>4. KeptSafe
  BY DEF Init, KeptSafe, Kept, InUse
<1> QED  BY <1>1, <1>3, <1>4 DEF IInv

LEMMA SafeIsRecoverable == IInv => Recoverable
<1> SUFFICES ASSUME IInv, Tolerated, NEW i \in Ids, Kept(i)  PROVE Stored(i)
  BY DEF Recoverable
<1>1. Safe(i) /\ Apart
  BY DEF IInv, KeptSafe, GInv
<1>2. ASSUME Moving(i)  PROVE InTransit(i)
  <2>1. PICK r \in Requests : req[r].id = i
    BY <1>2, NoWorker DEF Moving, Idle
  <2>2. Worker(i) = req[r]
    BY <1>1, <2>1, WorkerIs, FileStoreAssumption
  <2> QED  BY <1>2, <2>1, <2>2 DEF Moving, InTransit
<1> QED  BY <1>1, <1>2 DEF Safe, AtPath, Stored, InHistory, Loose

\* The invariant is inductive: what the requests rely on, what an unfinished
\* step has left, and where the content of every file is.
THEOREM ContentInvariant ==
  ASSUME Disjoint, "reconfigure" \notin Ops
  PROVE  Spec => []IInv
<1>1. IInv /\ [Next]_vars => IInv'
  BY SafeNext
<1> QED  BY <1>1, SafeInit, PTL DEF Spec

\* No content is lost: whatever the number of files, requests and versions, as
\* long as fewer calls failed or crashed than the history has versions, the
\* bytes the catalogue names are in the pool.
THEOREM NoContentLost ==
  ASSUME Disjoint, "reconfigure" \notin Ops
  PROVE  Spec => []Recoverable
<1>1. Spec => []IInv
  BY ContentInvariant
<1> QED  BY <1>1, SafeIsRecoverable, PTL

(***************************************************************************)
(* Recorded versions.                                                      *)
(***************************************************************************)
VersionStays(i, n) == /\ vrows'[i][n] \in {vrows[i][n], Nothing}
                      /\ vault'[i][n] \in {vault[i][n], Nothing}

LEMMA VersionStep ==
  ASSUME GInv, NEW r \in Requests, Step(r), NEW i \in Ids, NEW n \in Nums,
         vrows[i][n] # Nothing
  PROVE  VersionStays(i, n)
<1> USE FileStoreAssumption
<1>0. /\ TypeOK /\ req[r] \in Request /\ WellFormed(req[r]) /\ GroundedAt(r)
      /\ n \in Recorded(i)
  BY DEF GInv, TInv, TypeOK, Recorded
<1>1. CASE UNCHANGED <<vrows, vault>>
  BY <1>1 DEF VersionStays
<1>2. ASSUME vrows' = vrows, NEW j, NEW m,
             vault' = [vault EXCEPT ![j][m] = Nothing]
      PROVE  VersionStays(i, n)
  BY <1>0, <1>2 DEF VersionStays, TypeOK
<1>3. ASSUME vault' = vault, NEW j, NEW m,
             vrows' = [vrows EXCEPT ![j][m] = Nothing]
      PROVE  VersionStays(i, n)
  BY <1>0, <1>3 DEF VersionStays, TypeOK
<1>4. CASE UploadCommit(r)
  <2>1. /\ vrows' = vrows
        /\ \/ vault' = vault
           \/ \E j : vault' = [vault EXCEPT ![j] = [m \in Nums |-> Nothing]]
    BY <1>4 DEF UploadCommit, Overwrite, Insert
  <2> QED  BY <1>0, <2>1 DEF VersionStays, TypeOK
<1>5. CASE SnapshotMove(r)
  <2>1. PICK j, m : j = req[r].id /\ m = req[r].num
    OBVIOUS
  <2>2. j \in Ids /\ m \in Nums /\ \A x \in Recorded(j) : x < m
    BY <1>0, <1>5, <2>1, OwnPath
       DEF SnapshotMove, At, OnFile, Places, WellFormed, GroundedAt,
           SnapshotHolds
  <2>3. j = i => n # m
    BY <1>0, <2>2 DEF Nums
  <2>4. /\ vrows' = vrows
        /\ \/ vault' = vault
           \/ vault' = [vault EXCEPT ![j][m] = disk[req[r].key]]
    BY <1>5, <2>1 DEF SnapshotMove
  <2> QED  BY <1>0, <2>2, <2>3, <2>4 DEF VersionStays, TypeOK
<1>6. CASE SnapshotRecord(r)
  <2>1. PICK j, m : j = req[r].id /\ m = req[r].num
    OBVIOUS
  <2>2. /\ vault' = vault
        /\ \/ vrows' = vrows
           \/ /\ m \notin Recorded(j)
              /\ vrows' = [vrows EXCEPT ![j][m] = req[r].old]
    BY <1>6, <2>1 DEF SnapshotRecord
  <2> QED  BY <1>0, <2>2 DEF VersionStays, TypeOK
<1>7. CASE PruneContent(r) \/ EraseVault(r)
  BY <1>2, <1>7 DEF PruneContent, EraseVault
<1>8. CASE PruneRow(r)
  BY <1>1, <1>3, <1>8 DEF PruneRow
<1>9. CASE RestorePlace(r)
  BY <1>1, <1>2, <1>9 DEF RestorePlace
<1>10. CASE RestoreRow(r)
  BY <1>1, <1>3, <1>10 DEF RestoreRow
<1>11. CASE RestoreCommit(r)
  BY <1>1, <1>11 DEF RestoreCommit, Overwrite
<1>12. CASE EraseHistory(r) \/ EraseFile(r)
  <2>1. /\ vault' = vault
        /\ \/ vrows' = vrows \/ ForgetVersions(req[r].id)
    BY <1>12 DEF EraseHistory, EraseFile
  <2> QED  BY <1>0, <2>1 DEF ForgetVersions, VersionStays, TypeOK
<1>13. CASE \/ UploadRead(r) \/ UploadReadBlind(r) \/ UploadPlace(r)
            \/ SnapshotNumber(r) \/ PruneList(r) \/ RestoreDiscard(r)
            \/ EraseContent(r) \/ EraseList(r)
            \/ MoveRename(r) \/ MoveRow(r) \/ MoveUndo(r)
  BY <1>1, <1>13, ZenonT(60)
     DEF UploadRead, UploadReadBlind, UploadPlace, SnapshotNumber, PruneList,
         RestoreDiscard, EraseContent, EraseList, MoveRename, MoveRow,
         MoveUndo, stores
<1> QED  BY <1>4, <1>5, <1>6, <1>7, <1>8, <1>9, <1>10, <1>11, <1>12, <1>13
         DEF Step

\* A recorded version is never rewritten by requests that keep apart: not by a
\* snapshot that starts again after a failure, nor by a prune or a restore.
THEOREM VersionsNeverRewritten ==
  ASSUME Disjoint, "reconfigure" \notin Ops
  PROVE  Spec => HistoryImmutable
<1>1. ASSUME GInv, [Next]_vars, NEW i \in Ids, NEW n \in Nums,
             vrows[i][n] # Nothing
      PROVE  VersionStays(i, n)
  <2>1. CASE UNCHANGED <<vrows, vault>>
    BY <2>1 DEF VersionStays
  <2>2. ASSUME NEW r \in Requests, Begin(r) \/ Fail(r)
        PROVE  UNCHANGED <<vrows, vault>>
    BY <2>2, ZenonT(60) DEF Begin, UploadBegin, UploadBeginBlind, RestoreVersionBegin,
                EraseBegin, PurgeBegin, MoveBegin, Fail, stores
  <2>3. ASSUME NEW j \in Ids, Delete(j) \/ RestoreFile(j)
        PROVE  UNCHANGED <<vrows, vault>>
    BY <2>3 DEF Delete, RestoreFile, SetTrashed
  <2>4. CASE Crash \/ Reconfigure \/ UNCHANGED vars
    BY <2>1, <2>4 DEF Crash, Reconfigure, vars, stores
  <2> QED  BY <1>1, <2>1, <2>2, <2>3, <2>4, VersionStep DEF Next
<1>2. GInv /\ [Next]_vars =>
        [\A i \in Ids, n \in Nums :
           vrows[i][n] # Nothing =>
             /\ vrows'[i][n] \in {vrows[i][n], Nothing}
             /\ vault'[i][n] \in {vault[i][n], Nothing}]_vars
  BY <1>1 DEF VersionStays
<1>3. Spec => []GInv
  BY RequestsGrounded
<1> QED  BY <1>2, <1>3, PTL DEF Spec, HistoryImmutable
=============================================================================
