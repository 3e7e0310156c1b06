------------------------ MODULE FileStoreStepProofs -------------------------
(***************************************************************************)
(* Both stores in step, for requests that keep apart and a configuration   *)
(* that keeps versioning on: what no request works on is left alone, a     *)
(* history keeps to its limit, and, while nothing fails, the paths and the *)
(* version store hold what the catalogue says.  And the refinement.        *)
(***************************************************************************)
EXTENDS FileStoreProofs, FileStoreRefinement

(***************************************************************************)
(* What no request works on.                                               *)
(***************************************************************************)
LeftAlone(i) ==
  /\ InUse(i)'
  /\ rows'[i].key = rows[i].key /\ rows'[i].sha = rows[i].sha
  /\ disk'[rows[i].key] = disk[rows[i].key]

LEMMA LocalLeavesAlone ==
  ASSUME GInv, NEW r \in Requests, Local(r), NEW i \in Ids, InUse(i),
         i # req[r].id, i \notin exposed'
  PROVE  LeftAlone(i)
<1>1. i \notin exposed
  BY DEF Local
<1>2. rows'[i] = rows[i]
  BY <1>1 DEF Local
<1>3. rows[i].key \in Keys /\ i \in Lookup(rows[i].key)
  BY DEF InUse, Lookup, GInv, TInv, TypeOK, Row
<1>4. disk'[rows[i].key] = disk[rows[i].key]
  BY <1>1, <1>3 DEF Local
<1> QED  BY <1>2, <1>4 DEF LeftAlone, InUse

LEMMA TrashLeavesAlone ==
  ASSUME TypeOK, NEW j \in Ids, Delete(j) \/ RestoreFile(j), NEW i \in Ids, InUse(i)
  PROVE  LeftAlone(i)
<1>1. PICK flag \in BOOLEAN : SetTrashed(j, flag)
  BY DEF Delete, RestoreFile
<1> DEFINE row == [rows[j] EXCEPT !.trashed = flag]
<1>2. rows' = [rows EXCEPT ![j] = row] /\ disk' = disk /\ rows[j] \in Row
  BY <1>1 DEF SetTrashed, InUse, TypeOK
<1>3. row \in Row /\ row.key = rows[j].key /\ row.sha = rows[j].sha
  BY <1>2 DEF Row
<1> HIDE DEF row
<1>4. rows'[i] = (IF i = j THEN row ELSE rows[i])
  BY <1>2 DEF TypeOK
<1> QED  BY <1>2, <1>3, <1>4, NoRowAssumption DEF LeftAlone, InUse

LEMMA StillLeavesAlone ==
  ASSUME UNCHANGED <<rows, disk>>, NEW i \in Ids, InUse(i)
  PROVE  LeftAlone(i)
BY DEF LeftAlone, InUse

\* No handler, no failure and no crash touches the row or the bytes of a file
\* that no request has read, whatever else the requests do.
THEOREM OthersUndisturbed ==
  ASSUME Disjoint, "reconfigure" \notin Ops
  PROVE  Spec => Undisturbed
<1>1. ASSUME IInv, IInv', [Next]_vars, NEW i \in Ids, InUse(i),
             \A r \in Requests : i \notin Files(r), i \notin exposed'
      PROVE  LeftAlone(i)
  <2>1. GInv /\ GInv' /\ UInv /\ TypeOK
    BY <1>1 DEF IInv, GInv, TInv
  <2>2. ASSUME NEW r \in Requests, Begin(r) \/ Step(r) \/ Fail(r)
        PROVE  LeftAlone(i)
    <3>1. Local(r)
      BY <2>1, <2>2, BeginStep, StepCarried, FailStep DEF UInv
    <3>2. i # req[r].id
      BY <1>1, FileStoreAssumption DEF Files
    <3> QED  BY <1>1, <2>1, <3>1, <3>2, LocalLeavesAlone
  <2>3. ASSUME NEW j \in Ids, Delete(j) \/ RestoreFile(j)  PROVE LeftAlone(i)
    BY <1>1, <2>1, <2>3, TrashLeavesAlone
  <2>4. CASE Crash \/ Reconfigure \/ UNCHANGED vars
    BY <1>1, <2>4, StillLeavesAlone DEF Crash, Reconfigure, stores, vars
  <2> QED  BY <1>1, <2>2, <2>3, <2>4 DEF Next
<1>2. IInv /\ IInv' /\ [Next]_vars =>
        [\A i \in Ids :
           InUse(i) /\ (\A r \in Requests : i \notin Files(r)) /\ i \notin exposed' =>
             /\ InUse(i)'
             /\ rows'[i].key = rows[i].key /\ rows'[i].sha = rows[i].sha
             /\ disk'[rows[i].key] = disk[rows[i].key]]_vars
  BY <1>1 DEF LeftAlone
<1>3. Spec => []IInv
  BY ContentInvariant
<1> QED  BY <1>2, <1>3, PTL DEF Spec, Undisturbed

(***************************************************************************)
(* Where an operation begins.                                              *)
(***************************************************************************)
LEMMA BeginsAt ==
  ASSUME GInv, NEW r \in Requests, Begin(r)
  PROVE  /\ UNCHANGED stores /\ req[r] = Idle /\ (faults' = faults => exposed' = exposed)
         /\ \/ req'[r].pc = "upload.read" /\ req'[r].id = Nothing
            \/ /\ req'[r].pc \in {"move.rename", "erase.content"}
               /\ req'[r].pc = "move.rename" => ~Trashed(req'[r].id)
            \/ /\ req'[r].pc = "snap.number" /\ "restoreVersion" \in Ops
               /\ req'[r].op = "restoreVersion"
               /\ \E i \in Ids, n \in Nums :
                    /\ req'[r].id = i /\ req'[r].target = n /\ req'[r].old = rows[i].sha
                    /\ n \in Recorded(i) /\ req'[r].sha = vrows[i][n]
<1>0. TypeOK /\ versioning
  BY DEF GInv, TInv
<1>1. UNCHANGED stores /\ req[r] = Idle
  BY ZenonT(60) DEF Begin, UploadBegin, UploadBeginBlind, RestoreVersionBegin, EraseBegin, PurgeBegin,
         MoveBegin, Ready
<1>8. faults' = faults => exposed' = exposed
  <2>1. faults \in Nat
    BY <1>0 DEF TypeOK
  <2>2. UNCHANGED history \/ faults' = faults + 1
    BY ZenonT(60) DEF Begin, UploadBegin, UploadBeginBlind, RestoreVersionBegin, EraseBegin, PurgeBegin,
           MoveBegin
  <2> QED  BY <2>1, <2>2 DEF history
<1>2. ASSUME NEW q, req' = [req EXCEPT ![r] = q]  PROVE req'[r] = q
  BY <1>0, <1>2 DEF TypeOK
<1>3. CASE \E k \in Keys, c \in Contents : UploadBegin(r, k, c) \/ UploadBeginBlind(r, k, c)
  <2>1. PICK k, c : UploadBegin(r, k, c) \/ UploadBeginBlind(r, k, c)
    BY <1>3
  <2> DEFINE q == [Idle EXCEPT !.pc = "upload.read", !.op = "upload", !.key = k, !.sha = c]
  <2>2. q.pc = "upload.read" /\ q.id = Nothing
    BY DEF Idle
  <2>3. req' = [req EXCEPT ![r] = q]
    BY <2>1 DEF UploadBegin, UploadBeginBlind
  <2> HIDE DEF q
  <2> QED  BY <1>1, <1>8, <1>2, <2>2, <2>3
<1>4. CASE \E i \in Ids : EraseBegin(r, i)
  <2>1. PICK i \in Ids : EraseBegin(r, i)
    BY <1>4
  <2> DEFINE q == [Idle EXCEPT !.pc = "erase.content", !.op = "erase", !.id = i,
                               !.key = rows[i].key]
  <2>2. q.pc = "erase.content"
    BY DEF Idle
  <2>3. req' = [req EXCEPT ![r] = q]
    BY <2>1 DEF EraseBegin
  <2> HIDE DEF q
  <2> QED  BY <1>1, <1>8, <1>2, <2>2, <2>3
<1>5. CASE \E S \in SUBSET Ids : PurgeBegin(r, S)
  <2>1. PICK l, p : req' = [req EXCEPT ![r] = [Idle EXCEPT !.pc = "erase.content",
              !.op = "purge", !.id = p[1], !.key = p[2], !.purge = l \ {p}]]
    BY <1>5, ZenonT(60) DEF PurgeBegin, EraseNext
  <2> DEFINE q == [Idle EXCEPT !.pc = "erase.content", !.op = "purge", !.id = p[1],
                               !.key = p[2], !.purge = l \ {p}]
  <2>2. q.pc = "erase.content" /\ req' = [req EXCEPT ![r] = q]
    BY <2>1 DEF Idle
  <2> HIDE DEF q
  <2> QED  BY <1>1, <1>8, <1>2, <2>2
<1>6. CASE \E i \in Ids, k \in Keys : MoveBegin(r, i, k)
  <2>1. PICK i, k : MoveBegin(r, i, k)
    BY <1>6
  <2> DEFINE q == [Idle EXCEPT !.pc = "move.rename", !.op = "move", !.id = i,
                               !.key = rows[i].key, !.to = k]
  <2>2. q.pc = "move.rename" /\ q.id = i
    BY DEF Idle
  <2>3. req' = [req EXCEPT ![r] = q] /\ ~Trashed(i)
    BY <2>1 DEF MoveBegin
  <2> HIDE DEF q
  <2> QED  BY <1>1, <1>8, <1>2, <2>2, <2>3
<1>7. CASE \E i \in Ids, n \in Nums : RestoreVersionBegin(r, i, n)
  <2>1. PICK i \in Ids, n \in Nums : RestoreVersionBegin(r, i, n)
    BY <1>7
  <2> DEFINE q == [Idle EXCEPT !.pc = "snap.number",
                    !.op = "restoreVersion", !.id = i, !.key = rows[i].key,
                    !.old = rows[i].sha, !.target = n, !.sha = vrows[i][n]]
  <2>2. /\ q.pc = "snap.number" /\ q.id = i /\ q.target = n /\ q.old = rows[i].sha
        /\ q.sha = vrows[i][n] /\ q.op = "restoreVersion"
    BY DEF Idle
  <2>3. req' = [req EXCEPT ![r] = q] /\ n \in Recorded(i) /\ "restoreVersion" \in Ops
    BY <1>0, <2>1 DEF RestoreVersionBegin
  <2> HIDE DEF q
  <2> QED  BY <1>1, <1>8, <1>2, <2>2, <2>3
<1> QED  BY <1>3, <1>4, <1>5, <1>6, <1>7 DEF Begin

(***************************************************************************)
(* The limit of a history.                                                 *)
(***************************************************************************)
LEMMA HasOldest ==
  ASSUME NEW S \in SUBSET Nums, S # {}
  PROVE  \E m \in S : \A n \in S : m <= n
<1>1. S \subseteq Nat
  BY FileStoreAssumption DEF Nums
<1>2. PICK m \in S : \A n \in S : ~(<<n, m>> \in OpToRel(<, Nat))
  BY <1>1, NatLessThanWellFounded, WFMin, ZenonT(60)
<1>3. \A n \in S : m <= n
  <2> TAKE n \in S
  <2>1. n \in Nat /\ m \in Nat
    BY <1>1
  <2>2. ~(n < m)
    BY <1>2, <2>1 DEF OpToRel
  <2> QED  BY <2>1, <2>2
<1> QED  BY <1>3

LEMMA SmallerHistory ==
  ASSUME NEW S, NEW T, S \subseteq T, T \subseteq Nums
  PROVE  /\ Cardinality(S) <= Cardinality(T)
         /\ Cardinality(S) \in Nat /\ Cardinality(T) \in Nat
BY NumsFinite, FS_Subset

\* A limit of N leaves N versions: the oldest that stays has fewer than N newer
\* ones, and all the others that stay are among these.
LEMMA SurplusTrims ==
  ASSUME MaxVersions > 0, NEW i \in Ids
  PROVE  /\ Surplus(i) \subseteq Recorded(i)
         /\ Cardinality(Recorded(i) \ Surplus(i)) <= MaxVersions
<1> DEFINE K == Recorded(i) \ Surplus(i)
<1>0. /\ MaxVersions \in Nat /\ MaxVersions # 0 /\ Recorded(i) \subseteq Nums
      /\ K \subseteq Nums
  BY FileStoreAssumption DEF Recorded
<1>1. Surplus(i) \subseteq Recorded(i)
  BY DEF Surplus
<1>2. CASE K = {}
  BY <1>0, <1>1, <1>2, FS_EmptySet
<1>3. CASE K # {}
  <2>1. PICK n \in K : \A m \in K : n <= m
    BY <1>0, <1>3, HasOldest
  <2>2. Cardinality(Newer(i, n)) < MaxVersions
    <3>1. ~(Cardinality(Newer(i, n)) >= MaxVersions)
      BY <1>0, <2>1 DEF Surplus
    <3> QED  BY <1>0, <3>1, NewerCount
  <2>3. K \ {n} \subseteq Newer(i, n)
    <3>1. ASSUME NEW m \in K, m # n  PROVE m \in Recorded(i) /\ m > n
      <4>1. m \in Nums /\ n \in Nums /\ n <= m
        BY <1>0, <2>1
      <4> QED  BY <3>1, <4>1, FileStoreAssumption DEF Nums
    <3> QED  BY <3>1 DEF Newer
  <2>4. Cardinality(K \ {n}) <= Cardinality(Newer(i, n))
    BY <2>3, NewerCount, SmallerHistory
  <2>5. Cardinality(K \ {n}) = Cardinality(K) - 1
    BY <1>0, <2>1, NumsFinite, FS_RemoveElement
  <2>6. Cardinality(K) \in Nat /\ Cardinality(Newer(i, n)) \in Nat
    BY <1>0, NumsFinite, NewerCount
  <2> QED  BY <1>0, <1>1, <2>2, <2>4, <2>5, <2>6
<1> QED  BY <1>2, <1>3

Trims == {"prune.list", "prune.content", "prune.row"}

Slack(i) == IF Pruning(i) THEN 1 ELSE 0

Within(i) == Cardinality(Recorded(i)) <= MaxVersions + faults + Slack(i)

LEMMA OwnPruning ==
  ASSUME Apart, NEW r \in Requests, NEW i, i # Nothing, req[r].id = i
  PROVE  Pruning(i) <=> req[r].pc \in Trims
<1>1. \A q \in Requests : q # r => req[q].id # i
  BY FootprintMember DEF Apart
<1> QED  BY <1>1 DEF Pruning, Trims

\* What a step of a request does to the history of its file.
KeepsWithin(r) ==
  /\ Trimming(r)'
  /\ \A i \in Ids : i = req[r].id => Within(i)'

LEMMA WithinStep ==
  ASSUME MaxVersions > 0, GInv, GInv', HInv, NEW r \in Requests, Local(r), KeepsWithin(r)
  PROVE  HInv'
<1> USE FileStoreAssumption
<1>0. /\ Apart /\ TypeOK /\ faults \in Nat /\ faults' \in Nat /\ faults <= faults'
      /\ MaxVersions \in Nat
  BY DEF GInv, TInv, TypeOK, Local
<1>1. ASSUME NEW q \in Requests, q # r  PROVE Trimming(q)'
  <2>1. req'[q] = req[q] /\ Trimming(q) /\ WellFormed(req[q]) /\ req[q] \in Request
    BY <1>1 DEF Local, HInv, GInv, TInv, TypeOK
  <2>2. req[q].pc \in {"prune.content", "prune.row"} =>
          /\ req[q].id \in Ids /\ Recorded(req[q].id)' = Recorded(req[q].id)
    <3>1. SUFFICES ASSUME req[q].pc \in {"prune.content", "prune.row"}
                   PROVE  req[q].id \in Ids /\ Recorded(req[q].id)' = Recorded(req[q].id)
      OBVIOUS
    <3>2. PICK i \in Ids : i = req[q].id
      BY <2>1, <3>1 DEF WellFormed, OnFile, Places, Request
    <3>3. i # req[r].id
      BY <1>0, <1>1, <3>2, FootprintMember DEF Apart
    <3>4. Recorded(i)' = Recorded(i)
      BY <3>3 DEF Local, Recorded
    <3> QED  BY <2>1, <3>2, <3>4
  <2> QED  BY <2>1, <2>2 DEF Trimming
<1>2. ASSUME NEW i \in Ids, i # req[r].id  PROVE Within(i)'
  <2>1. Recorded(i)' = Recorded(i)
    BY <1>2 DEF Local, Recorded
  <2>2. Pruning(i) => Pruning(i)'
    BY <1>2 DEF Local, Pruning
  <2>3. Slack(i) \in {0, 1} /\ Slack(i)' \in {0, 1} /\ Slack(i) <= Slack(i)'
    BY <2>2 DEF Slack
  <2>4. Cardinality(Recorded(i)) <= MaxVersions + faults + Slack(i)
    BY DEF HInv, Slack
  <2>5. Cardinality(Recorded(i)) \in Nat
    BY NumsFinite DEF Recorded
  <2>6. Cardinality(Recorded(i)) <= MaxVersions + faults' + Slack(i)'
    BY <1>0, <2>3, <2>4, <2>5
  <2> QED  BY <2>1, <2>6 DEF Within
<1> QED  BY <1>1, <1>2 DEF HInv, KeepsWithin, Within, Slack

\* A step that adds nothing to the history, outside the pruning or by a failure.
LEMMA CalmKeeps ==
  ASSUME MaxVersions > 0, GInv, HInv, NEW r \in Requests, faults' \in Nat,
         req'[r].pc \notin {"prune.content", "prune.row"},
         \A i \in Ids : i = req[r].id => Recorded(i)' \subseteq Recorded(i),
         IF req[r].pc \in Trims THEN faults' = faults + 1 ELSE faults <= faults'
  PROVE  KeepsWithin(r)
<1> USE FileStoreAssumption
<1>1. Trimming(r)'
  BY DEF Trimming
<1>2. ASSUME NEW i \in Ids, i = req[r].id  PROVE Within(i)'
  <2>1. Cardinality(Recorded(i)) <= MaxVersions + faults + Slack(i)
    BY DEF HInv, Slack
  <2>2. Pruning(i) <=> req[r].pc \in Trims
    BY <1>2, OwnPruning DEF GInv
  <2>3. /\ Slack(i) = (IF req[r].pc \in Trims THEN 1 ELSE 0) /\ Slack(i)' \in {0, 1}
    BY <2>2 DEF Slack
  <2>4. PICK S : S = Recorded(i)'
    OBVIOUS
  <2>5. /\ Cardinality(S) <= Cardinality(Recorded(i))
        /\ Cardinality(S) \in Nat /\ Cardinality(Recorded(i)) \in Nat
    <3>1. S \subseteq Recorded(i) /\ Recorded(i) \subseteq Nums
      BY <1>2, <2>4 DEF Recorded
    <3> QED  BY <3>1, SmallerHistory
  <2>6. faults \in Nat /\ MaxVersions \in Nat
    BY DEF GInv, TInv, TypeOK
  <2>7. Cardinality(S) <= MaxVersions + faults' + Slack(i)'
    BY <2>1, <2>3, <2>5, <2>6
  <2> QED  BY <2>4, <2>7 DEF Within
<1> QED  BY <1>1, <1>2 DEF KeepsWithin

LEMMA RecordKeepsWithin ==
  ASSUME MaxVersions > 0, GInv, GInv', HInv, NEW r \in Requests, SnapshotRecord(r)
  PROVE  KeepsWithin(r)
<1> USE FileStoreAssumption
<1>0. /\ TInv /\ TypeOK /\ Apart /\ Apart' /\ faults \in Nat /\ faults' \in Nat
      /\ faults' = faults /\ MaxVersions \in Nat /\ req[r].pc = "snap.record"
      /\ WellFormed(req[r]) /\ req[r] \in Request
  BY DEF GInv, TInv, TypeOK, SnapshotRecord, history, At
<1>1. PICK i, n : i = req[r].id /\ n = req[r].num
  OBVIOUS
<1>2. i \in Ids /\ n \in Nums
  BY <1>0, <1>1 DEF WellFormed, OnFile, Places, Request
<1>3. CASE Finish(r) /\ vrows' = vrows
  <2>1. req'[r].pc = "idle"
    BY <1>0, <1>3 DEF Finish, Idle, TypeOK
  <2> QED  BY <1>0, <2>1, <1>3, CalmKeeps DEF Trims, Recorded
<1>4. CASE Goto(r, "prune.list") /\ vrows' = [vrows EXCEPT ![i][n] = req[r].old]
  <2>1. req'[r].pc = "prune.list" /\ req'[r].id = i
    BY <1>0, <1>1, <1>4, GotoFields
  <2>2. Trimming(r)'
    BY <2>1 DEF Trimming
  <2>3. PICK S : S = Recorded(i)'
    OBVIOUS
  <2>4. S \subseteq Recorded(i) \cup {n}
    BY <1>0, <1>2, <1>4, <2>3 DEF Recorded, TypeOK
  <2>5. Cardinality(S) <= Cardinality(Recorded(i)) + 1
    <3>1. Recorded(i) \subseteq Nums /\ Recorded(i) \cup {n} \subseteq Nums
      BY <1>2 DEF Recorded
    <3>2. Cardinality(Recorded(i) \cup {n}) <= Cardinality(Recorded(i)) + 1
      BY <3>1, NumsFinite, FS_AddElement
    <3> QED  BY <2>4, <3>1, <3>2, SmallerHistory
  <2>6. Pruning(i)'
    BY <2>1 DEF Pruning
  <2>7. ~Pruning(i)
    BY <1>0, <1>1, <1>2, OwnPruning DEF Trims
  <2>8. Cardinality(Recorded(i)) <= MaxVersions + faults
    BY <1>0, <1>2, <2>7 DEF HInv
  <2>9. Cardinality(Recorded(i)) \in Nat /\ Cardinality(S) \in Nat
    <3>1. Recorded(i) \subseteq Nums /\ S \subseteq Nums
      BY <2>3 DEF Recorded
    <3> QED  BY <3>1, NumsFinite
  <2>10. Cardinality(S) <= MaxVersions + faults' + 1
    BY <1>0, <2>5, <2>8, <2>9
  <2>11. Slack(i)' = 1
    BY <2>6 DEF Slack
  <2>12. Within(i)'
    BY <2>3, <2>10, <2>11 DEF Within
  <2> QED  BY <1>1, <2>2, <2>12 DEF KeepsWithin, Within, Recorded, Slack, Pruning
<1> QED  BY <1>1, <1>3, <1>4 DEF SnapshotRecord

LEMMA TrimmedIsWithin ==
  ASSUME GInv, faults' = faults, NEW i, NEW S, S = Recorded(i)',
         \/ Cardinality(S) <= MaxVersions
         \/ /\ Pruning(i)' /\ S \subseteq Recorded(i)
            /\ Cardinality(Recorded(i)) <= MaxVersions + faults + 1
  PROVE  Within(i)'
<1>1. S \subseteq Nums /\ Recorded(i) \subseteq Nums
  BY DEF Recorded
<1>2. Cardinality(S) \in Nat /\ Cardinality(Recorded(i)) \in Nat
  BY <1>1, NumsFinite
<1>3. /\ faults \in Nat /\ MaxVersions \in Nat /\ Slack(i)' \in {0, 1}
      /\ Pruning(i)' => Slack(i)' = 1
  BY FileStoreAssumption DEF GInv, TInv, TypeOK, Slack
<1>4. Cardinality(S) <= MaxVersions + faults + Slack(i)'
  <2>1. CASE Cardinality(S) <= MaxVersions
    BY <1>2, <1>3, <2>1
  <2>2. CASE /\ Pruning(i)' /\ S \subseteq Recorded(i)
             /\ Cardinality(Recorded(i)) <= MaxVersions + faults + 1
    <3>1. Cardinality(S) <= Cardinality(Recorded(i))
      BY <1>1, <2>2, SmallerHistory
    <3> QED  BY <1>2, <1>3, <2>2, <3>1
  <2> QED  BY <2>1, <2>2
<1> QED  BY <1>4 DEF Within

LEMMA PruneKeepsWithin ==
  ASSUME Disjoint, MaxVersions > 0, GInv, GInv', HInv, NEW r \in Requests,
         PruneList(r) \/ PruneContent(r) \/ PruneRow(r)
  PROVE  KeepsWithin(r)
<1> USE FileStoreAssumption
<1>0. /\ TInv /\ TypeOK /\ Apart /\ faults \in Nat /\ faults' = faults /\ MaxVersions \in Nat
      /\ req[r].pc \in Trims /\ WellFormed(req[r]) /\ req[r] \in Request /\ Trimming(r)
  BY DEF GInv, TInv, TypeOK, HInv, PruneList, PruneContent, PruneRow, history, At, Trims
<1>1. PICK i \in Ids : i = req[r].id
  BY <1>0 DEF WellFormed, OnFile, Places, Trims, Request
<1>2. PICK S : S = Recorded(i)'
  OBVIOUS
<1>3. Cardinality(Recorded(i)) <= MaxVersions + faults + 1 /\ Recorded(i) \subseteq Nums
  <2>1. Pruning(i)
    BY <1>0, <1>1, OwnPruning
  <2> QED  BY <2>1 DEF HInv, Recorded
<1>4. ASSUME NEW place \in Places, NEW nums \in SUBSET Nums, GotoWith(r, place, nums),
             S \subseteq Recorded(i), nums \subseteq S \/ place \notin Trims,
             Cardinality(S \ nums) <= MaxVersions,
             place \in Trims \/ Cardinality(S) <= MaxVersions
      PROVE  KeepsWithin(r)
  <2>1. req'[r].pc = place /\ req'[r].nums = nums /\ req'[r].id = i
    <3>1. TInv /\ GotoWith(r, place, nums)
      BY <1>0, <1>4
    <3>2. req'[r].pc = place /\ req'[r].nums = nums /\ req'[r].id = req[r].id
      BY <3>1, NumsFields, ZenonT(60)
    <3> QED  BY <1>1, <3>2
  <2>2. Trimming(r)'
    BY <1>2, <1>4, <2>1 DEF Trimming, Recorded, Trims
  <2>3. place \in Trims => Pruning(i)'
    BY <2>1 DEF Pruning, Trims
  <2>4. Within(i)'
    BY <1>0, <1>2, <1>3, <1>4, <2>3, TrimmedIsWithin
  <2> QED  BY <1>1, <2>2, <2>4 DEF KeepsWithin, Within, Recorded, Slack, Pruning
<1>5. AfterSnapshot(r) \in {"upload.place", "restore.place"}
  BY DEF AfterSnapshot
<1>6. CASE PruneList(r)
  <2>1. S = Recorded(i)
    BY <1>2, <1>6 DEF PruneList, Recorded, stores
  <2>2. Surplus(i) \subseteq Recorded(i) /\ Cardinality(Recorded(i) \ Surplus(i)) <= MaxVersions
    BY SurplusTrims
  <2>3. CASE Surplus(i) = {}
    <3>1. GotoWith(r, AfterSnapshot(r), {})
      BY <1>1, <1>6, <2>3 DEF PruneList
    <3>2. Recorded(i) \ {} = Recorded(i)
      OBVIOUS
    <3>3. Cardinality(S) <= MaxVersions /\ Cardinality(S \ {}) <= MaxVersions
      BY <2>1, <2>2, <2>3, <3>2
    <3> QED  BY <1>4, <1>5, <2>1, <3>1, <3>3 DEF Places, Trims
  <2>4. CASE Surplus(i) # {}
    <3>1. GotoWith(r, "prune.content", Surplus(i))
      BY <1>1, <1>6, <2>4 DEF PruneList
    <3> QED  BY <1>3, <1>4, <2>1, <2>2, <3>1 DEF Places, Trims
  <2> QED  BY <2>3, <2>4
<1>7. CASE PruneContent(r)
  <2>1. S = Recorded(i)
    BY <1>2, <1>7 DEF PruneContent, Recorded
  <2>2. /\ req'[r].pc = "prune.row" /\ req'[r].id = i /\ req'[r].nums = req[r].nums
        /\ req[r].pc = "prune.content"
    BY <1>0, <1>1, <1>7, GotoFields, ZenonT(60) DEF PruneContent, At
  <2>3. Trimming(r)'
    BY <1>0, <1>1, <1>2, <2>1, <2>2 DEF Trimming, Recorded
  <2>4. Pruning(i)'
    BY <2>2 DEF Pruning
  <2>5. Within(i)'
    BY <1>0, <1>2, <1>3, <2>1, <2>4, TrimmedIsWithin
  <2> QED  BY <1>1, <2>3, <2>5 DEF KeepsWithin, Within, Recorded, Slack, Pruning
<1>8. CASE PruneRow(r)
  <2>1. /\ req[r].nums \subseteq Recorded(i)
        /\ Cardinality(Recorded(i) \ req[r].nums) <= MaxVersions
    BY <1>0, <1>1, <1>8 DEF PruneRow, At, Trimming
  <2>2. PICK n \in Newest(req[r].nums) :
          /\ vrows' = [vrows EXCEPT ![i][n] = Nothing]
          /\ GotoWith(r, IF req[r].nums = {n} THEN AfterSnapshot(r) ELSE "prune.content",
                      req[r].nums \ {n})
    BY <1>1, <1>8, <2>1 DEF PruneRow, RowGone, Newest
  <2>3. n \in req[r].nums /\ n \in Nums
    BY <1>3, <2>1 DEF Newest
  <2>4. S = Recorded(i) \ {n}
    BY <1>0, <1>2, <2>2, <2>3 DEF Recorded, TypeOK
  <2>5. S \ (req[r].nums \ {n}) = Recorded(i) \ req[r].nums
    BY <2>3, <2>4
  <2>6. req[r].nums \ {n} \in SUBSET Nums /\ req[r].nums \ {n} \subseteq S
    BY <1>3, <2>1, <2>4
  <2>7. CASE req[r].nums = {n}
    <3>1. GotoWith(r, AfterSnapshot(r), req[r].nums \ {n})
      BY <2>2, <2>7
    <3>2. Cardinality(S) <= MaxVersions
      BY <2>1, <2>4, <2>7
    <3>3. AfterSnapshot(r) \in Places \ Trims
      BY <1>5 DEF Places, Trims
    <3>4. Cardinality(S \ (req[r].nums \ {n})) <= MaxVersions /\ S \subseteq Recorded(i)
      BY <2>1, <2>4, <2>5
    <3> QED  BY <1>4, <2>6, <3>1, <3>2, <3>3, <3>4
  <2>8. CASE req[r].nums # {n}
    <3>1. GotoWith(r, "prune.content", req[r].nums \ {n})
      BY <2>2, <2>8
    <3> QED  BY <1>4, <2>1, <2>4, <2>5, <2>6, <3>1 DEF Places, Trims
  <2> QED  BY <2>7, <2>8
<1> QED  BY <1>6, <1>7, <1>8

LEMMA NoPruneAfter ==
  ASSUME GInv, NEW r \in Requests, Step(r),
         ~SnapshotRecord(r), ~PruneList(r), ~PruneContent(r), ~PruneRow(r)
  PROVE  /\ req'[r].pc \notin Trims
         /\ \A i \in Ids : i = req[r].id => Recorded(i)' \subseteq Recorded(i)
<1>0. TInv /\ TypeOK /\ req[r] \in Request
  BY DEF GInv, TInv, TypeOK
<1>1. ASSUME NEW place \in Places \ Trims, Goto(r, place)  PROVE req'[r].pc \notin Trims
  BY <1>0, <1>1, GotoFields
<1>2. ASSUME Finish(r)  PROVE req'[r].pc \notin Trims
  <2>1. req'[r] = Idle /\ Idle.pc = "idle"
    BY <1>0, <1>2 DEF Finish, Idle, TypeOK
  <2> QED  BY <2>1 DEF Trims
<1>3. ASSUME NEW place \in {"erase.history", "erase.vault"}, NEW nums \in SUBSET Nums,
             GotoWith(r, place, nums)
      PROVE  req'[r].pc \notin Trims
  BY <1>0, <1>3, NumsFields DEF Places, Trims
<1>4. ASSUME NEW l, EraseNext(r, l)  PROVE req'[r].pc \notin Trims
  <2>1. PICK p : req' = [req EXCEPT ![r] = [Idle EXCEPT !.pc = "erase.content",
              !.op = "purge", !.id = p[1], !.key = p[2], !.purge = l \ {p}]]
    BY <1>4, ZenonT(60) DEF EraseNext
  <2> DEFINE q == [Idle EXCEPT !.pc = "erase.content", !.op = "purge", !.id = p[1],
                               !.key = p[2], !.purge = l \ {p}]
  <2>2. q.pc = "erase.content" /\ req' = [req EXCEPT ![r] = q]
    BY <2>1 DEF Idle
  <2> HIDE DEF q
  <2> QED  BY <1>0, <2>2 DEF TypeOK, Trims
<1>5. ASSUME NEW place \in {"snap.number", "upload.place"}, NEW i, NEW old,
             req' = [req EXCEPT ![r].pc = place, ![r].id = i, ![r].old = old]
      PROVE  req'[r].pc \notin Trims
  <2> DEFINE q == [req[r] EXCEPT !.pc = place, !.id = i, !.old = old]
  <2>1. q.pc = place /\ req' = [req EXCEPT ![r] = q]
    BY <1>0, <1>5, ZenonT(60) DEF Request
  <2> HIDE DEF q
  <2> QED  BY <1>0, <2>1 DEF TypeOK, Trims
<1>6. ASSUME UNCHANGED vrows  PROVE \A i \in Ids : Recorded(i)' \subseteq Recorded(i)
  BY <1>6 DEF Recorded
<1>7. CASE UploadRead(r) \/ SnapshotNumber(r)
  <2>1. UNCHANGED vrows
    BY <1>7, ZenonT(60) DEF UploadRead, SnapshotNumber, stores
  <2>2. ASSUME UploadRead(r)  PROVE req'[r].pc \notin Trims
    <3>1. CASE Goto(r, "upload.place")
      <4>1. "upload.place" \in Places \ Trims
        BY DEF Places, Trims
      <4> QED  BY <1>1, <3>1, <4>1
    <3>2. CASE ~Goto(r, "upload.place")
      <4>1. PICK i : req' = [req EXCEPT ![r].pc = IF versioning /\ rows[i].sha # req[r].sha
                                                  THEN "snap.number" ELSE "upload.place",
                                        ![r].id = i, ![r].old = rows[i].sha]
        BY <2>2, <3>2, ZenonT(60) DEF UploadRead
      <4>2. PICK place \in {"snap.number", "upload.place"} :
               req' = [req EXCEPT ![r].pc = place, ![r].id = i, ![r].old = rows[i].sha]
        <5>1. CASE versioning /\ rows[i].sha # req[r].sha
          BY <4>1, <5>1
        <5>2. CASE ~(versioning /\ rows[i].sha # req[r].sha)
          BY <4>1, <5>2
        <5> QED  BY <5>1, <5>2
      <4> QED  BY <1>5, <4>2, ZenonT(60)
    <3> QED  BY <3>1, <3>2
  <2>3. ASSUME SnapshotNumber(r)  PROVE req'[r].pc \notin Trims
    <3>1. PICK m : m = LatestVersionNum(req[r].id) + 1
      OBVIOUS
    <3> DEFINE q == [req[r] EXCEPT !.pc = "snap.move", !.num = m]
    <3>2. q.pc = "snap.move" /\ req' = [req EXCEPT ![r] = q]
      BY <1>0, <2>3, <3>1 DEF SnapshotNumber, Request
    <3> HIDE DEF q
    <3>3. req'[r] = q
      BY <1>0, <3>2 DEF TypeOK
    <3> QED  BY <3>2, <3>3 DEF Trims
  <2> QED  BY <1>6, <1>7, <2>1, <2>2, <2>3
<1>8. CASE \/ UploadReadBlind(r) \/ UploadPlace(r) \/ UploadCommit(r) \/ SnapshotMove(r)
           \/ RestoreDiscard(r) \/ RestorePlace(r) \/ RestoreCommit(r) \/ EraseContent(r)
           \/ MoveRename(r) \/ MoveRow(r) \/ MoveUndo(r)
  <2>1. UNCHANGED vrows
    BY <1>8 DEF UploadReadBlind, UploadPlace, UploadCommit, SnapshotMove, RestoreDiscard,
                RestorePlace, RestoreCommit, EraseContent, MoveRename, MoveRow, MoveUndo, stores
  <2>2. \/ Finish(r) \/ Goto(r, "upload.place") \/ Goto(r, "upload.commit")
        \/ Goto(r, "snap.record") \/ Goto(r, "restore.place") \/ Goto(r, "restore.row")
        \/ Goto(r, "erase.list") \/ Goto(r, "move.row") \/ Goto(r, "move.undo")
    BY <1>8 DEF UploadReadBlind, UploadPlace, UploadCommit, SnapshotMove, RestoreDiscard,
                RestorePlace, RestoreCommit, EraseContent, MoveRename, MoveRow, MoveUndo
  <2> QED  BY <1>1, <1>2, <1>6, <2>1, <2>2 DEF Places, Trims
<1>9. CASE RestoreRow(r) \/ EraseHistory(r)
  <2>1. Finish(r) \/ Goto(r, "restore.commit") \/ Goto(r, "erase.file")
    BY <1>9 DEF RestoreRow, EraseHistory
  <2>2. \A i \in Ids : Recorded(i)' \subseteq Recorded(i)
    BY <1>0, <1>9 DEF RestoreRow, EraseHistory, ForgetVersions, Recorded, TypeOK
  <2> QED  BY <1>1, <1>2, <2>1, <2>2 DEF Places, Trims
<1>10. CASE EraseList(r)
  <2>1. PICK place \in {"erase.history", "erase.vault"} : GotoWith(r, place, Recorded(req[r].id))
    <3>1. CASE Recorded(req[r].id) = {}
      BY <1>10, <3>1 DEF EraseList
    <3>2. CASE Recorded(req[r].id) # {}
      BY <1>10, <3>2 DEF EraseList
    <3> QED  BY <3>1, <3>2
  <2>2. Recorded(req[r].id) \in SUBSET Nums /\ UNCHANGED vrows
    BY <1>10 DEF Recorded, EraseList, stores
  <2> QED  BY <1>3, <1>6, <2>1, <2>2
<1>11. CASE EraseVault(r)
  <2>1. PICK n : GotoWith(r, IF req[r].nums = {n} THEN "erase.history" ELSE "erase.vault",
                          req[r].nums \ {n})
    BY <1>11 DEF EraseVault
  <2>2. PICK place \in {"erase.history", "erase.vault"} : GotoWith(r, place, req[r].nums \ {n})
    <3>1. CASE req[r].nums = {n}
      BY <2>1, <3>1
    <3>2. CASE req[r].nums # {n}
      BY <2>1, <3>2
    <3> QED  BY <3>1, <3>2
  <2>3. req[r].nums \ {n} \in SUBSET Nums /\ UNCHANGED vrows
    BY <1>0, <1>11 DEF Request, EraseVault
  <2> QED  BY <1>3, <1>6, <2>2, <2>3
<1>12. CASE EraseFile(r)
  <2>1. Finish(r) \/ \E l : EraseNext(r, l)
    BY <1>12 DEF EraseFile
  <2>2. \A i \in Ids : Recorded(i)' \subseteq Recorded(i)
    BY <1>0, <1>12 DEF EraseFile, ForgetVersions, Recorded, TypeOK
  <2> QED  BY <1>2, <1>4, <2>1, <2>2
<1> QED  BY <1>7, <1>8, <1>9, <1>10, <1>11, <1>12 DEF Step

LEMMA StepKeepsWithin ==
  ASSUME Disjoint, MaxVersions > 0, GInv, GInv', HInv, NEW r \in Requests, Local(r),
         Begin(r) \/ Step(r) \/ Fail(r)
  PROVE  KeepsWithin(r)
<1>0. TInv /\ TypeOK /\ faults \in Nat /\ faults' \in Nat /\ faults <= faults'
  BY DEF GInv, TInv, TypeOK, Local
<1>1. CASE PruneList(r) \/ PruneContent(r) \/ PruneRow(r) \/ SnapshotRecord(r)
  BY <1>1, PruneKeepsWithin, RecordKeepsWithin
<1>2. CASE Begin(r)
  <2>1. req'[r].pc \notin {"prune.content", "prune.row"} /\ UNCHANGED vrows /\ req[r] = Idle
    BY <1>2, BeginsAt DEF stores
  <2>2. req[r].pc \notin Trims
    BY <2>1 DEF Idle, Trims
  <2> QED  BY <1>0, <2>1, <2>2, CalmKeeps DEF Recorded
<1>3. CASE Step(r) /\ ~(PruneList(r) \/ PruneContent(r) \/ PruneRow(r) \/ SnapshotRecord(r))
  <2>1. req[r].pc \notin Trims
    BY <1>3, ZenonT(60) DEF Step, UploadRead, UploadReadBlind, UploadPlace, UploadCommit, SnapshotNumber,
         SnapshotMove, RestoreDiscard, RestorePlace, RestoreRow, RestoreCommit, EraseContent,
         EraseList, EraseVault, EraseHistory, EraseFile, MoveRename, MoveRow, MoveUndo, At, Trims
  <2> QED  BY <1>0, <1>3, <2>1, NoPruneAfter, CalmKeeps DEF Trims
<1>4. CASE Fail(r)
  <2>1. faults' = faults + 1 /\ UNCHANGED vrows
    BY <1>4 DEF Fail, stores
  <2>2. Finish(r) \/ Goto(r, "move.undo")
    BY <1>4 DEF Fail
  <2>3. req'[r].pc \notin {"prune.content", "prune.row"}
    <3>1. CASE Finish(r)
      BY <1>0, <3>1 DEF Finish, Idle, TypeOK
    <3>2. CASE Goto(r, "move.undo")
      <4>1. req'[r].pc = "move.undo"
        BY <1>0, <3>2, GotoFields
      <4> QED  BY <4>1
    <3> QED  BY <2>2, <3>1, <3>2
  <2> QED  BY <1>0, <2>1, <2>3, CalmKeeps DEF Recorded
<1> QED  BY <1>1, <1>2, <1>3, <1>4

\* A step that changes no history and no request, or loses every request.
LEMMA WithinStands ==
  ASSUME GInv, HInv, UNCHANGED vrows, faults' \in Nat,
         \/ UNCHANGED <<req, faults>>
         \/ faults' = faults + 1 /\ \A r \in Requests : req'[r] = Idle
  PROVE  HInv'
<1> USE FileStoreAssumption
<1>1. SUFFICES ASSUME MaxVersions > 0  PROVE HInv'
  BY DEF HInv
<1>2. \A i \in Ids : Recorded(i)' = Recorded(i)
  BY DEF Recorded
<1>3. CASE UNCHANGED <<req, faults>>
  BY <1>1, <1>3 DEF HInv, Trimming, Recorded, Pruning
<1>4. CASE faults' = faults + 1 /\ \A r \in Requests : req'[r] = Idle
  <2>1. \A r \in Requests : req'[r].pc = "idle"
    BY <1>4 DEF Idle
  <2>2. \A r \in Requests : Trimming(r)'
    BY <2>1 DEF Trimming
  <2>3. ASSUME NEW i \in Ids
        PROVE  Cardinality(Recorded(i)) <= MaxVersions + faults' /\ ~Pruning(i)'
    <3>1. Cardinality(Recorded(i)) <= MaxVersions + faults + Slack(i) /\ Slack(i) \in {0, 1}
      BY <1>1 DEF HInv, Slack
    <3>2. Cardinality(Recorded(i)) \in Nat /\ faults \in Nat /\ MaxVersions \in Nat
      BY NumsFinite DEF Recorded, GInv, TInv, TypeOK
    <3>3. ~Pruning(i)'
      BY <2>1 DEF Pruning
    <3> QED  BY <1>4, <3>1, <3>2, <3>3
  <2>4. MaxVersions + faults' + 0 = MaxVersions + faults'
    OBVIOUS
  <2> QED  BY <1>2, <2>2, <2>3, <2>4 DEF HInv
<1> QED  BY <1>3, <1>4

\* The invariant of the histories is inductive.
THEOREM HistoryInvariant ==
  ASSUME Disjoint, "reconfigure" \notin Ops
  PROVE  Spec => []HInv
<1> USE FileStoreAssumption
<1>1. ASSUME IInv, IInv', HInv, [Next]_vars  PROVE HInv'
  <2>1. GInv /\ GInv' /\ UInv /\ faults' \in Nat
    BY <1>1 DEF IInv, GInv, TInv, TypeOK
  <2>2. ASSUME NEW r \in Requests, Begin(r) \/ Step(r) \/ Fail(r)  PROVE HInv'
    <3>1. Local(r)
      BY <2>1, <2>2, BeginStep, StepCarried, FailStep DEF UInv
    <3>2. MaxVersions > 0 => HInv'
      BY <1>1, <2>1, <2>2, <3>1, StepKeepsWithin, WithinStep
    <3> QED  BY <3>2 DEF HInv
  <2>3. ASSUME NEW i \in Ids, Delete(i) \/ RestoreFile(i)  PROVE HInv'
    <3>1. UNCHANGED <<vrows, req, faults>>
      BY <2>3 DEF Delete, RestoreFile, SetTrashed, history
    <3> QED  BY <1>1, <2>1, <3>1, WithinStands
  <2>4. CASE Crash
    BY <1>1, <2>1, <2>4, WithinStands DEF Crash, stores
  <2>5. CASE Reconfigure
    BY <2>5 DEF Reconfigure
  <2>6. CASE UNCHANGED vars
    BY <1>1, <2>1, <2>6, WithinStands DEF vars
  <2> QED  BY <1>1, <2>2, <2>3, <2>4, <2>5, <2>6 DEF Next
<1>2. Init => HInv
  <2> SUFFICES ASSUME Init  PROVE HInv
    OBVIOUS
  <2>1. \A r \in Requests : Trimming(r)
    BY DEF Init, Idle, Trimming
  <2>2. \A i \in Ids : Recorded(i) = {}
    BY DEF Init, Recorded
  <2>3. \A i \in Ids : Cardinality(Recorded(i)) = 0 /\ ~Pruning(i)
    BY <2>2, FS_EmptySet DEF Init, Idle, Pruning
  <2>4. 0 <= MaxVersions + faults + 0
    BY DEF Init
  <2> QED  BY <2>1, <2>3, <2>4 DEF HInv
<1>3. Spec => []IInv
  BY ContentInvariant
<1> QED  BY <1>1, <1>2, <1>3, PTL DEF Spec

\* What a history may hold: the limit, one version more while it is pruned,
\* and one more for every failure.
THEOREM HistoryStaysBounded ==
  ASSUME Disjoint, "reconfigure" \notin Ops
  PROVE  Spec => []HistoryBounded
<1> USE FileStoreAssumption
<1>1. TypeOK /\ HInv => HistoryBounded
  <2>1. ASSUME TypeOK  PROVE MaxVersions + faults + 0 = MaxVersions + faults
    BY <2>1 DEF TypeOK
  <2>2. ASSUME TypeOK, HInv, MaxVersions > 0, NEW i \in Ids, ~Pruning(i)
        PROVE  Cardinality(Recorded(i)) <= MaxVersions + faults
    BY <2>1, <2>2 DEF HInv
  <2> QED  BY <2>2 DEF HistoryBounded
<1>2. Spec => []HInv /\ []TypeOK
  BY HistoryInvariant, TypeInvariant
<1> QED  BY <1>1, <1>2, PTL

(***************************************************************************)
(* Both stores in step: a file that a step leaves alone, or lets go.       *)
(***************************************************************************)
LEMMA SoundFrame ==
  ASSUME NEW i, FileSound(i), Worker(i)' = Worker(i),
         InUse(i)' <=> InUse(i), rows'[i].key = rows[i].key, rows'[i].sha = rows[i].sha,
         vrows'[i] = vrows[i], vault'[i] = vault[i],
         InUse(i) => disk'[rows[i].key] = disk[rows[i].key],
         Worker(i).pc = "move.row" => disk'[Worker(i).to] = disk[Worker(i).to]
  PROVE  FileSound(i)'
<1>1. Recorded(i)' = Recorded(i)
  BY DEF Recorded
<1>2. InUse(i)' => PathSound(i)'
  BY DEF FileSound, PathSound, AtRest, AtPath, Moving
<1>3. VaultSound(i)'
  <2>1. Missing(Worker(i))' = Missing(Worker(i))
    BY DEF Missing, Newest
  <2> QED  BY <1>1, <2>1 DEF FileSound, VaultSound
<1>4. AsideSound(i)' /\ TargetSound(i)'
  BY <1>1 DEF FileSound, AsideSound, Aside, TargetSound
<1> QED  BY <1>2, <1>3, <1>4 DEF FileSound

LEMMA IdleSound ==
  ASSUME NEW i, Worker(i)' = Idle, InUse(i)' => AtRest(i)',
         \A n \in Nums : vault'[i][n] = vrows'[i][n], ~InUse(i)' => Recorded(i)' = {}
  PROVE  FileSound(i)'
<1>1. Worker(i)'.pc = "idle"
  BY DEF Idle
<1>2. InUse(i)' => PathSound(i)'
  BY <1>1 DEF PathSound
<1>3. Missing(Worker(i))' = {}
  BY <1>1 DEF Missing
<1>4. VaultSound(i)'
  BY <1>1, <1>3 DEF VaultSound
<1>5. AsideSound(i)' /\ TargetSound(i)'
  BY <1>1 DEF AsideSound, TargetSound, Snapshotting
<1> QED  BY <1>2, <1>4, <1>5 DEF FileSound

LEMMA FreePaths ==
  ASSUME NEW r \in Requests, \A q \in Requests : q # r => req'[q] = req[q],
         NEW k \in Keys, FreePathSound(k),
         \/ disk'[k] = Nothing
         \/ Lookup(k)' # {}
         \/ req'[r].pc = "upload.commit" /\ req'[r].key = k
         \/ req'[r].pc = "move.row" /\ req'[r].to = k
         \/ /\ disk'[k] = disk[k] /\ Lookup(k) = {}
            /\ ~(req[r].pc = "upload.commit" /\ req[r].key = k)
            /\ ~(req[r].pc = "move.row" /\ req[r].to = k)
  PROVE  FreePathSound(k)'
BY DEF FreePathSound, At

\* What holds of the stores while nothing fails.
InOrder == /\ exposed = {}
           /\ \A i \in Ids : FileSound(i)
           /\ \A k \in Keys : FreePathSound(k)

\* What a step of a request leaves of the files it works on and of the paths.
Settled(r) ==
  /\ exposed' = {}
  /\ \A i \in Ids : i = req[r].id \/ i = req'[r].id => FileSound(i)'
  /\ \A k \in Keys : FreePathSound(k)'

LEMMA OthersStand ==
  ASSUME GInv, GInv', InOrder, NEW r \in Requests, Local(r),
         NEW i \in Ids, i # req[r].id, i # req'[r].id
  PROVE  /\ Worker(i)' = Worker(i) /\ vrows'[i] = vrows[i]
         /\ InUse(i) => /\ rows'[i] = rows[i] /\ vault'[i] = vault[i]
                        /\ rows[i].key \in Keys /\ disk'[rows[i].key] = disk[rows[i].key]
         /\ ~InUse(i) => /\ Worker(i) = Idle /\ (InUse(i)' => AtPath(i)')
                         /\ vault'[i] = vault[i] \/ vault'[i] = [n \in Nums |-> Nothing]
<1> USE FileStoreAssumption
<1>1. /\ Apart /\ Apart' /\ i # Nothing /\ exposed = {}
      /\ vrows'[i] = vrows[i] /\ \A q \in Requests : q # r => req'[q] = req[q]
      /\ rows'[i] = rows[i] \/ (AtPath(i)' /\ ~InUse(i))
      /\ vault'[i] = vault[i] \/ (~InUse(i) /\ vault'[i] = [n \in Nums |-> Nothing])
      /\ \A k \in Keys : disk'[k] = disk[k] \/ (k \in Footprint(r) /\ Lookup(k) \subseteq {req[r].id})
  BY DEF GInv, InOrder, Local, Fresh
<1>2. Worker(i)' = Worker(i)
  BY <1>1, WorkerKept
<1>3. CASE ~InUse(i)
  <2>1. \A q \in Requests : req[q].id # i
    BY <1>1, <1>3, OwnFile
  <2>2. InUse(i)' => AtPath(i)'
    BY <1>1, <1>3 DEF InUse
  <2> QED  BY <1>1, <1>2, <1>3, <2>1, <2>2, NoWorker
<1>4. CASE InUse(i)
  <2>1. rows[i].key \in Keys /\ i \in Lookup(rows[i].key)
    BY <1>4 DEF Lookup, InUse, GInv, TInv, TypeOK, Row
  <2> QED  BY <1>1, <1>2, <1>4, <2>1
<1> QED  BY <1>3, <1>4

LEMMA OthersSound ==
  ASSUME GInv, GInv', InOrder, NEW r \in Requests, Local(r),
         NEW i \in Ids, i # req[r].id, i # req'[r].id
  PROVE  FileSound(i)'
<1> USE FileStoreAssumption
<1>1. /\ Apart /\ Apart' /\ i # Nothing /\ FileSound(i)
      /\ \A q \in Requests : q # r => req'[q] = req[q]
      /\ \A k \in Keys : disk'[k] = disk[k] \/ k \in Footprint(r)
  BY DEF GInv, InOrder, Local
<1>2. Worker(i)' = Worker(i) /\ vrows'[i] = vrows[i]
  BY OthersStand
<1>3. CASE ~InUse(i)
  <2>1. /\ Worker(i) = Idle /\ (InUse(i)' => AtPath(i)')
        /\ vault'[i] = vault[i] \/ vault'[i] = [n \in Nums |-> Nothing]
    BY <1>3, OthersStand
  <2>2. Worker(i).pc = "idle"
    BY <2>1 DEF Idle
  <2>3. Missing(Worker(i)) = {}
    BY <2>2 DEF Missing
  <2>4. Recorded(i) = {} /\ \A n \in Nums : vault[i][n] = vrows[i][n]
    BY <1>1, <1>3, <2>2, <2>3 DEF FileSound, VaultSound
  <2>5. \A n \in Nums : vault'[i][n] = vrows'[i][n]
    BY <1>2, <2>1, <2>4 DEF Recorded
  <2>6. Recorded(i)' = {}
    BY <1>2, <2>4 DEF Recorded
  <2>7. InUse(i)' => AtRest(i)'
    BY <2>1 DEF AtRest
  <2>8. Worker(i)' = Idle
    BY <1>2, <2>1
  <2> QED  BY <2>5, <2>6, <2>7, <2>8, IdleSound
<1>4. CASE InUse(i)
  <2>1. rows'[i] = rows[i] /\ vault'[i] = vault[i] /\ disk'[rows[i].key] = disk[rows[i].key]
    BY <1>4, OthersStand
  <2>4. Worker(i).pc = "move.row" => disk'[Worker(i).to] = disk[Worker(i).to]
    <3>1. CASE \E q \in Requests : req[q].id = i
      <4>1. PICK q \in Requests : req[q].id = i
        BY <3>1
      <4>2. q # r /\ Worker(i) = req[q]
        BY <1>1, <4>1, WorkerIs
      <4>3. req[q] \in Request /\ WellFormed(req[q])
        BY DEF GInv, TInv, TypeOK
      <4>4. req[q].pc = "move.row" => req[q].to \in Keys /\ req[q].to \in Footprint(q)
        BY <4>3, FootprintMember DEF WellFormed, Request
      <4>5. req[q].pc = "move.row" => req[q].to \notin Footprint(r)
        BY <1>1, <4>2, <4>4 DEF Apart
      <4> QED  BY <1>1, <4>2, <4>4, <4>5
    <3>2. CASE ~\E q \in Requests : req[q].id = i
      <4>1. Worker(i) = Idle
        BY <3>2, NoWorker
      <4> QED  BY <4>1 DEF Idle
    <3> QED  BY <3>1, <3>2
  <2>5. InUse(i)' <=> InUse(i)
    BY <2>1 DEF InUse
  <2> QED  BY <1>1, <1>2, <2>1, <2>4, <2>5, SoundFrame
<1> QED  BY <1>3, <1>4

\* What the invariants say of the file a request works on.
LEMMA OwnSound ==
  ASSUME GInv, GInv', InOrder, NEW r \in Requests, NEW i \in Ids, i = req[r].id
  PROVE  /\ InUse(i) /\ i # Nothing /\ Worker(i) = req[r]
         /\ rows[i].key = req[r].key /\ rows[i].key \in Keys /\ rows[i].sha \in Contents
         /\ PathSound(i) /\ VaultSound(i) /\ AsideSound(i) /\ TargetSound(i)
         /\ req'[r].id = i => Worker(i)' = req'[r]
<1> USE FileStoreAssumption
<1>1. i # Nothing /\ Apart' /\ FileSound(i)
  BY DEF GInv, InOrder
<1>2. req'[r].id = i => Worker(i)' = req'[r]
  BY <1>1, WorkerIsNext
<1> QED  BY <1>1, <1>2, OwnFile DEF FileSound

\* A file that its request lets go.
LEMMA LetGo ==
  ASSUME GInv, GInv', InOrder, NEW r \in Requests, NEW i \in Ids, i = req[r].id,
         Finish(r), InUse(i)' => AtRest(i)',
         \A n \in Nums : vault'[i][n] = vrows'[i][n], ~InUse(i)' => Recorded(i)' = {}
  PROVE  \A j \in Ids : j = req[r].id \/ j = req'[r].id => FileSound(j)'
<1> USE FileStoreAssumption
<1>1. /\ TInv /\ Apart /\ i # Nothing
  BY DEF GInv
<1>2. req'[r] = Idle /\ Idle.id = Nothing /\ \A q \in Requests : q # r => req'[q] = req[q]
  BY <1>1 DEF Finish, Idle, TInv, TypeOK
<1>3. Worker(i)' = Idle
  BY <1>1, <1>2, WorkerGone
<1>4. FileSound(i)'
  BY <1>3, IdleSound
<1> QED  BY <1>2, <1>4

\* Paths, where a step writes or empties none that is free.
LEMMA FreePathsStand ==
  ASSUME InOrder, NEW r \in Requests, \A q \in Requests : q # r => req'[q] = req[q],
         UNCHANGED rows, req[r].pc \notin {"upload.commit", "move.row"},
         \A k \in Keys : disk'[k] = disk[k] \/ disk'[k] = Nothing \/ Lookup(k) # {}
  PROVE  \A k \in Keys : FreePathSound(k)'
<1>1. ASSUME NEW k \in Keys  PROVE FreePathSound(k)'
  <2>1. Lookup(k)' = Lookup(k) /\ FreePathSound(k)
    BY DEF Lookup, InUse, InOrder
  <2> QED  BY <2>1, FreePaths
<1> QED  BY <1>1

(***************************************************************************)
(* ... and a file that a step works on.                                    *)
(***************************************************************************)
LEMMA SettlesBegin ==
  ASSUME GInv, GInv', InOrder, NEW r \in Requests, Begin(r), faults' = faults,
         \A q \in Requests : q # r => req'[q] = req[q]
  PROVE  Settled(r)
<1> USE FileStoreAssumption
<1>1. /\ UNCHANGED stores /\ req[r] = Idle /\ exposed' = {}
      /\ \/ req'[r].pc = "upload.read" /\ req'[r].id = Nothing
         \/ req'[r].pc \in {"move.rename", "erase.content"}
         \/ /\ req'[r].pc = "snap.number" /\ "restoreVersion" \in Ops
            /\ \E i \in Ids, n \in Nums :
                 /\ req'[r].id = i /\ req'[r].target = n /\ req'[r].old = rows[i].sha
                 /\ n \in Recorded(i) /\ req'[r].sha = vrows[i][n]
  BY BeginsAt DEF InOrder
<1>2. req[r].id = Nothing /\ req[r].pc = "idle"
  BY <1>1 DEF Idle
<1>3. \A k \in Keys : FreePathSound(k)'
  BY <1>1, <1>2, FreePathsStand DEF stores
<1>4. ASSUME NEW i \in Ids, i = req'[r].id  PROVE FileSound(i)'
  <2>1. i # Nothing /\ Apart' /\ FileSound(i)
    BY DEF GInv, InOrder
  <2>2. Worker(i) = Idle /\ Worker(i)' = req'[r]
    BY <1>2, <1>4, <2>1, WorkerCame, WorkerIsNext
  <2>3. Idle.pc = "idle"
    BY DEF Idle
  <2>4. /\ rows' = rows /\ vrows' = vrows /\ vault' = vault /\ disk' = disk
        /\ Recorded(i)' = Recorded(i) /\ (InUse(i)' <=> InUse(i))
    BY <1>1 DEF stores, Recorded, InUse
  <2>5. /\ req'[r].pc \in {"move.rename", "erase.content", "snap.number"}
        /\ req'[r].pc = "snap.number" =>
             /\ "restoreVersion" \in Ops
             /\ req'[r].old = rows[i].sha /\ req'[r].target \in Recorded(i)
             /\ req'[r].sha = vrows[i][req'[r].target]
    BY <1>1, <1>4, <2>1
  <2>6. InUse(i) => AtRest(i)
    BY <2>1, <2>2, <2>3 DEF FileSound, PathSound
  <2>7. InUse(i)' => PathSound(i)'
    BY <2>2, <2>4, <2>5, <2>6 DEF PathSound, AtRest, AtPath
  <2>8. Missing(Worker(i)) = {} /\ Missing(req'[r]) = {}
    BY <2>2, <2>3, <2>5 DEF Missing
  <2>9. VaultSound(i)'
    BY <2>1, <2>2, <2>3, <2>4, <2>5, <2>8 DEF FileSound, VaultSound
  <2>10. AsideSound(i)' /\ TargetSound(i)'
    BY <2>2, <2>4, <2>5 DEF AsideSound, TargetSound, Snapshotting
  <2> QED  BY <2>7, <2>9, <2>10 DEF FileSound
<1> QED  BY <1>1, <1>2, <1>3, <1>4 DEF Settled

LEMMA SettlesUploadRead ==
  ASSUME GInv, GInv', InOrder, NEW r \in Requests, Underway(r), UploadRead(r),
         \A q \in Requests : q # r => req'[q] = req[q]
  PROVE  Settled(r)
<1> USE FileStoreAssumption
<1>1. /\ req[r] \in Request /\ TInv /\ versioning /\ Apart'
      /\ req[r].pc = "upload.read" /\ req[r].id = Nothing /\ req[r].target = 0
      /\ UNCHANGED stores /\ exposed' = {}
  BY ZenonT(60) DEF UploadRead, At, GInv, TInv, TypeOK, WellFormed, Underway, history, InOrder
<1>2. \A k \in Keys : FreePathSound(k)'
  BY <1>1, FreePathsStand DEF stores
<1>3. CASE Goto(r, "upload.place")
  <2>1. req'[r].id = Nothing
    BY <1>1, <1>3, GotoFields
  <2> QED  BY <1>1, <1>2, <2>1 DEF Settled
<1>4. ASSUME NEW i \in Ids, NEW place \in {"snap.number", "upload.place"},
             place = "upload.place" => rows[i].sha = req[r].sha,
             req' = [req EXCEPT ![r].pc = place, ![r].id = i, ![r].old = rows[i].sha]
      PROVE  Settled(r)
  <2> DEFINE q == [req[r] EXCEPT !.pc = place, !.id = i, !.old = rows[i].sha]
  <2>1. /\ q.pc = place /\ q.id = i /\ q.sha = req[r].sha /\ q.target = 0 /\ q.old = rows[i].sha
    BY <1>1 DEF Request
  <2>2. req'[r] = q
    BY <1>1, <1>4 DEF TInv, TypeOK
  <2> HIDE DEF q
  <2>3. Worker(i) = Idle /\ Worker(i)' = q /\ i # Nothing /\ FileSound(i)
    BY <1>1, <2>1, <2>2, WorkerCame, WorkerIsNext DEF InOrder
  <2>4. Idle.pc = "idle"
    BY DEF Idle
  <2>5. /\ rows' = rows /\ vrows' = vrows /\ vault' = vault /\ disk' = disk
        /\ Recorded(i)' = Recorded(i) /\ (InUse(i)' <=> InUse(i))
    BY <1>1 DEF stores, Recorded, InUse
  <2>6. InUse(i)' => PathSound(i)'
    BY <2>1, <2>3, <2>4, <2>5 DEF FileSound, PathSound, AtRest, AtPath
  <2>7. Missing(Worker(i)) = {} /\ Missing(q) = {}
    BY <2>1, <2>3, <2>4 DEF Missing
  <2>8. VaultSound(i)'
    BY <2>1, <2>3, <2>4, <2>5, <2>7 DEF FileSound, VaultSound
  <2>9. AsideSound(i)' /\ TargetSound(i)'
    BY <1>4, <2>1, <2>3, <2>5 DEF AsideSound, TargetSound, Nums
  <2>10. FileSound(i)'
    BY <2>6, <2>8, <2>9 DEF FileSound
  <2> QED  BY <1>1, <1>2, <2>1, <2>2, <2>10 DEF Settled
<1>5. ASSUME NEW i \in Ids,
             req' = [req EXCEPT ![r].pc = IF versioning /\ rows[i].sha # req[r].sha
                                          THEN "snap.number" ELSE "upload.place",
                                ![r].id = i, ![r].old = rows[i].sha]
      PROVE  Settled(r)
  <2>1. CASE rows[i].sha # req[r].sha
    BY <1>1, <1>4, <1>5, <2>1, ZenonT(60)
  <2>2. CASE rows[i].sha = req[r].sha
    BY <1>1, <1>4, <1>5, <2>2, ZenonT(60)
  <2> QED  BY <2>1, <2>2
<1> QED  BY <1>3, <1>5, ZenonT(60) DEF UploadRead, Lookup

LEMMA SettlesUploadPlace ==
  ASSUME GInv, GInv', InOrder, NEW r \in Requests, UploadPlace(r),
         \A q \in Requests : q # r => req'[q] = req[q]
  PROVE  Settled(r)
<1> USE FileStoreAssumption
<1>1. /\ req[r] \in Request /\ TInv /\ req[r].pc = "upload.place"
      /\ UNCHANGED <<rows, vrows, vault>> /\ exposed' = {}
      /\ Goto(r, "upload.commit") /\ disk' = [disk EXCEPT ![req[r].key] = req[r].sha]
  BY DEF UploadPlace, At, GInv, TInv, TypeOK, history, InOrder
<1>2. /\ req'[r].pc = "upload.commit" /\ req'[r].id = req[r].id /\ req'[r].key = req[r].key
      /\ req'[r].sha = req[r].sha /\ req'[r].num = req[r].num /\ req'[r].target = req[r].target
  BY <1>1, GotoFields, ZenonT(60)
<1>3. ASSUME NEW k \in Keys  PROVE FreePathSound(k)'
  <2>1. FreePathSound(k) /\ Lookup(k)' = Lookup(k)
    BY <1>1 DEF InOrder, Lookup, InUse
  <2>2. k # req[r].key => disk'[k] = disk[k]
    BY <1>1 DEF TInv, TypeOK
  <2> QED  BY <1>1, <1>2, <2>1, <2>2, FreePaths
<1>4. ASSUME NEW i \in Ids, i = req[r].id  PROVE FileSound(i)'
  <2>1. Worker(i) = req[r] /\ Worker(i)' = req'[r] /\ VaultSound(i) /\ AsideSound(i) /\ InUse(i)
    BY <1>2, <1>4, OwnSound
  <2>2. Recorded(i)' = Recorded(i) /\ InUse(i)' /\ rows' = rows /\ vrows' = vrows /\ vault' = vault
    BY <1>1, <2>1 DEF Recorded, InUse
  <2>3. PathSound(i)'
    BY <1>2, <2>1 DEF PathSound
  <2>4. Missing(req[r]) = {} /\ Missing(req'[r]) = {}
    BY <1>1, <1>2 DEF Missing
  <2>5. VaultSound(i)'
    BY <1>1, <1>2, <2>1, <2>2, <2>4 DEF VaultSound
  <2>6. AsideSound(i)' /\ TargetSound(i)'
    BY <1>1, <1>2, <2>1, <2>2 DEF AsideSound, Aside, TargetSound, Snapshotting
  <2> QED  BY <2>3, <2>5, <2>6 DEF FileSound
<1> QED  BY <1>1, <1>2, <1>3, <1>4 DEF Settled

\* The upsert writes the row that the content at the path already belongs to.
LEMMA WrittenSettles ==
  ASSUME GInv, GInv', InOrder, NEW r \in Requests, NEW i \in Ids, i = req[r].id,
         Finish(r), Overwrite(i, req[r].sha), UNCHANGED <<vrows, disk>>,
         disk[req[r].key] = req[r].sha, req[r].sha \in Contents,
         req[r].pc \in {"upload.commit", "restore.commit"}, exposed' = exposed,
         \A q \in Requests : q # r => req'[q] = req[q]
  PROVE  Settled(r)
<1> USE FileStoreAssumption
<1>1. /\ TInv /\ i # Nothing /\ InUse(i) /\ Worker(i) = req[r] /\ VaultSound(i)
      /\ rows[i].key = req[r].key /\ rows[i].key \in Keys
  BY OwnSound DEF GInv
<1>2. /\ rows'[i].key = rows[i].key /\ rows'[i].sha = req[r].sha
      /\ \A j \in Ids : InUse(j)' <=> InUse(j)
      /\ \A j \in Ids : InUse(j) => rows'[j].key = rows[j].key
      /\ vault' = vault
  <2>1. vault' = vault
    BY DEF Overwrite
  <2> QED  BY <1>1, <2>1, OverwriteKeeps, ZenonT(60)
<1>3. AtRest(i)' /\ InUse(i)'
  BY <1>1, <1>2 DEF AtRest, AtPath
<1>4. \A n \in Nums : vault'[i][n] = vrows'[i][n]
  <2>1. Missing(req[r]) = {}
    BY DEF Missing
  <2> QED  BY <1>1, <1>2, <2>1 DEF VaultSound
<1>5. \A j \in Ids : j = req[r].id \/ j = req'[r].id => FileSound(j)'
  BY <1>3, <1>4, LetGo
<1>6. ASSUME NEW k \in Keys  PROVE FreePathSound(k)'
  <2>1. Lookup(k)' = Lookup(k) /\ FreePathSound(k)
    BY <1>2 DEF Lookup, InOrder
  <2>2. k = req[r].key => Lookup(k) # {}
    BY <1>1 DEF Lookup
  <2> QED  BY <2>1, <2>2, FreePaths
<1> QED  BY <1>5, <1>6 DEF Settled, InOrder

LEMMA SettlesUploadCommit ==
  ASSUME GInv, GInv', InOrder, NEW r \in Requests, UploadCommit(r),
         \A q \in Requests : q # r => req'[q] = req[q]
  PROVE  Settled(r)
<1> USE FileStoreAssumption, NoRowAssumption
<1>1. /\ req[r] \in Request /\ TInv /\ WellFormed(req[r]) /\ GroundedAt(r)
      /\ req[r].pc = "upload.commit" /\ Finish(r)
      /\ UNCHANGED <<vrows, disk>> /\ exposed' = exposed /\ exposed = {}
  BY DEF UploadCommit, At, GInv, TInv, TypeOK, InOrder
<1>2. disk[req[r].key] = req[r].sha /\ req[r].sha \in Contents /\ req[r].key \in Keys
  BY <1>1 DEF GroundedAt, BytesHold, At, WellFormed, WithContent, Request
<1>3. CASE \E i \in Lookup(req[r].key) : Overwrite(i, req[r].sha)
  <2>1. PICK i \in Lookup(req[r].key) : Overwrite(i, req[r].sha)
    BY <1>3
  <2>2. i \in Ids /\ InUse(i) /\ rows[i].key = req[r].key
    BY <2>1 DEF Lookup
  <2>3. req[r].id # Nothing
    BY <1>1, <2>1 DEF GroundedAt, Unnamed
  <2>4. i = req[r].id
    <3>1. PICK j \in Ids : j = req[r].id
      BY <1>1, <2>3 DEF Request
    <3>2. InUse(j) /\ rows[j].key = req[r].key
      BY <3>1, OwnSound
    <3> QED  BY <2>2, <3>1, <3>2 DEF GInv, KeysUnique
  <2> QED  BY <1>1, <1>2, <2>1, <2>2, <2>4, WrittenSettles
<1>4. CASE /\ Lookup(req[r].key) = {}
           /\ \E i \in Ids : Fresh(i) /\ Insert(i, req[r].key, req[r].sha)
  <2>1. PICK i \in Ids : Fresh(i) /\ Insert(i, req[r].key, req[r].sha)
    BY <1>4
  <2>2. req[r].id = Nothing
    <3>1. ASSUME NEW j \in Ids, j = req[r].id  PROVE FALSE
      BY <1>4, <3>1, OwnSound DEF Lookup
    <3> QED  BY <1>1, <3>1 DEF Request
  <2>3. req'[r].id = Nothing
    BY <1>1 DEF Finish, Idle, TInv, TypeOK
  <2>4. ASSUME NEW k \in Keys  PROVE FreePathSound(k)'
    <3>1. FreePathSound(k) /\ disk'[k] = disk[k]
      BY <1>1 DEF InOrder
    <3>2. /\ \A j \in Ids : j # i => rows'[j] = rows[j]
          /\ rows'[i] = [key |-> req[r].key, sha |-> req[r].sha, trashed |-> FALSE]
          /\ ~InUse(i)
      BY <1>1, <2>1 DEF Insert, Fresh, TInv, TypeOK
    <3>3. CASE Lookup(k) = {} /\ k # req[r].key
      BY <1>1, <3>1, <3>3, FreePaths
    <3>4. CASE Lookup(k) # {}
      <4>1. PICK j \in Ids : InUse(j) /\ rows[j].key = k
        BY <3>4 DEF Lookup
      <4>2. rows'[j] = rows[j]
        BY <3>2, <4>1
      <4>3. Lookup(k)' # {}
        BY <4>1, <4>2 DEF Lookup, InUse
      <4> QED  BY <3>1, <4>3, FreePaths
    <3>5. CASE k = req[r].key
      <4>1. rows'[i].key = k /\ rows'[i] \in Row
        BY <1>2, <3>2, <3>5 DEF Row
      <4>2. Lookup(k)' # {}
        BY <4>1 DEF Lookup, InUse
      <4> QED  BY <3>1, <4>2, FreePaths
    <3> QED  BY <3>3, <3>4, <3>5
  <2> QED  BY <1>1, <2>2, <2>3, <2>4 DEF Settled
<1> QED  BY <1>3, <1>4 DEF UploadCommit

\* A step that only moves its request on, with nothing gone from its history.
LEMMA SettlesSnapshotNumber ==
  ASSUME GInv, GInv', InOrder, NEW r \in Requests, SnapshotNumber(r),
         \A q \in Requests : q # r => req'[q] = req[q]
  PROVE  Settled(r)
<1> USE FileStoreAssumption
<1>1. /\ req[r] \in Request /\ TInv /\ req[r].pc = "snap.number"
      /\ UNCHANGED stores /\ exposed' = {}
  BY DEF SnapshotNumber, At, GInv, TInv, TypeOK, history, InOrder
<1>2. PICK m : m = LatestVersionNum(req[r].id) + 1
  OBVIOUS
<1> DEFINE q == [req[r] EXCEPT !.pc = "snap.move", !.num = m]
<1>3. /\ q.pc = "snap.move" /\ q.id = req[r].id /\ q.sha = req[r].sha
      /\ q.target = req[r].target /\ q.old = req[r].old
  BY <1>1 DEF Request
<1>4. req'[r] = q
  BY <1>1, <1>2 DEF SnapshotNumber, TInv, TypeOK
<1> HIDE DEF q
<1>5. \A k \in Keys : FreePathSound(k)'
  BY <1>1, FreePathsStand DEF stores
<1>6. ASSUME NEW i \in Ids, i = req[r].id  PROVE FileSound(i)'
  <2>1. /\ Worker(i) = req[r] /\ Worker(i)' = q /\ InUse(i)
        /\ PathSound(i) /\ VaultSound(i) /\ AsideSound(i) /\ TargetSound(i)
    BY <1>3, <1>4, <1>6, OwnSound
  <2>2. /\ rows' = rows /\ vrows' = vrows /\ vault' = vault /\ disk' = disk
        /\ Recorded(i)' = Recorded(i) /\ InUse(i)'
    BY <1>1, <2>1 DEF stores, Recorded, InUse
  <2>3. PathSound(i)'
    BY <1>1, <1>3, <2>1, <2>2 DEF PathSound, AtRest, AtPath
  <2>4. Missing(req[r]) = {} /\ Missing(q) = {}
    BY <1>1, <1>3 DEF Missing
  <2>5. VaultSound(i)'
    BY <1>1, <1>3, <2>1, <2>2, <2>4 DEF VaultSound
  <2>6. AsideSound(i)' /\ TargetSound(i)'
    BY <1>1, <1>3, <2>1, <2>2 DEF AsideSound, TargetSound, Snapshotting
  <2> QED  BY <2>3, <2>5, <2>6 DEF FileSound
<1> QED  BY <1>1, <1>3, <1>4, <1>5, <1>6 DEF Settled

LEMMA SettlesSnapshotMove ==
  ASSUME GInv, GInv', InOrder, NEW r \in Requests, SnapshotMove(r),
         \A q \in Requests : q # r => req'[q] = req[q]
  PROVE  Settled(r)
<1> USE FileStoreAssumption
<1>1. /\ req[r] \in Request /\ TInv /\ WellFormed(req[r]) /\ req[r].pc = "snap.move"
      /\ UNCHANGED <<rows, vrows>> /\ exposed' = {}
  BY DEF SnapshotMove, At, GInv, TInv, TypeOK, history, InOrder
<1>2. PICK i \in Ids, n \in Nums : i = req[r].id /\ n = req[r].num
  BY <1>1, OwnPath DEF OnFile, Places, WellFormed
<1>3. /\ Worker(i) = req[r] /\ InUse(i) /\ rows[i].key = req[r].key /\ rows[i].key \in Keys
      /\ rows[i].sha \in Contents
      /\ PathSound(i) /\ VaultSound(i) /\ AsideSound(i) /\ TargetSound(i)
      /\ req'[r].id = i => Worker(i)' = req'[r]
  BY <1>2, OwnSound
<1>4. AtRest(i) /\ \A m \in Nums : vault[i][m] = vrows[i][m]
  <2>1. Missing(req[r]) = {}
    BY <1>1 DEF Missing
  <2> QED  BY <1>1, <1>3, <2>1 DEF PathSound, VaultSound
<1>5. \A k \in Keys : disk'[k] = disk[k] \/ disk'[k] = Nothing
  BY <1>1 DEF SnapshotMove, TInv, TypeOK
<1>6. \A k \in Keys : FreePathSound(k)'
  BY <1>1, <1>5, FreePathsStand
<1>7. CASE disk[req[r].key] = Nothing /\ Finish(r) /\ UNCHANGED <<disk, vault>>
  <2>1. \A j \in Ids : j = req[r].id \/ j = req'[r].id => FileSound(j)'
    BY <1>1, <1>2, <1>3, <1>4, <1>7, LetGo DEF AtRest, AtPath, InUse
  <2> QED  BY <1>1, <1>6, <2>1 DEF Settled
<1>8. CASE /\ disk[req[r].key] # Nothing
           /\ vault' = [vault EXCEPT ![i][n] = disk[req[r].key]]
           /\ disk' = [disk EXCEPT ![req[r].key] = Nothing]
           /\ Goto(r, "snap.record")
  <2>1. /\ req'[r].pc = "snap.record" /\ req'[r].id = i /\ req'[r].sha = req[r].sha
        /\ req'[r].num = n /\ req'[r].target = req[r].target
    BY <1>1, <1>2, <1>8, GotoFields, ZenonT(60)
  <2>2. req'[r].old = req[r].old
    BY <1>1, <1>8 DEF Goto, TInv, TypeOK, Request
  <2>3. AtPath(i)
    BY <1>3, <1>4, <1>8 DEF AtRest
  <2>4. vault'[i][n] = rows[i].sha /\ \A m \in Nums : m # n => vault'[i][m] = vault[i][m]
    BY <1>1, <1>2, <1>3, <1>8, <2>3 DEF AtPath, TInv, TypeOK
  <2>5. /\ Worker(i)' = req'[r] /\ InUse(i)' /\ Recorded(i)' = Recorded(i)
        /\ rows' = rows /\ vrows' = vrows
    BY <1>1, <1>3, <2>1 DEF InUse, Recorded
  <2>6. PathSound(i)'
    BY <2>1, <2>5 DEF PathSound
  <2>7. Missing(req'[r]) = {}
    BY <2>1 DEF Missing
  <2>8. VaultSound(i)'
    BY <1>4, <2>1, <2>4, <2>5, <2>7 DEF VaultSound
  <2>9. AsideSound(i)' /\ TargetSound(i)'
    BY <1>1, <1>3, <2>1, <2>2, <2>5 DEF AsideSound, TargetSound, Snapshotting
  <2>10. FileSound(i)'
    BY <2>6, <2>8, <2>9 DEF FileSound
  <2> QED  BY <1>1, <1>2, <1>6, <2>1, <2>10 DEF Settled
<1> QED  BY <1>2, <1>7, <1>8 DEF SnapshotMove

LEMMA SettlesSnapshotRecord ==
  ASSUME GInv, GInv', InOrder, NEW r \in Requests, Underway(r), SnapshotRecord(r),
         \A q \in Requests : q # r => req'[q] = req[q]
  PROVE  Settled(r)
<1> USE FileStoreAssumption
<1>1. /\ req[r] \in Request /\ TInv /\ WellFormed(req[r]) /\ GroundedAt(r)
      /\ req[r].pc = "snap.record"
      /\ UNCHANGED <<rows, disk, vault>> /\ exposed' = {}
  BY DEF SnapshotRecord, At, GInv, TInv, TypeOK, history, InOrder
<1>2. PICK i \in Ids, n \in Nums : i = req[r].id /\ n = req[r].num
  BY <1>1, OwnPath DEF OnFile, Places, WellFormed
<1>3. /\ Worker(i) = req[r] /\ InUse(i) /\ rows[i].sha \in Contents
      /\ VaultSound(i) /\ AsideSound(i) /\ TargetSound(i)
      /\ req'[r].id = i => Worker(i)' = req'[r]
  BY <1>2, OwnSound
<1>4. \A m \in Recorded(i) : m \in Nums /\ m < n
  BY <1>1, <1>2 DEF GroundedAt, SnapshotHolds, Recorded
<1>5. n \notin Recorded(i) /\ n # 0
  BY <1>2, <1>4 DEF Nums
<1>6. vrows' = [vrows EXCEPT ![i][n] = req[r].old] /\ Goto(r, "prune.list")
  BY <1>2, <1>3, <1>5 DEF SnapshotRecord
<1>7. /\ req'[r].pc = "prune.list" /\ req'[r].id = i /\ req'[r].sha = req[r].sha
      /\ req'[r].num = n /\ req'[r].target = req[r].target
  BY <1>1, <1>2, <1>6, GotoFields, ZenonT(60)
<1>8. vrows'[i][n] = rows[i].sha /\ \A m \in Nums : m # n => vrows'[i][m] = vrows[i][m]
  <2>1. req[r].old = rows[i].sha
    BY <1>1, <1>3 DEF AsideSound
  <2> QED  BY <1>1, <1>2, <1>6, <2>1 DEF TInv, TypeOK
<1>9. Recorded(i)' = Recorded(i) \cup {n}
  BY <1>2, <1>3, <1>8 DEF Recorded
<1>10. Worker(i)' = req'[r] /\ InUse(i)' /\ rows' = rows /\ vault' = vault
  BY <1>1, <1>3, <1>7 DEF InUse
<1>11. req[r].target = 0 \/ req[r].target \in Recorded(i)
  BY <1>1, <1>2 DEF Underway
<1>12. req[r].target # n
  BY <1>5, <1>11
<1>13. PathSound(i)'
  BY <1>7, <1>10 DEF PathSound
<1>14. Missing(req[r]) = {} /\ Missing(req'[r]) = {}
  BY <1>1, <1>7 DEF Missing
<1>15. VaultSound(i)'
  BY <1>1, <1>2, <1>3, <1>7, <1>8, <1>10, <1>14 DEF VaultSound
<1>16. \A m \in Recorded(i)' : m <= n
  BY <1>2, <1>4, <1>9 DEF Nums
<1>17. Aside(i)'
  BY <1>2, <1>7, <1>8, <1>10 DEF Aside
<1>18. AsideSound(i)'
  BY <1>7, <1>10, <1>12, <1>16, <1>17 DEF AsideSound
<1>19. TargetSound(i)'
  BY <1>1, <1>3, <1>7, <1>8, <1>9, <1>10, <1>11, <1>12 DEF TargetSound, Snapshotting
<1>20. FileSound(i)'
  BY <1>13, <1>15, <1>18, <1>19 DEF FileSound
<1>21. \A k \in Keys : FreePathSound(k)'
  BY <1>1, FreePathsStand
<1> QED  BY <1>1, <1>2, <1>7, <1>20, <1>21 DEF Settled

\* Between two versions to prune, and after the last.
LEMMA PrunedSound ==
  ASSUME GInv, GInv', InOrder, NEW r \in Requests, NEW i \in Ids, i = req[r].id,
         NEW place \in {"upload.place", "restore.place", "prune.content"},
         NEW nums \in SUBSET Nums, GotoWith(r, place, nums), UNCHANGED <<rows, vault>>,
         \A m \in Nums : vault[i][m] = vrows'[i][m],
         req[r].num \in Nums, vrows'[i][req[r].num] = rows[i].sha,
         req[r].target # req[r].num,
         place = "prune.content" => MaxVersions > 0 /\ req[r].num \notin nums,
         req[r].target \in Nums =>
           /\ "restoreVersion" \in Ops
           /\ IF vrows'[i][req[r].target] # Nothing
              THEN req[r].sha = vrows'[i][req[r].target] ELSE MaxVersions > 0
  PROVE  FileSound(i)' /\ req'[r].id = i
<1> USE FileStoreAssumption
<1>1. TInv /\ place \in Places
  BY DEF GInv, Places
<1>2. /\ req'[r].pc = place /\ req'[r].id = i /\ req'[r].nums = nums
      /\ req'[r].sha = req[r].sha /\ req'[r].num = req[r].num /\ req'[r].target = req[r].target
  <2>1. /\ req'[r].pc = place /\ req'[r].id = req[r].id /\ req'[r].nums = nums
        /\ req'[r].sha = req[r].sha /\ req'[r].num = req[r].num
        /\ req'[r].target = req[r].target
    BY <1>1 DEF GotoWith, TInv, TypeOK, Request
  <2> QED  BY <2>1
<1>3. /\ Worker(i)' = req'[r] /\ InUse(i)' /\ rows' = rows /\ vault' = vault
  BY <1>2, OwnSound DEF InUse
<1>4. PathSound(i)'
  BY <1>2, <1>3 DEF PathSound
<1>5. Missing(req'[r]) = {}
  BY <1>2 DEF Missing
<1>6. VaultSound(i)'
  BY <1>2, <1>3, <1>5 DEF VaultSound
<1>7. Aside(i)'
  BY <1>2, <1>3 DEF Aside
<1>8. AsideSound(i)'
  BY <1>2, <1>3, <1>7 DEF AsideSound
<1>9. \A m \in Nums : m \in Recorded(i)' <=> vrows'[i][m] # Nothing
  BY DEF Recorded
<1>10. TargetSound(i)'
  BY <1>2, <1>3, <1>9 DEF TargetSound
<1> QED  BY <1>2, <1>4, <1>6, <1>8, <1>10 DEF FileSound

LEMMA SettlesPruneList ==
  ASSUME GInv, GInv', InOrder, NEW r \in Requests, PruneList(r),
         \A q \in Requests : q # r => req'[q] = req[q]
  PROVE  Settled(r)
<1> USE FileStoreAssumption
<1>1. /\ req[r] \in Request /\ TInv /\ req[r].pc = "prune.list"
      /\ UNCHANGED <<rows, vrows, disk, vault>> /\ exposed' = {}
  BY DEF PruneList, At, GInv, TInv, TypeOK, history, stores, InOrder
<1>2. PICK i \in Ids : i = req[r].id
  BY <1>1, OwnPath DEF OnFile, Places
<1>3. /\ Worker(i) = req[r] /\ VaultSound(i) /\ AsideSound(i) /\ TargetSound(i)
  BY <1>2, OwnSound
<1>4. \A m \in Nums : vault[i][m] = vrows'[i][m]
  <2>1. Missing(req[r]) = {}
    BY <1>1 DEF Missing
  <2> QED  BY <1>1, <1>3, <2>1 DEF VaultSound
<1>5. /\ req[r].num \in Nums /\ vrows'[i][req[r].num] = rows[i].sha
      /\ req[r].target # req[r].num /\ \A m \in Recorded(i) : m <= req[r].num
  BY <1>1, <1>3 DEF AsideSound, Aside
<1>6. req[r].target \in Nums =>
        /\ "restoreVersion" \in Ops
        /\ IF vrows'[i][req[r].target] # Nothing
           THEN req[r].sha = vrows'[i][req[r].target] ELSE MaxVersions > 0
  BY <1>1, <1>3 DEF TargetSound, Snapshotting, Recorded
<1>7. MaxVersions > 0 => req[r].num \notin Surplus(i)
  <2>1. Newer(i, req[r].num) = {}
    <3>1. \A m \in Recorded(i) : m \in Nat
      BY DEF Recorded, Nums
    <3>2. req[r].num \in Nat
      BY <1>5 DEF Nums
    <3> QED  BY <1>5, <3>1, <3>2 DEF Newer
  <2>2. Cardinality(Newer(i, req[r].num)) = 0
    BY <2>1, FS_EmptySet
  <2> QED  BY <2>2 DEF Surplus
<1>8. Surplus(i) \in SUBSET Nums /\ (Surplus(i) # {} => MaxVersions > 0)
  BY DEF Surplus, Recorded
<1>9. PICK place \in {"upload.place", "restore.place", "prune.content"} :
        /\ GotoWith(r, place, Surplus(i))
        /\ place = "prune.content" => Surplus(i) # {}
  <2>1. CASE Surplus(i) = {}
    <3>1. GotoWith(r, AfterSnapshot(r), Surplus(i))
      BY <1>2, <2>1 DEF PruneList
    <3>2. AfterSnapshot(r) \in {"upload.place", "restore.place"}
      BY DEF AfterSnapshot
    <3> QED  BY <3>1, <3>2
  <2>2. CASE Surplus(i) # {}
    BY <1>2, <2>2 DEF PruneList
  <2> QED  BY <2>1, <2>2
<1>10. FileSound(i)' /\ req'[r].id = i
  <2>1. place = "prune.content" => MaxVersions > 0 /\ req[r].num \notin Surplus(i)
    BY <1>7, <1>8, <1>9
  <2> QED  BY <1>1, <1>2, <1>4, <1>5, <1>6, <1>8, <1>9, <2>1, PrunedSound
<1>11. \A k \in Keys : FreePathSound(k)'
  BY <1>1, FreePathsStand
<1> QED  BY <1>1, <1>2, <1>10, <1>11 DEF Settled

\* The oldest of a list is one.
LEMMA NewestIsOne ==
  ASSUME NEW S \in SUBSET Nums, NEW n \in Newest(S)
  PROVE  Newest(S) = {n} /\ n \in S /\ n \in Nums
<1>1. n \in S /\ n \in Nums /\ n \in Newest(S)
  BY DEF Newest
<1>2. ASSUME NEW m \in Newest(S)  PROVE m = n
  <2>1. m \in S /\ m <= n /\ n <= m
    BY <1>1 DEF Newest
  <2>2. m \in Nat /\ n \in Nat
    BY <1>1, <2>1, FileStoreAssumption DEF Nums
  <2> QED  BY <2>1, <2>2
<1> QED  BY <1>1, <1>2

LEMMA SettlesPruneContent ==
  ASSUME GInv, GInv', InOrder, NEW r \in Requests, PruneContent(r),
         \A q \in Requests : q # r => req'[q] = req[q]
  PROVE  Settled(r)
<1> USE FileStoreAssumption
<1>1. /\ req[r] \in Request /\ TInv /\ req[r].pc = "prune.content"
      /\ UNCHANGED <<rows, vrows, disk>> /\ exposed' = {} /\ Goto(r, "prune.row")
  BY DEF PruneContent, At, GInv, TInv, TypeOK, history, InOrder
<1>2. PICK i \in Ids, n \in Newest(req[r].nums) :
        i = req[r].id /\ vault' = [vault EXCEPT ![i][n] = Nothing]
  BY <1>1, OwnPath DEF OnFile, Places, PruneContent
<1>3. n \in Nums /\ Newest(req[r].nums) = {n}
  BY <1>1, <1>2, NewestIsOne DEF Request
<1>4. /\ Worker(i) = req[r] /\ InUse(i) /\ VaultSound(i) /\ AsideSound(i) /\ TargetSound(i)
      /\ req'[r].id = i => Worker(i)' = req'[r]
  BY <1>2, OwnSound
<1>5. /\ req'[r].pc = "prune.row" /\ req'[r].id = i /\ req'[r].nums = req[r].nums
      /\ req'[r].sha = req[r].sha /\ req'[r].num = req[r].num /\ req'[r].target = req[r].target
  BY <1>1, <1>2, GotoFields, ZenonT(60)
<1>6. /\ Worker(i)' = req'[r] /\ InUse(i)' /\ rows' = rows /\ vrows' = vrows
      /\ Recorded(i)' = Recorded(i)
  BY <1>1, <1>4, <1>5 DEF InUse, Recorded
<1>7. vault'[i][n] = Nothing /\ \A m \in Nums : m # n => vault'[i][m] = vault[i][m]
  BY <1>1, <1>2, <1>3 DEF TInv, TypeOK
<1>8. PathSound(i)'
  BY <1>5, <1>6 DEF PathSound
<1>9. Missing(req[r]) = {} /\ Missing(req'[r]) = {n}
  BY <1>1, <1>3, <1>5 DEF Missing
<1>10. VaultSound(i)'
  BY <1>1, <1>4, <1>5, <1>6, <1>7, <1>9 DEF VaultSound
<1>11. Aside(i) /\ AsideSound(i)'
  BY <1>1, <1>4, <1>5, <1>6 DEF AsideSound, Aside
<1>12. TargetSound(i)'
  BY <1>1, <1>4, <1>5, <1>6 DEF TargetSound, Snapshotting
<1>13. FileSound(i)'
  BY <1>8, <1>10, <1>11, <1>12 DEF FileSound
<1>14. \A k \in Keys : FreePathSound(k)'
  BY <1>1, FreePathsStand
<1> QED  BY <1>1, <1>2, <1>5, <1>13, <1>14 DEF Settled

LEMMA SettlesPruneRow ==
  ASSUME Disjoint, GInv, GInv', InOrder, NEW r \in Requests, PruneRow(r),
         MaxVersions > 0 => Trimming(r),
         \A q \in Requests : q # r => req'[q] = req[q]
  PROVE  Settled(r)
<1> USE FileStoreAssumption
<1>1. /\ req[r] \in Request /\ TInv /\ req[r].pc = "prune.row"
      /\ UNCHANGED <<rows, disk, vault>> /\ exposed' = {}
  BY DEF PruneRow, At, GInv, TInv, TypeOK, history, InOrder
<1>2. PICK i \in Ids : i = req[r].id
  BY <1>1, OwnPath DEF OnFile, Places
<1>3. PICK n \in Newest(req[r].nums) :
        \/ n \notin Recorded(i) /\ Finish(r) /\ UNCHANGED vrows
        \/ /\ vrows' = [vrows EXCEPT ![i][n] = Nothing]
           /\ GotoWith(r, IF req[r].nums = {n} THEN AfterSnapshot(r) ELSE "prune.content",
                       req[r].nums \ {n})
  BY <1>2 DEF PruneRow, RowGone
<1>4. n \in Nums /\ n \in req[r].nums /\ Newest(req[r].nums) = {n} /\ req[r].nums \subseteq Nums
  BY <1>1, <1>3, NewestIsOne DEF Request
<1>5. /\ Worker(i) = req[r] /\ InUse(i) /\ PathSound(i) /\ VaultSound(i) /\ AsideSound(i)
      /\ TargetSound(i) /\ rows[i].key = req[r].key
  BY <1>2, OwnSound
<1>6. vault[i][n] = Nothing /\ \A m \in Nums : m # n => vault[i][m] = vrows[i][m]
  <2>1. Missing(req[r]) = {n}
    BY <1>1, <1>4 DEF Missing
  <2> QED  BY <1>1, <1>4, <1>5, <2>1 DEF VaultSound
<1>7. /\ req[r].num \in Nums /\ vrows[i][req[r].num] = rows[i].sha /\ req[r].num \notin req[r].nums
      /\ req[r].target # req[r].num /\ MaxVersions > 0
  BY <1>1, <1>5 DEF AsideSound, Aside
<1>8. \A k \in Keys : FreePathSound(k)'
  BY <1>1, FreePathsStand
<1>9. n \in Recorded(i)
  BY <1>1, <1>2, <1>4, <1>7 DEF Trimming
<1>10. PICK place \in {"upload.place", "restore.place", "prune.content"} :
         GotoWith(r, place, req[r].nums \ {n})
  <2>1. CASE req[r].nums = {n}
    <3>1. GotoWith(r, AfterSnapshot(r), req[r].nums \ {n})
      BY <1>3, <1>9, <2>1
    <3>2. AfterSnapshot(r) \in {"upload.place", "restore.place"}
      BY DEF AfterSnapshot
    <3> QED  BY <3>1, <3>2
  <2>2. CASE req[r].nums # {n}
    BY <1>3, <1>9, <2>2
  <2> QED  BY <2>1, <2>2
<1>11. vrows'[i][n] = Nothing /\ \A m \in Nums : m # n => vrows'[i][m] = vrows[i][m]
  BY <1>1, <1>3, <1>4, <1>9 DEF TInv, TypeOK
<1>12. \A m \in Nums : vault[i][m] = vrows'[i][m]
  BY <1>4, <1>6, <1>11
<1>13. vrows'[i][req[r].num] = rows[i].sha
  BY <1>4, <1>7, <1>11
<1>14. req[r].target \in Nums =>
         /\ "restoreVersion" \in Ops
         /\ IF vrows'[i][req[r].target] # Nothing
            THEN req[r].sha = vrows'[i][req[r].target] ELSE MaxVersions > 0
  BY <1>1, <1>5, <1>7, <1>11 DEF TargetSound, Snapshotting, Recorded
<1>15. FileSound(i)' /\ req'[r].id = i
  <2>1. req[r].nums \ {n} \in SUBSET Nums /\ req[r].num \notin req[r].nums \ {n}
    BY <1>4, <1>7
  <2> QED  BY <1>1, <1>2, <1>7, <1>10, <1>12, <1>13, <1>14, <2>1, PrunedSound
<1> QED  BY <1>1, <1>2, <1>8, <1>15 DEF Settled

LEMMA SettlesRestorePlace ==
  ASSUME GInv, GInv', InOrder, NEW r \in Requests, RestorePlace(r),
         \A q \in Requests : q # r => req'[q] = req[q]
  PROVE  Settled(r)
<1> USE FileStoreAssumption
<1>1. /\ req[r] \in Request /\ TInv /\ WellFormed(req[r]) /\ GroundedAt(r)
      /\ req[r].pc = "restore.place"
      /\ UNCHANGED <<rows, vrows>> /\ exposed' = {}
  BY DEF RestorePlace, At, GInv, TInv, TypeOK, history, InOrder
<1>2. PICK i \in Ids, n \in Nums : i = req[r].id /\ n = req[r].target
  BY <1>1, OwnPath DEF OnFile, Places, WellFormed
<1>3. /\ Worker(i) = req[r] /\ InUse(i) /\ VaultSound(i) /\ AsideSound(i) /\ TargetSound(i)
      /\ rows[i].key = req[r].key /\ rows[i].key \in Keys
      /\ req'[r].id = i => Worker(i)' = req'[r]
  BY <1>2, OwnSound
<1>4. \A m \in Nums : vault[i][m] = vrows[i][m]
  <2>1. Missing(req[r]) = {}
    BY <1>1 DEF Missing
  <2> QED  BY <1>1, <1>3, <2>1 DEF VaultSound
<1>5. /\ "restoreVersion" \in Ops
      /\ IF n \in Recorded(i) THEN req[r].sha = vrows[i][n] ELSE MaxVersions > 0
  BY <1>1, <1>2, <1>3 DEF TargetSound
<1>6. disk[rows[i].key] = Nothing
  BY <1>1, <1>3 DEF GroundedAt, BytesHold
<1>7. \A k \in Keys : k # req[r].key => disk'[k] = disk[k]
  BY <1>1 DEF RestorePlace, TInv, TypeOK
<1>8. \A k \in Keys : FreePathSound(k)'
  <2>1. Lookup(req[r].key) # {}
    BY <1>3 DEF Lookup
  <2> QED  BY <1>1, <1>7, <2>1, FreePathsStand
<1>9. CASE vault[i][n] = Nothing /\ Finish(r) /\ UNCHANGED <<disk, vault>>
  <2>1. TakesTarget
    BY <1>4, <1>5, <1>9 DEF TakesTarget, Recorded
  <2>2. \A j \in Ids : j = req[r].id \/ j = req'[r].id => FileSound(j)'
    BY <1>1, <1>2, <1>3, <1>4, <1>6, <1>9, <2>1, LetGo DEF AtRest, TakesTarget, InUse
  <2> QED  BY <1>1, <1>8, <2>2 DEF Settled
<1>10. CASE /\ vault[i][n] # Nothing
            /\ disk' = [disk EXCEPT ![req[r].key] = vault[i][n]]
            /\ vault' = [vault EXCEPT ![i][n] = Nothing]
            /\ Goto(r, "restore.row")
  <2>1. /\ req'[r].pc = "restore.row" /\ req'[r].id = i /\ req'[r].sha = req[r].sha
        /\ req'[r].num = req[r].num /\ req'[r].target = n
    BY <1>1, <1>2, <1>10, GotoFields, ZenonT(60)
  <2>2. disk'[rows[i].key] = req[r].sha
    BY <1>1, <1>3, <1>4, <1>5, <1>10 DEF Recorded, TInv, TypeOK
  <2>3. vault'[i][n] = Nothing /\ \A m \in Nums : m # n => vault'[i][m] = vault[i][m]
    BY <1>1, <1>2, <1>10 DEF TInv, TypeOK
  <2>4. Worker(i)' = req'[r] /\ InUse(i)' /\ rows' = rows /\ vrows' = vrows
    BY <1>1, <1>3, <2>1 DEF InUse
  <2>5. PathSound(i)'
    BY <2>1, <2>2, <2>4 DEF PathSound
  <2>6. Missing(req'[r]) = {n}
    BY <2>1 DEF Missing
  <2>7. VaultSound(i)'
    BY <1>4, <2>1, <2>3, <2>4, <2>6 DEF VaultSound
  <2>8. AsideSound(i)' /\ TargetSound(i)'
    BY <1>1, <1>2, <1>3, <2>1, <2>4 DEF AsideSound, Aside, TargetSound, Snapshotting
  <2>9. FileSound(i)'
    BY <2>5, <2>7, <2>8 DEF FileSound
  <2> QED  BY <1>1, <1>2, <1>8, <2>1, <2>9 DEF Settled
<1> QED  BY <1>2, <1>9, <1>10 DEF RestorePlace

LEMMA SettlesRestoreRow ==
  ASSUME Disjoint, GInv, GInv', InOrder, NEW r \in Requests, Underway(r), RestoreRow(r),
         \A q \in Requests : q # r => req'[q] = req[q]
  PROVE  Settled(r)
<1> USE FileStoreAssumption
<1>1. /\ req[r] \in Request /\ TInv /\ WellFormed(req[r]) /\ req[r].pc = "restore.row"
      /\ UNCHANGED <<rows, disk, vault>> /\ exposed' = {}
  BY DEF RestoreRow, At, GInv, TInv, TypeOK, history, InOrder
<1>2. PICK i \in Ids, n \in Nums : i = req[r].id /\ n = req[r].target
  BY <1>1, OwnPath DEF OnFile, Places, WellFormed
<1>3. /\ Worker(i) = req[r] /\ InUse(i) /\ PathSound(i) /\ VaultSound(i) /\ AsideSound(i)
      /\ req'[r].id = i => Worker(i)' = req'[r]
  BY <1>2, OwnSound
<1>4. n \in Recorded(i)
  BY <1>1, <1>2 DEF Underway
<1>5. vrows' = [vrows EXCEPT ![i][n] = Nothing] /\ Goto(r, "restore.commit")
  BY <1>2, <1>4 DEF RestoreRow, RowGone
<1>6. /\ req'[r].pc = "restore.commit" /\ req'[r].id = i /\ req'[r].sha = req[r].sha
      /\ req'[r].num = req[r].num /\ req'[r].target = n
  BY <1>1, <1>2, <1>5, GotoFields, ZenonT(60)
<1>7. vrows'[i][n] = Nothing /\ \A m \in Nums : m # n => vrows'[i][m] = vrows[i][m]
  BY <1>1, <1>2, <1>5 DEF TInv, TypeOK
<1>8. /\ Worker(i)' = req'[r] /\ InUse(i)' /\ rows' = rows /\ vault' = vault /\ disk' = disk
  BY <1>1, <1>3, <1>6 DEF InUse
<1>9. PathSound(i)'
  BY <1>1, <1>3, <1>6, <1>8 DEF PathSound
<1>10. Missing(req[r]) = {n} /\ Missing(req'[r]) = {}
  BY <1>1, <1>2, <1>6 DEF Missing
<1>11. VaultSound(i)'
  BY <1>1, <1>2, <1>3, <1>6, <1>7, <1>8, <1>10 DEF VaultSound
<1>12. AsideSound(i)' /\ TargetSound(i)'
  BY <1>1, <1>2, <1>3, <1>6, <1>7, <1>8 DEF AsideSound, Aside, TargetSound, Snapshotting
<1>13. FileSound(i)'
  BY <1>9, <1>11, <1>12 DEF FileSound
<1>14. \A k \in Keys : FreePathSound(k)'
  BY <1>1, FreePathsStand
<1> QED  BY <1>1, <1>2, <1>6, <1>13, <1>14 DEF Settled

LEMMA SettlesRestoreCommit ==
  ASSUME GInv, GInv', InOrder, NEW r \in Requests, RestoreCommit(r),
         \A q \in Requests : q # r => req'[q] = req[q]
  PROVE  Settled(r)
<1> USE FileStoreAssumption
<1>1. /\ req[r] \in Request /\ TInv /\ TInv' /\ WellFormed(req[r]) /\ req[r].pc = "restore.commit"
      /\ UNCHANGED <<vrows, disk>> /\ Finish(r)
  BY DEF RestoreCommit, At, GInv, TInv, TypeOK
<1>2. PICK i \in Ids : i = req[r].id
  BY <1>1, OwnPath DEF OnFile, Places
<1>3. Worker(i) = req[r] /\ InUse(i) /\ PathSound(i) /\ rows[i].key = req[r].key
  BY <1>2, OwnSound
<1>4. disk[req[r].key] = req[r].sha /\ req[r].sha \in Contents
  BY <1>1, <1>3 DEF PathSound, WellFormed, WithContent, Request
<1>5. exposed' = exposed
  BY <1>4 DEF RestoreCommit
<1>6. Overwrite(i, req[r].sha)
  BY <1>1, <1>2, GroundRestoreCommit
<1> QED  BY <1>1, <1>2, <1>4, <1>5, <1>6, WrittenSettles

LEMMA SettlesEraseContent ==
  ASSUME GInv, GInv', InOrder, NEW r \in Requests, EraseContent(r),
         \A q \in Requests : q # r => req'[q] = req[q]
  PROVE  Settled(r)
<1> USE FileStoreAssumption
<1>1. /\ req[r] \in Request /\ TInv /\ req[r].pc = "erase.content"
      /\ UNCHANGED <<rows, vrows, vault>> /\ exposed' = {} /\ Goto(r, "erase.list")
      /\ disk' = [disk EXCEPT ![req[r].key] = Nothing]
  BY DEF EraseContent, At, GInv, TInv, TypeOK, InOrder
<1>2. PICK i \in Ids : i = req[r].id
  BY <1>1, OwnPath DEF OnFile, Places
<1>3. /\ Worker(i) = req[r] /\ InUse(i) /\ VaultSound(i)
      /\ rows[i].key = req[r].key /\ rows[i].key \in Keys
      /\ req'[r].id = i => Worker(i)' = req'[r]
  BY <1>2, OwnSound
<1>4. req'[r].pc = "erase.list" /\ req'[r].id = i
  BY <1>1, <1>2, GotoFields, ZenonT(60)
<1>5. /\ Worker(i)' = req'[r] /\ InUse(i)' /\ rows' = rows /\ vault' = vault /\ vrows' = vrows
      /\ disk'[rows[i].key] = Nothing /\ \A k \in Keys : disk'[k] = disk[k] \/ disk'[k] = Nothing
  BY <1>1, <1>3, <1>4 DEF InUse, TInv, TypeOK
<1>6. PathSound(i)'
  BY <1>4, <1>5 DEF PathSound
<1>7. Missing(req[r]) = {} /\ Missing(req'[r]) = {}
  BY <1>1, <1>4 DEF Missing
<1>8. VaultSound(i)'
  BY <1>1, <1>3, <1>4, <1>5, <1>7 DEF VaultSound
<1>9. AsideSound(i)' /\ TargetSound(i)'
  BY <1>4, <1>5 DEF AsideSound, TargetSound, Snapshotting
<1>10. FileSound(i)'
  BY <1>6, <1>8, <1>9 DEF FileSound
<1>11. \A k \in Keys : FreePathSound(k)'
  BY <1>1, <1>5, FreePathsStand
<1> QED  BY <1>1, <1>2, <1>4, <1>10, <1>11 DEF Settled

\* The version store of a file that is being erased: what is left is listed.
LEMMA ErasingSound ==
  ASSUME GInv, GInv', InOrder, NEW r \in Requests, NEW i \in Ids, i = req[r].id,
         NEW place \in {"erase.vault", "erase.history"}, NEW nums \in SUBSET Nums,
         GotoWith(r, place, nums), UNCHANGED <<rows, vrows, disk>>,
         req[r].pc \in {"erase.list", "erase.vault"},
         \A m \in Nums : vault'[i][m] = IF m \in nums THEN vrows[i][m] ELSE Nothing,
         place = "erase.history" => nums = {}
  PROVE  FileSound(i)' /\ req'[r].id = i
<1> USE FileStoreAssumption
<1>1. TInv
  BY DEF GInv
<1>2. req'[r].pc = place /\ req'[r].id = i /\ req'[r].nums = nums
  <2>1. PICK p \in Places : p = place
    BY DEF Places
  <2>2. GotoWith(r, p, nums)
    BY <2>1
  <2> QED  BY <1>1, <2>1, <2>2, NumsFields
<1>3. /\ Worker(i) = req[r] /\ Worker(i)' = req'[r] /\ InUse(i) /\ InUse(i)' /\ PathSound(i)
      /\ rows' = rows /\ vrows' = vrows /\ disk' = disk
  BY <1>2, OwnSound DEF InUse
<1>4. PathSound(i)'
  BY <1>2, <1>3 DEF PathSound
<1>5. Missing(req'[r]) = IF place = "erase.vault" THEN Nums \ nums ELSE Nums
  BY <1>2 DEF Missing
<1>6. VaultSound(i)'
  BY <1>2, <1>3, <1>5 DEF VaultSound
<1>7. AsideSound(i)' /\ TargetSound(i)'
  BY <1>2, <1>3 DEF AsideSound, TargetSound, Snapshotting
<1> QED  BY <1>2, <1>4, <1>6, <1>7 DEF FileSound

LEMMA SettlesEraseList ==
  ASSUME GInv, GInv', InOrder, NEW r \in Requests, EraseList(r),
         \A q \in Requests : q # r => req'[q] = req[q]
  PROVE  Settled(r)
<1> USE FileStoreAssumption
<1>1. /\ TInv /\ req[r].pc = "erase.list"
      /\ UNCHANGED <<rows, vrows, disk, vault>> /\ exposed' = {}
  BY DEF EraseList, At, GInv, stores, history, InOrder
<1>2. PICK i \in Ids : i = req[r].id
  BY <1>1, OwnPath DEF OnFile, Places
<1>3. Worker(i) = req[r] /\ VaultSound(i)
  BY <1>2, OwnSound
<1>4. \A m \in Nums : vault'[i][m] = IF m \in Recorded(i) THEN vrows[i][m] ELSE Nothing
  <2>1. Missing(req[r]) = {}
    BY <1>1 DEF Missing
  <2> QED  BY <1>1, <1>3, <2>1 DEF VaultSound, Recorded
<1>5. PICK place \in {"erase.vault", "erase.history"} :
        GotoWith(r, place, Recorded(i)) /\ (place = "erase.history" => Recorded(i) = {})
  <2>1. CASE Recorded(i) = {}
    BY <1>2, <2>1 DEF EraseList
  <2>2. CASE Recorded(i) # {}
    BY <1>2, <2>2 DEF EraseList
  <2> QED  BY <2>1, <2>2
<1>6. Recorded(i) \in SUBSET Nums
  BY DEF Recorded
<1>7. FileSound(i)' /\ req'[r].id = i
  BY <1>1, <1>2, <1>4, <1>5, <1>6, ErasingSound
<1>8. \A k \in Keys : FreePathSound(k)'
  BY <1>1, FreePathsStand
<1> QED  BY <1>1, <1>2, <1>7, <1>8 DEF Settled

LEMMA SettlesEraseVault ==
  ASSUME GInv, GInv', InOrder, NEW r \in Requests, EraseVault(r),
         \A q \in Requests : q # r => req'[q] = req[q]
  PROVE  Settled(r)
<1> USE FileStoreAssumption
<1>1. /\ TInv /\ req[r] \in Request /\ req[r].pc = "erase.vault"
      /\ UNCHANGED <<rows, vrows, disk>> /\ exposed' = {}
  BY DEF EraseVault, At, GInv, TInv, TypeOK, history, InOrder
<1>2. PICK i \in Ids : i = req[r].id
  BY <1>1, OwnPath DEF OnFile, Places
<1>3. PICK n \in Newest(req[r].nums) :
        /\ vault' = [vault EXCEPT ![i][n] = Nothing]
        /\ GotoWith(r, IF req[r].nums = {n} THEN "erase.history" ELSE "erase.vault",
                    req[r].nums \ {n})
  BY <1>2 DEF EraseVault
<1>4. n \in Nums /\ req[r].nums \subseteq Nums
  BY <1>1, <1>3, NewestIsOne DEF Request
<1>5. Worker(i) = req[r] /\ VaultSound(i)
  BY <1>2, OwnSound
<1>6. Missing(req[r]) = Nums \ req[r].nums
  BY <1>1 DEF Missing
<1>7. \A m \in Nums : vault'[i][m] = IF m \in req[r].nums \ {n} THEN vrows[i][m] ELSE Nothing
  BY <1>1, <1>3, <1>4, <1>5, <1>6 DEF VaultSound, TInv, TypeOK
<1>8. PICK place \in {"erase.vault", "erase.history"} :
        /\ GotoWith(r, place, req[r].nums \ {n})
        /\ place = "erase.history" => req[r].nums \ {n} = {}
  <2>1. CASE req[r].nums = {n}
    BY <1>3, <2>1
  <2>2. CASE req[r].nums # {n}
    BY <1>3, <2>2
  <2> QED  BY <2>1, <2>2
<1>9. FileSound(i)' /\ req'[r].id = i
  BY <1>1, <1>2, <1>4, <1>7, <1>8, ErasingSound
<1>10. \A k \in Keys : FreePathSound(k)'
  BY <1>1, FreePathsStand
<1> QED  BY <1>1, <1>2, <1>9, <1>10 DEF Settled

LEMMA SettlesEraseHistory ==
  ASSUME GInv, GInv', InOrder, NEW r \in Requests, EraseHistory(r),
         \A q \in Requests : q # r => req'[q] = req[q]
  PROVE  Settled(r)
<1> USE FileStoreAssumption
<1>1. /\ TInv /\ req[r].pc = "erase.history" /\ Goto(r, "erase.file")
      /\ UNCHANGED <<rows, disk, vault>> /\ exposed' = {}
  BY DEF EraseHistory, At, GInv, TInv, TypeOK, history, InOrder
<1>2. PICK i \in Ids : i = req[r].id
  BY <1>1, OwnPath DEF OnFile, Places
<1>3. /\ Worker(i) = req[r] /\ InUse(i) /\ PathSound(i) /\ VaultSound(i)
      /\ req'[r].id = i => Worker(i)' = req'[r]
  BY <1>2, OwnSound
<1>4. req'[r].pc = "erase.file" /\ req'[r].id = i
  BY <1>1, <1>2, GotoFields, ZenonT(60)
<1>5. /\ Worker(i)' = req'[r] /\ InUse(i)' /\ rows' = rows /\ vault' = vault /\ disk' = disk
      /\ vrows'[i] = [n \in Nums |-> Nothing]
  BY <1>1, <1>2, <1>3, <1>4 DEF InUse, EraseHistory, ForgetVersions, TInv, TypeOK
<1>6. PathSound(i)'
  BY <1>1, <1>3, <1>4, <1>5 DEF PathSound
<1>7. Missing(req[r]) = Nums /\ Missing(req'[r]) = {}
  BY <1>1, <1>4 DEF Missing
<1>8. Recorded(i)' = {} /\ \A m \in Nums : vault[i][m] = Nothing /\ vrows'[i][m] = Nothing
  BY <1>3, <1>5, <1>7 DEF VaultSound, Recorded
<1>9. VaultSound(i)'
  BY <1>4, <1>5, <1>7, <1>8 DEF VaultSound
<1>10. AsideSound(i)' /\ TargetSound(i)'
  BY <1>4, <1>5 DEF AsideSound, TargetSound, Snapshotting
<1>11. FileSound(i)'
  BY <1>6, <1>9, <1>10 DEF FileSound
<1>12. \A k \in Keys : FreePathSound(k)'
  BY <1>1, FreePathsStand
<1> QED  BY <1>1, <1>2, <1>4, <1>11, <1>12 DEF Settled

LEMMA SettlesEraseFile ==
  ASSUME GInv, GInv', InOrder, NEW r \in Requests, EraseFile(r),
         \A q \in Requests : q # r => req'[q] = req[q]
  PROVE  Settled(r)
<1> USE FileStoreAssumption
<1>1. /\ TInv /\ req[r] \in Request /\ GroundedAt(r) /\ req[r].pc = "erase.file" /\ Apart /\ Apart'
      /\ UNCHANGED <<disk, vault>>
  BY DEF EraseFile, At, GInv, TInv, TypeOK
<1>2. PICK i \in Ids : i = req[r].id
  BY <1>1, OwnPath DEF OnFile, Places
<1>3. /\ Worker(i) = req[r] /\ InUse(i) /\ PathSound(i) /\ VaultSound(i) /\ i # Nothing
      /\ rows[i].key = req[r].key /\ rows[i].key \in Keys
  BY <1>2, OwnSound
<1>4. /\ rows' = [rows EXCEPT ![i] = NoRow] /\ vrows' = [vrows EXCEPT ![i] = [n \in Nums |-> Nothing]]
      /\ exposed' = {} /\ (Finish(r) \/ EraseNext(r, req[r].purge))
  BY <1>2, <1>3 DEF EraseFile, ForgetVersions, InOrder
<1>5. /\ ~InUse(i)' /\ vrows'[i] = [n \in Nums |-> Nothing]
      /\ \A j \in Ids : j # i => rows'[j] = rows[j] /\ vrows'[j] = vrows[j]
  BY <1>1, <1>4 DEF InUse, TInv, TypeOK
<1>6. Recorded(i)' = {} /\ \A m \in Nums : vault'[i][m] = vrows'[i][m]
  <2>1. Missing(req[r]) = {} /\ Recorded(i) = {}
    BY <1>1, <1>3 DEF Missing, VaultSound
  <2>2. \A m \in Nums : vault[i][m] = Nothing
    BY <1>1, <1>3, <2>1 DEF VaultSound, Recorded
  <2> QED  BY <1>1, <1>5, <2>2 DEF Recorded
<1>7. ASSUME NEW k \in Keys  PROVE FreePathSound(k)'
  <2>1. FreePathSound(k) /\ disk'[k] = disk[k]
    BY <1>1 DEF InOrder
  <2>2. CASE k = req[r].key
    <3>1. disk'[k] = Nothing
      BY <1>1, <1>3, <2>2 DEF PathSound
    <3> QED  BY <2>1, <3>1, FreePaths
  <2>3. CASE Lookup(k) # {} /\ k # req[r].key
    <3>1. PICK j \in Ids : InUse(j) /\ rows[j].key = k
      BY <2>3 DEF Lookup
    <3>2. rows'[j] = rows[j]
      BY <1>3, <1>5, <2>3, <3>1
    <3>3. Lookup(k)' # {}
      BY <3>1, <3>2 DEF Lookup, InUse
    <3> QED  BY <2>1, <3>3, FreePaths
  <2>4. CASE Lookup(k) = {}
    BY <1>1, <2>1, <2>4, FreePaths
  <2> QED  BY <2>2, <2>3, <2>4
<1>8. CASE Finish(r)
  <2>1. \A j \in Ids : j = req[r].id \/ j = req'[r].id => FileSound(j)'
    BY <1>2, <1>5, <1>6, <1>8, LetGo
  <2> QED  BY <1>4, <1>7, <2>1 DEF Settled
<1>9. CASE EraseNext(r, req[r].purge)
  <2>1. PICK p \in req[r].purge :
          req' = [req EXCEPT ![r] = [Idle EXCEPT !.pc = "erase.content",
                    !.op = "purge", !.id = p[1], !.key = p[2],
                    !.purge = req[r].purge \ {p}]]
    BY <1>9, ZenonT(60) DEF EraseNext
  <2> DEFINE e == [Idle EXCEPT !.pc = "erase.content", !.op = "purge", !.id = p[1],
                               !.key = p[2], !.purge = req[r].purge \ {p}]
  <2>2. e.pc = "erase.content" /\ e.id = p[1] /\ req' = [req EXCEPT ![r] = e]
    BY <2>1 DEF Idle
  <2> HIDE DEF e
  <2>3. req'[r] = e
    BY <1>1, <2>2 DEF TInv, TypeOK
  <2>4. PICK j \in Ids : j = p[1] /\ j # i /\ j \in Footprint(r)
    <3>1. p[1] \in Ids /\ p[1] # i
      BY <1>1, <1>2, <2>1 DEF Request, GroundedAt, ReadsHold
    <3>2. p[1] \in Footprint(r)
      BY <2>1, FootprintMember
    <3> QED  BY <3>1, <3>2
  <2>5. Worker(i)' = Idle
    BY <1>1, <1>2, <1>3, <2>2, <2>3, <2>4, WorkerGone
  <2>6. FileSound(i)'
    BY <1>5, <1>6, <2>5, IdleSound
  <2>7. Worker(j)' = e /\ Worker(j) = Idle /\ Idle.pc = "idle" /\ FileSound(j)
    <3>1. j # Nothing /\ req[r].id # j /\ req'[r].id = j
      BY <1>2, <2>2, <2>3, <2>4
    <3>2. Idle.pc = "idle"
      BY DEF Idle
    <3> QED  BY <1>1, <2>3, <3>1, <3>2, WorkerCame, WorkerIsNext DEF InOrder
  <2>8. /\ rows'[j] = rows[j] /\ vrows'[j] = vrows[j] /\ vault' = vault /\ disk' = disk
        /\ Recorded(j)' = Recorded(j) /\ (InUse(j)' <=> InUse(j))
    BY <1>1, <1>5, <2>4 DEF InUse, Recorded
  <2>9. InUse(j)' => PathSound(j)'
    BY <2>2, <2>7, <2>8 DEF FileSound, PathSound, AtRest, AtPath
  <2>10. Missing(Idle) = {} /\ Missing(e) = {}
    BY <2>2, <2>7 DEF Missing
  <2>11. VaultSound(j)'
    BY <2>2, <2>7, <2>8, <2>10 DEF FileSound, VaultSound
  <2>12. AsideSound(j)' /\ TargetSound(j)'
    BY <2>2, <2>7 DEF AsideSound, TargetSound, Snapshotting
  <2>13. FileSound(j)'
    BY <2>9, <2>11, <2>12 DEF FileSound
  <2> QED  BY <1>2, <1>4, <1>7, <2>2, <2>3, <2>4, <2>6, <2>13 DEF Settled
<1> QED  BY <1>4, <1>8, <1>9

LEMMA SettlesMoveRename ==
  ASSUME GInv, GInv', InOrder, NEW r \in Requests, MoveRename(r),
         \A q \in Requests : q # r => req'[q] = req[q]
  PROVE  Settled(r)
<1> USE FileStoreAssumption
<1>1. /\ TInv /\ req[r] \in Request /\ WellFormed(req[r]) /\ req[r].pc = "move.rename"
      /\ UNCHANGED <<rows, vrows, vault>> /\ exposed' = {}
  BY DEF MoveRename, At, GInv, TInv, TypeOK, history, InOrder
<1>2. PICK i \in Ids : i = req[r].id
  BY <1>1, OwnPath DEF OnFile, Places
<1>3. /\ Worker(i) = req[r] /\ InUse(i) /\ PathSound(i) /\ VaultSound(i) /\ AsideSound(i)
      /\ rows[i].key = req[r].key /\ rows[i].key \in Keys
      /\ req'[r].id = i => Worker(i)' = req'[r]
  BY <1>2, OwnSound
<1>4. AtRest(i) /\ \A m \in Nums : vault[i][m] = vrows[i][m]
  <2>1. Missing(req[r]) = {}
    BY <1>1 DEF Missing
  <2> QED  BY <1>1, <1>3, <2>1 DEF PathSound, VaultSound
<1>5. CASE disk[req[r].key] = Nothing /\ Finish(r) /\ UNCHANGED disk
  <2>1. \A j \in Ids : j = req[r].id \/ j = req'[r].id => FileSound(j)'
    BY <1>1, <1>2, <1>3, <1>4, <1>5, LetGo DEF AtRest, AtPath, InUse
  <2>2. \A k \in Keys : FreePathSound(k)'
    BY <1>1, <1>5, FreePathsStand
  <2> QED  BY <1>1, <2>1, <2>2 DEF Settled
<1>6. CASE /\ disk[req[r].key] # Nothing
           /\ Rename(req[r].key, req[r].to)
           /\ Goto(r, "move.row")
  <2>1. req'[r].pc = "move.row" /\ req'[r].id = i /\ req'[r].to = req[r].to
    BY <1>1, <1>2, <1>6, GotoFields, ZenonT(60)
  <2>2. req[r].to \in Keys /\ req[r].to # req[r].key
    BY <1>1 DEF WellFormed, Request
  <2>3. /\ disk'[req[r].to] = disk[req[r].key] /\ disk'[req[r].key] = Nothing
        /\ \A k \in Keys : k # req[r].to /\ k # req[r].key => disk'[k] = disk[k]
    BY <1>1, <1>3, <1>6, <2>2 DEF Rename, TInv, TypeOK
  <2>4. disk'[req[r].to] = rows[i].sha
    BY <1>3, <1>4, <1>6, <2>3 DEF AtRest, AtPath
  <2>5. Worker(i)' = req'[r] /\ InUse(i)' /\ rows' = rows /\ vault' = vault /\ vrows' = vrows
    BY <1>1, <1>3, <2>1 DEF InUse
  <2>6. Moving(i)'
    BY <2>1, <2>4, <2>5 DEF Moving
  <2>7. PathSound(i)'
    BY <2>1, <2>5, <2>6 DEF PathSound
  <2>8. Missing(req'[r]) = {}
    BY <2>1 DEF Missing
  <2>9. VaultSound(i)'
    BY <1>4, <2>1, <2>5, <2>8 DEF VaultSound
  <2>10. AsideSound(i)' /\ TargetSound(i)'
    BY <2>1, <2>5 DEF AsideSound, TargetSound, Snapshotting
  <2>11. FileSound(i)'
    BY <2>7, <2>9, <2>10 DEF FileSound
  <2>12. ASSUME NEW k \in Keys  PROVE FreePathSound(k)'
    <3>1. Lookup(k)' = Lookup(k) /\ FreePathSound(k)
      BY <1>1 DEF Lookup, InUse, InOrder
    <3> QED  BY <1>1, <2>1, <2>3, <3>1, FreePaths
  <2> QED  BY <1>1, <1>2, <2>1, <2>11, <2>12 DEF Settled
<1> QED  BY <1>5, <1>6 DEF MoveRename

LEMMA SettlesMoveRow ==
  ASSUME GInv, GInv', InOrder, NEW r \in Requests, Underway(r), MoveRow(r),
         \A q \in Requests : q # r => req'[q] = req[q]
  PROVE  Settled(r)
<1> USE FileStoreAssumption, NoRowAssumption
<1>1. /\ TInv /\ req[r] \in Request /\ WellFormed(req[r]) /\ GroundedAt(r) /\ req[r].pc = "move.row"
      /\ UNCHANGED <<vrows, disk, vault>> /\ exposed' = {}
  BY DEF MoveRow, At, GInv, TInv, TypeOK, history, InOrder
<1>2. PICK i \in Ids : i = req[r].id
  BY <1>1, OwnPath DEF OnFile, Places
<1>3. /\ Worker(i) = req[r] /\ InUse(i) /\ PathSound(i) /\ VaultSound(i)
      /\ rows[i].key = req[r].key /\ rows[i].key \in Keys
  BY <1>2, OwnSound
<1>4. PICK k : k = req[r].to /\ k \in Keys /\ k # req[r].key /\ Lookup(k) = {}
  BY <1>1 DEF WellFormed, Request, GroundedAt, MoveHolds
<1>5. Finish(r) /\ rows' = [rows EXCEPT ![i].key = k]
  BY <1>2, <1>3, <1>4 DEF MoveRow
<1> DEFINE row == [rows[i] EXCEPT !.key = k]
<1>6. row \in Row /\ row.key = k /\ row.sha = rows[i].sha /\ rows' = [rows EXCEPT ![i] = row]
  <2>1. rows \in [Ids -> Row \cup {NoRow}] /\ rows[i] \in Row
    BY <1>1, <1>3 DEF InUse, TInv, TypeOK
  <2>2. row \in Row /\ row.key = k /\ row.sha = rows[i].sha
    BY <1>4, <2>1 DEF Row
  <2>3. rows' = [rows EXCEPT ![i] = row]
    BY <1>5, <2>1
  <2> QED  BY <2>2, <2>3
<1> HIDE DEF row
<1>7. rows'[i] = row /\ InUse(i)' /\ \A j \in Ids : j # i => rows'[j] = rows[j]
  BY <1>1, <1>6 DEF InUse, TInv, TypeOK
<1>8. disk[k] = rows[i].sha /\ disk[req[r].key] = Nothing
  BY <1>1, <1>3, <1>4 DEF PathSound, Moving, Underway
<1>9. AtRest(i)'
  BY <1>1, <1>6, <1>7, <1>8 DEF AtRest, AtPath
<1>10. \A m \in Nums : vault'[i][m] = vrows'[i][m]
  <2>1. Missing(req[r]) = {}
    BY <1>1 DEF Missing
  <2> QED  BY <1>1, <1>3, <2>1 DEF VaultSound
<1>11. \A j \in Ids : j = req[r].id \/ j = req'[r].id => FileSound(j)'
  BY <1>2, <1>5, <1>7, <1>9, <1>10, LetGo
<1>12. ASSUME NEW x \in Keys  PROVE FreePathSound(x)'
  <2>1. FreePathSound(x) /\ disk'[x] = disk[x]
    BY <1>1 DEF InOrder
  <2>2. CASE x = req[r].key
    BY <1>8, <2>1, <2>2, FreePaths
  <2>3. CASE x = k
    <3>1. Lookup(x)' # {}
      BY <1>6, <1>7, <2>3 DEF Lookup
    <3> QED  BY <2>1, <3>1, FreePaths
  <2>4. CASE Lookup(x) # {} /\ x # req[r].key
    <3>1. PICK j \in Ids : InUse(j) /\ rows[j].key = x
      BY <2>4 DEF Lookup
    <3>2. rows'[j] = rows[j]
      BY <1>3, <1>7, <2>4, <3>1
    <3>3. Lookup(x)' # {}
      BY <3>1, <3>2 DEF Lookup, InUse
    <3> QED  BY <2>1, <3>3, FreePaths
  <2>5. CASE Lookup(x) = {} /\ x # k
    BY <1>1, <1>4, <2>1, <2>5, FreePaths
  <2> QED  BY <2>2, <2>3, <2>4, <2>5
<1> QED  BY <1>1, <1>11, <1>12 DEF Settled

LEMMA NeverUndone ==
  ASSUME GInv, GInv', InOrder, NEW r \in Requests, MoveUndo(r)
  PROVE  FALSE
<1>1. PICK i \in Ids : i = req[r].id
  BY OwnPath DEF MoveUndo, At, OnFile, Places
<1>2. Worker(i) = req[r] /\ PathSound(i)
  BY <1>1, OwnSound
<1> QED  BY <1>2 DEF PathSound, MoveUndo, At

LEMMA StepSettles ==
  ASSUME Disjoint, GInv, GInv', UInv, InOrder, MaxVersions > 0 => \A q \in Requests : Trimming(q),
         NEW r \in Requests, Local(r), Step(r), faults' = faults
  PROVE  Settled(r)
<1>1. Underway(r) /\ \A q \in Requests : q # r => req'[q] = req[q]
  BY DEF UInv, Local
<1>2. ~UploadReadBlind(r)
  <2>1. faults \in Nat
    BY DEF GInv, TInv, TypeOK
  <2> QED  BY <2>1 DEF UploadReadBlind
<1>3. ~RestoreDiscard(r)
  BY DEF RestoreDiscard, GInv, GroundedAt, BytesHold
<1>4. ~MoveUndo(r)
  BY NeverUndone
<1>5. CASE UploadRead(r) \/ UploadPlace(r) \/ UploadCommit(r)
  BY <1>1, <1>5, SettlesUploadRead, SettlesUploadPlace, SettlesUploadCommit
<1>6. CASE SnapshotNumber(r) \/ SnapshotMove(r) \/ SnapshotRecord(r)
  BY <1>1, <1>6, SettlesSnapshotNumber, SettlesSnapshotMove, SettlesSnapshotRecord
<1>7. CASE PruneList(r) \/ PruneContent(r) \/ PruneRow(r)
  BY <1>1, <1>7, SettlesPruneList, SettlesPruneContent, SettlesPruneRow
<1>8. CASE RestorePlace(r) \/ RestoreRow(r) \/ RestoreCommit(r)
  BY <1>1, <1>8, SettlesRestorePlace, SettlesRestoreRow, SettlesRestoreCommit
<1>9. CASE EraseContent(r) \/ EraseList(r) \/ EraseVault(r) \/ EraseHistory(r) \/ EraseFile(r)
  BY <1>1, <1>9, SettlesEraseContent, SettlesEraseList, SettlesEraseVault,
     SettlesEraseHistory, SettlesEraseFile
<1>10. CASE MoveRename(r) \/ MoveRow(r)
  BY <1>1, <1>10, SettlesMoveRename, SettlesMoveRow
<1> QED  BY <1>2, <1>3, <1>4, <1>5, <1>6, <1>7, <1>8, <1>9, <1>10 DEF Step

\* The two updates of the trash flag, and a step of nobody.
LEMMA OrderStands ==
  ASSUME GInv, InOrder, UNCHANGED <<vrows, disk, vault, req, exposed>>,
         \A i \in Ids : /\ InUse(i)' <=> InUse(i)
                        /\ rows'[i].key = rows[i].key /\ rows'[i].sha = rows[i].sha
  PROVE  InOrder'
<1>1. ASSUME NEW i \in Ids  PROVE FileSound(i)'
  <2>1. Worker(i)' = Worker(i) /\ FileSound(i)
    BY DEF Worker, InOrder
  <2> QED  BY <2>1, SoundFrame
<1>2. ASSUME NEW k \in Keys  PROVE FreePathSound(k)'
  <2>1. Lookup(k)' = Lookup(k) /\ FreePathSound(k)
    BY DEF Lookup, InOrder
  <2> QED  BY <2>1 DEF FreePathSound, At
<1> QED  BY <1>1, <1>2 DEF InOrder

LEMMA TrashStands ==
  ASSUME GInv, InOrder, NEW j \in Ids, Delete(j) \/ RestoreFile(j)
  PROVE  InOrder'
<1>1. PICK flag \in BOOLEAN : SetTrashed(j, flag)
  BY DEF Delete, RestoreFile
<1> DEFINE row == [rows[j] EXCEPT !.trashed = flag]
<1>2. /\ rows' = [rows EXCEPT ![j] = row] /\ rows[j] \in Row
      /\ UNCHANGED <<vrows, disk, vault, req, exposed>> /\ InUse(j)
  BY <1>1 DEF SetTrashed, InUse, GInv, TInv, TypeOK, history
<1>3. row \in Row /\ row.key = rows[j].key /\ row.sha = rows[j].sha
  BY <1>2 DEF Row
<1> HIDE DEF row
<1>4. \A i \in Ids : rows'[i] = (IF i = j THEN row ELSE rows[i])
  BY <1>2 DEF GInv, TInv, TypeOK
<1>5. \A i \in Ids : /\ InUse(i)' <=> InUse(i)
                     /\ rows'[i].key = rows[i].key /\ rows'[i].sha = rows[i].sha
  BY <1>2, <1>3, <1>4, NoRowAssumption DEF InUse
<1> QED  BY <1>2, <1>5, OrderStands

\* The invariant of the stores is inductive: while no call has failed, what a
\* request has done so far is all that they are out of step.
THEOREM OrderInvariant ==
  ASSUME Disjoint, "reconfigure" \notin Ops
  PROVE  Spec => []SInv
<1>1. ASSUME IInv, IInv', HInv, SInv, [Next]_vars, faults' = 0  PROVE InOrder'
  <2>1. /\ GInv /\ GInv' /\ UInv /\ faults \in Nat
        /\ MaxVersions > 0 => \A q \in Requests : Trimming(q)
    BY <1>1 DEF IInv, GInv, TInv, TypeOK, HInv
  <2>2. ASSUME NEW r \in Requests, Begin(r) \/ Step(r) \/ Fail(r)  PROVE InOrder'
    <3>1. Local(r)
      BY <2>1, <2>2, BeginStep, StepCarried, FailStep DEF UInv
    <3>2. faults = 0 /\ faults' = faults
      BY <1>1, <2>1, <3>1 DEF Local
    <3>3. InOrder
      BY <1>1, <3>2 DEF SInv, InOrder
    <3>4. ~Fail(r)
      BY <2>1, <3>2 DEF Fail
    <3>5. Settled(r)
      BY <2>1, <2>2, <3>1, <3>2, <3>3, <3>4, SettlesBegin, StepSettles DEF Local
    <3>6. \A i \in Ids : i # req[r].id /\ i # req'[r].id => FileSound(i)'
      BY <2>1, <3>1, <3>3, OthersSound
    <3> QED  BY <3>5, <3>6 DEF Settled, InOrder
  <2>3. ASSUME faults = 0  PROVE InOrder
    BY <1>1, <2>3 DEF SInv, InOrder
  <2>4. ASSUME NEW j \in Ids, Delete(j) \/ RestoreFile(j)  PROVE InOrder'
    <3>1. faults' = faults
      BY <2>4 DEF Delete, RestoreFile, SetTrashed, history
    <3> QED  BY <1>1, <2>1, <2>3, <2>4, <3>1, TrashStands
  <2>5. CASE Crash
    BY <1>1, <2>1, <2>5 DEF Crash
  <2>6. CASE Reconfigure
    BY <2>6 DEF Reconfigure
  <2>7. CASE UNCHANGED vars
    BY <1>1, <2>1, <2>3, <2>7, OrderStands DEF vars, InUse
  <2> QED  BY <1>1, <2>2, <2>4, <2>5, <2>6, <2>7 DEF Next
<1>2. ASSUME Init  PROVE SInv
  <2>1. \A i \in Ids : ~InUse(i) /\ Recorded(i) = {} /\ \A n \in Nums : vault[i][n] = vrows[i][n]
    BY <1>2 DEF Init, InUse, Recorded
  <2>2. \A r \in Requests : req[r] = Idle
    BY <1>2 DEF Init
  <2>3. Idle.pc = "idle"
    BY DEF Idle
  <2>4. ASSUME NEW i \in Ids  PROVE FileSound(i)
    <3>1. Worker(i) = Idle
      BY <2>2 DEF Worker
    <3>2. Missing(Idle) = {}
      BY <2>3 DEF Missing
    <3>3. VaultSound(i)
      BY <2>1, <2>3, <3>1, <3>2 DEF VaultSound
    <3>4. AsideSound(i) /\ TargetSound(i)
      BY <2>3, <3>1 DEF AsideSound, TargetSound, Snapshotting
    <3> QED  BY <2>1, <3>3, <3>4 DEF FileSound
  <2>5. \A k \in Keys : FreePathSound(k)
    BY <1>2 DEF Init, FreePathSound
  <2> QED  BY <1>2, <2>4, <2>5 DEF Init, SInv
<1>3. IInv /\ IInv' /\ HInv /\ SInv /\ [Next]_vars => SInv'
  BY <1>1 DEF SInv, InOrder
<1>4. Spec => []IInv /\ []HInv
  BY ContentInvariant, HistoryInvariant
<1> QED  BY <1>2, <1>3, <1>4, PTL DEF Spec

(***************************************************************************)
(* What follows from the stores in order.                                  *)
(***************************************************************************)
LEMMA OrderIsInStep ==
  ASSUME MaxVersions = 0 \/ "restoreVersion" \notin Ops, IInv, SInv
  PROVE  InStep
<1> USE FileStoreAssumption
<1>1. SUFFICES ASSUME faults = 0
               PROVE  /\ \A k \in Keys : ~Worked(k) =>
                           IF Lookup(k) = {} THEN disk[k] = Nothing
                           ELSE \A i \in Lookup(k) : disk[k] = rows[i].sha
                      /\ \A i \in Ids : ~Worked(i) =>
                           vault[i] = vrows[i] /\ (Recorded(i) # {} => InUse(i))
  BY DEF InStep
<1>2. /\ GInv /\ TypeOK /\ ~TakesTarget
      /\ \A i \in Ids : FileSound(i)
      /\ \A k \in Keys : FreePathSound(k)
  BY <1>1 DEF IInv, GInv, TInv, SInv, TakesTarget
<1>3. ASSUME NEW i \in Ids, \A r \in Requests : req[r].id # i
      PROVE  /\ InUse(i) => disk[rows[i].key] = rows[i].sha
             /\ \A n \in Nums : vault[i][n] = vrows[i][n]
             /\ Recorded(i) # {} => InUse(i)
  <2>1. Worker(i) = Idle /\ Idle.pc = "idle"
    BY <1>3, NoWorker DEF Idle
  <2>2. Missing(Idle) = {}
    BY <2>1 DEF Missing
  <2> QED  BY <1>2, <2>1, <2>2 DEF FileSound, PathSound, AtRest, AtPath, VaultSound
<1>4. ASSUME NEW k \in Keys, ~Worked(k)
      PROVE  IF Lookup(k) = {} THEN disk[k] = Nothing
             ELSE \A i \in Lookup(k) : disk[k] = rows[i].sha
  <2>1. \A r \in Requests : req[r].key # k /\ req[r].to # k
    BY <1>4, FootprintMember DEF Worked
  <2>2. Lookup(k) = {} => disk[k] = Nothing
    BY <1>2, <2>1 DEF FreePathSound
  <2>3. ASSUME NEW i \in Ids, InUse(i), rows[i].key = k  PROVE disk[k] = rows[i].sha
    <3>1. \A r \in Requests : req[r].id # i
      BY <1>2, <2>1, <2>3, OwnFile
    <3> QED  BY <1>3, <2>3, <3>1
  <2> QED  BY <2>2, <2>3 DEF Lookup
<1>5. ASSUME NEW i \in Ids, ~Worked(i)
      PROVE  vault[i] = vrows[i] /\ (Recorded(i) # {} => InUse(i))
  <2>1. \A r \in Requests : req[r].id # i
    BY <1>5, FootprintMember DEF Worked
  <2>2. /\ vault[i] \in [Nums -> Contents \cup {Nothing}]
        /\ vrows[i] \in [Nums -> Contents \cup {Nothing}]
    BY <1>2 DEF TypeOK
  <2> QED  BY <1>3, <2>1, <2>2
<1> QED  BY <1>4, <1>5

\* While no call has failed, the catalogue and the pool agree on everything no
\* request works on, for any number of files, requests and versions: with no
\* limit on the versions, or none restored (with both, a restore may find its
\* version pruned and leave the path empty).
THEOREM StoresInStep ==
  ASSUME Disjoint, "reconfigure" \notin Ops, MaxVersions = 0 \/ "restoreVersion" \notin Ops
  PROVE  Spec => []InStep
<1>1. Spec => []IInv /\ []SInv
  BY ContentInvariant, OrderInvariant
<1>2. IInv /\ SInv => InStep
  BY OrderIsInStep
<1> QED  BY <1>1, <1>2, PTL

\* The two upserts that give a file another content.
LEMMA CommitKeepsPrior ==
  ASSUME GInv, GInv', InOrder, NEW r \in Requests, UploadCommit(r) \/ RestoreCommit(r),
         NEW i \in Ids, InUse(i), rows'[i].sha # rows[i].sha
  PROVE  \E n \in Nums : vrows'[i][n] = rows[i].sha /\ vault'[i][n] = rows[i].sha
<1> USE FileStoreAssumption
<1>1. /\ req[r] \in Request /\ TInv /\ TInv' /\ GroundedAt(r)
      /\ req[r].pc \in {"upload.commit", "restore.commit"} /\ UNCHANGED vrows
  BY DEF UploadCommit, RestoreCommit, At, GInv, TInv, TypeOK
<1>2. PICK j \in Ids : /\ j \in Lookup(req[r].key) /\ Overwrite(j, req[r].sha)
                       /\ req[r].pc = "restore.commit" => j = req[r].id
  <2>1. CASE RestoreCommit(r)
    <3>1. PICK j \in Ids : j = req[r].id
      BY <2>1, OwnPath DEF RestoreCommit, At, OnFile, Places
    <3>2. Lookup(req[r].key) = {j} /\ Overwrite(j, req[r].sha)
      BY <1>1, <2>1, <3>1, GroundRestoreCommit
    <3> QED  BY <3>1, <3>2
  <2>2. CASE UploadCommit(r)
    <3>1. req[r].pc = "upload.commit"
      BY <2>2 DEF UploadCommit, At
    <3>2. ASSUME NEW j \in Ids, Fresh(j), Insert(j, req[r].key, req[r].sha)  PROVE FALSE
      <4>1. rows'[i] = rows[i]
        BY <1>1, <3>2 DEF Insert, Fresh, TInv, TypeOK
      <4> QED  BY <4>1
    <3> QED  BY <2>2, <3>1, <3>2 DEF UploadCommit, Lookup
  <2> QED  BY <2>1, <2>2
<1>3. InUse(j) /\ rows[j].key = req[r].key
  BY <1>2 DEF Lookup
<1>4. \A x \in Ids : x # j => rows'[x] = rows[x]
  BY <1>1, <1>2 DEF Overwrite, TInv, TypeOK
<1>5. i = j /\ vault' = vault
  BY <1>2, <1>4 DEF Overwrite
<1>6. j = req[r].id
  <2>1. CASE req[r].pc = "restore.commit"
    BY <1>2, <2>1
  <2>2. CASE req[r].pc = "upload.commit"
    <3>1. req[r].id # Nothing
      BY <1>1, <1>2, <2>2 DEF GroundedAt, Unnamed, InOrder
    <3>2. PICK x \in Ids : x = req[r].id
      BY <1>1, <3>1 DEF Request
    <3>3. InUse(x) /\ rows[x].key = req[r].key
      BY <3>2, OwnSound
    <3> QED  BY <1>3, <3>2, <3>3 DEF GInv, KeysUnique
  <2> QED  BY <1>1, <2>1, <2>2
<1>7. Worker(i) = req[r] /\ VaultSound(i) /\ AsideSound(i)
  BY <1>5, <1>6, OwnSound
<1>8. rows'[i].sha = req[r].sha
  BY <1>1, <1>2, <1>3, <1>5 DEF Overwrite, TInv, TypeOK, InUse, Row
<1>9. Aside(i)
  BY <1>1, <1>7, <1>8 DEF AsideSound
<1>10. Missing(req[r]) = {}
  BY <1>1 DEF Missing
<1>11. \A n \in Nums : vault[i][n] = vrows[i][n]
  BY <1>1, <1>7, <1>10 DEF VaultSound
<1> QED  BY <1>1, <1>5, <1>7, <1>9, <1>11 DEF Aside

\* The row of a file takes another content in the two upserts only.
LEMMA OnlyCommitsWrite ==
  ASSUME GInv, NEW r \in Requests, Begin(r) \/ Step(r) \/ Fail(r),
         ~UploadCommit(r), ~RestoreCommit(r), NEW i \in Ids, InUse(i), InUse(i)'
  PROVE  rows'[i].sha = rows[i].sha
<1>1. CASE UNCHANGED rows
  BY <1>1
<1>2. CASE Begin(r) \/ Fail(r)
  BY <1>2, ZenonT(60) DEF Begin, UploadBegin, UploadBeginBlind, RestoreVersionBegin, EraseBegin,
              PurgeBegin, MoveBegin, Fail, stores
<1>3. CASE MoveRow(r)
  <2>1. rows' = rows \/ rows' = [rows EXCEPT ![req[r].id].key = req[r].to]
    BY <1>3 DEF MoveRow
  <2>2. rows[i] \in Row
    BY DEF InUse, GInv, TInv, TypeOK
  <2> QED  BY <2>1, <2>2 DEF Row, GInv, TInv, TypeOK
<1>4. CASE EraseFile(r)
  <2>1. rows' = rows \/ rows' = [rows EXCEPT ![req[r].id] = NoRow]
    BY <1>4 DEF EraseFile
  <2> QED  BY <2>1 DEF InUse, GInv, TInv, TypeOK
<1>5. CASE Step(r) /\ ~MoveRow(r) /\ ~EraseFile(r)
  BY <1>5, ZenonT(60) DEF Step, UploadRead, UploadReadBlind, UploadPlace, SnapshotNumber, SnapshotMove,
     SnapshotRecord, PruneList, PruneContent, PruneRow, RestoreDiscard, RestorePlace, RestoreRow,
     EraseContent, EraseList, EraseVault, EraseHistory, MoveRename, MoveUndo, stores
<1> QED  BY <1>2, <1>3, <1>4, <1>5

\* While no call has failed, a file that takes another content keeps the one it
\* had: it is recorded in its history and lies in the version store.
THEOREM PriorContentIsKept ==
  ASSUME Disjoint, "reconfigure" \notin Ops
  PROVE  Spec => PriorContentKept
<1>1. ASSUME IInv, IInv', SInv, [Next]_vars, faults = 0,
             NEW i \in Ids, InUse(i), InUse(i)', rows'[i].sha # rows[i].sha
      PROVE  \E n \in Nums : vrows'[i][n] = rows[i].sha /\ vault'[i][n] = rows[i].sha
  <2>1. GInv /\ GInv' /\ InOrder
    BY <1>1 DEF IInv, SInv, InOrder
  <2>2. ASSUME NEW r \in Requests, Begin(r) \/ Step(r) \/ Fail(r)
        PROVE  \E n \in Nums : vrows'[i][n] = rows[i].sha /\ vault'[i][n] = rows[i].sha
    <3>1. UploadCommit(r) \/ RestoreCommit(r)
      BY <1>1, <2>1, <2>2, OnlyCommitsWrite
    <3> QED  BY <1>1, <2>1, <3>1, CommitKeepsPrior
  <2>3. ASSUME NEW j \in Ids, Delete(j) \/ RestoreFile(j)  PROVE FALSE
    <3>1. LeftAlone(i)
      BY <1>1, <2>1, <2>3, TrashLeavesAlone DEF GInv, TInv
    <3> QED  BY <1>1, <3>1 DEF LeftAlone
  <2>4. CASE Crash \/ Reconfigure \/ UNCHANGED vars
    BY <1>1, <2>4 DEF Crash, Reconfigure, vars, stores
  <2> QED  BY <1>1, <2>2, <2>3, <2>4 DEF Next
<1>2. IInv /\ IInv' /\ SInv /\ [Next]_vars =>
        [versioning /\ faults = 0 =>
           \A i \in Ids :
             InUse(i) /\ InUse(i)' /\ rows'[i].sha # rows[i].sha =>
               \E n \in Nums : /\ vrows'[i][n] = rows[i].sha
                               /\ vault'[i][n] = rows[i].sha]_vars
  BY <1>1
<1>3. Spec => []IInv /\ []SInv
  BY ContentInvariant, OrderInvariant
<1> QED  BY <1>2, <1>3, PTL DEF Spec, PriorContentKept

\* What filestore_restore refutes for a limited history holds without a limit:
\* the version to restore is still there after the snapshot that went before.
THEOREM TargetSurvives ==
  ASSUME Disjoint, "reconfigure" \notin Ops, MaxVersions = 0
  PROVE  Spec => []RestoreKeepsTarget
<1> USE FileStoreAssumption
<1>1. ASSUME IInv, SInv, NEW r \in Requests, faults = 0, req[r].pc = "restore.place"
      PROVE  vault[req[r].id][req[r].target] # Nothing
  <2>1. GInv /\ req[r] \in Request /\ WellFormed(req[r])
    BY <1>1 DEF IInv, GInv, TInv, TypeOK
  <2>2. PICK i \in Ids, n \in Nums : i = req[r].id /\ n = req[r].target
    BY <1>1, <2>1, OwnPath DEF OnFile, Places, WellFormed
  <2>3. Worker(i) = req[r] /\ VaultSound(i) /\ TargetSound(i)
    BY <1>1, <2>1, <2>2, OwnFile DEF SInv, FileSound
  <2>4. n \in Recorded(i)
    BY <1>1, <2>2, <2>3 DEF TargetSound
  <2>5. Missing(req[r]) = {}
    BY <1>1 DEF Missing
  <2>6. vault[i][n] = vrows[i][n]
    BY <1>1, <2>3, <2>5 DEF VaultSound
  <2> QED  BY <2>2, <2>4, <2>6 DEF Recorded
<1>2. IInv /\ SInv => RestoreKeepsTarget
  BY <1>1 DEF RestoreKeepsTarget, At
<1>3. Spec => []IInv /\ []SInv
  BY ContentInvariant, OrderInvariant
<1> QED  BY <1>2, <1>3, PTL

(***************************************************************************)
(* FileStore implements VersionedStore, for requests that keep apart, a    *)
(* configuration that keeps versioning on with no limit on the versions,   *)
(* and no failure: whatever steps the requests interleave, each is one     *)
(* operation of the abstract store, or none.                               *)
(***************************************************************************)

(***************************************************************************)
(* What the mapping shows, in terms of the catalogue and of the request    *)
(* that works on the file.                                                 *)
(***************************************************************************)
Making == {"prune.list", "prune.content", "prune.row", "upload.place", "restore.place"}

Content(i) ==
  IF Worker(i).pc \in {"upload.commit", "restore.row", "restore.commit"}
  THEN Worker(i).sha ELSE rows[i].sha

Hidden(i) ==
  IF Worker(i).pc \in Making THEN {Worker(i).num}
  ELSE IF Worker(i).pc = "restore.row" THEN {Worker(i).target} ELSE {}

File(i) ==
  IF There(i) THEN [name |-> rows[i].key, content |-> Content(i), trashed |-> rows[i].trashed]
  ELSE NoRow

Past(i, n) == IF There(i) /\ n \notin Hidden(i) THEN vrows[i][n] ELSE Nothing

Seen == /\ FilesSeen = [i \in Ids |-> File(i)]
        /\ VersionsSeen = [i \in Ids |-> [n \in Nums |-> Past(i, n)]]

LEMMA MakingIs ==
  ASSUME Apart, NEW i \in Ids, NEW n
  PROVE  InTheMaking(i, n) <=> Worker(i).pc \in Making /\ Worker(i).num = n
<1>1. i # Nothing
  BY FileStoreAssumption
<1>2. ASSUME NEW r \in Requests, req[r].id = i  PROVE Worker(i) = req[r]
  BY <1>1, <1>2, WorkerIs
<1>3. CASE \A r \in Requests : req[r].id # i
  <2>1. Worker(i) = Idle /\ Idle.pc = "idle"
    BY <1>3, NoWorker DEF Idle
  <2> QED  BY <1>3, <2>1 DEF InTheMaking, Making
<1>4. CASE \E r \in Requests : req[r].id = i
  BY <1>2, <1>4 DEF InTheMaking, Making
<1> QED  BY <1>3, <1>4

\* The places of a request that works on a file which is still there.
LEMMA WorkPlaces ==
  ASSUME MaxVersions = 0, GInv, UInv, InOrder, NEW i \in Ids, There(i)
  PROVE  LET q == Worker(i)
         IN /\ PathSound(i) /\ VaultSound(i) /\ AsideSound(i) /\ ~TakesTarget
            /\ rows[i].sha \in Contents /\ rows[i].sha # Nothing /\ i \notin doomed
            /\ q.pc \in {"upload.place", "upload.commit", "snap.number", "snap.move",
                         "snap.record", "prune.list", "restore.place", "restore.row",
                         "restore.commit", "idle", "erase.content", "move.rename", "move.row"}
            /\ q.pc \in {"upload.commit", "restore.row", "restore.commit"} => q.sha # Nothing
            /\ q.pc = "upload.commit" => disk[rows[i].key] = q.sha
            /\ q.pc \in {"snap.record", "prune.list", "restore.place", "move.row"} =>
                 disk[rows[i].key] = Nothing
            /\ q.pc = "snap.record" => q.num \notin Recorded(i)
<1> USE FileStoreAssumption
<1>1. /\ InUse(i) /\ i \notin doomed /\ FileSound(i) /\ i # Nothing /\ ~TakesTarget
      /\ rows[i] \in Row
  BY DEF There, InOrder, TakesTarget, InUse, GInv, TInv, TypeOK
<1>2. PathSound(i) /\ VaultSound(i) /\ AsideSound(i) /\ rows[i].sha \in Contents
  BY <1>1 DEF FileSound, Row
<1>3. CASE \A r \in Requests : req[r].id # i
  <2>1. Worker(i) = Idle /\ Idle.pc = "idle"
    BY <1>3, NoWorker DEF Idle
  <2> QED  BY <1>1, <1>2, <2>1
<1>4. CASE \E r \in Requests : req[r].id = i
  <2>1. PICK r \in Requests : req[r].id = i
    BY <1>4
  <2>2. /\ Worker(i) = req[r] /\ rows[i].key = req[r].key /\ GroundedAt(r) /\ Underway(r)
        /\ req[r] \in Request /\ WellFormed(req[r])
    BY <1>1, <2>1, OwnFile DEF GInv, TInv, TypeOK, UInv
  <2>3. req[r].pc \in Places
    BY <2>2 DEF Request
  <2>4. /\ req[r].pc # "upload.read"
        /\ req[r].pc \in {"upload.commit", "restore.row", "restore.commit"} => req[r].sha # Nothing
    BY <1>1, <2>1, <2>2 DEF WellFormed, WithContent
  <2>5. /\ req[r].pc = "upload.commit" => disk[req[r].key] = req[r].sha
        /\ req[r].pc \in {"snap.record", "prune.list", "restore.place"} =>
             disk[req[r].key] = Nothing
        /\ req[r].pc # "restore.discard"
    BY <2>2 DEF GroundedAt, BytesHold, At
  <2>6. /\ req[r].pc \notin {"erase.list", "erase.vault", "erase.history", "erase.file"}
        /\ req[r].pc = "move.row" => disk[req[r].key] = Nothing
    BY <1>1, <2>1, <2>2 DEF Underway
  <2>7. req[r].pc \notin {"prune.content", "prune.row", "move.undo"}
    BY <1>2, <2>2 DEF AsideSound, PathSound
  <2>8. req[r].pc = "snap.record" => req[r].num \notin Recorded(i)
    <3>1. req[r].num \in Nat
      BY <2>2 DEF Request
    <3> QED  BY <2>1, <2>2, <3>1 DEF GroundedAt, SnapshotHolds
  <2> QED  BY <1>1, <1>2, <2>2, <2>3, <2>4, <2>5, <2>6, <2>7, <2>8 DEF Places
<1> QED  BY <1>3, <1>4

LEMMA ContentSeen ==
  ASSUME MaxVersions = 0, GInv, UInv, InOrder, RInv, NEW i \in Ids, There(i)
  PROVE  CurrentContent(i) = Content(i)
<1>1. SeenSound(i)
  BY DEF RInv, There
<1>2. Worker(i).pc \in {"restore.row", "restore.commit"} => disk[rows[i].key] = Worker(i).sha
  BY WorkPlaces DEF PathSound
<1>3. Worker(i).pc \in {"idle", "snap.number", "snap.move", "move.rename", "erase.content"} =>
        disk[rows[i].key] = rows[i].sha
  BY WorkPlaces DEF PathSound, AtRest, AtPath
<1>4. Worker(i).pc = "upload.place" => disk[rows[i].key] \in {Nothing, rows[i].sha}
  BY <1>1 DEF SeenSound
<1> QED  BY <1>2, <1>3, <1>4, WorkPlaces DEF CurrentContent, Content

LEMMA PastSeen ==
  ASSUME MaxVersions = 0, GInv, UInv, InOrder, NEW i \in Ids, There(i), NEW n \in Nums
  PROVE  Past(i, n) = IF n \in Recorded(i) /\ ~InTheMaking(i, n) THEN vault[i][n] ELSE Nothing
<1> DEFINE q == Worker(i)
<1>1. Apart
  BY DEF GInv
<1>2. InTheMaking(i, n) <=> q.pc \in Making /\ q.num = n
  BY <1>1, MakingIs
<1>3. vault[i][n] = IF n \in Missing(q) THEN Nothing
                    ELSE IF q.pc = "snap.record" /\ n = q.num THEN rows[i].sha
                    ELSE vrows[i][n]
  BY WorkPlaces DEF VaultSound
<1>4. Missing(q) = IF q.pc = "restore.row" THEN {q.target} ELSE {}
  BY WorkPlaces DEF Missing
<1>5. q.pc = "snap.record" => q.num \notin Recorded(i)
  BY WorkPlaces
<1>6. q.pc = "restore.row" => q.pc \notin Making
  BY DEF Making
<1>7. n \in Recorded(i) <=> vrows[i][n] # Nothing
  BY DEF Recorded
<1> HIDE DEF q
<1> QED  BY <1>2, <1>3, <1>4, <1>5, <1>6, <1>7 DEF Past, Hidden, q

LEMMA SeenAs ==
  ASSUME MaxVersions = 0, GInv, UInv, InOrder, RInv
  PROVE  Seen
<1>1. ASSUME NEW i \in Ids  PROVE FilesSeen[i] = File(i)
  BY ContentSeen DEF FilesSeen, File
<1>2. ASSUME NEW i \in Ids, NEW n \in Nums  PROVE VersionsSeen[i][n] = Past(i, n)
  <2>1. CASE There(i)
    BY <2>1, PastSeen DEF VersionsSeen
  <2>2. CASE ~There(i)
    BY <2>2 DEF VersionsSeen, Past
  <2> QED  BY <2>1, <2>2
<1>3. FilesSeen = [i \in Ids |-> File(i)]
  <2>1. FilesSeen = [i \in Ids |-> FilesSeen[i]]
    BY DEF FilesSeen
  <2> QED  BY <1>1, <2>1
<1>4. VersionsSeen = [i \in Ids |-> [n \in Nums |-> Past(i, n)]]
  <2>1. VersionsSeen = [i \in Ids |-> [n \in Nums |-> VersionsSeen[i][n]]]
    BY DEF VersionsSeen
  <2> QED  BY <1>2, <2>1
<1> QED  BY <1>3, <1>4 DEF Seen

(***************************************************************************)
(* What the mapping relies on is an invariant (RInv).                      *)
(***************************************************************************)
LEMMA SeenFrame ==
  ASSUME NEW i, SeenSound(i), Worker(i)' = Worker(i), rows'[i] = rows[i], vrows'[i] = vrows[i],
         disk'[rows[i].key] = disk[rows[i].key]
  PROVE  SeenSound(i)'
<1>1. Recorded(i)' = Recorded(i)
  BY DEF Recorded
<1> QED  BY <1>1 DEF SeenSound

\* A request of which the mapping asks nothing.
Discreet(q) ==
  /\ q.pc \notin {"upload.place", "upload.commit", "move.rename", "move.row", "restore.place"}
  /\ q.pc \in Snapshotting => q.op # "upload"

LEMMA DiscreetSound ==
  ASSUME NEW i, Discreet(Worker(i)')
  PROVE  SeenSound(i)'
BY DEF Discreet, SeenSound

LEMMA IdleDiscreet == Discreet(Idle)
BY DEF Discreet, Idle, Snapshotting

\* What a step leaves of the file that its request works on next.
OwnSeen(r) == \A i \in Ids : i = req'[r].id => SeenSound(i)'

LEMMA DiscreetStep ==
  ASSUME GInv', NEW r \in Requests, Discreet(req'[r])
  PROVE  OwnSeen(r)
<1>1. ASSUME NEW i \in Ids, i = req'[r].id  PROVE SeenSound(i)'
  <2>1. Worker(i)' = req'[r]
    BY <1>1, WorkerIsNext, FileStoreAssumption DEF GInv
  <2> QED  BY <2>1, DiscreetSound
<1> QED  BY <1>1 DEF OwnSeen

LEMMA FinishSeen ==
  ASSUME GInv, GInv', NEW r \in Requests, Finish(r)
  PROVE  OwnSeen(r)
<1>1. req'[r] = Idle
  BY DEF Finish, GInv, TInv, TypeOK
<1> QED  BY <1>1, IdleDiscreet, DiscreetStep

LEMMA BeginSeen ==
  ASSUME GInv, GInv', NEW r \in Requests, Begin(r)
  PROVE  OwnSeen(r)
<1>1. CASE req'[r].pc = "move.rename"
  <2>1. ASSUME NEW i \in Ids, i = req'[r].id  PROVE SeenSound(i)'
    <3>1. UNCHANGED rows /\ ~Trashed(i)
      BY <1>1, <2>1, BeginsAt DEF stores
    <3>2. Worker(i)' = req'[r] /\ InUse(i)'
      BY <2>1, WorkerIsNext, FileStoreAssumption DEF GInv, GroundedAt, ReadsHold, Names
    <3>3. ~rows'[i].trashed
      BY <3>1, <3>2 DEF Trashed, InUse
    <3> QED  BY <1>1, <3>2, <3>3 DEF SeenSound, Snapshotting
  <2> QED  BY <2>1 DEF OwnSeen
<1>2. CASE req'[r].pc # "move.rename"
  <2>1. Discreet(req'[r])
    BY <1>2, BeginsAt DEF Discreet, Snapshotting
  <2> QED  BY <2>1, DiscreetStep
<1> QED  BY <1>1, <1>2

LEMMA UploadReadSeen ==
  ASSUME MaxVersions = 0, GInv, GInv', InOrder, NEW r \in Requests, Underway(r), UploadRead(r)
  PROVE  OwnSeen(r)
<1> USE FileStoreAssumption
<1>0. ~TakesTarget
  BY DEF TakesTarget
<1>1. /\ req[r] \in Request /\ TInv /\ versioning /\ Apart' /\ ~TakesTarget
      /\ req[r].pc = "upload.read" /\ req[r].id = Nothing /\ req[r].num = 0 /\ req[r].op = "upload"
      /\ UNCHANGED stores
  BY <1>0, ZenonT(60) DEF UploadRead, At, GInv, TInv, TypeOK, WellFormed, Underway
<1>2. CASE Goto(r, "upload.place")
  <2>1. req'[r].id = Nothing
    BY <1>1, <1>2, GotoFields
  <2> QED  BY <2>1 DEF OwnSeen
<1>3. ASSUME NEW i \in Ids, InUse(i), ~Trashed(i), NEW place \in {"snap.number", "upload.place"},
             place = "upload.place" <=> rows[i].sha = req[r].sha,
             req' = [req EXCEPT ![r].pc = place, ![r].id = i, ![r].old = rows[i].sha]
      PROVE  OwnSeen(r)
  <2> DEFINE q == [req[r] EXCEPT !.pc = place, !.id = i, !.old = rows[i].sha]
  <2>1. q.pc = place /\ q.id = i /\ q.sha = req[r].sha /\ q.num = 0
    BY <1>1 DEF Request
  <2>2. req'[r] = q /\ \A p \in Requests : p # r => req'[p] = req[p]
    BY <1>1, <1>3 DEF TInv, TypeOK
  <2> HIDE DEF q
  <2>3. Worker(i) = Idle /\ Worker(i)' = q /\ PathSound(i)
    BY <1>1, <1>3, <2>1, <2>2, WorkerCame, WorkerIsNext DEF InOrder, FileSound
  <2>4. Idle.pc = "idle"
    BY DEF Idle
  <2>5. disk[rows[i].key] = rows[i].sha
    BY <1>1, <2>3, <2>4 DEF PathSound, AtRest, AtPath
  <2>6. ~rows'[i].trashed /\ rows' = rows /\ disk' = disk /\ Recorded(i)' = Recorded(i)
    BY <1>1, <1>3 DEF stores, Trashed, Recorded
  <2>7. SeenSound(i)'
    BY <1>3, <2>1, <2>3, <2>5, <2>6 DEF SeenSound, Snapshotting
  <2> QED  BY <2>1, <2>2, <2>7 DEF OwnSeen
<1>4. ASSUME NEW i \in Ids, InUse(i), ~Trashed(i),
             req' = [req EXCEPT ![r].pc = IF versioning /\ rows[i].sha # req[r].sha
                                          THEN "snap.number" ELSE "upload.place",
                                ![r].id = i, ![r].old = rows[i].sha]
      PROVE  OwnSeen(r)
  <2>1. CASE rows[i].sha # req[r].sha
    BY <1>1, <1>3, <1>4, <2>1, ZenonT(60)
  <2>2. CASE rows[i].sha = req[r].sha
    BY <1>1, <1>3, <1>4, <2>2, ZenonT(60)
  <2> QED  BY <2>1, <2>2
<1> QED  BY <1>2, <1>4, ZenonT(60) DEF UploadRead, Lookup

\* Steps of a request that leave its file and its errand alone.
LEMMA CarriesSeen ==
  ASSUME GInv, GInv', InOrder, RInv, NEW r \in Requests, UNCHANGED rows,
         req'[r].id = req[r].id, req'[r].op = req[r].op, req'[r].sha = req[r].sha,
         \/ /\ req[r].pc \in Snapshotting
            /\ req'[r].pc \in {"snap.number", "snap.move", "snap.record", "prune.list"}
         \/ req[r].pc = "upload.place" /\ req'[r].pc = "upload.commit"
         \/ req[r].pc = "move.rename" /\ req'[r].pc = "move.row"
  PROVE  OwnSeen(r)
<1>1. ASSUME NEW i \in Ids, i = req'[r].id  PROVE SeenSound(i)'
  <2>1. Worker(i) = req[r] /\ Worker(i)' = req'[r] /\ SeenSound(i)
    BY <1>1, OwnSound DEF RInv
  <2> QED  BY <2>1 DEF SeenSound, Snapshotting
<1> QED  BY <1>1 DEF OwnSeen

LEMMA PruneListSeen ==
  ASSUME MaxVersions = 0, GInv, GInv', InOrder, RInv, NEW r \in Requests, PruneList(r)
  PROVE  OwnSeen(r)
<1> USE FileStoreAssumption
<1>1. /\ req[r] \in Request /\ TInv /\ req[r].pc = "prune.list" /\ GroundedAt(r)
      /\ UNCHANGED <<rows, vrows, disk>>
      /\ Surplus(req[r].id) = {} /\ {} \in SUBSET Nums
  BY DEF PruneList, At, GInv, TInv, TypeOK, stores, Surplus
<1>2. PICK i \in Ids : i = req[r].id
  BY <1>1, OwnPath DEF OnFile, Places
<1>3. PICK place \in {"upload.place", "restore.place"} :
        GotoWith(r, place, {}) /\ (place = "upload.place" => req[r].op = "upload")
  BY <1>1 DEF PruneList, AfterSnapshot
<1>4. PICK p \in Places : p = place /\ GotoWith(r, p, {})
  BY <1>3 DEF Places
<1>5. /\ req'[r].pc = place /\ req'[r].id = req[r].id /\ req'[r].num = req[r].num
      /\ req'[r].sha = req[r].sha
  <2>1. TInv /\ {} \in SUBSET Nums
    BY <1>1
  <2>2. /\ req'[r].pc = p /\ req'[r].id = req[r].id /\ req'[r].num = req[r].num
        /\ req'[r].sha = req[r].sha
    BY <1>4, <2>1, NumsFields, ZenonT(60)
  <2> QED  BY <1>4, <2>2
<1>6. /\ Worker(i) = req[r] /\ Worker(i)' = req'[r] /\ SeenSound(i) /\ AsideSound(i)
      /\ rows[i].key = req[r].key
  BY <1>2, <1>5, OwnSound DEF RInv
<1>7. disk[rows[i].key] = Nothing
  BY <1>1, <1>6 DEF GroundedAt, BytesHold
<1>8. \A n \in Recorded(i)' : n <= req[r].num
  BY <1>1, <1>6 DEF AsideSound, Recorded
<1>9. req[r].op = "upload" => ~rows[i].trashed /\ req[r].sha # rows[i].sha
  BY <1>1, <1>6 DEF SeenSound, Snapshotting
<1>10. SeenSound(i)'
  BY <1>1, <1>3, <1>5, <1>6, <1>7, <1>8, <1>9 DEF SeenSound, Snapshotting
<1> QED  BY <1>2, <1>5, <1>10 DEF OwnSeen

\* Without a limit on the versions no request prunes.
LEMMA NothingPruned ==
  ASSUME MaxVersions = 0, GInv, GInv', InOrder, NEW r \in Requests
  PROVE  ~PruneContent(r) /\ ~PruneRow(r)
<1>1. SUFFICES ASSUME req[r].pc \in {"prune.content", "prune.row"}  PROVE FALSE
  BY DEF PruneContent, PruneRow, At
<1>2. PICK i \in Ids : i = req[r].id
  BY <1>1, OwnPath DEF OnFile, Places
<1>3. Worker(i) = req[r] /\ AsideSound(i)
  BY <1>2, OwnSound
<1> QED  BY <1>1, <1>3, FileStoreAssumption DEF AsideSound

LEMMA StepSeen ==
  ASSUME MaxVersions = 0, GInv, GInv', UInv, InOrder, RInv, NEW r \in Requests, Step(r),
         faults' = faults
  PROVE  OwnSeen(r)
<1>1. TInv /\ Underway(r)
  BY DEF GInv, UInv
<1>2. ASSUME NEW place, Goto(r, place), Discreet([pc |-> place, op |-> req[r].op])
      PROVE  OwnSeen(r)
  <2>1. req'[r].pc = place /\ req'[r].op = req[r].op
    BY <1>1, <1>2, GotoFields
  <2>2. Discreet(req'[r])
    BY <1>2, <2>1 DEF Discreet
  <2> QED  BY <2>2, DiscreetStep
<1>3. CASE UploadRead(r)
  BY <1>1, <1>3, UploadReadSeen
<1>4. CASE UploadPlace(r)
  <2>1. Goto(r, "upload.commit") /\ UNCHANGED rows /\ req[r].pc = "upload.place"
    BY <1>4 DEF UploadPlace, At
  <2> QED  BY <1>1, <2>1, GotoFields, CarriesSeen, ZenonT(60)
<1>5. CASE UploadCommit(r) \/ RestoreCommit(r) \/ MoveUndo(r)
  BY <1>5, FinishSeen DEF UploadCommit, RestoreCommit, MoveUndo
<1>6. CASE SnapshotNumber(r)
  <2> DEFINE q == [req[r] EXCEPT !.pc = "snap.move", !.num = LatestVersionNum(req[r].id) + 1]
  <2>1. req' = [req EXCEPT ![r] = q] /\ UNCHANGED rows /\ req[r].pc = "snap.number"
    BY <1>6 DEF SnapshotNumber, At, stores
  <2>2. q.pc = "snap.move" /\ q.id = req[r].id /\ q.op = req[r].op /\ q.sha = req[r].sha
    BY <1>1 DEF TInv, TypeOK, Request
  <2> HIDE DEF q
  <2>3. req'[r] = q
    BY <1>1, <2>1 DEF TInv, TypeOK
  <2> QED  BY <2>1, <2>2, <2>3, CarriesSeen DEF Snapshotting
<1>7. CASE SnapshotMove(r)
  <2>1. CASE Finish(r)
    BY <2>1, FinishSeen
  <2>2. CASE Goto(r, "snap.record")
    <3>1. UNCHANGED rows /\ req[r].pc = "snap.move"
      BY <1>7 DEF SnapshotMove, At
    <3> QED  BY <1>1, <2>2, <3>1, GotoFields, CarriesSeen DEF Snapshotting
  <2> QED  BY <1>7, <2>1, <2>2 DEF SnapshotMove
<1>8. CASE SnapshotRecord(r)
  <2>1. CASE Finish(r)
    BY <2>1, FinishSeen
  <2>2. CASE Goto(r, "prune.list")
    <3>1. UNCHANGED rows /\ req[r].pc = "snap.record"
      BY <1>8 DEF SnapshotRecord, At
    <3> QED  BY <1>1, <2>2, <3>1, GotoFields, CarriesSeen DEF Snapshotting
  <2> QED  BY <1>8, <2>1, <2>2 DEF SnapshotRecord
<1>9. CASE PruneList(r)
  BY <1>9, PruneListSeen
<1>10. ~UploadReadBlind(r) /\ ~RestoreDiscard(r) /\ ~PruneContent(r) /\ ~PruneRow(r)
  <2>1. faults \in Nat
    BY <1>1 DEF TInv, TypeOK
  <2> QED  BY <2>1, NothingPruned
           DEF UploadReadBlind, RestoreDiscard, GInv, GroundedAt, BytesHold
<1>11. CASE RestorePlace(r) \/ RestoreRow(r)
  <2>1. Finish(r) \/ Goto(r, "restore.row") \/ Goto(r, "restore.commit")
    BY <1>11 DEF RestorePlace, RestoreRow
  <2> QED  BY <1>2, <2>1, FinishSeen DEF Discreet, Snapshotting
<1>12. CASE EraseContent(r) \/ EraseHistory(r)
  <2>1. Goto(r, "erase.list") \/ Goto(r, "erase.file")
    BY <1>12 DEF EraseContent, EraseHistory
  <2> QED  BY <1>2, <2>1 DEF Discreet, Snapshotting
<1>13. CASE EraseList(r) \/ EraseVault(r)
  <2>1. PICK nums : \E place \in {"erase.history", "erase.vault"} :
                      req' = [req EXCEPT ![r].nums = nums, ![r].pc = place]
    BY <1>13 DEF EraseList, EraseVault, GotoWith
  <2>. PICK place \in {"erase.history", "erase.vault"} :
         req' = [req EXCEPT ![r].nums = nums, ![r].pc = place]
    BY <2>1
  <2>2. req'[r].pc = place
    BY <1>1 DEF TInv, TypeOK, Request
  <2>3. Discreet(req'[r])
    BY <2>2 DEF Discreet, Snapshotting
  <2> QED  BY <2>3, DiscreetStep
<1>14. CASE EraseFile(r)
  <2>1. CASE Finish(r)
    BY <2>1, FinishSeen
  <2>2. CASE EraseNext(r, req[r].purge)
    <3>1. PICK p, rest : req' = [req EXCEPT ![r] = [Idle EXCEPT !.pc = "erase.content",
              !.op = "purge", !.id = p[1], !.key = p[2], !.purge = rest]]
      BY <2>2, ZenonT(60) DEF EraseNext
    <3>2. req'[r].pc = "erase.content"
      BY <1>1, <3>1 DEF TInv, TypeOK, Idle
    <3>3. Discreet(req'[r])
      BY <3>2 DEF Discreet, Snapshotting
    <3> QED  BY <3>3, DiscreetStep
  <2> QED  BY <1>14, <2>1, <2>2 DEF EraseFile
<1>15. CASE MoveRename(r)
  <2>1. CASE Finish(r)
    BY <2>1, FinishSeen
  <2>2. CASE Goto(r, "move.row")
    <3>1. UNCHANGED rows /\ req[r].pc = "move.rename"
      BY <1>15 DEF MoveRename, At
    <3> QED  BY <1>1, <2>2, <3>1, GotoFields, CarriesSeen
  <2> QED  BY <1>15, <2>1, <2>2 DEF MoveRename
<1>16. CASE MoveRow(r)
  <2>1. Finish(r) \/ Goto(r, "move.undo")
    BY <1>16 DEF MoveRow
  <2> QED  BY <1>2, <2>1, FinishSeen DEF Discreet, Snapshotting
<1> QED  BY <1>3, <1>4, <1>5, <1>6, <1>7, <1>8, <1>9, <1>10, <1>11, <1>12, <1>13, <1>14,
            <1>15, <1>16 DEF Step

(***************************************************************************)
(* The operations of the abstract store.                                   *)
(***************************************************************************)
Simulated == [Promise!Next]_(Promise!vars)

Unseen(i) == FilesSeen'[i] = FilesSeen[i] /\ VersionsSeen'[i] = VersionsSeen[i]

LEMMA SeenShape ==
  /\ FilesSeen = [i \in Ids |-> FilesSeen[i]]
  /\ VersionsSeen = [i \in Ids |-> [n \in Nums |-> VersionsSeen[i][n]]]
  /\ FilesSeen' = [i \in Ids |-> FilesSeen'[i]]
  /\ VersionsSeen' = [i \in Ids |-> [n \in Nums |-> VersionsSeen'[i][n]]]
<1>1. FilesSeen = [i \in Ids |-> FilesSeen[i]]
  BY DEF FilesSeen
<1>2. VersionsSeen = [i \in Ids |-> [n \in Nums |-> VersionsSeen[i][n]]]
  BY DEF VersionsSeen
<1>3. FilesSeen' = [i \in Ids |-> FilesSeen'[i]]
  BY DEF FilesSeen
<1>4. VersionsSeen' = [i \in Ids |-> [n \in Nums |-> VersionsSeen'[i][n]]]
  BY DEF VersionsSeen
<1> QED  BY <1>1, <1>2, <1>3, <1>4

LEMMA CellsSeen ==
  ASSUME NEW f \in Ids, \A j \in Ids : j # f => Unseen(j)
  PROVE  /\ \A x : FilesSeen'[f] = x => FilesSeen' = [FilesSeen EXCEPT ![f] = x]
         /\ \A h : VersionsSeen'[f] = h => VersionsSeen' = [VersionsSeen EXCEPT ![f] = h]
BY SeenShape DEF Unseen

LEMMA FileIsThere ==
  ASSUME NEW k \in Keys, NEW a \in Contents, NEW g \in BOOLEAN
  PROVE  [name |-> k, content |-> a, trashed |-> g] # NoRow
BY NoFileAssumption

LEMMA StuttersSeen ==
  ASSUME versioning' = versioning, \A i \in Ids : Unseen(i)
  PROVE  Simulated
<1>1. FilesSeen' = FilesSeen /\ VersionsSeen' = VersionsSeen
  BY SeenShape DEF Unseen
<1> QED  BY <1>1 DEF Simulated, Promise!vars

LEMMA CreatesSeen ==
  ASSUME NEW f \in Ids, NEW k \in Keys, NEW c \in Contents, versioning' = versioning,
         \A j \in Ids : j # f => Unseen(j), FilesSeen[f] = NoRow,
         \A j \in Ids : FilesSeen[j] # NoRow => FilesSeen[j].name # k,
         FilesSeen'[f] = [name |-> k, content |-> c, trashed |-> FALSE],
         \A n \in Nums : VersionsSeen'[f][n] = Nothing
  PROVE  Simulated
<1>1. VersionsSeen'[f] = [n \in 1 .. MaxNum |-> Nothing]
  BY SeenShape DEF Nums
<1>2. Promise!Create(f, k, c)
  BY <1>1, CellsSeen DEF Promise!Create, Promise!There, Promise!Free, Promise!Empty
<1> QED  BY <1>2 DEF Simulated, Promise!Next

LEMMA SavesSeen ==
  ASSUME NEW f \in Ids, NEW k \in Keys, NEW a \in Contents, NEW c \in Contents, c # a,
         NEW m \in Nums, NEW g \in BOOLEAN, ~g, versioning' = versioning, versioning,
         \A j \in Ids : j # f => Unseen(j),
         FilesSeen[f] = [name |-> k, content |-> a, trashed |-> g],
         FilesSeen'[f] = [name |-> k, content |-> c, trashed |-> g],
         \A n \in Nums : VersionsSeen[f][n] # Nothing => n < m,
         \A n \in Nums : VersionsSeen'[f][n] = IF n = m THEN a ELSE VersionsSeen[f][n]
  PROVE  Simulated
<1>1. Promise!There(f)
  BY FileIsThere DEF Promise!There
<1>2. FilesSeen' = [FilesSeen EXCEPT ![f].content = c]
  <2>1. FilesSeen'[f] = [FilesSeen[f] EXCEPT !.content = c]
    OBVIOUS
  <2> QED  BY <2>1, CellsSeen
<1>3. VersionsSeen'[f] = [VersionsSeen[f] EXCEPT ![m] = a]
  BY SeenShape
<1>4. m \in Promise!After(f)
  BY DEF Promise!After, Promise!Numbers, Nums
<1>5. VersionsSeen'[f] \in Promise!Kept(f)
  <2>1. VersionsSeen'[f] = [VersionsSeen[f] EXCEPT ![m] = FilesSeen[f].content]
    BY <1>3
  <2> QED  BY <1>4, <2>1 DEF Promise!Kept
<1>6. Promise!Save(f, c)
  BY <1>1, <1>2, <1>5, CellsSeen DEF Promise!Save
<1> QED  BY <1>6 DEF Simulated, Promise!Next

LEMMA RestoresSeen ==
  ASSUME NEW f \in Ids, NEW k \in Keys, NEW a \in Contents, NEW c \in Contents, NEW g \in BOOLEAN,
         NEW m \in Nums, NEW t \in Nums, t # m, versioning' = versioning, versioning,
         \A j \in Ids : j # f => Unseen(j),
         FilesSeen[f] = [name |-> k, content |-> a, trashed |-> g],
         FilesSeen'[f] = [name |-> k, content |-> c, trashed |-> g],
         VersionsSeen[f][t] = c,
         \A n \in Nums : VersionsSeen[f][n] # Nothing => n < m,
         \A n \in Nums : VersionsSeen'[f][n] =
           IF n = t THEN Nothing ELSE IF n = m THEN a ELSE VersionsSeen[f][n]
  PROVE  Simulated
<1>1. Promise!There(f)
  BY FileIsThere DEF Promise!There
<1>2. FilesSeen' = [FilesSeen EXCEPT ![f].content = VersionsSeen[f][t]]
  <2>1. FilesSeen'[f] = [FilesSeen[f] EXCEPT !.content = VersionsSeen[f][t]]
    OBVIOUS
  <2> QED  BY <2>1, CellsSeen
<1> DEFINE h == [VersionsSeen[f] EXCEPT ![m] = a]
<1>3. VersionsSeen'[f] = [h EXCEPT ![t] = Nothing]
  BY SeenShape
<1>4. m \in Promise!After(f) /\ t \in Promise!Numbers(f)
  BY FileStoreAssumption DEF Promise!After, Promise!Numbers, Nums
<1>5. h \in Promise!Kept(f)
  <2>1. h = [VersionsSeen[f] EXCEPT ![m] = FilesSeen[f].content]
    OBVIOUS
  <2> HIDE DEF h
  <2> QED  BY <1>4, <2>1 DEF Promise!Kept
<1> HIDE DEF h
<1>6. Promise!Restore(f, t)
  BY <1>1, <1>2, <1>3, <1>4, <1>5, CellsSeen DEF Promise!Restore
<1> QED  BY <1>6 DEF Simulated, Promise!Next, Nums

LEMMA FlagsSeen ==
  ASSUME NEW f \in Ids, NEW k \in Keys, NEW a \in Contents, NEW g \in BOOLEAN, NEW flag \in BOOLEAN,
         versioning' = versioning, \A j \in Ids : j # f => Unseen(j),
         FilesSeen[f] = [name |-> k, content |-> a, trashed |-> g],
         FilesSeen'[f] = [name |-> k, content |-> a, trashed |-> flag],
         VersionsSeen'[f] = VersionsSeen[f]
  PROVE  Simulated
<1>1. Promise!There(f)
  BY FileIsThere DEF Promise!There
<1>2. FilesSeen' = [FilesSeen EXCEPT ![f].trashed = flag]
  <2>1. FilesSeen'[f] = [FilesSeen[f] EXCEPT !.trashed = flag]
    OBVIOUS
  <2> QED  BY <2>1, CellsSeen
<1>3. VersionsSeen' = VersionsSeen
  BY SeenShape DEF Unseen
<1>4. Promise!Flag(f, flag)
  BY <1>1, <1>2, <1>3 DEF Promise!Flag
<1> QED  BY <1>4 DEF Simulated, Promise!Next

LEMMA MovesSeen ==
  ASSUME NEW f \in Ids, NEW k \in Keys, NEW a \in Contents, NEW name \in Keys,
         NEW g \in BOOLEAN, ~g, versioning' = versioning, \A j \in Ids : j # f => Unseen(j),
         FilesSeen[f] = [name |-> k, content |-> a, trashed |-> g],
         FilesSeen'[f] = [name |-> name, content |-> a, trashed |-> g],
         \A j \in Ids : FilesSeen[j] # NoRow => FilesSeen[j].name # name,
         VersionsSeen'[f] = VersionsSeen[f]
  PROVE  Simulated
<1>1. Promise!There(f)
  BY FileIsThere DEF Promise!There
<1>2. FilesSeen' = [FilesSeen EXCEPT ![f].name = name]
  <2>1. FilesSeen'[f] = [FilesSeen[f] EXCEPT !.name = name]
    OBVIOUS
  <2> QED  BY <2>1, CellsSeen
<1>3. VersionsSeen' = VersionsSeen
  BY SeenShape DEF Unseen
<1>4. Promise!Move(f, name)
  BY <1>1, <1>2, <1>3 DEF Promise!Move, Promise!Free, Promise!There
<1> QED  BY <1>4 DEF Simulated, Promise!Next

LEMMA ErasesSeen ==
  ASSUME NEW f \in Ids, versioning' = versioning, \A j \in Ids : j # f => Unseen(j),
         FilesSeen[f] # NoRow, FilesSeen'[f] = NoRow,
         \A n \in Nums : VersionsSeen'[f][n] = Nothing
  PROVE  Simulated
<1>1. VersionsSeen'[f] = [n \in 1 .. MaxNum |-> Nothing]
  BY SeenShape DEF Nums
<1>2. Promise!Erase(f)
  BY <1>1, CellsSeen DEF Promise!Erase, Promise!There, Promise!Empty
<1> QED  BY <1>2 DEF Simulated, Promise!Next

(***************************************************************************)
(* What a step leaves of the files as they are seen.                       *)
(***************************************************************************)
Sound == GInv /\ UInv /\ InOrder /\ RInv /\ Seen

LEMMA SeenAt ==
  ASSUME Seen, NEW i \in Ids
  PROVE  /\ FilesSeen[i] =
              IF There(i) THEN [name |-> rows[i].key, content |-> Content(i),
                                trashed |-> rows[i].trashed]
              ELSE NoRow
         /\ \A n \in Nums : VersionsSeen[i][n] =
              IF There(i) /\ n \notin Hidden(i) THEN vrows[i][n] ELSE Nothing
BY DEF Seen, File, Past

LEMMA SeenAtNext ==
  ASSUME Seen', NEW i \in Ids
  PROVE  /\ FilesSeen'[i] =
              IF There(i)' THEN [name |-> rows'[i].key, content |-> Content(i)',
                                 trashed |-> rows'[i].trashed]
              ELSE NoRow
         /\ \A n \in Nums : VersionsSeen'[i][n] =
              IF There(i)' /\ n \notin Hidden(i)' THEN vrows'[i][n] ELSE Nothing
BY DEF Seen, File, Past

LEMMA SameUnseen ==
  ASSUME NEW i \in Ids, FilesSeen'[i] = FilesSeen[i],
         \A n \in Nums : VersionsSeen'[i][n] = VersionsSeen[i][n]
  PROVE  Unseen(i)
<1>1. VersionsSeen[i] = [n \in Nums |-> VersionsSeen[i][n]]
  BY DEF VersionsSeen
<1>2. VersionsSeen'[i] = [n \in Nums |-> VersionsSeen'[i][n]]
  BY DEF VersionsSeen
<1> QED  BY <1>1, <1>2 DEF Unseen

LEMMA GoneUnseen ==
  ASSUME Seen, Seen', NEW i \in Ids, ~There(i), ~There(i)'
  PROVE  Unseen(i)
<1>1. FilesSeen[i] = NoRow /\ \A n \in Nums : VersionsSeen[i][n] = Nothing
  BY SeenAt
<1>2. FilesSeen'[i] = NoRow /\ \A n \in Nums : VersionsSeen'[i][n] = Nothing
  BY SeenAtNext
<1> QED  BY <1>1, <1>2, SameUnseen

\* The file is the same, and so is what it shows of its history.
LEMMA KeptUnseen ==
  ASSUME Seen, Seen', NEW i \in Ids, There(i), There(i)', rows'[i].key = rows[i].key,
         rows'[i].trashed = rows[i].trashed, Content(i)' = Content(i),
         \A n \in Nums : IF n \in Hidden(i)' THEN n \in Hidden(i) \/ vrows[i][n] = Nothing
                         ELSE IF n \in Hidden(i) THEN vrows'[i][n] = Nothing
                         ELSE vrows'[i][n] = vrows[i][n]
  PROVE  Unseen(i)
<1>1. FilesSeen'[i] = FilesSeen[i]
  BY SeenAt, SeenAtNext
<1>2. ASSUME NEW n \in Nums  PROVE VersionsSeen'[i][n] = VersionsSeen[i][n]
  <2>1. VersionsSeen[i][n] = IF n \notin Hidden(i) THEN vrows[i][n] ELSE Nothing
    BY SeenAt
  <2>2. VersionsSeen'[i][n] = IF n \notin Hidden(i)' THEN vrows'[i][n] ELSE Nothing
    BY SeenAtNext
  <2> QED  BY <2>1, <2>2
<1> QED  BY <1>1, <1>2, SameUnseen

\* A request in whose hands a file shows what the catalogue says.
Plain(q) == /\ q.pc \notin {"upload.commit", "restore.row", "restore.commit"}
            /\ q.pc \in Making => q.num = 0

LEMMA PlainUnseen ==
  ASSUME Seen, Seen', NEW i \in Ids, Plain(Worker(i)), Plain(Worker(i)'),
         rows'[i] = rows[i], vrows'[i] = vrows[i], doomed' = doomed
  PROVE  Unseen(i)
<1>1. There(i)' <=> There(i)
  BY DEF There, InUse
<1>2. CASE ~There(i)
  BY <1>1, <1>2, GoneUnseen
<1>3. CASE There(i)
  <2>1. Content(i) = rows[i].sha /\ Content(i)' = rows'[i].sha
    BY DEF Content, Plain
  <2>2. \A n \in Nums : n \notin Hidden(i) /\ n \notin Hidden(i)'
    BY DEF Hidden, Plain, Nums
  <2> QED  BY <1>1, <1>3, <2>1, <2>2, KeptUnseen
<1> QED  BY <1>2, <1>3

LEMMA OthersUnseen ==
  ASSUME Sound, Sound', NEW r \in Requests, Local(r), doomed' \subseteq doomed \cup {req[r].id},
         NEW i \in Ids, i # req[r].id, i # req'[r].id, InUse(i)' => InUse(i)
  PROVE  Unseen(i)
<1>1. GInv /\ GInv' /\ InOrder /\ Seen /\ Seen'
  BY DEF Sound
<1>2. CASE ~InUse(i)
  BY <1>1, <1>2, GoneUnseen DEF There
<1>3. CASE InUse(i)
  <2>1. Worker(i)' = Worker(i) /\ vrows'[i] = vrows[i] /\ rows'[i] = rows[i]
    BY <1>1, <1>3, OthersStand
  <2>2. i \in doomed' <=> i \in doomed
    BY <1>3 DEF Local, Fresh
  <2>3. There(i)' <=> There(i)
    BY <2>1, <2>2 DEF There, InUse
  <2>4. Content(i)' = Content(i) /\ Hidden(i)' = Hidden(i)
    BY <2>1 DEF Content, Hidden
  <2> QED  BY <1>1, <2>1, <2>3, <2>4, GoneUnseen, KeptUnseen
<1> QED  BY <1>2, <1>3

\* A step that shows in no file.
LEMMA NoneSeen ==
  ASSUME Sound, Sound', NEW r \in Requests, Local(r), doomed' \subseteq doomed \cup {req[r].id},
         \A i \in Ids : InUse(i)' => InUse(i), versioning' = versioning,
         \A i \in Ids : i = req[r].id \/ i = req'[r].id => Unseen(i)
  PROVE  Simulated
BY OthersUnseen, StuttersSeen

LEMMA IdlePlain == Plain(Idle)
BY DEF Plain, Idle, Making

\* ... because its request is plain before and after.
LEMMA PlainSeen ==
  ASSUME Sound, Sound', NEW r \in Requests, Local(r), UNCHANGED <<rows, vrows, versioning, doomed>>,
         Plain(req[r]), Plain(req'[r])
  PROVE  Simulated
<1> USE FileStoreAssumption
<1>1. GInv /\ GInv' /\ Seen /\ Seen' /\ Apart /\ Apart'
      /\ \A q \in Requests : q # r => req'[q] = req[q]
  BY DEF Sound, GInv, Local
<1>2. ASSUME NEW i \in Ids, i = req[r].id \/ i = req'[r].id  PROVE Unseen(i)
  <2>1. i # Nothing
    OBVIOUS
  <2>2. Worker(i) \in {req[r], Idle}
    <3>1. CASE i = req[r].id
      BY <1>1, <2>1, <3>1, WorkerIs
    <3>2. CASE i # req[r].id
      BY <1>1, <1>2, <2>1, <3>2, WorkerCame
    <3> QED  BY <3>1, <3>2
  <2>3. Worker(i)' \in {req'[r], Idle}
    <3>1. CASE i = req'[r].id
      BY <1>1, <2>1, <3>1, WorkerIsNext
    <3>2. CASE i # req'[r].id
      BY <1>1, <1>2, <2>1, <3>2, WorkerGone
    <3> QED  BY <3>1, <3>2
  <2> QED  BY <1>1, <2>2, <2>3, IdlePlain, PlainUnseen
<1>3. \A i \in Ids : InUse(i)' => InUse(i)
  BY DEF InUse
<1> QED  BY <1>2, <1>3, NoneSeen

(***************************************************************************)
(* The steps that show in no file.                                         *)
(***************************************************************************)
LEMMA BeginShows ==
  ASSUME Sound, Sound', NEW r \in Requests, Local(r), Begin(r)
  PROVE  Simulated
<1>1. GInv /\ UNCHANGED <<versioning, doomed>>
  BY ZenonT(60) DEF Sound, Begin, UploadBegin, UploadBeginBlind, RestoreVersionBegin, EraseBegin, PurgeBegin,
         MoveBegin, history
<1>2. UNCHANGED stores /\ Plain(req[r]) /\ Plain(req'[r])
  BY <1>1, BeginsAt, IdlePlain DEF Plain, Making
<1> QED  BY <1>1, <1>2, PlainSeen DEF stores

LEMMA UploadReadShows ==
  ASSUME Sound, Sound', NEW r \in Requests, Local(r), UploadRead(r)
  PROVE  Simulated
<1>1. /\ TInv /\ req[r] \in Request /\ req[r].pc = "upload.read" /\ req[r].num = 0
      /\ UNCHANGED <<stores, versioning, doomed>>
  BY ZenonT(60) DEF Sound, GInv, TInv, TypeOK, UInv, Underway, UploadRead, At, history
<1>2. Plain(req[r])
  BY <1>1 DEF Plain, Making
<1>3. Plain(req'[r])
  <2>1. CASE Goto(r, "upload.place")
    <3>1. req'[r].pc = "upload.place" /\ req'[r].num = 0
      BY <1>1, <2>1, GotoFields
    <3> QED  BY <3>1 DEF Plain
  <2>2. ASSUME NEW i, NEW place \in {"snap.number", "upload.place"},
               req' = [req EXCEPT ![r].pc = place, ![r].id = i, ![r].old = rows[i].sha]
        PROVE  Plain(req'[r])
    <3>1. req'[r].pc = place /\ req'[r].num = 0
      BY <1>1, <2>2 DEF TInv, TypeOK, Request
    <3> QED  BY <3>1 DEF Plain, Making
  <2>3. PICK i : req' = [req EXCEPT ![r].pc = IF versioning /\ rows[i].sha # req[r].sha
                                              THEN "snap.number" ELSE "upload.place",
                                    ![r].id = i, ![r].old = rows[i].sha]
                 \/ Goto(r, "upload.place")
    BY ZenonT(60) DEF UploadRead
  <2> QED  BY <2>1, <2>2, <2>3, ZenonT(60)
<1> QED  BY <1>1, <1>2, <1>3, PlainSeen DEF stores

\* A request that gives up before its file shows anything of it.
LEMMA GivesUp ==
  ASSUME Sound, Sound', NEW r \in Requests, Local(r), UNCHANGED <<rows, vrows, versioning, doomed>>,
         Plain(req[r]), Finish(r)
  PROVE  Simulated
<1>1. req'[r] = Idle
  BY DEF Finish, Sound, GInv, TInv, TypeOK
<1> QED  BY <1>1, IdlePlain, PlainSeen

LEMMA SnapshotShows ==
  ASSUME MaxVersions = 0, Sound, Sound', NEW r \in Requests, Local(r),
         SnapshotNumber(r) \/ SnapshotMove(r) \/ SnapshotRecord(r)
  PROVE  Simulated
<1>1. TInv /\ req[r] \in Request /\ UNCHANGED <<rows, versioning, doomed>>
  BY DEF Sound, GInv, TInv, TypeOK, SnapshotNumber, SnapshotMove, SnapshotRecord, stores, history
<1>2. Plain(req[r])
  BY DEF SnapshotNumber, SnapshotMove, SnapshotRecord, At, Plain, Making
<1>3. CASE SnapshotNumber(r)
  <2>1. UNCHANGED vrows
    BY <1>3 DEF SnapshotNumber, stores
  <2>2. req'[r].pc = "snap.move"
    BY <1>1, <1>3 DEF SnapshotNumber, TInv, TypeOK, Request
  <2>3. Plain(req'[r])
    BY <2>2 DEF Plain, Making
  <2> QED  BY <1>1, <1>2, <2>1, <2>3, PlainSeen
<1>4. CASE SnapshotMove(r)
  <2>1. UNCHANGED vrows
    BY <1>4 DEF SnapshotMove
  <2>2. CASE Finish(r)
    BY <1>1, <1>2, <2>1, <2>2, GivesUp
  <2>3. CASE Goto(r, "snap.record")
    <3>1. req'[r].pc = "snap.record"
      BY <1>1, <2>3, GotoFields
    <3>2. Plain(req'[r])
      BY <3>1 DEF Plain, Making
    <3> QED  BY <1>1, <1>2, <2>1, <3>2, PlainSeen
  <2> QED  BY <1>4, <2>2, <2>3 DEF SnapshotMove
<1>5. CASE SnapshotRecord(r)
  <2>1. PICK i \in Ids : i = req[r].id
    BY <1>5, OwnPath DEF Sound, SnapshotRecord, At, OnFile, Places
  <2>2. CASE Finish(r) /\ UNCHANGED vrows
    BY <1>1, <1>2, <2>2, GivesUp
  <2>3. CASE Goto(r, "prune.list") /\ vrows' = [vrows EXCEPT ![i][req[r].num] = req[r].old]
             /\ req[r].num \notin Recorded(i)
    <3>1. req'[r].pc = "prune.list" /\ req'[r].id = req[r].id /\ req'[r].num = req[r].num
      BY <1>1, <2>3, GotoFields
    <3>2. Worker(i) = req[r] /\ Worker(i)' = req'[r] /\ Seen /\ Seen'
      BY <2>1, <3>1, OwnSound DEF Sound
    <3>3. req[r].pc = "snap.record"
      BY <1>5 DEF SnapshotRecord, At
    <3>4. There(i)' <=> There(i)
      BY <1>1 DEF There, InUse
    <3>5. Content(i)' = Content(i) /\ Hidden(i) = {} /\ Hidden(i)' = {req[r].num}
      BY <1>1, <3>1, <3>2, <3>3 DEF Content, Hidden, Making
    <3>6. ASSUME NEW n \in Nums
          PROVE  IF n = req[r].num THEN vrows[i][n] = Nothing ELSE vrows'[i][n] = vrows[i][n]
      BY <1>1, <2>3 DEF Recorded, TInv, TypeOK
    <3>7. Unseen(i)
      BY <1>1, <3>2, <3>4, <3>5, <3>6, GoneUnseen, KeptUnseen
    <3>8. \A j \in Ids : InUse(j)' => InUse(j)
      BY <1>1 DEF InUse
    <3> QED  BY <1>1, <2>1, <3>1, <3>7, <3>8, NoneSeen
  <2> QED  BY <1>5, <2>1, <2>2, <2>3 DEF SnapshotRecord
<1> QED  BY <1>3, <1>4, <1>5

LEMMA PruneListShows ==
  ASSUME MaxVersions = 0, Sound, Sound', NEW r \in Requests, Local(r), PruneList(r)
  PROVE  Simulated
<1>1. /\ TInv /\ req[r] \in Request /\ UNCHANGED <<rows, vrows, versioning, doomed>>
      /\ req[r].pc = "prune.list" /\ Surplus(req[r].id) = {} /\ {} \in SUBSET Nums
  BY DEF Sound, GInv, TInv, TypeOK, PruneList, At, stores, history, Surplus
<1>2. PICK i \in Ids : i = req[r].id
  BY <1>1, OwnPath DEF Sound, OnFile, Places
<1>3. PICK place \in {"upload.place", "restore.place"} : GotoWith(r, place, {})
  BY <1>1 DEF PruneList, AfterSnapshot
<1>4. PICK p \in Places : p = place /\ GotoWith(r, p, {})
  BY <1>3 DEF Places
<1>5. req'[r].pc = place /\ req'[r].id = req[r].id /\ req'[r].num = req[r].num
  BY <1>1, <1>4, NumsFields
<1>6. Worker(i) = req[r] /\ Worker(i)' = req'[r] /\ Seen /\ Seen'
  BY <1>2, <1>5, OwnSound DEF Sound
<1>7. There(i)' <=> There(i)
  BY <1>1 DEF There, InUse
<1>8. Content(i)' = Content(i) /\ Hidden(i) = {req[r].num} /\ Hidden(i)' = {req[r].num}
  BY <1>1, <1>5, <1>6 DEF Content, Hidden, Making
<1>9. Unseen(i)
  BY <1>1, <1>6, <1>7, <1>8, GoneUnseen, KeptUnseen
<1>10. \A j \in Ids : InUse(j)' => InUse(j)
  BY <1>1 DEF InUse
<1> QED  BY <1>1, <1>2, <1>5, <1>9, <1>10, NoneSeen

LEMMA RestoreRowShows ==
  ASSUME Disjoint, Sound, Sound', NEW r \in Requests, Local(r), RestoreRow(r)
  PROVE  Simulated
<1>1. /\ TInv /\ req[r] \in Request /\ UNCHANGED <<rows, versioning, doomed>>
      /\ req[r].pc = "restore.row" /\ Underway(r)
  BY DEF Sound, GInv, TInv, TypeOK, UInv, RestoreRow, At, history
<1>2. PICK i \in Ids : i = req[r].id
  BY <1>1, OwnPath DEF Sound, OnFile, Places
<1>3. req[r].target \in Recorded(i)
  BY <1>1, <1>2 DEF Underway
<1>4. Goto(r, "restore.commit") /\ vrows' = [vrows EXCEPT ![i][req[r].target] = Nothing]
  BY <1>2, <1>3 DEF RestoreRow, RowGone
<1>5. req'[r].pc = "restore.commit" /\ req'[r].id = req[r].id /\ req'[r].sha = req[r].sha
  BY <1>1, <1>4, GotoFields
<1>6. Worker(i) = req[r] /\ Worker(i)' = req'[r] /\ Seen /\ Seen'
  BY <1>2, <1>5, OwnSound DEF Sound
<1>7. There(i)' <=> There(i)
  BY <1>1 DEF There, InUse
<1>8. Content(i)' = Content(i) /\ Hidden(i) = {req[r].target} /\ Hidden(i)' = {}
  BY <1>1, <1>5, <1>6 DEF Content, Hidden, Making
<1>9. ASSUME NEW n \in Nums
      PROVE  IF n = req[r].target THEN vrows'[i][n] = Nothing ELSE vrows'[i][n] = vrows[i][n]
  BY <1>1, <1>4 DEF TInv, TypeOK
<1>10. Unseen(i)
  BY <1>1, <1>6, <1>7, <1>8, <1>9, GoneUnseen, KeptUnseen
<1>11. \A j \in Ids : InUse(j)' => InUse(j)
  BY <1>1 DEF InUse
<1> QED  BY <1>1, <1>2, <1>5, <1>10, <1>11, NoneSeen

\* The rest of a permanent deletion, once its first step has been seen.
LEMMA ErasingShows ==
  ASSUME Sound, Sound', NEW r \in Requests, Local(r),
         EraseList(r) \/ EraseVault(r) \/ EraseHistory(r) \/ EraseFile(r)
  PROVE  Simulated
<1> USE FileStoreAssumption
<1>1. /\ TInv /\ GInv /\ GInv' /\ Apart /\ Apart' /\ Seen /\ Seen' /\ UNCHANGED <<versioning, doomed>>
      /\ req[r].pc \in {"erase.list", "erase.vault", "erase.history", "erase.file"} /\ Underway(r)
  BY DEF Sound, GInv, UInv, EraseList, EraseVault, EraseHistory, EraseFile, At, history
<1>2. PICK i \in Ids : i = req[r].id
  BY <1>1, OwnPath DEF OnFile, Places
<1>3. i \in doomed
  BY <1>1, <1>2 DEF Underway
<1>4. Unseen(i)
  BY <1>1, <1>3, GoneUnseen DEF There
<1>5. /\ \A j \in Ids : j # i => rows'[j] = rows[j] /\ vrows'[j] = vrows[j]
      /\ \A j \in Ids : InUse(j)' => InUse(j)
  <2>1. rows' = rows \/ rows' = [rows EXCEPT ![i] = NoRow]
    BY <1>2 DEF EraseList, EraseVault, EraseHistory, EraseFile, stores
  <2>2. \A j \in Ids : j # i => vrows'[j] = vrows[j]
    BY <1>2 DEF Local
  <2> QED  BY <1>1, <2>1, <2>2 DEF InUse, TInv, TypeOK
<1>6. req'[r].id = req[r].id \/ Plain(req'[r])
  <2>1. CASE EraseHistory(r)
    BY <1>1, <2>1, GotoFields DEF EraseHistory
  <2>2. CASE EraseList(r) \/ EraseVault(r)
    <3>1. PICK place, nums : req' = [req EXCEPT ![r].nums = nums, ![r].pc = place]
      BY <2>2 DEF EraseList, EraseVault, GotoWith
    <3> QED  BY <1>1, <3>1 DEF TInv, TypeOK, Request
  <2>3. CASE EraseFile(r)
    <3>1. CASE Finish(r)
      BY <1>1, <3>1, IdlePlain DEF Finish, TInv, TypeOK
    <3>2. CASE EraseNext(r, req[r].purge)
      <4>1. PICK p, rest : req' = [req EXCEPT ![r] = [Idle EXCEPT !.pc = "erase.content",
                !.op = "purge", !.id = p[1], !.key = p[2], !.purge = rest]]
        BY <3>2, ZenonT(60) DEF EraseNext
      <4>2. req'[r].pc = "erase.content"
        BY <1>1, <4>1 DEF TInv, TypeOK, Idle
      <4> QED  BY <4>2 DEF Plain, Making
    <3> QED  BY <2>3, <3>1, <3>2 DEF EraseFile
  <2> QED  BY <2>1, <2>2, <2>3
<1>7. ASSUME NEW j \in Ids, j = req'[r].id, j # i  PROVE Unseen(j)
  <2>1. j # Nothing /\ Plain(req'[r]) /\ \A q \in Requests : q # r => req'[q] = req[q]
    BY <1>2, <1>6, <1>7 DEF Local
  <2>2. Worker(j) = Idle /\ Worker(j)' = req'[r]
    BY <1>1, <1>2, <1>7, <2>1, WorkerCame, WorkerIsNext
  <2> QED  BY <1>1, <1>5, <1>7, <2>1, <2>2, IdlePlain, PlainUnseen
<1> QED  BY <1>1, <1>2, <1>4, <1>5, <1>7, NoneSeen

LEMMA MoveRenameShows ==
  ASSUME Sound, Sound', NEW r \in Requests, Local(r), MoveRename(r)
  PROVE  Simulated
<1>1. /\ TInv /\ UNCHANGED <<rows, vrows, versioning, doomed>> /\ req[r].pc = "move.rename"
  BY DEF Sound, GInv, MoveRename, At, history
<1>2. Plain(req[r])
  BY <1>1 DEF Plain, Making
<1>3. CASE Finish(r)
  BY <1>1, <1>2, <1>3, GivesUp
<1>4. CASE Goto(r, "move.row")
  <2>1. req'[r].pc = "move.row"
    BY <1>1, <1>4, GotoFields
  <2>2. Plain(req'[r])
    BY <2>1 DEF Plain, Making
  <2> QED  BY <1>1, <1>2, <2>2, PlainSeen
<1> QED  BY <1>3, <1>4 DEF MoveRename

(***************************************************************************)
(* The steps with which a file shows the new content.                      *)
(***************************************************************************)
LEMMA FileIs ==
  ASSUME GInv, NEW i \in Ids, InUse(i)
  PROVE  /\ rows[i] \in Row /\ rows[i].key \in Keys /\ rows[i].sha \in Contents
         /\ rows[i].trashed \in BOOLEAN /\ rows[i].sha # Nothing
<1>1. rows[i] \in Row
  BY DEF InUse, GInv, TInv, TypeOK
<1> QED  BY <1>1, FileStoreAssumption DEF Row

LEMMA UploadPlaceShows ==
  ASSUME MaxVersions = 0, Sound, Sound', NEW r \in Requests, Local(r), UploadPlace(r)
  PROVE  Simulated
<1> USE FileStoreAssumption
<1>1. /\ TInv /\ GInv /\ req[r] \in Request /\ UNCHANGED <<rows, vrows, versioning, doomed>>
      /\ req[r].pc = "upload.place" /\ Goto(r, "upload.commit") /\ WellFormed(req[r])
      /\ Seen /\ Seen' /\ versioning /\ InOrder /\ RInv /\ GInv'
  BY DEF Sound, GInv, TInv, TypeOK, UploadPlace, At, history
<1>2. /\ req'[r].pc = "upload.commit" /\ req'[r].id = req[r].id /\ req'[r].sha = req[r].sha
      /\ req'[r].num = req[r].num
  BY <1>1, GotoFields
<1>3. (\A j \in Ids : InUse(j)' => InUse(j)) /\ doomed' = doomed
  BY <1>1 DEF InUse
<1>4. CASE \A i \in Ids : i # req[r].id
  BY <1>1, <1>2, <1>3, <1>4, NoneSeen
<1>5. ASSUME NEW i \in Ids, i = req[r].id  PROVE Simulated
  <2>1. /\ Worker(i) = req[r] /\ Worker(i)' = req'[r] /\ InUse(i) /\ AsideSound(i) /\ SeenSound(i)
    BY <1>1, <1>2, <1>5, OwnSound DEF RInv
  <2>2. There(i)' <=> There(i)
    BY <1>1 DEF There, InUse
  <2>3. Content(i) = rows[i].sha /\ Content(i)' = req[r].sha
    BY <1>1, <1>2, <2>1 DEF Content
  <2>4. Hidden(i) = {req[r].num} /\ Hidden(i)' = {}
    BY <1>1, <1>2, <2>1 DEF Hidden, Making
  <2>5. CASE ~There(i)
    <3>1. Unseen(i)
      BY <1>1, <2>2, <2>5, GoneUnseen
    <3> QED  BY <1>1, <1>2, <1>3, <1>5, <3>1, NoneSeen
  <2>6. CASE There(i) /\ req[r].num \notin Nums
    <3>1. req[r].sha = rows[i].sha
      BY <1>1, <2>1, <2>6 DEF AsideSound, Aside
    <3>2. Unseen(i)
      BY <1>1, <2>2, <2>3, <2>4, <2>6, <3>1, KeptUnseen
    <3> QED  BY <1>1, <1>2, <1>3, <1>5, <3>2, NoneSeen
  <2>7. CASE There(i) /\ req[r].num \in Nums
    <3>1. PICK m \in Nums : m = req[r].num
      BY <2>7
    <3>2. m # 0
      BY DEF Nums
    <3>3. ~rows[i].trashed /\ req[r].sha # rows[i].sha /\ \A n \in Recorded(i) : n <= m
      BY <1>1, <2>1, <3>1, <3>2 DEF SeenSound
    <3>4. vrows[i][m] = rows[i].sha
      BY <1>1, <2>1, <3>1, <3>3 DEF AsideSound, Aside
    <3>5. req[r].sha \in Contents
      BY <1>1 DEF WellFormed, WithContent, Request
    <3>6. FilesSeen[i] = [name |-> rows[i].key, content |-> rows[i].sha, trashed |-> rows[i].trashed]
      BY <1>1, <2>3, <2>7, SeenAt
    <3>7. FilesSeen'[i] = [name |-> rows[i].key, content |-> req[r].sha, trashed |-> rows[i].trashed]
      BY <1>1, <2>2, <2>3, <2>7, SeenAtNext
    <3>8. ASSUME NEW n \in Nums  PROVE VersionsSeen[i][n] = IF n = m THEN Nothing ELSE vrows[i][n]
      BY <1>1, <2>4, <2>7, <3>1, SeenAt
    <3>9. ASSUME NEW n \in Nums  PROVE VersionsSeen'[i][n] = vrows[i][n]
      BY <1>1, <2>2, <2>4, <2>7, SeenAtNext
    <3>10. \A n \in Nums : VersionsSeen[i][n] # Nothing => n < m
      <4>1. ASSUME NEW n \in Nums, VersionsSeen[i][n] # Nothing  PROVE n < m
        <5>1. n # m /\ n \in Recorded(i)
          BY <3>8, <4>1 DEF Recorded
        <5>2. n <= m /\ n \in Nat /\ m \in Nat
          BY <3>3, <5>1 DEF Nums
        <5> QED  BY <5>1, <5>2
      <4> QED  BY <4>1
    <3>11. \A n \in Nums : VersionsSeen'[i][n] = IF n = m THEN rows[i].sha ELSE VersionsSeen[i][n]
      BY <3>4, <3>8, <3>9
    <3>12. \A j \in Ids : j # i => Unseen(j)
      BY <1>1, <1>2, <1>3, <1>5, OthersUnseen
    <3>13. rows[i].key \in Keys /\ rows[i].sha \in Contents /\ rows[i].trashed \in BOOLEAN
      BY <1>1, <2>1, FileIs
    <3> QED  BY <1>1, <3>3, <3>5, <3>6, <3>7, <3>10, <3>11, <3>12, <3>13, SavesSeen
  <2> QED  BY <2>5, <2>6, <2>7
<1> QED  BY <1>4, <1>5

\* A file that no request works on any more shows what the catalogue says.
LEMMA IdleShows ==
  ASSUME NEW i, Worker(i)' = Idle
  PROVE  Content(i)' = rows'[i].sha /\ Hidden(i)' = {}
BY DEF Content, Hidden, Making, Idle

\* The upsert of a content that is at the path already.
LEMMA OverwriteUnseen ==
  ASSUME GInv, GInv', Seen, Seen', NEW r \in Requests, \A q \in Requests : q # r => req'[q] = req[q],
         NEW i \in Ids, i = req[r].id, Worker(i) = req[r], InUse(i), There(i), Finish(r),
         req[r].pc \in {"upload.commit", "restore.commit"}, req[r].sha \in Contents,
         Overwrite(i, req[r].sha), UNCHANGED <<vrows, doomed>>, ~rows[i].trashed
  PROVE  Unseen(i)
<1>1. TInv /\ i # Nothing /\ Apart
  BY FileStoreAssumption DEF GInv
<1>2. req'[r] = Idle /\ Idle.id = Nothing
  BY <1>1 DEF Finish, Idle, TInv, TypeOK
<1>3. Worker(i)' = Idle
  BY <1>1, <1>2, WorkerGone
<1>4. /\ rows'[i].key = rows[i].key /\ rows'[i].sha = req[r].sha /\ rows'[i].trashed = FALSE
      /\ InUse(i)' <=> InUse(i)
  BY <1>1, OverwriteKeeps
<1>5. rows'[i].trashed = rows[i].trashed
  <2>1. rows[i].trashed \in BOOLEAN
    BY FileIs
  <2>2. rows[i].trashed = FALSE
    BY <2>1
  <2> QED  BY <1>4, <2>2
<1>6. There(i)'
  BY <1>4 DEF There
<1>7. Content(i) = req[r].sha /\ Hidden(i) = {}
  BY DEF Content, Hidden, Making
<1>8. Content(i)' = Content(i) /\ Hidden(i)' = {}
  BY <1>3, <1>4, <1>7, IdleShows
<1> QED  BY <1>4, <1>5, <1>6, <1>7, <1>8, KeptUnseen

LEMMA UploadCommitShows ==
  ASSUME Sound, Sound', NEW r \in Requests, Local(r), UploadCommit(r)
  PROVE  Simulated
<1> USE FileStoreAssumption
<1>1. /\ TInv /\ GInv /\ req[r] \in Request /\ UNCHANGED <<vrows, versioning>>
      /\ req[r].pc = "upload.commit" /\ Finish(r) /\ WellFormed(req[r])
      /\ Seen /\ Seen' /\ InOrder /\ RInv /\ GInv'
      /\ \A q \in Requests : q # r => req'[q] = req[q]
  BY DEF Sound, GInv, TInv, TypeOK, UploadCommit, At, Local
<1>2. req'[r] = Idle /\ Idle.id = Nothing
  BY <1>1 DEF Finish, Idle, TInv, TypeOK
<1>3. req[r].sha \in Contents /\ req[r].key \in Keys /\ GroundedAt(r)
  BY <1>1 DEF WellFormed, WithContent, Request, GInv
<1>4. ASSUME NEW i \in Lookup(req[r].key), Overwrite(i, req[r].sha), UNCHANGED doomed
      PROVE  Simulated
  <2>1. i \in Ids /\ InUse(i) /\ rows[i].key = req[r].key
    BY <1>4 DEF Lookup
  <2>2. req[r].id # Nothing
    BY <1>1, <1>3, <1>4 DEF GroundedAt, Unnamed, InOrder
  <2>3. i = req[r].id
    <3>1. PICK j \in Ids : j = req[r].id
      BY <1>1, <2>2 DEF Request
    <3>2. InUse(j) /\ rows[j].key = req[r].key
      BY <1>1, <3>1, OwnSound
    <3> QED  BY <1>1, <2>1, <3>1, <3>2 DEF GInv, KeysUnique
  <2>4. Worker(i) = req[r] /\ SeenSound(i)
    BY <1>1, <2>1, <2>3, OwnSound DEF RInv
  <2>5. ~rows[i].trashed
    BY <1>1, <2>4 DEF SeenSound
  <2>6. \A j \in Ids : InUse(j)' <=> InUse(j)
    BY <1>1, <1>3, <1>4, <2>1, OverwriteKeeps
  <2>7. Unseen(i)
    <3>1. CASE There(i)
      BY <1>1, <1>3, <1>4, <2>1, <2>3, <2>4, <2>5, <3>1, OverwriteUnseen
    <3>2. CASE ~There(i)
      BY <1>1, <1>4, <2>1, <2>6, <3>2, GoneUnseen DEF There
    <3> QED  BY <3>1, <3>2
  <2> QED  BY <1>1, <1>2, <1>4, <2>3, <2>6, <2>7, NoneSeen
<1>5. ASSUME Lookup(req[r].key) = {}, NEW i \in Ids, Fresh(i), Insert(i, req[r].key, req[r].sha)
      PROVE  Simulated
  <2>1. /\ \A j \in Ids : j # i => rows'[j] = rows[j]
        /\ rows'[i] = [key |-> req[r].key, sha |-> req[r].sha, trashed |-> FALSE]
        /\ ~InUse(i) /\ doomed' = doomed \ {i}
    BY <1>1, <1>5 DEF Insert, Fresh, TInv, TypeOK
  <2>2. InUse(i)' /\ There(i)' /\ ~There(i)
    <3>1. rows'[i] \in Row
      BY <1>3, <2>1 DEF Row
    <3> QED  BY <2>1, <3>1, NoRowAssumption DEF InUse, There
  <2>3. \A q \in Requests : req[q].id # i
    BY <1>5 DEF Fresh, Footprint
  <2>4. Worker(i)' = Idle
    BY <1>1, <1>2, <2>3, NoWorker
  <2>5. FilesSeen[i] = NoRow
    BY <1>1, <2>2, SeenAt
  <2>6. ASSUME NEW j \in Ids, FilesSeen[j] # NoRow  PROVE FilesSeen[j].name # req[r].key
    <3>1. /\ There(j)
          /\ FilesSeen[j] = [name |-> rows[j].key, content |-> Content(j), trashed |-> rows[j].trashed]
      BY <1>1, <2>6, SeenAt
    <3>2. FilesSeen[j].name = rows[j].key
      BY <3>1
    <3> QED  BY <1>5, <3>1, <3>2 DEF There, Lookup
  <2>7. Content(i)' = req[r].sha /\ Hidden(i)' = {}
    BY <2>1, <2>4, IdleShows
  <2>8. FilesSeen'[i] = [name |-> req[r].key, content |-> req[r].sha, trashed |-> FALSE]
    <3>1. rows'[i].key = req[r].key /\ rows'[i].trashed = FALSE
      BY <2>1
    <3>2. FilesSeen'[i] = [name |-> rows'[i].key, content |-> Content(i)', trashed |-> rows'[i].trashed]
      BY <1>1, <2>2, SeenAtNext
    <3> QED  BY <2>7, <3>1, <3>2
  <2>9. ASSUME NEW n \in Nums  PROVE VersionsSeen'[i][n] = Nothing
    <3>1. FileSound(i)
      BY <1>1 DEF InOrder
    <3>2. vrows[i][n] = Nothing
      BY <2>1, <3>1 DEF FileSound, VaultSound, Recorded
    <3> QED  BY <1>1, <3>2, SeenAtNext
  <2>10. req[r].id = Nothing
    <3>1. ASSUME NEW j \in Ids, j = req[r].id  PROVE FALSE
      BY <1>1, <1>5, <3>1, OwnSound DEF Lookup
    <3> QED  BY <1>1, <3>1 DEF Request
  <2>11. ASSUME NEW j \in Ids, j # i  PROVE Unseen(j)
    <3>1. InUse(j)' => InUse(j)
      BY <2>1, <2>11 DEF InUse
    <3>2. j # req[r].id /\ j # req'[r].id
      BY <1>2, <2>10
    <3> QED  BY <2>1, <3>1, <3>2, OthersUnseen
  <2> QED  BY <1>1, <1>3, <2>5, <2>6, <2>8, <2>9, <2>11, CreatesSeen
<1> QED  BY <1>4, <1>5 DEF UploadCommit

LEMMA RestorePlaceShows ==
  ASSUME MaxVersions = 0, Sound, Sound', NEW r \in Requests, Local(r), RestorePlace(r)
  PROVE  Simulated
<1> USE FileStoreAssumption
<1>1. /\ TInv /\ GInv /\ req[r] \in Request /\ UNCHANGED <<rows, vrows, versioning, doomed>>
      /\ req[r].pc = "restore.place" /\ WellFormed(req[r])
      /\ Seen /\ Seen' /\ versioning /\ InOrder /\ RInv /\ GInv'
  BY DEF Sound, GInv, TInv, TypeOK, RestorePlace, At, history
<1>2. PICK i \in Ids : i = req[r].id
  BY <1>1, OwnPath DEF OnFile, Places
<1>3. PICK t \in Nums : t = req[r].target
  BY <1>1 DEF WellFormed
<1>4. /\ Worker(i) = req[r] /\ InUse(i) /\ AsideSound(i) /\ SeenSound(i) /\ VaultSound(i)
      /\ TargetSound(i)
  BY <1>1, <1>2, OwnSound DEF RInv
<1>5. t \in Recorded(i) /\ req[r].sha = vrows[i][t]
  BY <1>1, <1>3, <1>4 DEF TargetSound
<1>6. PICK m \in Nums : m = req[r].num /\ vrows[i][m] = rows[i].sha /\ t # m
  BY <1>1, <1>3, <1>4 DEF AsideSound, Aside
<1>7. vault[i][t] # Nothing
  <2>1. Missing(req[r]) = {}
    BY <1>1 DEF Missing
  <2>2. vault[i][t] = vrows[i][t]
    BY <1>1, <1>4, <2>1 DEF VaultSound
  <2> QED  BY <1>5, <2>2 DEF Recorded
<1>8. Goto(r, "restore.row")
  BY <1>2, <1>3, <1>7 DEF RestorePlace
<1>9. /\ req'[r].pc = "restore.row" /\ req'[r].id = req[r].id /\ req'[r].sha = req[r].sha
      /\ req'[r].target = req[r].target
  BY <1>1, <1>8, GotoFields, ZenonT(60)
<1>10. Worker(i)' = req'[r]
  BY <1>1, <1>2, <1>9, OwnSound
<1>11. (\A j \in Ids : InUse(j)' => InUse(j)) /\ doomed' = doomed /\ (There(i)' <=> There(i))
  BY <1>1 DEF InUse, There
<1>12. Content(i) = rows[i].sha /\ Content(i)' = req[r].sha
  BY <1>1, <1>4, <1>9, <1>10 DEF Content
<1>13. Hidden(i) = {m} /\ Hidden(i)' = {t}
  BY <1>1, <1>3, <1>4, <1>6, <1>9, <1>10 DEF Hidden, Making
<1>14. CASE ~There(i)
  <2>1. Unseen(i)
    BY <1>1, <1>11, <1>14, GoneUnseen
  <2> QED  BY <1>1, <1>2, <1>9, <1>11, <2>1, NoneSeen
<1>15. CASE There(i)
  <2>1. \A n \in Recorded(i) : n <= m
    <3>1. m # 0
      BY DEF Nums
    <3> QED  BY <1>1, <1>4, <1>6, <3>1 DEF SeenSound
  <2>2. req[r].sha \in Contents
    BY <1>1 DEF WellFormed, WithContent, Request
  <2>3. FilesSeen[i] = [name |-> rows[i].key, content |-> rows[i].sha, trashed |-> rows[i].trashed]
    BY <1>1, <1>12, <1>15, SeenAt
  <2>4. FilesSeen'[i] = [name |-> rows[i].key, content |-> req[r].sha, trashed |-> rows[i].trashed]
    BY <1>1, <1>11, <1>12, <1>15, SeenAtNext
  <2>5. ASSUME NEW n \in Nums  PROVE VersionsSeen[i][n] = IF n = m THEN Nothing ELSE vrows[i][n]
    BY <1>1, <1>13, <1>15, SeenAt
  <2>6. ASSUME NEW n \in Nums  PROVE VersionsSeen'[i][n] = IF n = t THEN Nothing ELSE vrows[i][n]
    BY <1>1, <1>11, <1>13, <1>15, SeenAtNext
  <2>7. VersionsSeen[i][t] = req[r].sha
    BY <1>5, <1>6, <2>5
  <2>8. \A n \in Nums : VersionsSeen[i][n] # Nothing => n < m
    <3>1. ASSUME NEW n \in Nums, VersionsSeen[i][n] # Nothing  PROVE n < m
      <4>1. n # m /\ n \in Recorded(i)
        BY <2>5, <3>1 DEF Recorded
      <4>2. n <= m /\ n \in Nat /\ m \in Nat
        BY <2>1, <4>1 DEF Nums
      <4> QED  BY <4>1, <4>2
    <3> QED  BY <3>1
  <2>9. \A n \in Nums : VersionsSeen'[i][n] =
          IF n = t THEN Nothing ELSE IF n = m THEN rows[i].sha ELSE VersionsSeen[i][n]
    BY <1>6, <2>5, <2>6
  <2>10. \A j \in Ids : j # i => Unseen(j)
    BY <1>2, <1>9, <1>11, OthersUnseen
  <2>11. rows[i].key \in Keys /\ rows[i].sha \in Contents /\ rows[i].trashed \in BOOLEAN
    BY <1>1, <1>4, FileIs
  <2> QED  BY <1>1, <1>6, <2>2, <2>3, <2>4, <2>7, <2>8, <2>9, <2>10, <2>11, RestoresSeen
<1> QED  BY <1>14, <1>15

\* The upsert of a restore takes its file out of the trash as well.
LEMMA RestoreCommitShows ==
  ASSUME Sound, Sound', NEW r \in Requests, Local(r), RestoreCommit(r)
  PROVE  Simulated
<1> USE FileStoreAssumption
<1>1. /\ TInv /\ GInv /\ req[r] \in Request /\ UNCHANGED <<vrows, versioning, doomed>>
      /\ req[r].pc = "restore.commit" /\ Finish(r) /\ WellFormed(req[r])
      /\ Seen /\ Seen' /\ InOrder /\ GInv' /\ TInv'
      /\ \A q \in Requests : q # r => req'[q] = req[q]
  BY DEF Sound, GInv, TInv, TypeOK, RestoreCommit, At, Local
<1>2. PICK i \in Ids : i = req[r].id
  BY <1>1, OwnPath DEF OnFile, Places
<1>3. req'[r] = Idle /\ Idle.id = Nothing
  BY <1>1 DEF Finish, Idle, TInv, TypeOK
<1>4. Overwrite(i, req[r].sha) /\ req[r].sha \in Contents
  BY <1>1, <1>2, GroundRestoreCommit DEF WellFormed, WithContent, Request
<1>5. Worker(i) = req[r] /\ InUse(i) /\ Worker(i)' = Idle
  BY <1>1, <1>2, <1>3, OwnSound, WorkerGone DEF GInv
<1>6. /\ rows'[i].key = rows[i].key /\ rows'[i].sha = req[r].sha /\ rows'[i].trashed = FALSE
      /\ \A j \in Ids : InUse(j)' <=> InUse(j)
  BY <1>1, <1>4, <1>5, OverwriteKeeps
<1>7. There(i)' <=> There(i)
  BY <1>1, <1>6 DEF There
<1>8. /\ Content(i) = req[r].sha /\ Hidden(i) = {}
      /\ Content(i)' = req[r].sha /\ Hidden(i)' = {}
  BY <1>1, <1>5, <1>6, IdleShows DEF Content, Hidden, Making
<1>9. CASE ~There(i)
  <2>1. Unseen(i)
    BY <1>1, <1>7, <1>9, GoneUnseen
  <2> QED  BY <1>1, <1>2, <1>3, <1>6, <2>1, NoneSeen
<1>10. CASE There(i)
  <2>1. FilesSeen[i] = [name |-> rows[i].key, content |-> req[r].sha, trashed |-> rows[i].trashed]
    BY <1>1, <1>8, <1>10, SeenAt
  <2>2. FilesSeen'[i] = [name |-> rows[i].key, content |-> req[r].sha, trashed |-> rows'[i].trashed]
    BY <1>1, <1>6, <1>7, <1>8, <1>10, SeenAtNext
  <2>3. VersionsSeen'[i] = VersionsSeen[i]
    <3>1. ASSUME NEW n \in Nums  PROVE VersionsSeen[i][n] = vrows[i][n]
      BY <1>1, <1>8, <1>10, SeenAt
    <3>2. ASSUME NEW n \in Nums  PROVE VersionsSeen'[i][n] = vrows[i][n]
      BY <1>1, <1>7, <1>8, <1>10, SeenAtNext
    <3> QED  BY <3>1, <3>2, SeenShape
  <2>4. \A j \in Ids : j # i => Unseen(j)
    BY <1>1, <1>2, <1>3, <1>6, OthersUnseen
  <2>5. rows[i].key \in Keys /\ rows[i].trashed \in BOOLEAN /\ rows'[i].trashed \in BOOLEAN
    BY <1>1, <1>5, <1>6, FileIs
  <2> QED  BY <1>1, <1>4, <2>1, <2>2, <2>3, <2>4, <2>5, FlagsSeen
<1> QED  BY <1>9, <1>10

LEMMA EraseContentShows ==
  ASSUME Sound, Sound', NEW r \in Requests, Local(r), EraseContent(r)
  PROVE  Simulated
<1> USE FileStoreAssumption
<1>1. /\ TInv /\ GInv /\ req[r] \in Request /\ UNCHANGED <<rows, vrows, versioning>>
      /\ req[r].pc = "erase.content" /\ Goto(r, "erase.list") /\ doomed' = doomed \cup {req[r].id}
      /\ Seen /\ Seen' /\ InOrder /\ GInv'
  BY DEF Sound, GInv, TInv, TypeOK, EraseContent, At
<1>2. PICK i \in Ids : i = req[r].id
  BY <1>1, OwnPath DEF OnFile, Places
<1>3. req'[r].id = req[r].id /\ Worker(i) = req[r] /\ InUse(i)
  BY <1>1, <1>2, GotoFields, OwnSound
<1>4. (\A j \in Ids : InUse(j)' => InUse(j)) /\ ~There(i)'
  BY <1>1, <1>2 DEF InUse, There
<1>5. CASE ~There(i)
  <2>1. Unseen(i)
    BY <1>1, <1>4, <1>5, GoneUnseen
  <2> QED  BY <1>1, <1>2, <1>3, <1>4, <2>1, NoneSeen
<1>6. CASE There(i)
  <2>1. rows[i].key \in Keys /\ rows[i].sha \in Contents /\ rows[i].trashed \in BOOLEAN
    BY <1>1, <1>3, FileIs
  <2>2. Content(i) = rows[i].sha
    BY <1>1, <1>3 DEF Content
  <2>3. FilesSeen[i] = [name |-> rows[i].key, content |-> rows[i].sha, trashed |-> rows[i].trashed]
    BY <1>1, <1>6, <2>2, SeenAt
  <2>4. FilesSeen[i] # NoRow
    BY <2>1, <2>3, FileIsThere
  <2>5. FilesSeen'[i] = NoRow /\ \A n \in Nums : VersionsSeen'[i][n] = Nothing
    BY <1>1, <1>4, SeenAtNext
  <2>6. \A j \in Ids : j # i => Unseen(j)
    BY <1>1, <1>2, <1>3, <1>4, OthersUnseen
  <2> QED  BY <1>1, <2>4, <2>5, <2>6, ErasesSeen
<1> QED  BY <1>5, <1>6

LEMMA MoveRowShows ==
  ASSUME Sound, Sound', NEW r \in Requests, Local(r), MoveRow(r)
  PROVE  Simulated
<1> USE FileStoreAssumption
<1>1. /\ TInv /\ GInv /\ req[r] \in Request /\ UNCHANGED <<vrows, versioning, doomed>>
      /\ req[r].pc = "move.row" /\ WellFormed(req[r]) /\ GroundedAt(r)
      /\ Seen /\ Seen' /\ InOrder /\ RInv /\ GInv'
      /\ \A q \in Requests : q # r => req'[q] = req[q]
  BY DEF Sound, GInv, TInv, TypeOK, MoveRow, At, Local, history
<1>2. PICK i \in Ids : i = req[r].id
  BY <1>1, OwnPath DEF OnFile, Places
<1>3. PICK k \in Keys : k = req[r].to
  BY <1>1 DEF WellFormed, Request
<1>4. Worker(i) = req[r] /\ InUse(i) /\ SeenSound(i) /\ rows[i] \in Row
  BY <1>1, <1>2, OwnSound, FileIs DEF RInv
<1>5. Lookup(k) = {}
  BY <1>1, <1>3 DEF GroundedAt, MoveHolds
<1>6. Finish(r) /\ rows' = [rows EXCEPT ![i].key = k]
  BY <1>2, <1>3, <1>4, <1>5 DEF MoveRow
<1>7. req'[r] = Idle /\ Idle.id = Nothing
  BY <1>1, <1>6 DEF Finish, Idle, TInv, TypeOK
<1>8. Worker(i)' = Idle
  BY <1>1, <1>2, <1>7, WorkerGone DEF GInv
<1>9. /\ rows'[i].key = k /\ rows'[i].sha = rows[i].sha /\ rows'[i].trashed = rows[i].trashed
      /\ \A j \in Ids : InUse(j)' <=> InUse(j)
  <2> DEFINE row == [rows[i] EXCEPT !.key = k]
  <2>1. /\ row \in Row /\ row.key = k /\ row.sha = rows[i].sha /\ row.trashed = rows[i].trashed
    BY <1>4 DEF Row
  <2>2. rows' = [rows EXCEPT ![i] = row]
    BY <1>6
  <2> HIDE DEF row
  <2> QED  BY <1>1, <1>4, <2>1, <2>2, NoRowAssumption DEF InUse, TInv, TypeOK
<1>10. There(i)' <=> There(i)
  BY <1>1, <1>9 DEF There
<1>11. /\ Content(i) = rows[i].sha /\ Hidden(i) = {}
       /\ Content(i)' = rows[i].sha /\ Hidden(i)' = {}
  BY <1>1, <1>4, <1>8, <1>9, IdleShows DEF Content, Hidden, Making
<1>12. CASE ~There(i)
  <2>1. Unseen(i)
    BY <1>1, <1>10, <1>12, GoneUnseen
  <2> QED  BY <1>1, <1>2, <1>7, <1>9, <2>1, NoneSeen
<1>13. CASE There(i)
  <2>1. FilesSeen[i] = [name |-> rows[i].key, content |-> rows[i].sha, trashed |-> rows[i].trashed]
    BY <1>1, <1>11, <1>13, SeenAt
  <2>2. FilesSeen'[i] = [name |-> k, content |-> rows[i].sha, trashed |-> rows[i].trashed]
    BY <1>1, <1>9, <1>10, <1>11, <1>13, SeenAtNext
  <2>3. VersionsSeen'[i] = VersionsSeen[i]
    <3>1. ASSUME NEW n \in Nums  PROVE VersionsSeen[i][n] = vrows[i][n]
      BY <1>1, <1>11, <1>13, SeenAt
    <3>2. ASSUME NEW n \in Nums  PROVE VersionsSeen'[i][n] = vrows[i][n]
      BY <1>1, <1>10, <1>11, <1>13, SeenAtNext
    <3> QED  BY <3>1, <3>2, SeenShape
  <2>4. \A j \in Ids : j # i => Unseen(j)
    BY <1>1, <1>2, <1>7, <1>9, OthersUnseen
  <2>5. ASSUME NEW j \in Ids, FilesSeen[j] # NoRow  PROVE FilesSeen[j].name # k
    <3>1. /\ There(j)
          /\ FilesSeen[j] = [name |-> rows[j].key, content |-> Content(j), trashed |-> rows[j].trashed]
      BY <1>1, <2>5, SeenAt
    <3>2. FilesSeen[j].name = rows[j].key
      BY <3>1
    <3> QED  BY <1>5, <3>1, <3>2 DEF There, Lookup
  <2>6. ~rows[i].trashed /\ rows[i].key \in Keys /\ rows[i].sha \in Contents
        /\ rows[i].trashed \in BOOLEAN
    BY <1>1, <1>4, FileIs DEF SeenSound
  <2> QED  BY <1>1, <2>1, <2>2, <2>3, <2>4, <2>5, <2>6, MovesSeen
<1> QED  BY <1>12, <1>13

(***************************************************************************)
(* The updates of the trash flag, which no request makes while it works    *)
(* on the file.                                                            *)
(***************************************************************************)
LEMMA TrashFields ==
  ASSUME GInv, Disjoint, NEW j \in Ids, Delete(j) \/ RestoreFile(j)
  PROVE  /\ UNCHANGED <<vrows, disk, vault, versioning, req, doomed>>
         /\ \A i \in Ids : Worker(i)' = Worker(i) /\ (i # j => rows'[i] = rows[i])
         /\ Worker(j) = Idle /\ InUse(j) /\ InUse(j)'
         /\ rows'[j].key = rows[j].key /\ rows'[j].sha = rows[j].sha
         /\ rows'[j].trashed \in BOOLEAN
<1> USE FileStoreAssumption
<1>1. PICK flag \in BOOLEAN : SetTrashed(j, flag)
  BY DEF Delete, RestoreFile
<1> DEFINE row == [rows[j] EXCEPT !.trashed = flag]
<1>2. /\ rows' = [rows EXCEPT ![j] = row] /\ rows[j] \in Row /\ InUse(j) /\ TInv
      /\ UNCHANGED <<vrows, disk, vault, versioning, req, doomed>>
  BY <1>1, FileIs DEF SetTrashed, history, GInv
<1>3. row \in Row /\ row.key = rows[j].key /\ row.sha = rows[j].sha /\ row.trashed = flag
  BY <1>2 DEF Row
<1> HIDE DEF row
<1>4. \A i \in Ids : rows'[i] = (IF i = j THEN row ELSE rows[i])
  BY <1>2 DEF TInv, TypeOK
<1>5. \A r \in Requests : req[r].id # j
  <2>1. ASSUME NEW r \in Requests, req[r].id = j  PROVE FALSE
    <3>1. j \in Footprint(r) /\ j # Nothing
      BY <2>1 DEF Footprint
    <3> QED  BY <1>1, <3>1 DEF SetTrashed, MayTouch
  <2> QED  BY <2>1
<1>6. Worker(j) = Idle
  BY <1>5, NoWorker
<1>7. \A i \in Ids : Worker(i)' = Worker(i)
  BY <1>2 DEF Worker
<1> QED  BY <1>2, <1>3, <1>4, <1>6, <1>7, NoRowAssumption DEF InUse

LEMMA TrashSeenSound ==
  ASSUME GInv, Disjoint, RInv, NEW j \in Ids, Delete(j) \/ RestoreFile(j)
  PROVE  RInv'
<1>1. ASSUME NEW i \in Ids, InUse(i)'  PROVE SeenSound(i)'
  <2>1. CASE i = j
    <3>1. Discreet(Worker(i)')
      BY <2>1, TrashFields, IdleDiscreet
    <3> QED  BY <3>1, DiscreetSound
  <2>2. CASE i # j
    <3>1. /\ Worker(i)' = Worker(i) /\ rows'[i] = rows[i] /\ vrows'[i] = vrows[i]
          /\ disk'[rows[i].key] = disk[rows[i].key]
      BY <2>2, TrashFields
    <3>2. SeenSound(i)
      BY <1>1, <3>1 DEF RInv, InUse
    <3> QED  BY <3>1, <3>2, SeenFrame
  <2> QED  BY <2>1, <2>2
<1> QED  BY <1>1 DEF RInv

LEMMA TrashShows ==
  ASSUME Disjoint, Sound, Sound', NEW j \in Ids, Delete(j) \/ RestoreFile(j)
  PROVE  Simulated
<1>1. /\ GInv /\ Seen /\ Seen'
      /\ UNCHANGED <<vrows, disk, vault, versioning, req, doomed>>
      /\ \A i \in Ids : Worker(i)' = Worker(i) /\ (i # j => rows'[i] = rows[i])
      /\ Worker(j) = Idle /\ InUse(j) /\ InUse(j)'
      /\ rows'[j].key = rows[j].key /\ rows'[j].sha = rows[j].sha
      /\ rows'[j].trashed \in BOOLEAN
  BY TrashFields DEF Sound
<1>2. ASSUME NEW i \in Ids, i # j  PROVE Unseen(i)
  <2>1. (There(i)' <=> There(i)) /\ Content(i)' = Content(i) /\ Hidden(i)' = Hidden(i)
        /\ rows'[i] = rows[i]
    BY <1>1, <1>2 DEF There, InUse, Content, Hidden
  <2> QED  BY <1>1, <2>1, GoneUnseen, KeptUnseen
<1>3. There(j)' <=> There(j)
  BY <1>1 DEF There
<1>4. /\ Content(j) = rows[j].sha /\ Hidden(j) = {}
      /\ Content(j)' = rows[j].sha /\ Hidden(j)' = {}
  <2>1. Idle.pc = "idle" /\ Worker(j)' = Idle
    BY <1>1 DEF Idle
  <2> QED  BY <1>1, <2>1 DEF Content, Hidden, Making
<1>5. CASE ~There(j)
  BY <1>1, <1>2, <1>3, <1>5, GoneUnseen, StuttersSeen
<1>6. CASE There(j)
  <2>1. FilesSeen[j] = [name |-> rows[j].key, content |-> rows[j].sha, trashed |-> rows[j].trashed]
    BY <1>1, <1>4, <1>6, SeenAt
  <2>2. FilesSeen'[j] = [name |-> rows[j].key, content |-> rows[j].sha, trashed |-> rows'[j].trashed]
    BY <1>1, <1>3, <1>4, <1>6, SeenAtNext
  <2>3. VersionsSeen'[j] = VersionsSeen[j]
    <3>1. ASSUME NEW n \in Nums  PROVE VersionsSeen[j][n] = vrows[j][n]
      BY <1>1, <1>4, <1>6, SeenAt
    <3>2. ASSUME NEW n \in Nums  PROVE VersionsSeen'[j][n] = vrows[j][n]
      BY <1>1, <1>3, <1>4, <1>6, SeenAtNext
    <3> QED  BY <3>1, <3>2, SeenShape
  <2>4. rows[j].key \in Keys /\ rows[j].sha \in Contents /\ rows[j].trashed \in BOOLEAN
    BY <1>1, FileIs
  <2> QED  BY <1>1, <1>2, <2>1, <2>2, <2>3, <2>4, FlagsSeen
<1> QED  BY <1>5, <1>6

(***************************************************************************)
(* The refinement.                                                         *)
(***************************************************************************)
LEMMA SeenSoundStep ==
  ASSUME MaxVersions = 0, GInv, GInv', UInv, InOrder, RInv, NEW r \in Requests, Local(r),
         Begin(r) \/ Step(r), faults' = faults
  PROVE  RInv'
<1>1. OwnSeen(r)
  BY BeginSeen, StepSeen
<1>2. ASSUME NEW i \in Ids, InUse(i)', i # req'[r].id  PROVE SeenSound(i)'
  <2>1. CASE i # req[r].id /\ InUse(i)
    <3>1. SeenSound(i)
      BY <2>1 DEF RInv
    <3> QED  BY <1>2, <2>1, <3>1, OthersStand, SeenFrame
  <2>2. CASE i # req[r].id /\ ~InUse(i)
    <3>1. Worker(i)' = Idle
      BY <1>2, <2>2, OthersStand
    <3> QED  BY <3>1, IdleDiscreet, DiscreetSound
  <2>3. CASE i = req[r].id
    <3>1. Worker(i)' = Idle
      BY <1>2, <2>3, WorkerGone, FileStoreAssumption DEF GInv, Local
    <3> QED  BY <3>1, IdleDiscreet, DiscreetSound
  <2> QED  BY <2>1, <2>2, <2>3
<1> QED  BY <1>1, <1>2 DEF RInv, OwnSeen

\* Where no failure is left to happen, no step counts one.
LEMMA NothingFails ==
  ASSUME faults = 0, MaxFaults = 0, NEW r \in Requests, Begin(r) \/ Step(r)
  PROVE  faults' = faults
<1>1. ~UploadReadBlind(r) /\ \A k, c : ~UploadBeginBlind(r, k, c)
  BY DEF UploadReadBlind, UploadBeginBlind
<1>2. CASE Begin(r)
  BY <1>1, <1>2, ZenonT(60) DEF Begin, UploadBegin, RestoreVersionBegin, EraseBegin, PurgeBegin, MoveBegin, history
<1>3. CASE UploadRead(r) \/ UploadPlace(r) \/ UploadCommit(r)
  BY <1>3, ZenonT(60) DEF UploadRead, UploadPlace, UploadCommit, history
<1>4. CASE \/ SnapshotNumber(r) \/ SnapshotMove(r) \/ SnapshotRecord(r)
           \/ PruneList(r) \/ PruneContent(r) \/ PruneRow(r)
  BY <1>4 DEF SnapshotNumber, SnapshotMove, SnapshotRecord, PruneList, PruneContent, PruneRow, history
<1>5. CASE RestoreDiscard(r) \/ RestorePlace(r) \/ RestoreRow(r) \/ RestoreCommit(r)
  BY <1>5 DEF RestoreDiscard, RestorePlace, RestoreRow, RestoreCommit, history
<1>6. CASE EraseContent(r) \/ EraseList(r) \/ EraseVault(r) \/ EraseHistory(r) \/ EraseFile(r)
  BY <1>6 DEF EraseContent, EraseList, EraseVault, EraseHistory, EraseFile, history
<1>7. CASE MoveRename(r) \/ MoveRow(r) \/ MoveUndo(r)
  BY <1>7 DEF MoveRename, MoveRow, MoveUndo, history
<1> QED  BY <1>1, <1>2, <1>3, <1>4, <1>5, <1>6, <1>7 DEF Step

\* What the mapping relies on holds in every state when nothing fails.
THEOREM MappingInvariant ==
  ASSUME Disjoint, "reconfigure" \notin Ops, MaxVersions = 0, MaxFaults = 0
  PROVE  Spec => [](RInv /\ faults = 0)
<1>1. ASSUME IInv, IInv', SInv, RInv, faults = 0, [Next]_vars  PROVE RInv' /\ faults' = 0
  <2>1. GInv /\ GInv' /\ UInv /\ InOrder
    BY <1>1 DEF IInv, SInv, InOrder
  <2>2. ASSUME NEW r \in Requests, Begin(r) \/ Step(r)  PROVE RInv' /\ faults' = 0
    <3>1. faults' = faults
      BY <1>1, <2>2, NothingFails
    <3>2. Local(r)
      BY <2>1, <2>2, BeginStep, StepCarried
    <3> QED  BY <1>1, <2>1, <2>2, <3>1, <3>2, SeenSoundStep
  <2>3. ASSUME NEW j \in Ids, Delete(j) \/ RestoreFile(j)  PROVE RInv' /\ faults' = 0
    <3>1. faults' = faults
      BY <2>3 DEF Delete, RestoreFile, SetTrashed, history
    <3> QED  BY <1>1, <2>1, <2>3, <3>1, TrashSeenSound
  <2>4. ~Crash /\ ~Reconfigure /\ \A r \in Requests : ~Fail(r)
    BY <1>1 DEF Crash, Reconfigure, Fail
  <2>5. CASE UNCHANGED vars
    <3>1. ASSUME NEW i \in Ids, InUse(i)'  PROVE SeenSound(i)'
      <4>1. SeenSound(i) /\ Worker(i)' = Worker(i) /\ UNCHANGED <<rows, vrows, disk>>
        BY <1>1, <2>5, <3>1 DEF RInv, vars, InUse, Worker
      <4> QED  BY <4>1, SeenFrame
    <3> QED  BY <1>1, <2>5, <3>1 DEF RInv, vars
  <2> QED  BY <1>1, <2>2, <2>3, <2>4, <2>5 DEF Next
<1>2. ASSUME Init  PROVE RInv /\ faults = 0
  BY <1>2 DEF Init, RInv, InUse
<1>3. IInv /\ IInv' /\ SInv /\ (RInv /\ faults = 0) /\ [Next]_vars => (RInv /\ faults = 0)'
  BY <1>1
<1>4. Spec => []IInv /\ []SInv
  BY ContentInvariant, OrderInvariant
<1> QED  BY <1>2, <1>3, <1>4, PTL DEF Spec

LEMMA RequestShows ==
  ASSUME Disjoint, MaxVersions = 0, Sound, Sound', NEW r \in Requests, Begin(r) \/ Step(r),
         faults' = faults
  PROVE  Simulated
<1>1. /\ GInv /\ GInv' /\ UInv /\ InOrder
  BY DEF Sound
<1>2. Local(r)
  BY <1>1, BeginStep, StepCarried
<1>3. ~UploadReadBlind(r)
  <2>1. faults \in Nat
    BY <1>1 DEF GInv, TInv, TypeOK
  <2> QED  BY <2>1 DEF UploadReadBlind
<1>4. ~RestoreDiscard(r) /\ ~MoveUndo(r) /\ ~PruneContent(r) /\ ~PruneRow(r)
  BY <1>1, NeverUndone, NothingPruned DEF RestoreDiscard, GInv, GroundedAt, BytesHold
<1>5. CASE Begin(r) \/ UploadRead(r) \/ UploadPlace(r) \/ UploadCommit(r)
  BY <1>2, <1>5, BeginShows, UploadReadShows, UploadPlaceShows, UploadCommitShows
<1>6. CASE SnapshotNumber(r) \/ SnapshotMove(r) \/ SnapshotRecord(r) \/ PruneList(r)
  BY <1>2, <1>6, SnapshotShows, PruneListShows
<1>7. CASE RestorePlace(r) \/ RestoreRow(r) \/ RestoreCommit(r)
  BY <1>2, <1>7, RestorePlaceShows, RestoreRowShows, RestoreCommitShows
<1>8. CASE EraseContent(r) \/ EraseList(r) \/ EraseVault(r) \/ EraseHistory(r) \/ EraseFile(r)
  BY <1>2, <1>8, EraseContentShows, ErasingShows
<1>9. CASE MoveRename(r) \/ MoveRow(r)
  BY <1>2, <1>9, MoveRenameShows, MoveRowShows
<1> QED  BY <1>3, <1>4, <1>5, <1>6, <1>7, <1>8, <1>9 DEF Step

LEMMA InitShows ==
  ASSUME Init
  PROVE  Promise!Init
<1>1. \A i \in Ids : ~There(i)
  BY DEF Init, There, InUse
<1>2. FilesSeen = [i \in Ids |-> NoRow]
  BY <1>1 DEF FilesSeen
<1>3. VersionsSeen = [i \in Ids |-> [n \in Nums |-> Nothing]]
  BY <1>1 DEF VersionsSeen
<1>4. VersionsSeen = [i \in Ids |-> [n \in 1 .. MaxNum |-> Nothing]]
  BY <1>3 DEF Nums
<1> QED  BY <1>2, <1>4 DEF Init, Promise!Init, Promise!Empty

\* FileStore implements VersionedStore: with requests that keep apart, no
\* limit on the versions and no failure, each step of Upload, RestoreVersion,
\* MoveFile, Delete and permanentlyDeleteFile is to whoever uses the store one
\* whole operation, or nothing.
THEOREM StoreImplementsPromise ==
  ASSUME Disjoint, "reconfigure" \notin Ops, MaxVersions = 0, MaxFaults = 0
  PROVE  Spec => ImplementsVersionedStore
<1>1. ASSUME IInv, SInv, RInv /\ faults = 0  PROVE Sound
  <2>1. GInv /\ UInv /\ InOrder
    BY <1>1 DEF IInv, SInv, InOrder
  <2> QED  BY <1>1, <2>1, SeenAs DEF Sound
<1>2. IInv /\ SInv /\ (RInv /\ faults = 0) => Sound
  BY <1>1
<1>3. ASSUME Sound, Sound', faults = 0, faults' = 0, [Next]_vars  PROVE Simulated
  <2>1. ASSUME NEW r \in Requests, Begin(r) \/ Step(r)  PROVE Simulated
    BY <1>3, <2>1, RequestShows
  <2>2. ASSUME NEW j \in Ids, Delete(j) \/ RestoreFile(j)  PROVE Simulated
    BY <1>3, <2>2, TrashShows
  <2>3. ~Crash /\ ~Reconfigure /\ \A r \in Requests : ~Fail(r)
    BY <1>3 DEF Crash, Reconfigure, Fail
  <2>4. CASE UNCHANGED vars
    <3>1. FilesSeen' = FilesSeen /\ VersionsSeen' = VersionsSeen /\ versioning' = versioning
      BY <2>4 DEF vars, FilesSeen, VersionsSeen, There, InUse, CurrentContent, Recorded, InTheMaking
    <3> QED  BY <3>1 DEF Simulated, Promise!vars
  <2> QED  BY <1>3, <2>1, <2>2, <2>3, <2>4 DEF Next
<1>4. Sound /\ Sound' /\ (RInv /\ faults = 0) /\ (RInv /\ faults = 0)' /\ [Next]_vars =>
        [Promise!Next]_(Promise!vars)
  BY <1>3 DEF Simulated
<1>5. Init => Promise!Init
  BY InitShows
<1>6. Spec => []IInv /\ []SInv /\ [](RInv /\ faults = 0)
  BY ContentInvariant, OrderInvariant, MappingInvariant
<1> QED  BY <1>2, <1>4, <1>5, <1>6, PTL DEF Spec, ImplementsVersionedStore, Promise!Spec
=============================================================================
