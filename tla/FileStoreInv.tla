---------------------------- MODULE FileStoreInv ---------------------------
(***************************************************************************)
(* The inductive invariants behind the properties of FileStore.  NInv is   *)
(* the one behind NumbersGrow, for every instance.  The others are for     *)
(* instances whose requests keep apart (Disjoint) and whose configuration  *)
(* keeps versioning on: IInv stands behind Recoverable, HInv behind        *)
(* HistoryBounded, SInv behind InStep and PriorContentKept.                *)
(***************************************************************************)
EXTENDS FileStore

\* Requests in flight share no file and no path.
Apart == \A q, r \in Requests :
           q # r => Footprint(q) \cap Footprint(r) \subseteq {Nothing}

KeysUnique == \A i, j \in Ids :
  InUse(i) /\ InUse(j) /\ rows[i].key = rows[j].key => i = j

Names(i, k) == InUse(i) /\ rows[i].key = k

OnFile == Places \ {"idle", "upload.read", "upload.place", "upload.commit"}

Snapshotting == {"snap.number", "snap.move", "snap.record",
                 "prune.list", "prune.content", "prune.row"}

WithContent == Snapshotting \cup
  {"upload.read", "upload.place", "upload.commit",
   "restore.discard", "restore.place", "restore.row", "restore.commit"}

\* What a request holds at each place.
WellFormed(q) ==
  /\ q.pc = "idle" => q = Idle
  /\ q.pc # "idle" => q.key # Nothing
  /\ q.pc = "upload.read" => q.id = Nothing /\ q.purge = {}
  /\ q.pc \in OnFile => q.id # Nothing
  /\ q.pc \in WithContent => q.sha # Nothing
  /\ q.pc \in {"snap.number", "snap.move", "snap.record"} => q.old # Nothing
  /\ q.pc \in {"snap.move", "snap.record"} => q.num \in Nums
  /\ q.pc = "upload.read" => q.op = "upload"
  /\ q.pc \in Snapshotting => q.op = "upload" \/ q.target \in Nums
  /\ q.pc \in {"restore.discard", "restore.place", "restore.row",
              "restore.commit"} => q.target \in Nums
  /\ q.pc \in {"move.rename", "move.row", "move.undo"} =>
       q.to # Nothing /\ q.to # q.key

TInv == TypeOK /\ \A r \in Requests : WellFormed(req[r])

\* The rows a request has read are still what it read.
ReadsHold(r) ==
  /\ req[r].id # Nothing => Names(req[r].id, req[r].key)
  /\ \A p \in req[r].purge : Names(p[1], p[2]) /\ p[1] # req[r].id

\* Without an id, an upload goes to a path that no file has, or it is blind.
Unnamed(r) ==
  /\ At(r, "upload.read") =>
       \A i \in Lookup(req[r].key) : Trashed(i) => i \in exposed
  /\ req[r].pc \in {"upload.place", "upload.commit"} /\ req[r].id = Nothing =>
       Lookup(req[r].key) \subseteq exposed

\* Where the bytes of a request are between its two stores.
BytesHold(r) ==
  /\ At(r, "upload.place") /\ req[r].id # Nothing =>
       \/ disk[req[r].key] = Nothing
       \/ req[r].sha = rows[req[r].id].sha
  /\ At(r, "upload.commit") => disk[req[r].key] = req[r].sha
  /\ req[r].pc \in {"snap.record", "prune.list", "prune.content", "prune.row",
                    "restore.place"} => disk[req[r].key] = Nothing
  /\ ~At(r, "restore.discard")

SnapshotHolds(r) ==
  req[r].pc \in {"snap.move", "snap.record"} =>
    \A n \in Recorded(req[r].id) : n < req[r].num

MoveHolds(r) ==
  req[r].pc \in {"move.rename", "move.row", "move.undo"} =>
    Lookup(req[r].to) = {}

GroundedAt(r) == /\ ReadsHold(r) /\ Unnamed(r) /\ BytesHold(r)
                 /\ SnapshotHolds(r) /\ MoveHolds(r)

GInv == /\ TInv /\ versioning /\ Apart /\ KeysUnique
        /\ \A r \in Requests : GroundedAt(r)

\* What is left of an earlier step of the same request.
Underway(r) ==
  LET q == req[r]  i == req[r].id  n == req[r].target
  IN /\ q.pc = "upload.read" => n = 0 /\ q.num = 0
     /\ q.pc \in {"snap.number", "snap.move", "snap.record"} =>
          n = 0 \/ n \in Recorded(i)
     /\ q.pc \in {"prune.list", "prune.content", "prune.row", "restore.place"} =>
          n = 0 \/ n \in Recorded(i) \/ vault[i][n] = Nothing
     /\ q.pc = "prune.row" => \A m \in Newest(q.nums) : vault[i][m] = Nothing
     /\ q.pc = "restore.row" => n \in Recorded(i) /\ vault[i][n] = Nothing
     /\ q.pc \in {"erase.list", "erase.vault", "erase.history", "erase.file"} =>
          i \in doomed
     /\ q.pc \in {"move.row", "move.undo"} => disk[q.key] = Nothing

UInv == \A r \in Requests : Underway(r)

(***************************************************************************)
(* Version numbers, for every instance: requests may cross.                *)
(***************************************************************************)
\* What a request is going to delete from a history is behind its newest
\* version, which is itself never deleted.
Behind(r) ==
  LET q == req[r]  i == req[r].id
  IN /\ q.pc # "restore.discard"
     /\ q.pc = "upload.read" => q.target = 0
     /\ i \in Ids \ doomed =>
          /\ q.pc = "snap.number" => q.target <= LatestVersionNum(i)
          /\ q.pc \in {"snap.move", "snap.record"} => q.target < q.num
          /\ q.pc \in {"prune.list", "prune.content", "prune.row",
                       "restore.place", "restore.row"} => q.target < LatestVersionNum(i)
          /\ q.pc \in {"prune.content", "prune.row"} =>
               \A n \in q.nums : n < LatestVersionNum(i)

Erases(r) == req[r].pc \in {"erase.list", "erase.vault", "erase.history", "erase.file"}

NInv == \A r \in Requests : /\ Erases(r) => req[r].id \in doomed
                            /\ versioning => Behind(r)

(***************************************************************************)
(* The four places where the content of a file can be.                     *)
(***************************************************************************)
\* The request that works on a file; requests keep apart, so it is alone.
Worker(i) ==
  IF \E r \in Requests : req[r].id = i
  THEN req[CHOOSE r \in Requests : req[r].id = i] ELSE Idle

AtPath(i) == disk[rows[i].key] = rows[i].sha

Moving(i) == /\ Worker(i).pc \in {"move.row", "move.undo"}
             /\ disk[Worker(i).to] = rows[i].sha

\* Another blob lies, or may come to lie, between the row and its content: it
\* is at the path, or on its way from the path to the history or elsewhere.
Shadow(i) ==
  IF \/ disk[rows[i].key] # Nothing
     \/ Worker(i).pc \in {"snap.record", "move.row", "move.undo"}
  THEN 1 ELSE 0

\* Its new content is at the path and its row is not written yet.
Placed(i) ==
  IF Worker(i).pc \in {"upload.commit", "restore.row", "restore.commit"}
  THEN 1 ELSE 0

Condemned(i) ==
  IF Worker(i).pc \in {"prune.content", "prune.row"} THEN Worker(i).nums ELSE {}

\* In the history, with a newer version for every failure but the last.
InHistory(i, n) ==
  /\ n \in Recorded(i) /\ n \notin Condemned(i)
  /\ vault[i][n] = rows[i].sha
  /\ Cardinality(Newer(i, n)) + Shadow(i) <= faults + Placed(i)

\* Moved to the version store and not recorded, with nothing at the path.
LooseAt(i, n) ==
  LET q == Worker(i)
  IN \/ q.pc \in {"idle", "snap.number", "snap.move", "move.rename",
                  "erase.content"}
     \/ q.pc = "upload.place" /\ q.sha = rows[i].sha
     \/ q.pc = "snap.record" /\ q.num = n

Loose(i, n) ==
  /\ vault[i][n] = rows[i].sha /\ n \notin Recorded(i)
  /\ disk[rows[i].key] = Nothing
  /\ LooseAt(i, n)

Safe(i) == \/ AtPath(i)
           \/ Moving(i)
           \/ \E n \in Nums : InHistory(i, n) \/ Loose(i, n)

KeptSafe == Tolerated => \A i \in Ids : Kept(i) => Safe(i)

\* The inductive invariant: requests keep apart and what they read holds, and
\* the content of every file is in one of four places, never further down its
\* history than the failures so far account for.
IInv == GInv /\ UInv /\ KeptSafe

(***************************************************************************)
(* The limit of a history (HistoryBounded).                                *)
(***************************************************************************)
\* What is left of the history once the request has pruned what it lists.
Trimming(r) ==
  LET q == req[r]
  IN q.pc \in {"prune.content", "prune.row"} =>
       /\ q.nums \subseteq Recorded(q.id)
       /\ Cardinality(Recorded(q.id) \ q.nums) <= MaxVersions

HInv ==
  MaxVersions > 0 =>
    /\ \A r \in Requests : Trimming(r)
    /\ \A i \in Ids : Cardinality(Recorded(i)) <=
                        MaxVersions + faults + (IF Pruning(i) THEN 1 ELSE 0)

(***************************************************************************)
(* Both stores in step (InStep, PriorContentKept), while nothing fails:    *)
(* where each place of a handler leaves the file it works on.              *)
(***************************************************************************)
\* A restore that finds its version pruned by its own snapshot leaves the path
\* empty; without a limit on the versions there is no such restore.
TakesTarget == MaxVersions > 0 /\ "restoreVersion" \in Ops

AtRest(i) == AtPath(i) \/ (TakesTarget /\ disk[rows[i].key] = Nothing)

PathSound(i) ==
  LET q == Worker(i)
  IN /\ q.pc \in {"idle", "snap.number", "snap.move", "move.rename", "erase.content"} =>
          AtRest(i)
     /\ q.pc \in {"restore.row", "restore.commit"} => disk[rows[i].key] = q.sha
     /\ q.pc \in {"erase.list", "erase.vault", "erase.history", "erase.file"} =>
          disk[rows[i].key] = Nothing
     /\ q.pc = "move.row" => Moving(i)
     /\ q.pc # "move.undo"

\* The recorded versions whose content the request has removed already.
Missing(q) ==
  CASE q.pc = "prune.row" -> Newest(q.nums)
    [] q.pc = "restore.row" -> {q.target}
    [] q.pc = "erase.vault" -> Nums \ q.nums
    [] q.pc = "erase.history" -> Nums
    [] OTHER -> {}

VaultSound(i) ==
  LET q == Worker(i)
  IN /\ \A n \in Nums :
          vault[i][n] = IF n \in Missing(q) THEN Nothing
                        ELSE IF q.pc = "snap.record" /\ n = q.num THEN rows[i].sha
                        ELSE vrows[i][n]
     /\ q.pc = "erase.file" \/ ~InUse(i) => Recorded(i) = {}

\* The content of the row is in its history, for another to take its place.
Aside(i) == Worker(i).num \in Nums /\ vrows[i][Worker(i).num] = rows[i].sha

AsideSound(i) ==
  LET q == Worker(i)
  IN /\ q.pc \in {"snap.number", "snap.move", "snap.record"} => q.old = rows[i].sha
     /\ q.pc \in {"prune.list", "prune.content", "prune.row",
                   "restore.place", "restore.row", "restore.commit"} =>
          Aside(i) /\ q.target # q.num
     /\ q.pc \in {"upload.place", "upload.commit"} => Aside(i) \/ q.sha = rows[i].sha
     /\ q.pc = "prune.list" => \A n \in Recorded(i) : n <= q.num
     /\ q.pc \in {"prune.content", "prune.row"} => MaxVersions > 0 /\ q.num \notin q.nums

\* The version to restore is as it was read, unless the limit took it.
TargetSound(i) ==
  LET q == Worker(i)
  IN q.pc \in Snapshotting \cup {"restore.place"} /\ q.target \in Nums =>
       /\ "restoreVersion" \in Ops
       /\ IF q.target \in Recorded(i) THEN q.sha = vrows[i][q.target] ELSE MaxVersions > 0

FileSound(i) == /\ InUse(i) => PathSound(i)
                /\ VaultSound(i) /\ AsideSound(i) /\ TargetSound(i)

\* At a path that no file has lies what is about to become one's content.
FreePathSound(k) ==
  Lookup(k) = {} =>
    \/ disk[k] = Nothing
    \/ \E r \in Requests : \/ (At(r, "upload.commit") /\ req[r].key = k)
                           \/ (At(r, "move.row") /\ req[r].to = k)

SInv == faults = 0 =>
          /\ exposed = {}
          /\ \A i \in Ids : FileSound(i)
          /\ \A k \in Keys : FreePathSound(k)
=============================================================================
