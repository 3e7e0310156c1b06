----------------------------- MODULE FileStore -----------------------------
(***************************************************************************)
(* The file operations of internal/storage/file_service.go over the two    *)
(* stores they must keep in step: the SQL catalogue (tables files and      *)
(* file_versions) and the physical tree of a storage pool.  Nothing in     *)
(* FileService takes a lock and no transaction spans both stores, so every *)
(* repository call and every Provider call is one step, and any step may   *)
(* fail or be the last one before the process dies.                        *)
(*                                                                         *)
(* Abstractions.  A Key is a natural key (pool, owner, parent_path, name)  *)
(* and at the same time the physical path that physicalPath derives from   *)
(* it.  A Content is a blob; being collision free, SHA-256 is represented  *)
(* by the blob itself.  The staging file of an upload is private to its    *)
(* request (stagingPath is random) and is part of the request.             *)
(* Only the policy "maxVersionsPerFile" is modelled (the default           *)
(* configuration); the policies by age and by size are disabled.  An Id    *)
(* that no row uses stands for a UUID never used before.  A call that      *)
(* fails has no effect.  Reads that follow each other with no write in     *)
(* between are one step.                                                   *)
(***************************************************************************)
EXTENDS Naturals, FiniteSets

CONSTANTS
  Requests,      \* HTTP/WebDAV requests and background passes in flight
  Keys,          \* natural keys = physical paths
  Contents,      \* blobs (and their hashes)
  Ids,           \* files.id
  Nothing,       \* no blob, no version row, an unset request field
  NoRow,         \* no row in files
  TrashEnabled,  \* trash.enabled
  MaxVersions,   \* versioning.maxVersionsPerFile, 0 = no limit
  MaxNum,        \* bound: highest version_num of an instance
  MaxFaults,     \* bound: failed calls and crashes of a behaviour
  Disjoint,      \* TRUE: no two requests in flight share a file or a path
  Ops            \* the operations the clients of an instance use

Nums == 1..MaxNum

OpNames == {"upload", "restoreVersion", "delete", "restore", "erase",
            "purge", "move", "reconfigure"}

ASSUME FileStoreAssumption ==
  /\ MaxVersions \in Nat /\ MaxNum \in Nat /\ MaxFaults \in Nat
  /\ TrashEnabled \in BOOLEAN /\ Disjoint \in BOOLEAN
  /\ Ops \subseteq OpNames
  /\ Nothing \notin Keys \cup Contents \cup Ids
  /\ Keys \cap Ids = {}

Row == [key : Keys, sha : Contents, trashed : BOOLEAN]

ASSUME NoRowAssumption == NoRow \notin Row

VARIABLES
  rows,    \* table files: Id -> row
  vrows,   \* table file_versions: Id -> version_num -> sha256
  disk,    \* Key -> the blob at its physical path
  vault,   \* Id -> version_num -> the blob at its versionStoragePath
  versioning,  \* versioning.enabled in the configuration of this start
  req,     \* Request -> where it is and what it has read so far
  faults,  \* failed calls and crashes so far
  doomed,  \* history: Ids whose permanent deletion has begun, until a new
           \* file takes the Id
  exposed  \* history: Ids whose content the code stopped protecting: a move
           \* that ended between its rename and its UPDATE, an upload whose
           \* lookup failed, a restore of a version recorded under the hash
           \* of another blob

stores == <<rows, vrows, disk, vault>>
history == <<faults, doomed, exposed>>
vars == <<rows, vrows, disk, vault, versioning, req, faults, doomed, exposed>>

Places == {"idle", "upload.read", "upload.place", "upload.commit",
           "snap.number", "snap.move", "snap.record",
           "prune.list", "prune.content", "prune.row",
           "restore.discard", "restore.place", "restore.row",
           "restore.commit", "erase.content", "erase.list", "erase.vault",
           "erase.history", "erase.file", "move.rename", "move.row",
           "move.undo"}

Request ==
  [pc : Places, op : OpNames \cup {"none"},
   id : Ids \cup {Nothing},         \* the row it read (existing / meta)
   key : Keys \cup {Nothing},       \* rel
   to : Keys \cup {Nothing},        \* newRel of a move
   sha : Contents \cup {Nothing},   \* hash of the staged or target content
   old : Contents \cup {Nothing},   \* existing.SHA256 as it was read
   num : 0..MaxNum,                 \* version number at hand
   target : 0..MaxNum,              \* version being restored
   nums : SUBSET Nums,              \* versions listed for deletion
   purge : SUBSET (Ids \X Keys)]    \* trashed files listed for purge

Idle == [pc |-> "idle", op |-> "none", id |-> Nothing, key |-> Nothing,
         to |-> Nothing, sha |-> Nothing, old |-> Nothing, num |-> 0,
         target |-> 0, nums |-> {}, purge |-> {}]

(***************************************************************************)
(* Reading the catalogue.                                                  *)
(***************************************************************************)
InUse(i) == rows[i] # NoRow

\* GetFileByNaturalKey: at most one row, the natural key is UNIQUE.
Lookup(k) == {i \in Ids : InUse(i) /\ rows[i].key = k}

Trashed(i) == InUse(i) /\ rows[i].trashed

\* rejectIfTrashOccupiesName, for the file names of this module.
TrashOccupies(k) == \E i \in Lookup(k) : Trashed(i)

Recorded(i) == {n \in Nums : vrows[i][n] # Nothing}

\* SELECT MAX(version_num), 0 when there is none.
LatestVersionNum(i) ==
  IF Recorded(i) = {} THEN 0
  ELSE CHOOSE m \in Recorded(i) : \A n \in Recorded(i) : n <= m

Newer(i, n) == {m \in Recorded(i) : m > n}

\* Mutants of Surplus: the limit counted from one, and one too many kept.
SurplusFromOne(i) ==
  IF MaxVersions = 0 THEN {}
  ELSE {n \in Recorded(i) : Cardinality(Newer(i, n)) + 1 >= MaxVersions}

SurplusKeepsOneMore(i) ==
  IF MaxVersions = 0 THEN {}
  ELSE {n \in Recorded(i) : Cardinality(Newer(i, n)) > MaxVersions}

\* The versions enforceMaxVersions prunes: index i of the list ordered by
\* version_num DESC at or past maxVersionsPerFile.
Surplus(i) ==
  IF MaxVersions = 0 THEN {}
  ELSE {n \in Recorded(i) : Cardinality(Newer(i, n)) >= MaxVersions}

(***************************************************************************)
(* Requests.                                                               *)
(***************************************************************************)
Ready(r) == req[r] = Idle

At(r, place) == req[r].pc = place

Goto(r, place) == req' = [req EXCEPT ![r].pc = place]

\* ... with a list of versions at hand.
GotoWith(r, place, nums) ==
  req' = [req EXCEPT ![r].nums = nums, ![r].pc = place]

Finish(r) == req' = [req EXCEPT ![r] = Idle]

Footprint(q) == {req[q].id, req[q].key, req[q].to}
                  \cup UNION {{p[1], p[2]} : p \in req[q].purge}

\* In a Disjoint instance an operation starts only when no request in flight
\* works on the same file or path.
MayTouch(S) ==
  Disjoint => \A q \in Requests : (Footprint(q) \ {Nothing}) \cap S = {}

(***************************************************************************)
(* Upload.                                                                 *)
(***************************************************************************)
\* Mutant of UploadBegin: without rejectIfTrashOccupiesName.
UploadBeginOverTrash(r, k, c) ==
  /\ "upload" \in Ops /\ Ready(r)
  /\ MayTouch({k} \cup Lookup(k))
  /\ \A i \in Lookup(k) : LatestVersionNum(i) < MaxNum
  /\ req' = [req EXCEPT ![r] = [Idle EXCEPT !.pc = "upload.read",
                                 !.op = "upload", !.key = k, !.sha = c]]
  /\ UNCHANGED <<stores, versioning, history>>

\* Validation, the trash check and the write of the staging file.  An upload
\* with NoOverwrite differs only in rejecting an active file here.
UploadBegin(r, k, c) ==
  /\ "upload" \in Ops /\ Ready(r)
  /\ ~TrashOccupies(k)
  /\ MayTouch({k} \cup Lookup(k))
  /\ \A i \in Lookup(k) : LatestVersionNum(i) < MaxNum
  /\ req' = [req EXCEPT ![r] = [Idle EXCEPT !.pc = "upload.read",
                                 !.op = "upload", !.key = k, !.sha = c]]
  /\ UNCHANGED <<stores, versioning, history>>

\* The error of a trash lookup is taken for "nothing in the trash".
UploadBeginBlind(r, k, c) ==
  /\ "upload" \in Ops /\ Ready(r) /\ faults < MaxFaults
  /\ TrashOccupies(k)
  /\ MayTouch({k} \cup Lookup(k))
  /\ req' = [req EXCEPT ![r] = [Idle EXCEPT !.pc = "upload.read",
                                 !.op = "upload", !.key = k, !.sha = c]]
  /\ faults' = faults + 1
  /\ exposed' = exposed \cup Lookup(k)
  /\ UNCHANGED <<stores, versioning, doomed>>

\* Mutant of UploadRead: a version only of a file that has none yet.
UploadReadFirstOnly(r) ==
  LET found == {i \in Lookup(req[r].key) : ~Trashed(i)}
      place(i) == IF versioning /\ rows[i].sha # req[r].sha /\ Recorded(i) = {}
                  THEN "snap.number" ELSE "upload.place"
  IN /\ At(r, "upload.read")
     /\ \/ found = {} /\ Goto(r, "upload.place")
        \/ \E i \in found :
             req' = [req EXCEPT ![r].pc = place(i), ![r].id = i,
                                ![r].old = rows[i].sha]
     /\ UNCHANGED <<stores, versioning, history>>

\* The second read of the natural key decides whether a version is made.
UploadRead(r) ==
  LET found == {i \in Lookup(req[r].key) : ~Trashed(i)}
      place(i) == IF versioning /\ rows[i].sha # req[r].sha
                  THEN "snap.number" ELSE "upload.place"
  IN /\ At(r, "upload.read")
     /\ \/ found = {} /\ Goto(r, "upload.place")
        \/ \E i \in found :
             req' = [req EXCEPT ![r].pc = place(i), ![r].id = i,
                                ![r].old = rows[i].sha]
     /\ UNCHANGED <<stores, versioning, history>>

\* Its error is taken for "no such file": the upload goes on, without version.
UploadReadBlind(r) ==
  /\ At(r, "upload.read") /\ faults < MaxFaults
  /\ Goto(r, "upload.place")
  /\ faults' = faults + 1
  /\ exposed' = exposed \cup Lookup(req[r].key)
  /\ UNCHANGED <<stores, versioning, doomed>>

\* prov.Move(staging, rel) replaces whatever is at rel.
UploadPlace(r) ==
  /\ At(r, "upload.place")
  /\ disk' = [disk EXCEPT ![req[r].key] = req[r].sha]
  /\ Goto(r, "upload.commit")
  /\ UNCHANGED <<rows, vrows, vault, versioning, history>>

\* UpsertFile, ON CONFLICT (natural key) DO UPDATE: the row keeps its id and
\* leaves the trash.
Overwrite(i, c) ==
  /\ rows' = [rows EXCEPT ![i].sha = c, ![i].trashed = FALSE]
  /\ UNCHANGED vault

\* UpsertFile, INSERT under a UUID that nothing knows yet.
Fresh(i) == ~InUse(i) /\ \A q \in Requests : i \notin Footprint(q)

Insert(i, k, c) ==
  /\ rows' = [rows EXCEPT ![i] = [key |-> k, sha |-> c, trashed |-> FALSE]]
  /\ vault' = [vault EXCEPT ![i] = [n \in Nums |-> Nothing]]
  /\ doomed' = doomed \ {i}

UploadCommit(r) ==
  /\ At(r, "upload.commit")
  /\ \/ \E i \in Lookup(req[r].key) : Overwrite(i, req[r].sha) /\ UNCHANGED doomed
     \/ /\ Lookup(req[r].key) = {}
        /\ \E i \in Ids : Fresh(i) /\ Insert(i, req[r].key, req[r].sha)
  /\ Finish(r)
  /\ UNCHANGED <<vrows, disk, versioning, faults, exposed>>

(***************************************************************************)
(* snapshotVersion and enforceMaxVersions, called by Upload and by         *)
(* RestoreVersion with the row they read before.                           *)
(***************************************************************************)
\* Mutant of SnapshotNumber: COUNT(*) in the place of MAX(version_num).
SnapshotNumberByCount(r) ==
  /\ At(r, "snap.number")
  /\ LatestVersionNum(req[r].id) < MaxNum
  /\ req' = [req EXCEPT ![r].pc = "snap.move",
                        ![r].num = Cardinality(Recorded(req[r].id)) + 1]
  /\ UNCHANGED <<stores, versioning, history>>

SnapshotNumber(r) ==
  /\ At(r, "snap.number")
  /\ LatestVersionNum(req[r].id) < MaxNum
  /\ req' = [req EXCEPT ![r].pc = "snap.move",
                        ![r].num = LatestVersionNum(req[r].id) + 1]
  /\ UNCHANGED <<stores, versioning, history>>

\* Mutant of SnapshotMove: having nothing to move is no error.
SnapshotMoveAnything(r) ==
  LET k == req[r].key  i == req[r].id
  IN /\ At(r, "snap.move")
     /\ vault' = [vault EXCEPT ![i][req[r].num] = disk[k]]
     /\ disk' = [disk EXCEPT ![k] = Nothing]
     /\ Goto(r, "snap.record")
     /\ UNCHANGED <<rows, vrows, versioning, history>>

\* The rename of the current content into the history fails when there is
\* none at rel, and replaces what an earlier attempt left at its target.
SnapshotMove(r) ==
  LET k == req[r].key  i == req[r].id
  IN /\ At(r, "snap.move")
     /\ \/ disk[k] = Nothing /\ Finish(r) /\ UNCHANGED <<disk, vault>>
        \/ /\ disk[k] # Nothing
           /\ vault' = [vault EXCEPT ![i][req[r].num] = disk[k]]
           /\ disk' = [disk EXCEPT ![k] = Nothing]
           /\ Goto(r, "snap.record")
     /\ UNCHANGED <<rows, vrows, versioning, history>>

\* CreateVersion: UNIQUE (file_id, version_num), file_id REFERENCES files.
SnapshotRecord(r) ==
  LET i == req[r].id  n == req[r].num
  IN /\ At(r, "snap.record")
     /\ \/ (~InUse(i) \/ n \in Recorded(i)) /\ Finish(r) /\ UNCHANGED vrows
        \/ /\ InUse(i) /\ n \notin Recorded(i)
           /\ vrows' = [vrows EXCEPT ![i][n] = req[r].old]
           /\ Goto(r, "prune.list")
     /\ UNCHANGED <<rows, disk, vault, versioning, history>>

AfterSnapshot(r) ==
  IF req[r].op = "upload" THEN "upload.place" ELSE "restore.place"

PruneList(r) ==
  /\ At(r, "prune.list")
  /\ GotoWith(r, IF Surplus(req[r].id) = {} THEN AfterSnapshot(r)
                                            ELSE "prune.content",
              Surplus(req[r].id))
  /\ UNCHANGED <<stores, versioning, history>>

\* The list is walked from the newest version to the oldest.
Newest(S) == {n \in S : \A m \in S : m <= n}

PruneContent(r) ==
  /\ At(r, "prune.content")
  /\ \E n \in Newest(req[r].nums) :
       vault' = [vault EXCEPT ![req[r].id][n] = Nothing]
  /\ Goto(r, "prune.row")
  /\ UNCHANGED <<rows, vrows, disk, versioning, history>>

\* DeleteVersion deletes the row by the id that was read with it, and reports
\* ErrVersionNotFound when that row is gone.  Where requests cross, the number
\* may by now be that of another row: the row that was read may be gone
\* although the number is recorded.
RowGone(i, n) == n \notin Recorded(i) \/ ~Disjoint

PruneRow(r) ==
  LET i == req[r].id
  IN /\ At(r, "prune.row")
     /\ \E n \in Newest(req[r].nums) :
          \/ RowGone(i, n) /\ Finish(r) /\ UNCHANGED vrows
          \/ /\ n \in Recorded(i)
             /\ vrows' = [vrows EXCEPT ![i][n] = Nothing]
             /\ GotoWith(r, IF req[r].nums = {n} THEN AfterSnapshot(r)
                                                 ELSE "prune.content",
                         req[r].nums \ {n})
     /\ UNCHANGED <<rows, disk, vault, versioning, history>>

(***************************************************************************)
(* RestoreVersion.  It does not look at the trash: its final upsert takes  *)
(* a trashed file out of it.                                               *)
(***************************************************************************)
\* Mutant of RestoreVersionBegin: the current content is always discarded.
RestoreVersionDiscards(r, i, n) ==
  /\ "restoreVersion" \in Ops /\ Ready(r)
  /\ InUse(i) /\ n \in Recorded(i)
  /\ MayTouch({i, rows[i].key})
  /\ LatestVersionNum(i) < MaxNum
  /\ req' = [req EXCEPT ![r] =
       [Idle EXCEPT !.pc = "restore.discard",
                    !.op = "restoreVersion", !.id = i, !.key = rows[i].key,
                    !.old = rows[i].sha, !.target = n, !.sha = vrows[i][n]]]
  /\ UNCHANGED <<stores, versioning, history>>

RestoreVersionBegin(r, i, n) ==
  /\ "restoreVersion" \in Ops /\ Ready(r)
  /\ InUse(i) /\ n \in Recorded(i)
  /\ MayTouch({i, rows[i].key})
  /\ LatestVersionNum(i) < MaxNum
  /\ req' = [req EXCEPT ![r] =
       [Idle EXCEPT !.pc = IF versioning THEN "snap.number"
                           ELSE "restore.discard",
                    !.op = "restoreVersion", !.id = i, !.key = rows[i].key,
                    !.old = rows[i].sha, !.target = n, !.sha = vrows[i][n]]]
  /\ UNCHANGED <<stores, versioning, history>>

RestoreDiscard(r) ==
  /\ At(r, "restore.discard")
  /\ disk' = [disk EXCEPT ![req[r].key] = Nothing]
  /\ Goto(r, "restore.place")
  /\ UNCHANGED <<rows, vrows, vault, versioning, history>>

\* prov.Move(target.StorageKey, rel): fails when the content of the target is
\* no longer there.
RestorePlace(r) ==
  LET i == req[r].id  n == req[r].target
  IN /\ At(r, "restore.place")
     /\ \/ vault[i][n] = Nothing /\ Finish(r) /\ UNCHANGED <<disk, vault>>
        \/ /\ vault[i][n] # Nothing
           /\ disk' = [disk EXCEPT ![req[r].key] = vault[i][n]]
           /\ vault' = [vault EXCEPT ![i][n] = Nothing]
           /\ Goto(r, "restore.row")
     /\ UNCHANGED <<rows, vrows, versioning, history>>

RestoreRow(r) ==
  LET i == req[r].id  n == req[r].target
  IN /\ At(r, "restore.row")
     /\ \/ RowGone(i, n) /\ Finish(r) /\ UNCHANGED vrows
        \/ /\ n \in Recorded(i)
           /\ vrows' = [vrows EXCEPT ![i][n] = Nothing]
           /\ Goto(r, "restore.commit")
     /\ UNCHANGED <<rows, disk, vault, versioning, history>>

\* The upsert carries the id that was read: where the row is gone it inserts
\* it again, and where it moved away the primary key refuses it.
RestoreCommit(r) ==
  LET k == req[r].key  i == req[r].id  c == req[r].sha
  IN /\ At(r, "restore.commit")
     /\ \/ \E j \in Lookup(k) :
             /\ Overwrite(j, c)
             /\ exposed' = IF disk[k] = c THEN exposed ELSE exposed \cup {j}
        \/ /\ Lookup(k) = {} /\ ~InUse(i)
           /\ rows' = [rows EXCEPT ![i] = [key |-> k, sha |-> c,
                                           trashed |-> FALSE]]
           /\ UNCHANGED <<vault, exposed>>
        \/ Lookup(k) = {} /\ InUse(i) /\ UNCHANGED <<rows, vault, exposed>>
     /\ Finish(r)
     /\ UNCHANGED <<vrows, disk, versioning, faults, doomed>>

(***************************************************************************)
(* Trash.  Delete and RestoreFile read the row to check its owner and then *)
(* update it by id, whatever it has become.                                *)
(***************************************************************************)
SetTrashed(i, flag) ==
  /\ InUse(i)
  /\ MayTouch({i, rows[i].key})
  /\ rows' = [rows EXCEPT ![i].trashed = flag]
  /\ UNCHANGED <<vrows, disk, vault, versioning, req, history>>

Delete(i) == "delete" \in Ops /\ TrashEnabled /\ SetTrashed(i, TRUE)

RestoreFile(i) == "restore" \in Ops /\ SetTrashed(i, FALSE)

(***************************************************************************)
(* permanentlyDeleteFile: on request, by Delete without a trash, and for   *)
(* every expired file of the list PurgeExpiredTrash read when it started.  *)
(***************************************************************************)
EraseBegin(r, i) ==
  /\ Ready(r) /\ InUse(i)
  /\ "erase" \in Ops \/ ("delete" \in Ops /\ ~TrashEnabled)
  /\ MayTouch({i, rows[i].key})
  /\ req' = [req EXCEPT ![r] = [Idle EXCEPT !.pc = "erase.content",
                 !.op = "erase", !.id = i, !.key = rows[i].key]]
  /\ UNCHANGED <<stores, versioning, history>>

EraseNext(r, listed) ==
  \E p \in listed :
    req' = [req EXCEPT ![r] = [Idle EXCEPT !.pc = "erase.content",
              !.op = "purge", !.id = p[1], !.key = p[2],
              !.purge = listed \ {p}]]

PurgeBegin(r, S) ==
  /\ "purge" \in Ops /\ Ready(r)
  /\ S # {} /\ \A i \in S : Trashed(i)
  /\ MayTouch(S \cup {rows[i].key : i \in S})
  /\ EraseNext(r, {<<i, rows[i].key>> : i \in S})
  /\ UNCHANGED <<stores, versioning, history>>

EraseContent(r) ==
  /\ At(r, "erase.content")
  /\ disk' = [disk EXCEPT ![req[r].key] = Nothing]
  /\ doomed' = doomed \cup {req[r].id}
  /\ Goto(r, "erase.list")
  /\ UNCHANGED <<rows, vrows, vault, versioning, faults, exposed>>

EraseList(r) ==
  /\ At(r, "erase.list")
  /\ GotoWith(r, IF Recorded(req[r].id) = {} THEN "erase.history"
                                             ELSE "erase.vault",
              Recorded(req[r].id))
  /\ UNCHANGED <<stores, versioning, history>>

\* Mutant of EraseVault: the loop over the versions ends after the first.
EraseVaultOnce(r) ==
  /\ At(r, "erase.vault")
  /\ \E n \in Newest(req[r].nums) :
       /\ vault' = [vault EXCEPT ![req[r].id][n] = Nothing]
       /\ GotoWith(r, "erase.history", req[r].nums \ {n})
  /\ UNCHANGED <<rows, vrows, disk, versioning, history>>

EraseVault(r) ==
  /\ At(r, "erase.vault")
  /\ \E n \in Newest(req[r].nums) :
       /\ vault' = [vault EXCEPT ![req[r].id][n] = Nothing]
       /\ GotoWith(r, IF req[r].nums = {n} THEN "erase.history"
                                           ELSE "erase.vault",
                   req[r].nums \ {n})
  /\ UNCHANGED <<rows, vrows, disk, versioning, history>>

ForgetVersions(i) == vrows' = [vrows EXCEPT ![i] = [n \in Nums |-> Nothing]]

EraseHistory(r) ==
  /\ At(r, "erase.history")
  /\ ForgetVersions(req[r].id)
  /\ Goto(r, "erase.file")
  /\ UNCHANGED <<rows, disk, vault, versioning, history>>

\* DELETE FROM files, ON DELETE CASCADE to file_versions.
EraseFile(r) ==
  LET i == req[r].id
  IN /\ At(r, "erase.file")
     /\ \/ ~InUse(i) /\ Finish(r) /\ UNCHANGED <<rows, vrows, exposed>>
        \/ /\ InUse(i)
           /\ rows' = [rows EXCEPT ![i] = NoRow]
           /\ ForgetVersions(i)
           /\ exposed' = exposed \ {i}
           /\ IF req[r].purge = {} THEN Finish(r)
                                   ELSE EraseNext(r, req[r].purge)
     /\ UNCHANGED <<disk, vault, versioning, faults, doomed>>

(***************************************************************************)
(* MoveFile.                                                               *)
(***************************************************************************)
MoveBegin(r, i, k) ==
  /\ "move" \in Ops /\ Ready(r)
  /\ InUse(i) /\ ~Trashed(i) /\ rows[i].key # k
  /\ Lookup(k) = {}
  /\ MayTouch({i, rows[i].key, k})
  /\ req' = [req EXCEPT ![r] = [Idle EXCEPT !.pc = "move.rename",
                 !.op = "move", !.id = i, !.key = rows[i].key, !.to = k]]
  /\ UNCHANGED <<stores, versioning, history>>

Rename(from, to) == disk' = [disk EXCEPT ![from] = Nothing, ![to] = disk[from]]

MoveRename(r) ==
  /\ At(r, "move.rename")
  /\ \/ disk[req[r].key] = Nothing /\ Finish(r) /\ UNCHANGED disk
     \/ /\ disk[req[r].key] # Nothing
        /\ Rename(req[r].key, req[r].to)
        /\ Goto(r, "move.row")
  /\ UNCHANGED <<rows, vrows, vault, versioning, history>>

\* UPDATE files SET parent_path, name WHERE id, under the UNIQUE natural key.
MoveRow(r) ==
  LET i == req[r].id  k == req[r].to
  IN /\ At(r, "move.row")
     /\ \/ /\ ~InUse(i) \/ Lookup(k) # {}
           /\ Goto(r, "move.undo") /\ UNCHANGED rows
        \/ /\ InUse(i) /\ Lookup(k) = {}
           /\ rows' = [rows EXCEPT ![i].key = k]
           /\ Finish(r)
     /\ UNCHANGED <<vrows, disk, vault, versioning, history>>

\* The error of the rename back is dropped.
MoveUndo(r) ==
  /\ At(r, "move.undo")
  /\ \/ disk[req[r].to] = Nothing /\ UNCHANGED disk
     \/ disk[req[r].to] # Nothing /\ Rename(req[r].to, req[r].key)
  /\ Finish(r)
  /\ UNCHANGED <<rows, vrows, vault, versioning, history>>

(***************************************************************************)
(* Failures.                                                               *)
(***************************************************************************)
Stranded(q) == IF req[q].pc \in {"move.row", "move.undo"} THEN {req[q].id}
                                                          ELSE {}

\* The call at hand fails: the handler returns its error, or undoes a rename.
\* UploadReadBlind is the failure of upload.read.
Fail(r) ==
  /\ req[r].pc \notin {"idle", "upload.read"} /\ faults < MaxFaults
  /\ faults' = faults + 1
  /\ \/ At(r, "move.row") /\ Goto(r, "move.undo") /\ UNCHANGED exposed
     \/ /\ ~At(r, "move.row")
        /\ Finish(r)
        /\ exposed' = exposed \cup Stranded(r)
  /\ UNCHANGED <<stores, versioning, doomed>>

\* The process dies; nothing of a request outlives it.
Crash ==
  /\ \E r \in Requests : ~Ready(r)
  /\ faults < MaxFaults /\ faults' = faults + 1
  /\ req' = [r \in Requests |-> Idle]
  /\ exposed' = exposed \cup UNION {Stranded(r) : r \in Requests}
  /\ UNCHANGED <<stores, versioning, doomed>>

\* The operator switches versioning and restarts the server.
Reconfigure ==
  /\ "reconfigure" \in Ops
  /\ \A r \in Requests : Ready(r)
  /\ versioning' = ~versioning
  /\ UNCHANGED <<stores, req, history>>

Init ==
  /\ rows = [i \in Ids |-> NoRow]
  /\ vrows = [i \in Ids |-> [n \in Nums |-> Nothing]]
  /\ disk = [k \in Keys |-> Nothing]
  /\ vault = [i \in Ids |-> [n \in Nums |-> Nothing]]
  /\ versioning = TRUE
  /\ req = [r \in Requests |-> Idle]
  /\ faults = 0 /\ doomed = {} /\ exposed = {}

Begin(r) ==
  \/ \E k \in Keys, c \in Contents : UploadBegin(r, k, c)
                                     \/ UploadBeginBlind(r, k, c)
  \/ \E i \in Ids, n \in Nums : RestoreVersionBegin(r, i, n)
  \/ \E i \in Ids : EraseBegin(r, i)
  \/ \E S \in SUBSET Ids : PurgeBegin(r, S)
  \/ \E i \in Ids, k \in Keys : MoveBegin(r, i, k)

Step(r) ==
  \/ UploadRead(r) \/ UploadReadBlind(r) \/ UploadPlace(r) \/ UploadCommit(r)
  \/ SnapshotNumber(r) \/ SnapshotMove(r) \/ SnapshotRecord(r)
  \/ PruneList(r) \/ PruneContent(r) \/ PruneRow(r)
  \/ RestoreDiscard(r) \/ RestorePlace(r) \/ RestoreRow(r) \/ RestoreCommit(r)
  \/ EraseContent(r) \/ EraseList(r) \/ EraseVault(r)
  \/ EraseHistory(r) \/ EraseFile(r)
  \/ MoveRename(r) \/ MoveRow(r) \/ MoveUndo(r)

Next ==
  \/ \E r \in Requests : Begin(r) \/ Step(r) \/ Fail(r)
  \/ \E i \in Ids : Delete(i) \/ RestoreFile(i)
  \/ Crash
  \/ Reconfigure

Spec == Init /\ [][Next]_vars

(***************************************************************************)
(* Properties.                                                             *)
(***************************************************************************)
TypeOK ==
  /\ rows \in [Ids -> Row \cup {NoRow}]
  /\ vrows \in [Ids -> [Nums -> Contents \cup {Nothing}]]
  /\ disk \in [Keys -> Contents \cup {Nothing}]
  /\ vault \in [Ids -> [Nums -> Contents \cup {Nothing}]]
  /\ versioning \in BOOLEAN
  /\ req \in [Requests -> Request]
  /\ faults \in Nat
  /\ doomed \subseteq Ids
  /\ exposed \subseteq Ids

Files(r) == {req[r].id} \ {Nothing}

Worked(i) == \E r \in Requests : i \in Footprint(r)

\* With no fault behind it, whatever no request is working on is the same in
\* both stores: every path holds the bytes of the row that names it, or none,
\* and the version store holds exactly the recorded versions.
InStep ==
  faults = 0 =>
    /\ \A k \in Keys : ~Worked(k) =>
         IF Lookup(k) = {} THEN disk[k] = Nothing
         ELSE \A i \in Lookup(k) : disk[k] = rows[i].sha
    /\ \A i \in Ids : ~Worked(i) =>
         vault[i] = vrows[i] /\ (Recorded(i) # {} => InUse(i))

InTransit(i) ==
  \E r \in Requests : /\ req[r].pc \in {"move.row", "move.undo"}
                      /\ req[r].id = i /\ disk[req[r].to] = rows[i].sha

Stored(i) ==
  \/ disk[rows[i].key] = rows[i].sha
  \/ \E n \in Nums : vault[i][n] = rows[i].sha
  \/ InTransit(i)

Kept(i) == InUse(i) /\ i \notin doomed \cup exposed

Tolerated == MaxVersions = 0 \/ faults < MaxVersions

\* A history of N versions survives N - 1 failures: after fewer than
\* MaxVersions failed calls and crashes, in whatever step they hit, the bytes
\* the catalogue names as the content of a file are still in the pool: at its
\* path, on their way to its new path, or in its version store.
Recoverable == versioning /\ Tolerated => \A i \in Ids : Kept(i) => Stored(i)

\* A recorded version is deleted or restored, never rewritten: as long as its
\* row is there, no step puts another hash in the row or other bytes in its
\* place in the version store (snapshotVersion overwrites what it finds).
HistoryImmutable ==
  [][\A i \in Ids, n \in Nums :
       vrows[i][n] # Nothing =>
         /\ vrows'[i][n] \in {vrows[i][n], Nothing}
         /\ vault'[i][n] \in {vault[i][n], Nothing}]_vars

Pruning(i) == \E r \in Requests :
  /\ req[r].pc \in {"prune.list", "prune.content", "prune.row"}
  /\ req[r].id = i

\* A failed purge of old versions is made up for by the next one: outside
\* enforceMaxVersions a history exceeds the limit by one per failure at most.
HistoryBounded ==
  MaxVersions > 0 => \A i \in Ids :
    ~Pruning(i) => Cardinality(Recorded(i)) <= MaxVersions + faults

\* No step touches the bytes or the row of a file, in the trash or not, that
\* no request has read, except the two updates of its trash flag.
Undisturbed ==
  [][\A i \in Ids :
       InUse(i) /\ (\A r \in Requests : i \notin Files(r)) /\ i \notin exposed' =>
         /\ InUse(i)'
         /\ rows'[i].key = rows[i].key /\ rows'[i].sha = rows[i].sha
         /\ disk'[rows[i].key] = disk[rows[i].key]]_vars

\* Uploading other content over a file keeps the content it had as a version.
PriorContentKept ==
  [][versioning /\ faults = 0 =>
       \A i \in Ids :
         InUse(i) /\ InUse(i)' /\ rows'[i].sha # rows[i].sha =>
           \E n \in Nums : /\ vrows'[i][n] = rows[i].sha
                           /\ vault'[i][n] = rows[i].sha]_vars

\* The content of a file is put aside before another takes its place: no step
\* replaces the bytes at the path of a file by other bytes.
\* The code does not keep it: README, "What the code does not keep".
AsideFirst ==
  [][versioning =>
       \A i \in Ids :
         InUse(i) /\ ~Trashed(i) /\ disk[rows[i].key] = rows[i].sha =>
           disk'[rows[i].key] \in {rows[i].sha, Nothing}]_vars

\* Restoring loses nothing: without a failure, the version a request is about
\* to put in place is still there after the snapshot that went before.
RestoreKeepsTarget ==
  \A r \in Requests :
    faults = 0 /\ req[r].op = "restoreVersion" /\ At(r, "restore.place") =>
      vault[req[r].id][req[r].target] # Nothing

\* The automatic purge deletes what is in the trash when it deletes it.
\* The code does not keep it: README, "What the code does not keep".
PurgeSparesRestored ==
  [][\A r \in Requests :
       /\ At(r, "erase.content") /\ ~At(r, "erase.content")'
       /\ req[r].op = "purge" /\ InUse(req[r].id)
       => Trashed(req[r].id)]_vars

\* Whatever requests cross and fail, no pruning and no restore takes out the
\* newest version: the highest number recorded of a file never falls before
\* its permanent deletion begins, so that MAX(version_num) + 1 is above every
\* number that was recorded when it is read.  Two requests that read it before
\* either records get the same one: README, "What the code does not keep".
NumbersGrow ==
  [][versioning =>
       \A i \in Ids \ doomed : LatestVersionNum(i)' >= LatestVersionNum(i)]_vars
=============================================================================
