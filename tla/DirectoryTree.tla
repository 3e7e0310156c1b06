--------------------------- MODULE DirectoryTree ---------------------------
(***************************************************************************)
(* The tree of folders of one owner in one pool (internal/storage):        *)
(* the tables directories and files, and the folders and files on disk     *)
(* that they describe.  A request on a folder touches the disk and then    *)
(* the table, or the other way round, in steps of its own; nothing locks   *)
(* one request out while another is half way.  The steps of a request on   *)
(* a file are the subject of FileStore: here each is one action.           *)
(*                                                                         *)
(* Abstractions.  A path is the sequence of its names.  A content bears    *)
(* the name of the file it was first uploaded as.  The trash is on, the    *)
(* default.  The history of versions is left out.                          *)
(***************************************************************************)
EXTENDS Integers, Sequences, FiniteSets

CONSTANTS
  Names, DirIds, FileIds,
  Requests,    \* those that may be under way at once
  Depth,       \* bound: names in a path
  MaxOps,      \* bound: requests ever made
  MaxFaults,   \* bound: database errors and crashes
  Torn,        \* a content of which only a part was received
  None

Paths == UNION {[1 .. n -> Names] : n \in 1 .. Depth}
Root == <<>>
Contents == FileIds \cup {Torn}
Absent == "absent"
Folder == "folder"

VARIABLES
  dirs,        \* table directories: a row, or None, for each id
  files,       \* table files
  disk,        \* what lies at each path of the pool
  req,         \* what every request has left to do
  ops, faults,
  calm,        \* history: requests that ran together were about unrelated
               \* paths, and no crash left a move half done
  crossed      \* history: rows that once had something in their way

bounds == <<ops, faults>>
tables == <<dirs, files>>
vars == <<tables, disk, req, bounds, calm, crossed>>

DirRows == [path : Paths, trashed : BOOLEAN]
FileRows == [path : Paths, trashed : BOOLEAN, content : Contents]

\* The tables are finite, and an id names a row of one of them.
ASSUME TreeAssumption ==
  /\ Depth \in Nat /\ MaxOps \in Nat /\ MaxFaults \in Nat
  /\ IsFiniteSet(DirIds) /\ IsFiniteSet(FileIds) /\ DirIds \cap FileIds = {}
  /\ Torn \notin FileIds /\ Absent \notin Contents /\ Folder \notin Contents
  /\ None \notin DirIds \cup Contents \cup DirRows \cup FileRows

Kinds == {"mkdir", "rmdir", "erase", "restore", "movedir", "purge",
          "list", "file", "put", "rename", "movefile", "over"}

\* One call: what it is about, where from and where to, and what it read.
Items ==
  [op : Kinds, id : DirIds \cup FileIds \cup {None}, from : Paths \cup {Root},
   to : Paths \cup {Root}, flag : BOOLEAN, copied : Contents \cup {None},
   step : {"start", "disk", "row", "undo"}]

Item(op, id, from, to) ==
  [op |-> op, id |-> id, from |-> from, to |-> to, flag |-> FALSE,
   copied |-> None, step |-> "start"]


(***************************************************************************)
(* Paths and rows.                                                         *)
(***************************************************************************)
\* The folder of an element is the path without its last name.
Parent(p) == SubSeq(p, 1, Len(p) - 1)

\* What is at or below a path, and what is at or above it.
Below == [p \in Paths \cup {Root} |-> {q \in Paths : Len(q) >= Len(p) /\ SubSeq(q, 1, Len(p)) = p}]
Above == [p \in Paths \cup {Root} |-> {q \in Paths : p \in Below[q]}]

\* The path that q takes when the folder p becomes t.
Rebased(q, p, t) == t \o SubSeq(q, Len(p) + 1, Len(q))
Fits(S, p, t) == \A q \in S \cap Below[p] : Rebased(q, p, t) \in Paths

DirsAt(p) == {d \in DirIds : dirs[d] # None /\ dirs[d].path = p}
FilesAt(p) == {f \in FileIds : files[f] # None /\ files[f].path = p}
LiveDirsAt(p) == {d \in DirsAt(p) : ~dirs[d].trashed}
LiveFilesAt(p) == {f \in FilesAt(p) : ~files[f].trashed}

\* ListDirectories and ListFiles: what is active right below a folder.
DirsIn(p) == {d \in DirIds : dirs[d] # None /\ ~dirs[d].trashed /\ Parent(dirs[d].path) = p}
FilesIn(p) == {f \in FileIds : files[f] # None /\ ~files[f].trashed /\ Parent(files[f].path) = p}

TrashOccupies(p) ==
  \/ \E f \in FilesAt(p) : files[f].trashed
  \/ \E d \in DirsAt(p) : dirs[d].trashed

\* rejectIfTrashOccupiesName lets the name pass; so it does when a lookup fails.
NamePasses(p) ==
  \/ ~TrashOccupies(p) /\ UNCHANGED faults
  \/ faults < MaxFaults /\ faults' = faults + 1

DestinationOccupied(p) == FilesAt(p) # {} \/ DirsAt(p) # {}

Empty(p) == DirsIn(p) = {} /\ FilesIn(p) = {}

RowPaths == {dirs[d].path : d \in {d \in DirIds : dirs[d] # None}}
              \cup {files[f].path : f \in {f \in FileIds : files[f] # None}}

(***************************************************************************)
(* The provider of the pool.                                               *)
(***************************************************************************)
Held == {q \in Paths : disk[q] # Absent}
CanMkdirAll(p) == \A q \in Above[p] : disk[q] \notin Contents
MkdirAll(p) == [q \in Paths |-> IF q \in Above[p] THEN Folder ELSE disk[q]]

\* A file stands where a folder of the path should be: ENOTDIR.
OutOfReach(p) == \E q \in Above[p] \ {p} : disk[q] \in Contents

\* os.Remove: only a file or an empty folder goes, and nothing is no error.
CanRemove(p) == ~OutOfReach(p) /\ \A q \in Below[p] \ {p} : disk[q] = Absent
Removed(p) == [disk EXCEPT ![p] = Absent]

\* Move makes the folder of the destination and renames.  os.Rename refuses
\* to replace a folder, and to put a folder in the place of a file.
CanMove(p, t) ==
  /\ CanMkdirAll(Parent(t)) /\ disk[p] # Absent
  /\ disk[t] # Folder /\ (disk[p] = Folder => disk[t] = Absent)
  /\ t \notin Below[p]

Moved(p, t) ==
  [q \in Paths |->
     IF q \in Below[t]
     THEN LET o == Rebased(q, t, p) IN IF o \in Paths THEN disk[o] ELSE Absent
     ELSE IF q \in Below[p] THEN Absent
     ELSE IF q \in Above[Parent(t)] THEN Folder ELSE disk[q]]

\* A rename that fails may still have made the folder of the destination.
NotMoved(t) == IF CanMkdirAll(Parent(t)) THEN MkdirAll(Parent(t)) ELSE disk

(***************************************************************************)
(* Requests.                                                               *)
(***************************************************************************)
Busy(r) == req[r] # <<>>
At(r, op, step) == Busy(r) /\ Head(req[r]).op = op /\ Head(req[r]).step = step
Now(r) == Head(req[r])

\* The paths a call is about; two of them are related when one is in the other.
Reach(item) ==
  IF item.op = "purge" THEN Paths ELSE
  ({item.from, item.to} \ {Root})
    \cup {dirs[d].path : d \in {d \in DirIds : d = item.id /\ dirs[d] # None}}
    \cup {files[f].path : f \in {f \in FileIds : f = item.id /\ files[f] # None}}

Related(p, q) == q \in Below[p] \cup Above[p]
Unrelated(S) ==
  \A r \in Requests : \A i \in DOMAIN req[r] :
    \A p \in S, q \in Reach(req[r][i]) : ~Related(p, q)

MayBegin(r) == ~Busy(r) /\ ops < MaxOps

Submit(r, item) ==
  /\ ops' = ops + 1
  /\ req' = [req EXCEPT ![r] = <<item>>]
  /\ calm' = (calm /\ Unrelated(Reach(item)))
  /\ UNCHANGED <<tables, disk, faults>>

\* The first call of r goes on to its next step; r goes on to its next call,
\* has done all of them, or answers with an error and does no more of them.
Continue(r, item) == req' = [req EXCEPT ![r] = <<item>> \o Tail(@)]
ToStep(r, step) == Continue(r, [Now(r) EXCEPT !.step = step])
Answer(r) == req' = [req EXCEPT ![r] = <<>>]
Then(r, work) == req' = [req EXCEPT ![r] = work \o Tail(@)]

\* A step of a request under way.
Going == UNCHANGED <<ops, calm>>

(***************************************************************************)
(* Mkdir: the names in the trash are looked up, the folder is made, the    *)
(* row is inserted unless there is one.                                    *)
(***************************************************************************)
MkdirCheck(r) ==
  /\ At(r, "mkdir", "start") /\ Going
  /\ \/ NamePasses(Now(r).to) /\ ToStep(r, "disk")
     \/ TrashOccupies(Now(r).to) /\ Answer(r) /\ UNCHANGED faults
  /\ UNCHANGED <<tables, disk>>

MkdirDisk(r) ==
  /\ At(r, "mkdir", "disk") /\ Going
  /\ IF CanMkdirAll(Now(r).to)
     THEN disk' = MkdirAll(Now(r).to) /\ ToStep(r, "row")
     ELSE disk' = disk /\ Answer(r)
  /\ UNCHANGED <<tables, faults>>

\* Mutant: the row bears the path of the parent.
MkdirRowOfParent(r) ==
  /\ At(r, "mkdir", "row") /\ Going
  /\ \E d \in DirIds : dirs[d] = None
       /\ dirs' = [dirs EXCEPT ![d] = [path |-> Parent(Now(r).to), trashed |-> FALSE]]
  /\ Then(r, <<>>) /\ UNCHANGED <<files, disk, faults>>

MkdirRow(r) ==
  /\ At(r, "mkdir", "row") /\ Going
  /\ \/ DirsAt(Now(r).to) # {} /\ dirs' = dirs
     \/ /\ DirsAt(Now(r).to) = {}
        /\ \E d \in DirIds : dirs[d] = None
             /\ dirs' = [dirs EXCEPT ![d] = [path |-> Now(r).to, trashed |-> FALSE]]
  /\ Then(r, <<>>) /\ UNCHANGED <<files, disk, faults>>

(***************************************************************************)
(* DeleteDirectory and PermanentlyDeleteDirectory.  The first does not ask *)
(* whether the folder is in the trash already.                             *)
(***************************************************************************)
DeleteCheck(r) ==
  LET d == Now(r).id IN
  /\ At(r, "rmdir", "start") /\ Going
  /\ IF dirs[d] # None /\ Empty(dirs[d].path)
     THEN Continue(r, [Now(r) EXCEPT !.from = dirs[d].path, !.step = "disk"])
     ELSE Answer(r)
  /\ UNCHANGED <<tables, disk, faults>>

\* Contents in the trash keep the folder on disk, which is no error; a path
\* that leads through a file is one.
DeleteDisk(r) ==
  /\ At(r, "rmdir", "disk") /\ Going
  /\ disk' = IF CanRemove(Now(r).from) THEN Removed(Now(r).from) ELSE disk
  /\ IF OutOfReach(Now(r).from) THEN Answer(r) ELSE ToStep(r, "row")
  /\ UNCHANGED <<tables, faults>>

SoftDeleteDirectory(r) ==
  LET d == Now(r).id IN
  /\ At(r, "rmdir", "row") /\ Going
  /\ IF dirs[d] # None
     THEN dirs' = [dirs EXCEPT ![d].trashed = TRUE] /\ Then(r, <<>>)
     ELSE dirs' = dirs /\ Answer(r)
  /\ UNCHANGED <<files, disk, faults>>

EraseCheck(r) ==
  LET d == Now(r).id IN
  /\ At(r, "erase", "start") /\ Going
  /\ IF dirs[d] # None /\ (dirs[d].trashed \/ Empty(dirs[d].path))
     THEN Continue(r, [Now(r) EXCEPT !.from = dirs[d].path, !.flag = dirs[d].trashed,
                                     !.step = "disk"])
     ELSE Answer(r)
  /\ UNCHANGED <<tables, disk, faults>>

\* Only a folder read in the trash may stay on disk, and only because
\* something is left in it.
EraseDisk(r) ==
  /\ At(r, "erase", "disk") /\ Going
  /\ disk' = IF CanRemove(Now(r).from) THEN Removed(Now(r).from) ELSE disk
  /\ IF CanRemove(Now(r).from) \/ (Now(r).flag /\ ~OutOfReach(Now(r).from))
     THEN ToStep(r, "row") ELSE Answer(r)
  /\ UNCHANGED <<tables, faults>>

EraseRow(r) ==
  /\ At(r, "erase", "row") /\ Going
  /\ dirs' = [dirs EXCEPT ![Now(r).id] = None] /\ Answer(r)
  /\ UNCHANGED <<files, disk, faults>>

(***************************************************************************)
(* RestoreDirectory: the path is read, then the row changes, and then the  *)
(* folder is made where the path was.                                      *)
(***************************************************************************)
RestoreCheck(r) ==
  LET d == Now(r).id IN
  /\ At(r, "restore", "start") /\ Going
  /\ IF dirs[d] # None
     THEN Continue(r, [Now(r) EXCEPT !.to = dirs[d].path, !.step = "row"])
     ELSE Answer(r)
  /\ UNCHANGED <<tables, disk, faults>>

RestoreRow(r) ==
  LET d == Now(r).id IN
  /\ At(r, "restore", "row") /\ Going
  /\ IF dirs[d] # None
     THEN dirs' = [dirs EXCEPT ![d].trashed = FALSE] /\ ToStep(r, "disk")
     ELSE dirs' = dirs /\ Answer(r)
  /\ UNCHANGED <<files, disk, faults>>

\* Mutant: the folder is not made again.
RestoreRowOnly(r) ==
  At(r, "restore", "disk") /\ Going /\ Answer(r) /\ UNCHANGED <<tables, disk, faults>>

RestoreDisk(r) ==
  /\ At(r, "restore", "disk") /\ Going
  /\ disk' = IF CanMkdirAll(Now(r).to) THEN MkdirAll(Now(r).to) ELSE disk
  /\ Answer(r) /\ UNCHANGED <<tables, faults>>

(***************************************************************************)
(* MoveDirectory.                                                          *)
(***************************************************************************)
MoveCheck(r) ==
  LET d == Now(r).id  t == Now(r).to IN
  /\ At(r, "movedir", "start") /\ Going
  /\ IF dirs[d] # None /\ ~dirs[d].trashed /\ t \notin Below[dirs[d].path] /\ ~DestinationOccupied(t)
     THEN Continue(r, [Now(r) EXCEPT !.from = dirs[d].path, !.step = "disk"])
     ELSE Answer(r)
  /\ UNCHANGED <<tables, disk, faults>>

MoveDisk(r) ==
  LET p == Now(r).from  t == Now(r).to IN
  /\ At(r, "movedir", "disk") /\ Going /\ Fits(Held, p, t)
  /\ IF CanMove(p, t)
     THEN disk' = Moved(p, t) /\ ToStep(r, "row")
     ELSE disk' = NotMoved(t) /\ Answer(r)
  /\ UNCHANGED <<tables, faults>>

\* Mutant: rows in the trash stay where they were.
RelocatedActive(rows, p, t) ==
  [i \in DOMAIN rows |->
     IF rows[i] # None /\ ~rows[i].trashed /\ rows[i].path \in Below[p] \ {p}
     THEN [rows[i] EXCEPT !.path = Rebased(@, p, t)] ELSE rows[i]]

\* MoveDirectoryTree: the row of the folder, found by its id, and those of
\* everything below its old path, in the trash or not, in one transaction.
Relocated(rows, p, t) ==
  [i \in DOMAIN rows |-> IF rows[i] # None /\ rows[i].path \in Below[p] \ {p}
                         THEN [rows[i] EXCEPT !.path = Rebased(@, p, t)] ELSE rows[i]]

OnePerPath(rows) ==
  \A i, j \in DOMAIN rows :
    rows[i] # None /\ rows[j] # None /\ rows[i].path = rows[j].path => i = j

MoveDirectoryTree(r) ==
  LET d == Now(r).id  p == Now(r).from  t == Now(r).to
      rows == Relocated([dirs EXCEPT ![d].path = t], p, t)
      below == Relocated(files, p, t)
  IN
  /\ At(r, "movedir", "row") /\ Going /\ Fits(RowPaths, p, t)
  /\ IF dirs[d] # None /\ OnePerPath(rows) /\ OnePerPath(below)
     THEN dirs' = rows /\ files' = below /\ Then(r, <<>>)
     ELSE UNCHANGED tables /\ ToStep(r, "undo")
  /\ UNCHANGED <<disk, faults>>

MoveUndo(r) ==
  LET p == Now(r).from  t == Now(r).to IN
  /\ At(r, "movedir", "undo") /\ Going /\ Fits(Held, t, p)
  /\ disk' = IF CanMove(t, p) THEN Moved(t, p) ELSE NotMoved(p)
  /\ Answer(r) /\ UNCHANGED <<tables, faults>>

(***************************************************************************)
(* Files.                                                                  *)
(***************************************************************************)
Act(S) == ops' = ops + 1 /\ calm' = (calm /\ Unrelated(S))

\* The content of an Upload can take its place.  Where it cannot, the folder
\* of the place is there already or cannot be made.
CanPlace(p) == CanMkdirAll(Parent(p)) /\ disk[p] # Folder

UploadedDisk(p, c) == [MkdirAll(Parent(p)) EXCEPT ![p] = c]

Fresh(f) ==
  /\ files[f] = None /\ \A q \in Paths : disk[q] # f
  /\ \A g \in FileIds : files[g] # None => files[g].content # f

\* The end of Upload: content c goes to p.  UpsertFile inserts a row, or
\* writes the one that is there, and takes it out of the trash.
Stored(p, f, c) ==
  /\ CanPlace(p)
  /\ f \in FilesAt(p) \/ (FilesAt(p) = {} /\ Fresh(f))
  /\ disk' = UploadedDisk(p, c)
  /\ files' = [files EXCEPT ![f] = [path |-> p, trashed |-> FALSE, content |-> c]]

UploadFile(p, f) ==
  /\ FilesAt(p) = {} /\ NamePasses(p) /\ Act({p})
  /\ Stored(p, f, f) /\ UNCHANGED <<dirs, req>>

TrashFile(f) ==
  /\ files[f] # None /\ ~files[f].trashed /\ Act({files[f].path})
  /\ files' = [files EXCEPT ![f].trashed = TRUE]
  /\ UNCHANGED <<dirs, disk, req, faults>>

RestoreFile(f) ==
  /\ files[f] # None /\ files[f].trashed /\ Act({files[f].path})
  /\ files' = [files EXCEPT ![f].trashed = FALSE]
  /\ UNCHANGED <<dirs, disk, req, faults>>

\* permanentlyDeleteFile, in and out of the trash.
EraseFile(f) ==
  /\ files[f] # None /\ CanRemove(files[f].path) /\ Act({files[f].path})
  /\ disk' = Removed(files[f].path) /\ files' = [files EXCEPT ![f] = None]
  /\ UNCHANGED <<dirs, req, faults>>

MayMoveFile(f, t) ==
  files[f] # None /\ ~files[f].trashed /\ ~DestinationOccupied(t)

MovesFile(f, t) ==
  /\ MayMoveFile(f, t)
  /\ \/ /\ CanMove(files[f].path, t) /\ Fits(Held, files[f].path, t)
        /\ disk' = Moved(files[f].path, t) /\ files' = [files EXCEPT ![f].path = t]
     \/ ~CanMove(files[f].path, t) /\ disk' = NotMoved(t) /\ files' = files

MoveFile(f, t) ==
  /\ MovesFile(f, t) /\ Act({files[f].path, t}) /\ UNCHANGED <<dirs, req, faults>>

(***************************************************************************)
(* PurgeExpiredTrash: files that expired, with their contents; then the    *)
(* rows, and only the rows, of the folders that expired.                   *)
(***************************************************************************)
PurgeFiles(r) ==
  /\ At(r, "purge", "start") /\ Going
  /\ \E S \in SUBSET {f \in FileIds : files[f] # None /\ files[f].trashed} :
       /\ \A f \in S : CanRemove(files[f].path)
       /\ disk' = [q \in Paths |-> IF \E f \in S : files[f].path = q THEN Absent ELSE disk[q]]
       /\ files' = [f \in FileIds |-> IF f \in S THEN None ELSE files[f]]
  /\ \/ ToStep(r, "row")
     \/ /\ \E f \in FileIds : files[f] # None /\ files[f].trashed /\ ~CanRemove(files[f].path)
        /\ Answer(r)
  /\ UNCHANGED <<dirs, faults>>

PurgeDirectories(r) ==
  /\ At(r, "purge", "row") /\ Going
  /\ \E S \in SUBSET {d \in DirIds : dirs[d] # None /\ dirs[d].trashed} :
       dirs' = [d \in DirIds |-> IF d \in S THEN None ELSE dirs[d]]
  /\ Answer(r) /\ UNCHANGED <<files, disk, faults>>

(***************************************************************************)
(* What can go wrong: the database refuses a statement, the server dies.   *)
(***************************************************************************)
DatabaseError(r) ==
  /\ Busy(r) /\ Now(r).step = "row" /\ Going
  /\ faults < MaxFaults /\ faults' = faults + 1
  /\ IF Now(r).op = "movedir" THEN ToStep(r, "undo") ELSE Answer(r)
  /\ UNCHANGED <<tables, disk>>

Crash ==
  /\ faults < MaxFaults /\ faults' = faults + 1
  /\ \E r \in Requests : Busy(r)
  /\ req' = [r \in Requests |-> <<>>]
  /\ calm' = (calm /\ \A r \in Requests : ~At(r, "movedir", "row") /\ ~At(r, "movedir", "undo"))
  /\ UNCHANGED <<tables, disk, ops>>

\* A file is in the way of everything below it and of a folder of its path,
\* and the folder is in the way of the file.
CrossedFiles ==
  {f \in FileIds : files[f] # None /\
     \/ DirsAt(files[f].path) # {}
     \/ \E p \in Above[files[f].path] \ {files[f].path} : FilesAt(p) # {}}

CrossedDirs ==
  {d \in DirIds : dirs[d] # None /\
     \E p \in Above[dirs[d].path] : FilesAt(p) # {} \/ disk[p] \in Contents}

Rows == {d \in DirIds : dirs[d] # None} \cup {f \in FileIds : files[f] # None}

\* The server comes up on a tree that was built folder by folder and file by
\* file.
Built ==
  /\ dirs \in [DirIds -> [path : Paths, trashed : {FALSE}] \cup {None}]
  /\ files \in [FileIds -> [path : Paths, trashed : {FALSE}, content : FileIds] \cup {None}]
  /\ \A f \in FileIds : files[f] # None => files[f].content = f
  /\ OnePerPath(dirs) /\ OnePerPath(files)
  /\ \A p \in RowPaths : /\ DirsAt(p) = {} \/ FilesAt(p) = {}
                         /\ \A q \in Above[p] \ {p} : LiveDirsAt(q) # {}
  /\ disk = [p \in Paths |->
       IF DirsAt(p) # {} THEN Folder
       ELSE IF FilesAt(p) # {} THEN CHOOSE f \in FileIds : f \in FilesAt(p) ELSE Absent]

Init ==
  /\ Built /\ req = [r \in Requests |-> <<>>]
  /\ ops = 0 /\ faults = 0 /\ calm = TRUE /\ crossed = CrossedFiles \cup CrossedDirs

\* The requests, by the verbs of the shell (nexuscloud files), which finds the
\* row by its path in a listing; the API has a method per table and takes the ID.
UploadRequest == \E f \in FileIds, p \in Paths : UploadFile(p, f)

MkdirRequest(r) == \E p \in Paths : Submit(r, Item("mkdir", None, Root, p))

RmRequest(r) ==
  \/ \E d \in DirIds, op \in {"rmdir", "erase"} :
       dirs[d] # None /\ Submit(r, Item(op, d, Root, Root))
  \/ \E f \in FileIds : TrashFile(f) \/ EraseFile(f)

MvRequest(r) ==
  \E t \in Paths :
    \/ \E d \in DirIds : dirs[d] # None /\ Submit(r, Item("movedir", d, Root, t))
    \/ \E f \in FileIds : MoveFile(f, t)

TrashRestoreRequest(r) ==
  \/ \E d \in DirIds : dirs[d] # None /\ Submit(r, Item("restore", d, Root, Root))
  \/ \E f \in FileIds : RestoreFile(f)

UserRequest(r) ==
  \/ UploadRequest \/ MkdirRequest(r) \/ RmRequest(r) \/ MvRequest(r) \/ TrashRestoreRequest(r)
  \/ Submit(r, Item("purge", None, Root, Root))

DirectoryStep(r) ==
  \/ MkdirCheck(r) \/ MkdirDisk(r) \/ MkdirRow(r)
  \/ DeleteCheck(r) \/ DeleteDisk(r) \/ SoftDeleteDirectory(r)
  \/ EraseCheck(r) \/ EraseDisk(r) \/ EraseRow(r)
  \/ RestoreCheck(r) \/ RestoreRow(r) \/ RestoreDisk(r)
  \/ MoveCheck(r) \/ MoveDisk(r) \/ MoveDirectoryTree(r) \/ MoveUndo(r)
  \/ PurgeFiles(r) \/ PurgeDirectories(r)

NoteCrossed == crossed' = (crossed \cap Rows') \cup CrossedFiles' \cup CrossedDirs'

TreeNext ==
  \/ \E r \in Requests : \/ MayBegin(r) /\ UserRequest(r)
                         \/ Busy(r) /\ (DirectoryStep(r) \/ DatabaseError(r))
  \/ Crash

(***************************************************************************)
(* Properties.                                                             *)
(***************************************************************************)
\* Every variable has its type (the rows, the disk and the requests).
TreeTypeOK ==
  /\ dirs \in [DirIds -> DirRows \cup {None}]
  /\ files \in [FileIds -> FileRows \cup {None}]
  /\ disk \in [Paths -> Contents \cup {Absent, Folder}]
  /\ \A r \in Requests : \A i \in DOMAIN req[r] : req[r][i] \in Items
  /\ ops \in 0 .. MaxOps /\ faults \in 0 .. MaxFaults
  /\ calm \in BOOLEAN /\ crossed \subseteq FileIds \cup DirIds

Moving(f) ==
  \E r \in Requests :
    /\ At(r, "movedir", "row") \/ At(r, "movedir", "undo")
    /\ files[f].path \in Below[Now(r).from]

\* The content of a file, in the trash or not, lies at its path, whatever is
\* moved, erased or undone around it (MoveDirectoryTree, its undo, the
\* folders that keep trashed files): requests that meet only on unrelated
\* paths, and errors of the database, do not part a file from its content.
FilesStand ==
  calm => \A f \in FileIds \ crossed :
            files[f] # None /\ ~Moving(f) => disk[files[f].path] = files[f].content

\* As long as the database refuses nothing, an active folder is there on
\* disk when nobody is at it (Mkdir, RestoreDirectory, MoveDirectory).
FoldersStand ==
  calm /\ faults = 0 => \A d \in DirIds \ crossed :
    \/ dirs[d] = None \/ dirs[d].trashed \/ disk[dirs[d].path] = Folder
    \/ \E r \in Requests : Busy(r) /\ \E p \in Reach(Now(r)) : Related(p, dirs[d].path)

\* Erasing a folder never takes the content of a file with it
\* (permanentlyDeleteDirectory: "nunca es recursivo, asi que jamas se
\* llevaria su contenido por delante").
\* The code does not keep it: README, "What the code does not keep".
FolderErasureSparesFiles ==
  [][\A r \in Requests : EraseDisk(r) => \A p \in Paths : disk[p] \in Contents => disk'[p] = disk[p]]_vars

Next == TreeNext /\ NoteCrossed
Spec == Init /\ [][Next]_vars
=============================================================================
