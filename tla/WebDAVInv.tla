----------------------------- MODULE WebDAVInv ------------------------------
(***************************************************************************)
(* The inductive invariant of WebDAV, and of the tree below it: what its   *)
(* properties rest on.                                                     *)
(***************************************************************************)
EXTENDS WebDAV

(***************************************************************************)
(* The calls.                                                              *)
(***************************************************************************)
\* What a call of each kind says, at the step it has come to.
WellMade(i) ==
  /\ i \in Items
  /\ i.op \in {"mkdir", "put", "rename", "purge"} => i.id = None
  /\ i.op \in {"rmdir", "erase", "restore", "movedir", "list"} => i.id \in DirIds
  /\ i.op \in {"file", "over", "movefile"} => i.id \in FileIds
  /\ i.op \in {"mkdir", "put", "movedir", "movefile", "over", "rename"} => i.to \in Paths
  /\ i.op \in {"list", "rename"} => i.from \in Paths
  /\ i.op = "rename" => i.from # i.to
  /\ i.op \in {"rmdir", "erase", "movedir"} /\ i.step # "start" => i.from \in Paths
  /\ i.op = "movedir" /\ i.step # "start" => i.to \notin Below[i.from]
  /\ i.op = "restore" /\ i.step # "start" => i.to \in Paths
  /\ i.step = "undo" => i.op = "movedir"
  /\ i.copied # Torn /\ (i.op = "over" => i.copied # None)
  /\ i.op = "put" => i.copied = None

\* Calls that wait for others, and that others wait for.
Waiting == {"list", "file", "rmdir"}

\* A call that waits: the removal of a source for its copy, or a part of the
\* removal of a folder.
Chore(i) == i.step = "start" /\ i.op \in Waiting /\ i.copied = None
Follows(h, k, i) ==
  \/ h.op \in Waiting /\ Chore(i)
  \/ /\ h.op = "over" /\ k = 2 /\ i.op = "file" /\ i.step = "start"
     /\ i.id = h.id /\ i.to = h.to /\ i.copied = h.copied

Queues ==
  /\ req \in [Requests -> Seq(Items)]
  /\ \A r \in Requests : \A k \in DOMAIN req[r] :
       /\ WellMade(req[r][k])
       /\ k > 1 => Follows(req[r][1], k, req[r][k])

(***************************************************************************)
(* Whatever the requests do.                                               *)
(***************************************************************************)
\* What is on disk lies in a folder that lies in a folder.
InFolders == \A q \in Paths : \A p \in Above[q] \ {q} : disk[q] # Absent => disk[p] = Folder

Whole ==
  /\ \A q \in Paths : disk[q] # Torn
  /\ \A f \in FileIds : files[f] # None => files[f].content # Torn

Noted == CrossedFiles \cup CrossedDirs \subseteq crossed

Sound ==
  /\ TreeTypeOK /\ Queues /\ InFolders /\ Whole /\ Noted
  /\ OnePerPath(dirs) /\ OnePerPath(files)

(***************************************************************************)
(* As long as requests under way at once are about unrelated paths.        *)
(***************************************************************************)
Work(r) == {req[r][k] : k \in DOMAIN req[r]}

\* The row a call is about is there.
HasRow(i) ==
  /\ i.id \in DirIds => dirs[i.id] # None
  /\ i.id \in FileIds => files[i.id] # None

Present == \A r \in Requests : \A i \in Work(r) : HasRow(i)

Separate(S, T) == \A p \in S, q \in T : ~Related(p, q)

Apart ==
  \A r, s \in Requests : r # s =>
    \A i \in Work(r), j \in Work(s) : Separate(Reach(i), Reach(j))

\* What a call read of its row is still so.
ReadStill(i) ==
  /\ i.op \in {"rmdir", "erase", "movedir"} /\ i.step # "start" => dirs[i.id].path = i.from
  /\ i.op = "restore" /\ i.step # "start" => dirs[i.id].path = i.to
  /\ i.op = "movedir" /\ i.step # "start" => ~DestinationOccupied(i.to)
  /\ i.op = "mkdir" /\ i.step = "row" => disk[i.to] = Folder

\* The folder is renamed and its rows are not: what lay below it lies there,
\* and nothing is in the way of the rename back.
Renamed(p, t) ==
  /\ p \notin Below[t] /\ disk[t] # Absent
  /\ \A q \in Below[p] : disk[q] = Absent
  /\ \A q \in Above[p] \ {p} : disk[q] = Folder
  /\ \A f \in FileIds \ crossed : files[f] # None =>
       /\ files[f].path \notin Below[t]
       /\ files[f].path \in Below[p] =>
            /\ Rebased(files[f].path, p, t) \in Paths
            /\ disk[Rebased(files[f].path, p, t)] = files[f].content
  /\ faults = 0 => \A d \in DirIds \ crossed : dirs[d] # None /\ ~dirs[d].trashed =>
       /\ dirs[d].path \notin Below[t]
       /\ dirs[d].path \in Below[p] =>
            /\ Rebased(dirs[d].path, p, t) \in Paths
            /\ disk[Rebased(dirs[d].path, p, t)] = Folder

HalfWay(i) == i.op = "movedir" /\ i.step \in {"row", "undo"} => Renamed(i.from, i.to)

\* The source and the destination of a MOVE over a file.
CopyKept(i) ==
  /\ i.op = "over" => files[i.id].path # i.to
  /\ i.op = "file" /\ i.copied # None =>
       \E f \in FileIds \ {i.id} :
         /\ files[f] # None /\ ~files[f].trashed
         /\ files[f].path = i.to /\ files[f].content = i.copied

Underway(i) == ReadStill(i) /\ HalfWay(i) /\ CopyKept(i)

\* The request that has taken the folder of a row away, for now or for good.
Leaving(r, d) ==
  \/ /\ At(r, "rmdir", "row") \/ At(r, "erase", "row") \/ At(r, "restore", "disk")
     /\ Now(r).id = d
  \/ /\ At(r, "movedir", "row") \/ At(r, "movedir", "undo")
     /\ dirs[d].path \in Below[Now(r).from]

FoldersHold ==
  faults = 0 => \A d \in DirIds \ crossed : dirs[d] # None /\ ~dirs[d].trashed =>
    disk[dirs[d].path] = Folder \/ \E r \in Requests : Leaving(r, d)

FilesHold ==
  \A f \in FileIds \ crossed :
    files[f] # None /\ ~Moving(f) => disk[files[f].path] = files[f].content

Calm ==
  /\ Present /\ Apart /\ FilesHold /\ FoldersHold
  /\ \A r \in Requests : \A i \in Work(r) : i = Now(r) => Underway(i)

IInv == Sound /\ (calm => Calm)
=============================================================================
