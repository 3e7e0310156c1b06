------------------------------- MODULE WebDAV -------------------------------
(***************************************************************************)
(* The WebDAV access (internal/webdav) to the tree of DirectoryTree: what  *)
(* the methods that change the tree ask of the file service, call by call, *)
(* while the requests of the API go on.  The handler of x/net, which calls *)
(* this file system, is seen from here: a method first takes the locks of  *)
(* its paths, and a MOVE looks at its destination before it renames.  It   *)
(* closes what it opened for writing also when the copy into it failed.    *)
(*                                                                         *)
(* Abstractions.  A request stands for a client too, and holds one LOCK at *)
(* most.  COPY is the subject of CopySpec alone, one file at a time.       *)
(***************************************************************************)
EXTENDS DirectoryTree, SequencesExt

CONSTANT DavClients     \* the others call the API

ASSUME WebDAVAssumption == DavClients \subseteq Requests

(***************************************************************************)
(* lookup lists the folder of the path: what is in the trash is not there. *)
(***************************************************************************)
IsDir(p) == p = Root \/ LiveDirsAt(p) # {}
IsFile(p) == ~IsDir(p) /\ LiveFilesAt(p) # {}
Exists(p) == IsDir(p) \/ IsFile(p)
DirOf(p) == CHOOSE d \in LiveDirsAt(p) : TRUE
FileOf(p) == CHOOSE f \in LiveFilesAt(p) : TRUE

(***************************************************************************)
(* MKCOL and PUT.                                                          *)
(***************************************************************************)
Mkcol(r, p) ==
  /\ ~Exists(p) /\ IsDir(Parent(p))
  /\ Submit(r, Item("mkdir", None, Root, p))

\* openForWrite: the body is copied into an Upload that runs beside it.
OpenForWrite(r, p) ==
  /\ IsDir(Parent(p)) /\ ~IsDir(p)
  /\ Submit(r, Item("put", None, Root, p))

\* newUploadFile starts an Upload, which looks for the name in the trash and then
\* reads the pipe.  One that is refused closes the pipe.
UploadBegins(r) ==
  /\ At(r, "put", "start") /\ Going
  /\ \/ NamePasses(Now(r).to) /\ ToStep(r, "disk")
     \/ TrashOccupies(Now(r).to) /\ Answer(r) /\ UNCHANGED faults
  /\ UNCHANGED <<tables, disk>>

\* The client goes away, or the body is longer than the limit: a part has
\* gone through the pipe, and the tracker of the body has the error.
BodyBreaks(r) ==
  /\ At(r, "put", "disk") /\ ~Now(r).flag /\ Going
  /\ faults < MaxFaults /\ faults' = faults + 1
  /\ Continue(r, [Now(r) EXCEPT !.flag = TRUE])
  /\ UNCHANGED <<tables, disk>>

\* What has gone through the pipe: the body c, or what a COPY has read.
Received(r, c) ==
  IF Now(r).flag THEN Torn ELSE IF Now(r).copied = None THEN c ELSE Now(r).copied

\* The pipe ends without an error: Upload stores what it has read.
PipeEnds(r) ==
  LET p == Now(r).to IN
  \/ \E f, c \in FileIds :
       /\ Fresh(c) /\ (FilesAt(p) = {} => f = c)
       /\ Stored(p, f, Received(r, c))
  \/ ~CanPlace(p) /\ UNCHANGED <<files, disk>>

\* Mutant: Close does not ask the tracker.
CloseUntracked(r) ==
  /\ At(r, "put", "disk") /\ Going /\ PipeEnds(r)
  /\ Answer(r) /\ UNCHANGED <<dirs, faults>>

\* uploadFile.Close: with an error in the tracker the pipe ends with it, and
\* the Upload fails.
CloseUpload(r) ==
  /\ At(r, "put", "disk") /\ Going
  /\ IF Now(r).flag THEN UNCHANGED <<files, disk>> ELSE PipeEnds(r)
  /\ Answer(r) /\ UNCHANGED <<dirs, faults>>

(***************************************************************************)
(* DELETE: a file, or a folder with all that is in it, one call each.      *)
(***************************************************************************)
RemoveAll(r, p) ==
  /\ Exists(p)
  /\ Submit(r, IF IsDir(p) THEN Item("list", DirOf(p), p, Root)
                  ELSE Item("file", FileOf(p), Root, Root))

\* removeTree: the files of the folder, its folders, and then the folder.
RemoveTree(r) ==
  LET p == Now(r).from
      fs == SetToSeq({Item("file", f, Root, Root) : f \in FilesIn(p)})
      ds == SetToSeq({Item("list", d, dirs[d].path, Root) : d \in DirsIn(p)})
  IN
  /\ At(r, "list", "start") /\ Going
  /\ Then(r, fs \o ds \o <<Item("rmdir", Now(r).id, Root, Root)>>)
  /\ UNCHANGED <<tables, disk, faults>>

DeleteFile(r) ==
  LET f == Now(r).id IN
  /\ At(r, "file", "start") /\ Going
  /\ IF files[f] # None
     THEN files' = [files EXCEPT ![f].trashed = TRUE] /\ Then(r, <<>>)
     ELSE files' = files /\ Answer(r)
  /\ UNCHANGED <<dirs, disk, faults>>

(***************************************************************************)
(* MOVE.  With the trash on, the removal of a destination that exists is   *)
(* not done (beginOverwrite): a folder is refused, a file noted.           *)
(***************************************************************************)
Move(r, p, t, overwrite) ==
  /\ Exists(p) /\ p # t /\ (Exists(t) => overwrite /\ IsFile(t))
  /\ Submit(r, [Item("rename", None, p, t) EXCEPT !.flag = Exists(t)])

\* Mutant: the source goes before the destination takes its content.
RenamingFirst(p, t, noted) ==
  IF noted
  THEN <<[Item("file", FileOf(p), Root, t) EXCEPT !.copied = disk[p]],
         [Item("over", FileOf(p), Root, t) EXCEPT !.copied = disk[p]]>>
  ELSE IF IsDir(p) THEN <<Item("movedir", DirOf(p), Root, t)>>
  ELSE <<Item("movefile", FileOf(p), Root, t)>>

\* moveOverFile reads the source, gives its content to the destination and
\* removes the source; without a note the file or the folder is moved.
Renaming(p, t, noted) ==
  IF noted
  THEN <<[Item("over", FileOf(p), Root, t) EXCEPT !.copied = disk[p]],
         [Item("file", FileOf(p), Root, t) EXCEPT !.copied = disk[p]]>>
  ELSE IF IsDir(p) THEN <<Item("movedir", DirOf(p), Root, t)>>
  ELSE <<Item("movefile", FileOf(p), Root, t)>>

Rename(r) ==
  LET p == Now(r).from  t == Now(r).to IN
  /\ At(r, "rename", "start") /\ Going
  /\ IF Exists(p) /\ IsDir(Parent(t)) /\ (Now(r).flag => IsFile(p) /\ disk[p] \in Contents)
     THEN Then(r, Renaming(p, t, Now(r).flag)) ELSE Answer(r)
  /\ UNCHANGED <<tables, disk, faults>>

MoveOverFile(r) ==
  LET t == Now(r).to IN
  /\ At(r, "over", "start") /\ Going
  /\ \/ NamePasses(t) /\ (\E f \in FileIds : Stored(t, f, Now(r).copied)) /\ Then(r, <<>>)
     \/ /\ TrashOccupies(t) \/ ~CanPlace(t)
        /\ UNCHANGED <<files, disk, faults>> /\ Answer(r)
  /\ UNCHANGED dirs

MoveOneFile(r) ==
  LET f == Now(r).id  t == Now(r).to IN
  /\ At(r, "movefile", "start") /\ Going
  /\ \/ MovesFile(f, t)
     \/ ~MayMoveFile(f, t) /\ UNCHANGED <<files, disk>>
  /\ Answer(r) /\ UNCHANGED <<dirs, faults>>

Method(r) ==
  \/ \E p \in Paths :
       \/ Mkcol(r, p) \/ OpenForWrite(r, p) \/ RemoveAll(r, p)
       \/ \E t \in Paths, overwrite \in BOOLEAN : Move(r, p, t, overwrite)

DavStep(r) ==
  \/ UploadBegins(r) \/ BodyBreaks(r) \/ CloseUpload(r)
  \/ RemoveTree(r) \/ DeleteFile(r)
  \/ Rename(r) \/ MoveOverFile(r) \/ MoveOneFile(r)

DavNext ==
  /\ \/ \E r \in DavClients : (MayBegin(r) /\ Method(r)) \/ (Busy(r) /\ DavStep(r))
     \/ \E r \in Requests \ DavClients : MayBegin(r) /\ UserRequest(r)
     \/ \E r \in Requests : Busy(r) /\ (DirectoryStep(r) \/ DatabaseError(r))
     \/ Crash
  /\ NoteCrossed

DavSpec == Init /\ [][DavNext]_vars

(***************************************************************************)
(* COPY of a file, after beginOverwrite: it opens its source, and then its *)
(* destination as a PUT does.  Its own body is empty.                      *)
(***************************************************************************)
Copy(r, p, t, overwrite) ==
  /\ IsFile(p) /\ disk[p] \in Contents /\ p # t /\ IsDir(Parent(t))
  /\ Exists(t) => overwrite /\ IsFile(t)
  /\ Submit(r, [Item("put", None, p, t) EXCEPT !.copied = disk[p]])

\* The source cannot be read to its end.
SourceBreaks(r) ==
  /\ At(r, "put", "disk") /\ Now(r).copied \notin {None, Torn} /\ Going
  /\ faults < MaxFaults /\ faults' = faults + 1
  /\ Continue(r, [Now(r) EXCEPT !.copied = Torn])
  /\ UNCHANGED <<tables, disk>>

CopyNext ==
  \/ DavNext
  \/ /\ \E r \in DavClients :
          \/ Busy(r) /\ SourceBreaks(r)
          \/ /\ MayBegin(r)
             /\ \E p, t \in Paths, overwrite \in BOOLEAN : Copy(r, p, t, overwrite)
     /\ NoteCrossed

CopySpec == Init /\ [][CopyNext]_vars

(***************************************************************************)
(* Properties.                                                             *)
(***************************************************************************)
\* Every variable has its type.
TypeOK == TreeTypeOK

\* A MOVE over a file removes its source only when another active file holds
\* the content that was copied (moveOverFile: "sube antes de borrar").
SourceGoesLast ==
  calm => \A r \in Requests :
    At(r, "file", "start") /\ Now(r).copied # None =>
      \E f \in FileIds \ {Now(r).id} :
        files[f] # None /\ ~files[f].trashed /\ files[f].content = Now(r).copied

\* What was received only in part never becomes the content of a file: x/net
\* closes an upload whose copy has failed, and Close must tell (uploadFile).
\* COPY does not keep it: README, "What the code does not keep".
NothingTorn == \A f \in FileIds : files[f] # None => files[f].content # Torn
=============================================================================
