------------------------ MODULE FileStoreRefinement -------------------------
(***************************************************************************)
(* FileStore implements VersionedStore: the refinement mapping.            *)
(*                                                                         *)
(* The content of a file is what lies at its path; while the path is empty *)
(* (the content is on its way into the history or to another path) it is   *)
(* the one its row names.  A version is what lies in the version store     *)
(* under a number that is recorded - but not the version that a request    *)
(* has made and not yet followed by the new content.  A file is gone with  *)
(* the first step of its permanent deletion.                               *)
(***************************************************************************)
EXTENDS FileStoreInv

CurrentContent(i) ==
  IF disk[rows[i].key] = Nothing THEN rows[i].sha ELSE disk[rows[i].key]

\* The version made by a request that has not placed the new content yet.
InTheMaking(i, n) ==
  \E r \in Requests :
    /\ req[r].id = i /\ req[r].num = n
    /\ req[r].pc \in {"prune.list", "prune.content", "prune.row",
                      "upload.place", "restore.place"}

\* The value that stands for no file is not a file either.
ASSUME NoFileAssumption == NoRow \notin [name : Keys, content : Contents, trashed : BOOLEAN]

There(i) == InUse(i) /\ i \notin doomed

FilesSeen ==
  [i \in Ids |-> IF There(i)
                 THEN [name |-> rows[i].key, content |-> CurrentContent(i),
                       trashed |-> rows[i].trashed]
                 ELSE NoRow]

VersionsSeen ==
  [i \in Ids |-> [n \in Nums |->
     IF There(i) /\ n \in Recorded(i) /\ ~InTheMaking(i, n) THEN vault[i][n] ELSE Nothing]]

(***************************************************************************)
(* What the mapping relies on besides the invariants of FileStoreInv, for  *)
(* instances in which nothing fails and a history has no limit.            *)
(***************************************************************************)
SeenSound(i) ==
  LET q == Worker(i)
  IN /\ \/ q.pc \in {"upload.place", "upload.commit", "move.rename", "move.row"}
        \/ q.pc \in Snapshotting /\ q.op = "upload"
        => ~rows[i].trashed
     /\ q.pc \in Snapshotting /\ q.op = "upload" => q.sha # rows[i].sha
     /\ q.pc = "upload.place" =>
          /\ disk[rows[i].key] \in {Nothing, rows[i].sha}
          /\ q.num # 0 => q.sha # rows[i].sha
     /\ q.pc \in {"upload.place", "restore.place"} =>
          \A n \in Recorded(i) : q.num = 0 \/ n <= q.num

RInv == \A i \in Ids : InUse(i) => SeenSound(i)

Promise == INSTANCE VersionedStore
             WITH FileIds <- Ids, FileNames <- Keys, NoFile <- NoRow,
                  files <- FilesSeen, versions <- VersionsSeen

\* To whoever uses it each operation is one step: overwriting puts the old
\* content into the history and the new one in its place at once, restoring
\* exchanges the two, and nothing leaves a history otherwise (Upload,
\* RestoreVersion, MoveFile, permanentlyDeleteFile).
ImplementsVersionedStore == Promise!Spec
=============================================================================
