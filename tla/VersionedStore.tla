--------------------------- MODULE VersionedStore ---------------------------
(***************************************************************************)
(* What the file store promises whoever uses it, as long as nothing fails  *)
(* and requests keep apart: files with a name, a content and a history.    *)
(* Every operation is one step, and none of them loses a content: what a   *)
(* file held goes into its history when versioning is on, and leaves it    *)
(* only to become its content again or with the file itself.  The history  *)
(* has no limit here (versioning.maxVersionsPerFile = 0).                  *)
(***************************************************************************)
EXTENDS Naturals

CONSTANTS FileIds, FileNames, Contents, MaxNum, NoFile, Nothing

VARIABLES files,      \* [FileIds -> [name, content, trashed]]
          versions,   \* [FileIds -> [1 .. MaxNum -> content]]
          versioning  \* whether contents are kept

vars == <<files, versions, versioning>>

There(f) == files[f] # NoFile
Free(name) == \A f \in FileIds : There(f) => files[f].name # name
Numbers(f) == {n \in 1 .. MaxNum : versions[f][n] # Nothing}
Empty == [n \in 1 .. MaxNum |-> Nothing]

\* The numbers past every number of the history.
After(f) == {n \in 1 .. MaxNum : \A m \in Numbers(f) : m < n}

\* The history of f once its content has been put aside under a new number;
\* without versioning the content is given up.
Kept(f) ==
  IF versioning THEN {[versions[f] EXCEPT ![n] = files[f].content] : n \in After(f)}
  ELSE {versions[f]}

Create(f, name, c) ==
  /\ ~There(f) /\ Free(name)
  /\ files' = [files EXCEPT ![f] = [name |-> name, content |-> c, trashed |-> FALSE]]
  /\ versions' = [versions EXCEPT ![f] = Empty]
  /\ UNCHANGED versioning

Save(f, c) ==
  /\ There(f) /\ ~files[f].trashed /\ c # files[f].content
  /\ files' = [files EXCEPT ![f].content = c]
  /\ \E h \in Kept(f) : versions' = [versions EXCEPT ![f] = h]
  /\ UNCHANGED versioning

Restore(f, n) ==
  /\ There(f) /\ n \in Numbers(f)
  /\ files' = [files EXCEPT ![f].content = versions[f][n]]
  /\ \E h \in Kept(f) : versions' = [versions EXCEPT ![f] = [h EXCEPT ![n] = Nothing]]
  /\ UNCHANGED versioning

\* Into the trash and out of it.
Flag(f, trashed) ==
  /\ There(f) /\ files' = [files EXCEPT ![f].trashed = trashed]
  /\ UNCHANGED <<versions, versioning>>

Move(f, name) ==
  /\ There(f) /\ ~files[f].trashed /\ Free(name)
  /\ files' = [files EXCEPT ![f].name = name]
  /\ UNCHANGED <<versions, versioning>>

Erase(f) ==
  /\ There(f)
  /\ files' = [files EXCEPT ![f] = NoFile]
  /\ versions' = [versions EXCEPT ![f] = Empty]
  /\ UNCHANGED versioning

Configure == versioning' = ~versioning /\ UNCHANGED <<files, versions>>

Init ==
  /\ files = [f \in FileIds |-> NoFile]
  /\ versions = [f \in FileIds |-> Empty] /\ versioning = TRUE

Next ==
  \/ \E f \in FileIds :
       \/ \E name \in FileNames, c \in Contents : Create(f, name, c)
       \/ \E c \in Contents : Save(f, c)
       \/ \E n \in 1 .. MaxNum : Restore(f, n)
       \/ \E trashed \in BOOLEAN : Flag(f, trashed)
       \/ \E name \in FileNames : Move(f, name)
       \/ Erase(f)
  \/ Configure

Spec == Init /\ [][Next]_vars
=============================================================================
