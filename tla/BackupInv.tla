----------------------------- MODULE BackupInv ------------------------------
(***************************************************************************)
(* The inductive invariants behind the properties of module Backup, in the *)
(* order in which BackupProofs builds them on each other: types, who works *)
(* on which job, what retention has begun to remove, what is stored.       *)
(***************************************************************************)
EXTENDS Backup

CopyingSteps == {"reference", "pools"}
WorkSteps == CopyingSteps \cup {"finalize", "finish", "fail"}
RemoveSteps == {"remove", "drop"}
ReadSteps == {"restore", "check", "verify", "upload", "record"}

Copying(r) == run[r].pc \in CopyingSteps
Working(r) == run[r].pc \in WorkSteps

(***************************************************************************)
(* Types.                                                                  *)
(***************************************************************************)
\* What a run has listed has a content.
Lists(s) == s.pc \in CopyingSteps => \A f \in s.todo : s.seen[f] # None

\* What is there has an inode.
TInv ==
  /\ TypeOK
  /\ \A r \in Runners : Lists(run[r])
  /\ \A j \in Jobs : \A f \in Files : copy[j][f] # None => bytes[copy[j][f]][f] # None

(***************************************************************************)
(* Who works on which job.                                                 *)
(***************************************************************************)
\* A job that nobody works on any more: completed, or its row removed.
Closed(j) == j <= last /\ (jobs[j] = None \/ jobs[j].status = "completed")

\* A run has a row of its own that says "running".
Owns(s) ==
  s.pc \in WorkSteps =>
    /\ s.job \in Jobs /\ s.job <= last
    /\ jobs[s.job] # None /\ jobs[s.job].status = "running" /\ jobs[s.job].dest = s.dest

\* What a runner has in hand besides.
Uses(s) ==
  /\ s.prev # None => Closed(s.prev)
  /\ s.pc \in ReadSteps => s.job \in Jobs /\ Closed(s.job)
  /\ s.pc \in RemoveSteps => s.old # {}
  /\ s.pc = "prune" => s.job \in Jobs /\ s.job <= last
  /\ s.pc = "finalize" => s.dest = "remote"
  /\ \A j \in s.old : Closed(j) /\ (jobs[j] # None => jobs[j].dest = s.dest)

\* Nothing is known of a job that has not begun.
Untouched(j) ==
  /\ jobs[j] = None /\ inbound[j] = "none" /\ note[j] = None
  /\ \A f \in Files : copy[j][f] = None
  /\ j \notin doomed /\ j \notin aged

Ownership ==
  /\ \A r \in Runners : Owns(run[r]) /\ Uses(run[r])
  /\ \A q, r \in Runners : Working(q) /\ Working(r) /\ q # r => run[q].job # run[r].job
  /\ \A j \in Jobs : j > last => Untouched(j)

(***************************************************************************)
(* What retention has begun to remove.                                     *)
(***************************************************************************)
\* No other server can have heard of the job.
Private(s) == s.pc \in WorkSteps /\ (s.dest = "local" \/ s.pc \notin {"finish", "fail"})

\* The job of a run is not registered, let alone removed, before it ends;
\* nor does it grow old.
Fresh(s) ==
  /\ Private(s) => inbound[s.job] = "none" /\ s.job \notin doomed
  /\ s.pc \in WorkSteps \cup {"prune"} => s.job \notin aged

\* A good local backup that is newer, or the job itself.
KeptFrom(j) == \E i \in Completed("local") : i >= j /\ i \notin doomed
KeptAfter(j) == \E i \in Completed("local") : i > j /\ i \notin doomed

Prunes(s) ==
  /\ s.pc = "prune" => s.keep > 0 \/ s.days
  /\ s.pc = "prune" /\ s.dest = "local" => KeptFrom(s.job)
  /\ s.pc \in RemoveSteps /\ s.dest = "local" => \A j \in s.old : KeptAfter(j)
  /\ s.pc = "drop" => Latest(s.old) \in doomed

Retention ==
  /\ \A r \in Runners : Fresh(run[r]) /\ Prunes(run[r])
  /\ \A j \in Jobs : inbound[j] # "none" /\ jobs[j] # None => jobs[j].dest = "remote"
  /\ \A j \in doomed : j \in Completed("local") => KeptAfter(j)
  /\ \A j \in aged : \A i \in 1 .. j - 1 : i \in aged

(***************************************************************************)
(* What is stored.                                                         *)
(***************************************************************************)
\* What the folder of j has of f, if anything, is this content or has gone
\* bad; what it did not link to is sealed with this key.
Agrees(j, f, sha, key) ==
  copy[j][f] # None =>
    \/ bytes[copy[j][f]][f] = Rotten
    \/ /\ bytes[copy[j][f]][f][1] = sha
       /\ copy[j][f] = j => bytes[copy[j][f]][f][2] = key

Holds(j, f, sha, key) == copy[j][f] # None /\ Agrees(j, f, sha, key)

\* A manifest tells the truth about what is there.
Truthful(j) ==
  note[j] # None =>
    \A f \in Files : note[j].sha[f] # None => Agrees(j, f, note[j].sha[f], note[j].key)

\* There is a manifest, and everything that it names.
Whole(j) ==
  /\ note[j] # None
  /\ \A f \in Files : note[j].sha[f] # None => copy[j][f] # None

\* No folder shares the inode of a job that may still write it.
Linked(j) == \A f \in Files :
  copy[j][f] # None =>
    /\ copy[j][f] <= last
    /\ copy[j][f] = j \/ \A r \in Runners : Copying(r) => run[r].job # copy[j][f]

\* A run that copies.
Copies(s) ==
  s.pc \in CopyingSteps =>
    /\ note[s.job] = None
    /\ s.pc = "reference" => s.done = NoShas /\ s.todo = {}
    /\ \A f \in Files :
         /\ s.done[f] # None => Holds(s.job, f, s.done[f], s.key)
         /\ s.prev # None /\ s.ref[f] # None /\ copy[s.prev][f] # None =>
              \/ bytes[copy[s.prev][f]][f] = Rotten
              \/ bytes[copy[s.prev][f]][f][1] = s.ref[f]
    /\ \A f \in s.steady : row[f] # None /\
         (PoolOf[f] \in s.pools \/ f \in s.todo \/ s.done[f] # None)

\* A run that has written its manifest.
Ends(s) ==
  s.pc \in {"finalize", "finish"} =>
    /\ s.job \notin doomed => Whole(s.job)
    /\ \A f \in s.steady : s.done[f] # None
    /\ s.pc = "finish" /\ s.dest = "remote" =>
         inbound[s.job] = "completed" \/ s.job \in doomed

\* A command that reads a backup.
Restores(s) ==
  s.pc \in {"restore", "check"} =>
    /\ s.job \notin doomed =>
         IsCompleted(s.job) /\ note[s.job] # None /\ s.seen = note[s.job].sha
    /\ \A f \in s.todo \cup s.errors : s.seen[f] # None
    /\ s.pc = "restore" =>
         \A f \in Files \ (s.todo \cup s.errors) : s.done[f] = s.seen[f]
    /\ \A f \in s.errors \ s.failed :
         \/ s.job \in doomed
         \/ bytes[copy[s.job][f]][f] = Rotten
         \/ bytes[copy[s.job][f]][f][2] # s.key

Contained ==
  /\ \A r \in Runners : Copies(run[r]) /\ Ends(run[r]) /\ Restores(run[r])
  /\ \A j \in Jobs : Truthful(j) /\ Linked(j)
  /\ \A j \in Jobs : IsCompleted(j) /\ j \notin doomed => Whole(j)
  /\ ReceiverKnows
=============================================================================
