------------------------------- MODULE Backup -------------------------------
(***************************************************************************)
(* The backup manager (internal/backup) and the server that receives       *)
(* another server's backups (api/v1/backup_remote_handlers.go).  Runners   *)
(* are the schedule loop of the server and the commands of the CLI: each   *)
(* is one process, and nothing keeps two of them apart.  The file store    *)
(* goes on working meanwhile.                                              *)
(*                                                                         *)
(* Abstractions.  A content stands for its SHA-256.  A stored content is   *)
(* the pair of the content and the key it was sealed with; a key stands    *)
(* for passphrase and salt.  Jobs are numbered in the order in which they  *)
(* start.  ListJobs sorts the texts of started_at: that is the same order  *)
(* for jobs that do not start within one second of each other, because     *)
(* the texts leave out the zeros at their end, and such jobs are not       *)
(* modelled.  A directory entry of a job's                                 *)
(* folder names the job that created its inode, so that hard links share   *)
(* contents.  A file written in part belongs to a job that never           *)
(* completes; it is left out.  The file store is seen as its rows and its  *)
(* disk.  No run outlives the days of its retention.  RestoreToPool may    *)
(* put a file into another pool than its own, which makes a new file;      *)
(* the rows of new files are left out.                                     *)
(***************************************************************************)
EXTENDS Integers, FiniteSets

CONSTANTS
  Files, Blobs, Pools, Keys, Runners,
  PoolOf,      \* the pool of each file
  MaxJobs,     \* bound: jobs ever started
  MaxWrites,   \* bound: what users and administrators do
  MaxFaults,   \* bound: errors, lost answers, deaths and bad sectors
  Options,     \* the RunOptions of the commands of the CLI
  Schedule,    \* the RunOptions of the schedule loop
  Garbage,     \* what a bad sector or a wrong key yields
  None

Jobs == 1 .. MaxJobs
Optional(S) == S \cup {None}
Contents == Blobs \cup {Garbage}
Destinations == {"local", "remote"}

RunOptions ==
  [dest : Destinations, pools : SUBSET Pools, incremental : BOOLEAN,
   key : Optional(Keys), keep : Nat, days : BOOLEAN]

ASSUME BackupAssumption ==
  /\ MaxJobs \in Nat /\ MaxWrites \in Nat /\ MaxFaults \in Nat
  /\ PoolOf \in [Files -> Pools]
  /\ Options \subseteq RunOptions /\ Schedule \in RunOptions
  /\ None \notin Contents /\ None \notin Keys /\ None \notin Nat

VARIABLES
  row,       \* the SHA-256 in the row of each active file
  disk,      \* the content of each file in its pool
  mode,      \* of each pool: active with a policy, active with "off", disabled
  jobs,      \* table backup_jobs of this server
  inbound,   \* the status of each job in backup_jobs of the receiver
  copy,      \* the inode of each file in each job's folder
  bytes,     \* the content of each inode
  note,      \* manifest.json in each job's folder
  aged,      \* jobs older than the days of the retention
  run,       \* what every runner does
  last,      \* the number of the last job
  writes, faults,
  doomed     \* history: jobs whose removal has begun
             \* (So are run[r].steady, the files active since Begin, and
             \* run[r].failed, the files a call failed for.)

store == <<copy, bytes, note>>
pool == <<row, disk, mode>>
bounds == <<writes, faults>>
vars == <<pool, jobs, inbound, store, aged, run, last, bounds, doomed>>

Rotten == <<Garbage, None>>
Shas == [Files -> Optional(Contents)]
NoShas == [f \in Files |-> None]
Manifest == [sha : Shas, key : Optional(Keys)]
Modes == {"backed", "unbacked", "disabled"}
JobRow == [status : {"running", "completed", "failed"}, dest : Destinations]

\* What is absent is no row, no manifest and no content.
ASSUME NothingAssumption ==
  None \notin JobRow /\ None \notin Manifest /\ None \notin Contents \X Optional(Keys)

Steps == {"idle", "reference", "pools", "manifest", "finalize", "finish", "prune",
          "remove", "drop", "fail", "restore", "check", "verify", "upload", "record"}

Idle ==
  [pc |-> "idle", job |-> None, dest |-> "local", pools |-> {},
   incremental |-> FALSE, key |-> None, keep |-> 0, days |-> FALSE,
   prev |-> None, ref |-> NoShas, todo |-> {}, seen |-> NoShas, done |-> NoShas,
   old |-> {}, errors |-> {}, failed |-> {}, steady |-> {}]

(***************************************************************************)
(* The file store and the administrator, seen from here.                   *)
(***************************************************************************)
Acts == writes < MaxWrites /\ writes' = writes + 1

\* Upload puts the content in place and updates the row afterwards.
Write(f, b) ==
  /\ Acts /\ disk' = [disk EXCEPT ![f] = b]
  /\ UNCHANGED <<row, mode, jobs, inbound, store, aged, run, last, faults, doomed>>

Commit(f) ==
  /\ disk[f] # None /\ row[f] # disk[f]
  /\ row' = [row EXCEPT ![f] = disk[f]]
  /\ UNCHANGED <<disk, mode, jobs, inbound, store, aged, run, last, bounds, doomed>>

\* The file goes to the trash, or is erased from it.
Delete(f) ==
  /\ Acts /\ row[f] # None /\ row' = [row EXCEPT ![f] = None]
  /\ disk' \in {disk, [disk EXCEPT ![f] = None]}
  /\ run' = [r \in Runners |-> [run[r] EXCEPT !.steady = @ \ {f}]]
  /\ UNCHANGED <<mode, jobs, inbound, store, aged, last, faults, doomed>>

\* "storage pool disable" or "pool set-policy".
SetPool(p, m) ==
  /\ Acts /\ mode[p] # m /\ mode' = [mode EXCEPT ![p] = m]
  /\ UNCHANGED <<row, disk, jobs, inbound, store, aged, run, last, faults, doomed>>

\* Time: the oldest job grows older than the retention.
Age(j) ==
  /\ j \notin aged /\ j <= last /\ \A i \in 1 .. j - 1 : i \in aged
  /\ \A r \in Runners : run[r].pc # "idle" => run[r].job # j
  /\ aged' = aged \cup {j}
  /\ UNCHANGED <<pool, jobs, inbound, store, run, last, bounds, doomed>>

(***************************************************************************)
(* Run.                                                                    *)
(***************************************************************************)
Becomes(r, s) == run' = [run EXCEPT ![r] = s]
GoesTo(r, pc) == run' = [run EXCEPT ![r].pc = pc]

\* resolveCandidatePools, CreateJob and, for an encrypted run, the new salt.
Begin(r, o) ==
  LET chosen == {p \in o.pools : mode[p] = "backed"} IN
  /\ run[r].pc = "idle" /\ last < MaxJobs /\ chosen # {}
  /\ last' = last + 1
  /\ jobs' = [jobs EXCEPT ![last + 1] = [status |-> "running", dest |-> o.dest]]
  /\ Becomes(r, [Idle EXCEPT !.job = last + 1, !.dest = o.dest, !.pools = chosen,
                             !.incremental = o.incremental, !.key = o.key,
                             !.keep = o.keep, !.days = o.days,
       !.steady = {f \in Files : PoolOf[f] \in chosen /\ row[f] # None},
       !.pc = IF o.incremental /\ o.key = None THEN "reference" ELSE "pools"])
  /\ UNCHANGED <<pool, inbound, store, aged, bounds, doomed>>

Completed(d) ==
  {j \in Jobs : jobs[j] # None /\ jobs[j].status = "completed" /\ jobs[j].dest = d}

Latest(S) == CHOOSE j \in S : \A i \in S : i <= j

\* The newest completed job at the destination, and its manifest.  Without
\* one, or when list or manifest cannot be read, the run copies everything.
FindReference(r) ==
  LET done == Completed(run[r].dest) IN
  /\ run[r].pc = "reference"
  /\ \/ /\ Becomes(r, [run[r] EXCEPT !.pc = "pools",
            !.prev = IF done = {} THEN None ELSE Latest(done),
            !.ref = IF done = {} \/ note[Latest(done)] = None THEN NoShas
                    ELSE note[Latest(done)].sha])
        /\ UNCHANGED faults
     \/ GoesTo(r, "pools") /\ faults < MaxFaults /\ faults' = faults + 1
  /\ UNCHANGED <<pool, jobs, inbound, store, aged, last, writes, doomed>>

\* Mutant of ListPool: only what is not in the reference.
ListChanged(r, p) ==
  LET listed == {f \in Files : PoolOf[f] = p /\ row[f] # None /\ row[f] # run[r].ref[f]} IN
  /\ run[r].pc = "pools" /\ run[r].todo = {} /\ p \in run[r].pools
  /\ Becomes(r, [run[r] EXCEPT !.pools = @ \ {p}, !.todo = listed,
       !.seen = [f \in Files |-> IF f \in listed THEN row[f] ELSE @[f]]])
  /\ UNCHANGED <<pool, jobs, inbound, store, aged, last, bounds, doomed>>

\* ListFilesByPool: the active files of the next pool.
ListPool(r, p) ==
  LET listed == {f \in Files : PoolOf[f] = p /\ row[f] # None} IN
  /\ run[r].pc = "pools" /\ run[r].todo = {} /\ p \in run[r].pools
  /\ Becomes(r, [run[r] EXCEPT !.pools = @ \ {p}, !.todo = listed,
       !.seen = [f \in Files |-> IF f \in listed THEN row[f] ELSE @[f]]])
  /\ UNCHANGED <<pool, jobs, inbound, store, aged, last, bounds, doomed>>

\* What matters of a run whose files are done.
Ended(r, pc) ==
  [Idle EXCEPT !.pc = pc, !.job = run[r].job, !.dest = run[r].dest,
               !.keep = run[r].keep, !.days = run[r].days]

Copied(r, f) ==
  Becomes(r, [run[r] EXCEPT !.todo = @ \ {f}, !.done[f] = run[r].seen[f]])

\* dest.Link works: the same content as in the reference, whose copy is there.
Linkable(r, f) ==
  /\ run[r].prev # None /\ run[r].dest = "local"
  /\ run[r].ref[f] = run[r].seen[f]
  /\ copy[run[r].prev][f] # None

LinkFile(r, f) ==
  /\ run[r].pc = "pools" /\ f \in run[r].todo /\ Linkable(r, f)
  /\ copy' = [copy EXCEPT ![run[r].job][f] = copy[run[r].prev][f]]
  /\ Copied(r, f)
  /\ UNCHANGED <<pool, jobs, inbound, bytes, note, aged, last, bounds, doomed>>

\* Mutant of CopyFile: what is copied is not compared with the row.
CopyUnchecked(r, f) ==
  /\ run[r].pc = "pools" /\ f \in run[r].todo
  /\ IF Linkable(r, f) THEN faults < MaxFaults /\ faults' = faults + 1
                       ELSE UNCHANGED faults
  /\ IF disk[f] # None
     THEN /\ copy' = [copy EXCEPT ![run[r].job][f] = run[r].job]
          /\ bytes' = [bytes EXCEPT ![run[r].job][f] = <<disk[f], run[r].key>>]
          /\ Copied(r, f)
     ELSE Becomes(r, Ended(r, "fail")) /\ UNCHANGED <<copy, bytes>>
  /\ UNCHANGED <<pool, jobs, inbound, note, aged, last, writes, doomed>>

\* copyToDestination, when there is nothing to link to or the link fails.  A
\* content that is not the one of the row is taken away again, and the run
\* fails, as it does when there is none.
CopyFile(r, f) ==
  /\ run[r].pc = "pools" /\ f \in run[r].todo
  /\ IF Linkable(r, f) THEN faults < MaxFaults /\ faults' = faults + 1
                       ELSE UNCHANGED faults
  /\ IF disk[f] = run[r].seen[f]
     THEN /\ copy' = [copy EXCEPT ![run[r].job][f] = run[r].job]
          /\ bytes' = [bytes EXCEPT ![run[r].job][f] = <<disk[f], run[r].key>>]
          /\ Copied(r, f)
     ELSE Becomes(r, Ended(r, "fail")) /\ UNCHANGED <<copy, bytes>>
  /\ UNCHANGED <<pool, jobs, inbound, note, aged, last, writes, doomed>>

WriteManifest(r) ==
  /\ run[r].pc = "pools" /\ run[r].todo = {} /\ run[r].pools = {}
  /\ note' = [note EXCEPT ![run[r].job] = [sha |-> run[r].done, key |-> run[r].key]]
  /\ GoesTo(r, IF run[r].dest = "remote" THEN "finalize" ELSE "finish")
  /\ UNCHANGED <<pool, jobs, inbound, copy, bytes, aged, last, bounds, doomed>>

\* CompleteInboundBackup: the receiver reads the manifest, creates the row
\* and finishes it.
Finalize(r) ==
  /\ run[r].pc = "finalize"
  /\ inbound' = [inbound EXCEPT ![run[r].job] = "completed"]
  /\ GoesTo(r, "finish")
  /\ UNCHANGED <<pool, jobs, store, aged, last, bounds, doomed>>

\* Mutant of Finish: the job is completed before its receiver knows of it.
FinishEarly(r) ==
  /\ run[r].pc \in {"pools", "finish"}
  /\ jobs' = [jobs EXCEPT ![run[r].job].status = "completed"]
  /\ Becomes(r, IF run[r].keep > 0 \/ run[r].days THEN Ended(r, "prune") ELSE Idle)
  /\ UNCHANGED <<pool, inbound, store, aged, last, bounds, doomed>>

Finish(r) ==
  /\ run[r].pc = "finish"
  /\ jobs' = [jobs EXCEPT ![run[r].job].status = "completed"]
  /\ Becomes(r, IF run[r].keep > 0 \/ run[r].days THEN Ended(r, "prune") ELSE Idle)
  /\ UNCHANGED <<pool, inbound, store, aged, last, bounds, doomed>>

(***************************************************************************)
(* Retention.                                                              *)
(***************************************************************************)
\* Mutant of Surplus: the newest counts as surplus too.
SurplusWithNewest(r) ==
  LET done == Completed(run[r].dest)
      newer(j) == Cardinality({i \in done : i >= j})
  IN {j \in done : /\ run[r].keep > 0 => newer(j) >= run[r].keep
                   /\ run[r].days => j \in aged}

\* A policy that is off does not vote; one vote to keep is enough.
Surplus(r) ==
  LET done == Completed(run[r].dest)
      newer(j) == Cardinality({i \in done : i > j})
  IN {j \in done : /\ run[r].keep > 0 => newer(j) >= run[r].keep
                   /\ run[r].days => j \in aged}

PruneList(r) ==
  /\ run[r].pc = "prune"
  /\ Becomes(r, IF Surplus(r) = {} THEN Idle
                ELSE [run[r] EXCEPT !.pc = "remove", !.old = Surplus(r)])
  /\ UNCHANGED <<pool, jobs, inbound, store, aged, last, bounds, doomed>>

\* Mutant of Emptied: what the folder links to goes with it.
EmptiedThrough(j) ==
  /\ copy' = [i \in Jobs |-> [f \in Files |->
       IF copy[i][f] # None /\ copy[i][f] = copy[j][f] THEN None ELSE copy[i][f]]]
  /\ note' = [note EXCEPT ![j] = None]

Emptied(j) ==
  /\ copy' = [copy EXCEPT ![j] = [f \in Files |-> None]]
  /\ note' = [note EXCEPT ![j] = None]

\* The receiver's DeleteJob, whose error it only logs.
Forgotten(j) == [inbound EXCEPT ![j] = "none"]

\* The next one of the list, newest first.
RemoveJob(r) ==
  LET j == Latest(run[r].old) IN
  /\ run[r].pc = "remove"
  /\ Emptied(j) /\ doomed' = doomed \cup {j}
  /\ \/ /\ inbound' = IF run[r].dest = "remote" THEN Forgotten(j) ELSE inbound
        /\ UNCHANGED faults
     \/ /\ run[r].dest = "remote" /\ inbound[j] # "none" /\ UNCHANGED inbound
        /\ faults < MaxFaults /\ faults' = faults + 1
  /\ GoesTo(r, "drop")
  /\ UNCHANGED <<pool, jobs, bytes, aged, last, writes>>

\* On with the next one of the list.
PruneOn(r, s) == IF s.old = {} THEN Becomes(r, Idle) ELSE Becomes(r, s)

\* RemoveAll stops half-way: the row stays.
RemoveBreaks(r) ==
  LET j == Latest(run[r].old) IN
  /\ run[r].pc = "remove" /\ faults < MaxFaults /\ faults' = faults + 1
  /\ \E S \in SUBSET Files :
       copy' = [copy EXCEPT ![j] = [f \in Files |-> IF f \in S THEN None ELSE @[f]]]
  /\ doomed' = doomed \cup {j}
  /\ PruneOn(r, [run[r] EXCEPT !.old = @ \ {j}])
  /\ UNCHANGED <<pool, jobs, inbound, bytes, note, aged, last, writes>>

\* DeleteJob, of this server.  Its error is ignored.
DropRow(r) ==
  LET j == Latest(run[r].old) IN
  /\ run[r].pc = "drop"
  /\ \/ jobs' = [jobs EXCEPT ![j] = None] /\ UNCHANGED faults
     \/ faults < MaxFaults /\ faults' = faults + 1 /\ UNCHANGED jobs
  /\ PruneOn(r, [run[r] EXCEPT !.old = @ \ {j}, !.pc = "remove"])
  /\ UNCHANGED <<pool, inbound, store, aged, last, writes, doomed>>

\* The receiver's own retention takes received jobs for its own, because
\* both lie in its BackupsDir.
ReceiverPrunes(j) ==
  /\ inbound[j] = "completed" /\ Emptied(j) /\ doomed' = doomed \cup {j}
  /\ inbound' = Forgotten(j)
  /\ UNCHANGED <<pool, jobs, bytes, aged, run, last, bounds>>

(***************************************************************************)
(* What goes wrong.                                                        *)
(***************************************************************************)
Running(r) == run[r].pc \in {"reference", "pools", "finalize", "finish"}

\* A call fails, the context of the run expires, or the answer of the
\* receiver is lost after it has registered the job, or half of it.
Breaks(r) ==
  /\ Running(r) /\ faults < MaxFaults /\ faults' = faults + 1
  /\ \/ UNCHANGED inbound
     \/ /\ run[r].pc = "finalize"
        /\ \E s \in {"running", "completed"} :
             inbound' = [inbound EXCEPT ![run[r].job] = s]
  /\ Becomes(r, IF run[r].pc = "finish" THEN Idle ELSE Ended(r, "fail"))
  /\ UNCHANGED <<pool, jobs, store, aged, last, writes, doomed>>

\* Mutant of MarkFailed: a status that the table does not know.
MarkUnknown(r) ==
  /\ run[r].pc = "fail"
  /\ jobs' = [jobs EXCEPT ![run[r].job].status = "error"]
  /\ Becomes(r, Idle)
  /\ UNCHANGED <<pool, inbound, store, aged, last, bounds, doomed>>

\* fail: the row says so, unless that statement fails too, as it does when
\* it was the context that expired.
MarkFailed(r) ==
  /\ run[r].pc = "fail"
  /\ \/ jobs' = [jobs EXCEPT ![run[r].job].status = "failed"] /\ UNCHANGED faults
     \/ faults < MaxFaults /\ faults' = faults + 1 /\ UNCHANGED jobs
  /\ Becomes(r, Idle)
  /\ UNCHANGED <<pool, inbound, store, aged, last, writes, doomed>>

\* The process of a runner ends.
Dies(r) ==
  /\ run[r].pc # "idle" /\ faults < MaxFaults /\ faults' = faults + 1
  /\ Becomes(r, Idle)
  /\ UNCHANGED <<pool, jobs, inbound, store, aged, last, writes, doomed>>

\* A bad sector, under every link to it.
Rot(j, f) ==
  /\ faults < MaxFaults /\ faults' = faults + 1 /\ copy[j][f] # None
  /\ bytes' = [bytes EXCEPT ![copy[j][f]][f] = Rotten]
  /\ UNCHANGED <<pool, jobs, inbound, copy, note, aged, run, last, writes, doomed>>

(***************************************************************************)
(* Restore, RestoreToPool and Verify.                                      *)
(***************************************************************************)
\* resolveDecryptionKey: a key that is not needed is ignored.
KeyFor(j, k) == IF note[j].key = None THEN None ELSE k

\* What OpenFile and decryptingReader give: nothing, the content, or garbage.
Reads(j, f, k) ==
  IF copy[j][f] = None THEN None
  ELSE LET stored == bytes[copy[j][f]][f] IN
       IF stored[2] = k THEN stored[1] ELSE Garbage

\* verifyFileHash.
Verified(r, f) == Reads(run[r].job, f, run[r].key) = run[r].seen[f]

\* The job, its manifest and the key; else the command ends with an error.
Open(r, j, pc, k, ps) ==
  /\ run[r].pc = "idle" /\ Acts
  /\ jobs[j] # None /\ jobs[j].status = "completed" /\ note[j] # None
  /\ note[j].key # None => k # None
  /\ Becomes(r, [Idle EXCEPT !.pc = pc, !.job = j, !.dest = jobs[j].dest, !.pools = ps,
       !.key = KeyFor(j, k), !.seen = note[j].sha,
       !.todo = {f \in Files : note[j].sha[f] # None}])
  /\ UNCHANGED <<pool, jobs, inbound, store, aged, last, faults, doomed>>

\* The command goes on with the next file and reports this one at its end.
Blamed(r, f, left) ==
  [run[r] EXCEPT !.todo = @ \ {f}, !.done[f] = left, !.errors = @ \cup {f}]

\* Mutant of RestoreFile: whatever is there is written, and nothing removed.
RestoreAnything(r, f) ==
  LET got == Reads(run[r].job, f, run[r].key) IN
  /\ run[r].pc = "restore" /\ f \in run[r].todo
  /\ Becomes(r, [run[r] EXCEPT !.todo = @ \ {f}, !.done[f] = got])
  /\ UNCHANGED <<pool, jobs, inbound, store, aged, last, bounds, doomed>>

\* restoreOneFile: written while it is hashed.  What is not what the manifest
\* says is removed, and the error of that removal ignored.
RestoreFile(r, f) ==
  LET got == Reads(run[r].job, f, run[r].key) IN
  /\ run[r].pc = "restore" /\ f \in run[r].todo
  /\ IF got = run[r].seen[f]
     THEN Becomes(r, [run[r] EXCEPT !.todo = @ \ {f}, !.done[f] = got])
     ELSE \E left \in {None, got} : Becomes(r, Blamed(r, f, left))
  /\ UNCHANGED <<pool, jobs, inbound, store, aged, last, bounds, doomed>>

\* Verify: every file is read and compared, and nothing is written.
CheckFile(r, f) ==
  /\ run[r].pc = "check" /\ f \in run[r].todo
  /\ Becomes(r, IF Verified(r, f) THEN [run[r] EXCEPT !.todo = @ \ {f}]
                ELSE Blamed(r, f, None))
  /\ UNCHANGED <<pool, jobs, inbound, store, aged, last, bounds, doomed>>

\* RestoreToPool: verifyFileHash, then materializeAncestors.
VerifyFile(r, f) ==
  /\ run[r].pc = "verify" /\ f \in run[r].todo
  /\ Becomes(r, IF Verified(r, f)
       THEN [run[r] EXCEPT !.pc = "upload", !.ref[f] = run[r].seen[f]]
       ELSE Blamed(r, f, None))
  /\ UNCHANGED <<pool, jobs, inbound, store, aged, last, bounds, doomed>>

Lands(r, f) == PoolOf[f] \in run[r].pools

\* The copy is opened again and handed to Upload, which puts it in its place.
UploadFile(r, f) ==
  LET got == Reads(run[r].job, f, run[r].key) IN
  /\ run[r].pc = "upload" /\ run[r].ref[f] # None
  /\ Becomes(r, IF got = None
       THEN [Blamed(r, f, None) EXCEPT !.pc = "verify", !.ref = NoShas]
       ELSE [run[r] EXCEPT !.pc = "record", !.ref = [NoShas EXCEPT ![f] = got]])
  /\ disk' = IF got # None /\ Lands(r, f) THEN [disk EXCEPT ![f] = got] ELSE disk
  /\ UNCHANGED <<row, mode, jobs, inbound, store, aged, last, bounds, doomed>>

\* The row of Upload: the hash of what it was given, whatever that was.
RecordFile(r, f) ==
  /\ run[r].pc = "record" /\ run[r].ref[f] # None
  /\ row' = IF Lands(r, f) THEN [row EXCEPT ![f] = run[r].ref[f]] ELSE row
  /\ Becomes(r, [run[r] EXCEPT !.pc = "verify", !.todo = @ \ {f}, !.ref = NoShas,
                               !.done[f] = run[r].ref[f]])
  /\ UNCHANGED <<disk, mode, jobs, inbound, store, aged, last, bounds, doomed>>

\* OpenFile fails, the network is down, a folder cannot be made, a part of the
\* file cannot be read or written, Mkdir or Upload refuses: the file is
\* blamed, whatever its copy is like.  A restore may leave a part of it.
FileFails(r, f) ==
  /\ faults < MaxFaults /\ faults' = faults + 1
  /\ \/ /\ run[r].pc \in {"restore", "check", "verify"} /\ f \in run[r].todo
        /\ \E left \in {None} \cup (IF run[r].pc = "restore" THEN {Garbage} ELSE {}) :
             Becomes(r, [Blamed(r, f, left) EXCEPT !.failed = @ \cup {f}])
     \/ /\ run[r].pc \in {"upload", "record"} /\ run[r].ref[f] # None
        /\ Becomes(r, [Blamed(r, f, None) EXCEPT
             !.pc = "verify", !.ref = NoShas, !.failed = @ \cup {f}])
  /\ UNCHANGED <<pool, jobs, inbound, store, aged, last, writes, doomed>>

\* The command reports what it restored and what it could not.
Report(r) ==
  /\ run[r].pc \in {"restore", "check", "verify"} /\ run[r].todo = {}
  /\ Becomes(r, Idle)
  /\ UNCHANGED <<pool, jobs, inbound, store, aged, last, bounds, doomed>>
-----------------------------------------------------------------------------
Init ==
  /\ row \in [Files -> Blobs] /\ disk = row /\ mode = [p \in Pools |-> "backed"]
  /\ jobs = [j \in Jobs |-> None] /\ inbound = [j \in Jobs |-> "none"]
  /\ copy = [j \in Jobs |-> [f \in Files |-> None]]
  /\ bytes = [j \in Jobs |-> [f \in Files |-> None]]
  /\ note = [j \in Jobs |-> None]
  /\ aged = {} /\ doomed = {} /\ last = 0 /\ writes = 0 /\ faults = 0
  /\ run = [r \in Runners |-> Idle]

\* What a process does by itself once it has begun.
Step(r) ==
  \/ FindReference(r) \/ WriteManifest(r) \/ Finalize(r) \/ Finish(r)
  \/ PruneList(r) \/ RemoveJob(r) \/ DropRow(r) \/ MarkFailed(r) \/ Report(r)
  \/ \E p \in Pools : ListPool(r, p)
  \/ \E f \in Files : LinkFile(r, f) \/ CopyFile(r, f)
  \/ \E f \in Files : RestoreFile(r, f) \/ CheckFile(r, f) \/ VerifyFile(r, f)
  \/ \E f \in Files : UploadFile(r, f) \/ RecordFile(r, f)

\* startBackupScheduleLoop, and the commands "backup run", "restore",
\* "verify" and "restore-to-pool".
ScheduledRun(r) == Begin(r, Schedule)
RunCommand(r) == \E o \in Options : Begin(r, o)
RestoreCommand(r) == \E j \in Jobs, k \in Optional(Keys) : Open(r, j, "restore", k, {})
VerifyCommand(r) == \E j \in Jobs, k \in Optional(Keys) : Open(r, j, "check", k, {})
RestoreToPoolCommand(r) ==
  \E j \in Jobs, k \in Optional(Keys), p \in Pools :
    mode[p] # "disabled" /\ Open(r, j, "verify", k, {p})

Started(r) ==
  \/ ScheduledRun(r) \/ RunCommand(r)
  \/ RestoreCommand(r) \/ VerifyCommand(r) \/ RestoreToPoolCommand(r)

Next ==
  \/ \E r \in Runners :
       Step(r) \/ Started(r) \/ Breaks(r) \/ RemoveBreaks(r) \/ Dies(r)
       \/ \E f \in Files : FileFails(r, f)
  \/ \E f \in Files :
       (\E b \in Blobs : Write(f, b)) \/ Commit(f) \/ Delete(f)
  \/ \E p \in Pools, m \in Modes : SetPool(p, m)
  \/ \E j \in Jobs : Age(j) \/ ReceiverPrunes(j) \/ \E f \in Files : Rot(j, f)

Spec == Init /\ [][Next]_vars
-----------------------------------------------------------------------------
RunState ==
  [pc : Steps, job : Optional(Jobs), dest : Destinations, pools : SUBSET Pools,
   incremental : BOOLEAN, key : Optional(Keys), keep : Nat, days : BOOLEAN,
   prev : Optional(Jobs), ref : Shas, todo : SUBSET Files, seen : Shas,
   done : Shas, old : SUBSET Jobs, errors : SUBSET Files,
   failed : SUBSET Files, steady : SUBSET Files]

\* The type invariant of the state above.
TypeOK ==
  /\ row \in Shas /\ disk \in Shas /\ mode \in [Pools -> Modes]
  /\ jobs \in [Jobs -> Optional(JobRow)]
  /\ inbound \in [Jobs -> {"none", "running", "completed"}]
  /\ copy \in [Jobs -> [Files -> Optional(Jobs)]]
  /\ bytes \in [Jobs -> [Files -> Optional(Contents \X Optional(Keys))]]
  /\ note \in [Jobs -> Optional(Manifest)]
  /\ aged \subseteq Jobs /\ doomed \subseteq Jobs
  /\ run \in [Runners -> RunState]
  /\ last \in 0 .. MaxJobs /\ writes \in Nat /\ faults \in Nat

IsCompleted(j) == jobs[j] # None /\ jobs[j].status = "completed"

\* The content that the manifest names is stored, or was, before a sector
\* went bad.  What a job has copied itself is sealed with its own key.
Stored(j, f, sha) ==
  /\ copy[j][f] # None
  /\ LET inode == bytes[copy[j][f]][f] IN
     \/ inode = Rotten
     \/ inode[1] = sha /\ (copy[j][f] = j => inode[2] = note[j].key)

\* A completed job that no retention has touched has its manifest and every
\* content of it: runs that fail, run at the same time, link to each other or
\* prune the job they link to never make a bad backup out of a good one
\* (Run, pruneOldBackups, localDestination.Link).
Restorable ==
  \A j \in Jobs : IsCompleted(j) /\ j \notin doomed =>
    /\ note[j] # None
    /\ \A f \in Files : note[j].sha[f] # None => Stored(j, f, note[j].sha[f])

\* The guide says that any backup can be restored by itself, incremental or not.
\* The code does not keep it: README, "What the code does not keep".
EachRestoresAlone ==
  \A j \in Jobs : IsCompleted(j) /\ j \notin doomed =>
    \A f \in Files : note[j].sha[f] # None =>
      Reads(j, f, note[j].key) = note[j].sha[f] \/ bytes[copy[j][f]][f] = Rotten

\* A receiver lists no job of which the manifest, or a file that it names, has
\* not arrived, and an origin takes no job for completed that its receiver
\* does not list, whatever requests and answers are lost.  What either has
\* begun to remove is set aside (finalize, CompleteInboundBackup).
ReceiverKnows ==
  \A j \in Jobs : j \notin doomed =>
    /\ inbound[j] # "none" =>
         /\ note[j] # None
         /\ \A f \in Files : note[j].sha[f] # None => copy[j][f] # None
    /\ IsCompleted(j) /\ jobs[j].dest = "remote" => inbound[j] = "completed"

\* A file that a restore does not report is in the chosen folder as the
\* manifest has it; a restore or a verification blames a file only when the
\* backup is being removed, the copy has gone bad or is sealed with another
\* key, or a call of its own failed (Restore, copyToLocalFile, Verify).
RestoreIsExact ==
  \A r \in Runners :
    /\ run[r].pc = "restore" => \A f \in Files \ (run[r].todo \cup run[r].errors) :
         run[r].done[f] = run[r].seen[f]
    /\ run[r].pc \in {"restore", "check"} => \A f \in run[r].errors \ run[r].failed :
         \/ run[r].job \in doomed
         \/ bytes[copy[run[r].job][f]][f] = Rotten
         \/ bytes[copy[run[r].job][f]][f][2] # run[r].key

\* Retention never begins to remove the last good backup of a folder: there
\* is always another completed one that it leaves alone (pruneOldBackups).
LastGoodKept ==
  [][\A j \in doomed' \ doomed : jobs[j] # None /\ jobs[j].dest = "local" =>
       \E i \in Completed("local") : i \notin doomed']_vars

\* A backup misses no file that was active from its beginning to its end,
\* incremental or not: every manifest is complete in itself (ADR-026).
NothingMissed ==
  \A r \in Runners : run[r].pc \in {"finalize", "finish"} =>
    \A f \in run[r].steady : run[r].done[f] # None
=============================================================================
