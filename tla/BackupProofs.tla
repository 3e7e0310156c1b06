---------------------------- MODULE BackupProofs ----------------------------
(***************************************************************************)
(* Proofs about module Backup.                                             *)
(***************************************************************************)
EXTENDS BackupInv, TLAPS, FiniteSetTheorems, WellFoundedInduction

(***************************************************************************)
(* The operators of the model.                                             *)
(***************************************************************************)
\* Latest finds the newest job of any set of jobs that is not empty.
LEMMA LatestIsNewest ==
  ASSUME NEW S \in SUBSET Jobs, S # {}
  PROVE  Latest(S) \in S /\ \A i \in S : i <= Latest(S)
<1> DEFINE Gap == {MaxJobs - j : j \in S}
<1>1. Gap \subseteq Nat /\ Gap # {}
  <2>1. \A j \in S : MaxJobs - j \in Nat
    BY BackupAssumption DEF Jobs
  <2> QED  BY <2>1
<1>2. PICK g \in Gap : \A h \in Gap : ~(<<h, g>> \in OpToRel(<, Nat))
  <2> HIDE DEF Gap
  <2> QED  BY <1>1, NatLessThanWellFounded, WFMin, ZenonT(60)
<1>3. PICK m \in S : g = MaxJobs - m
  OBVIOUS
<1>4. \A i \in S : i <= m
  <2> TAKE i \in S
  <2>1. MaxJobs - i \in Gap /\ g \in Nat /\ MaxJobs - i \in Nat
    BY <1>1
  <2>2. ~(g > MaxJobs - i)
    BY <1>2, <2>1 DEF OpToRel
  <2> QED  BY <1>3, <2>1, <2>2, BackupAssumption DEF Jobs
<1> QED  BY <1>3, <1>4 DEF Latest

(***************************************************************************)
(* Types.                                                                  *)
(***************************************************************************)
LEMMA IdleIsState == Idle \in RunState /\ Idle.pc = "idle"
BY BackupAssumption DEF Idle, RunState, Steps, Shas, NoShas, Destinations, Optional

LEMMA TypeInit == Init => TInv
BY IdleIsState, BackupAssumption
   DEF Init, TInv, TypeOK, Lists, Shas, Contents, Optional, CopyingSteps, Modes

LEMMA StateOf == TInv => \A r \in Runners : run[r] \in RunState
BY DEF TInv, TypeOK

LEMMA Counted ==
  ASSUME TInv
  PROVE  /\ faults \in Nat /\ faults + 1 \in Nat
         /\ writes \in Nat /\ writes + 1 \in Nat
BY DEF TInv, TypeOK

\* One runner changes, to a state of the right type.
LEMMA RunUpdate ==
  ASSUME TInv, NEW r \in Runners, NEW s \in RunState, Lists(s),
         run' = [run EXCEPT ![r] = s]
  PROVE  /\ run' \in [Runners -> RunState]
         /\ \A q \in Runners : Lists(run'[q])
         /\ run'[r] = s
         /\ \A q \in Runners : q # r => run'[q] = run[q]
BY DEF TInv, TypeOK

\* What one runner does to its own state alone.
LEMMA TypeMove ==
  ASSUME TInv, NEW r \in Runners, NEW s \in RunState, Lists(s), Becomes(r, s),
         UNCHANGED <<pool, jobs, inbound, store, aged, last, doomed>>,
         writes' \in Nat, faults' \in Nat
  PROVE  TInv'
<1>1. run' \in [Runners -> RunState] /\ \A q \in Runners : Lists(run'[q])
  BY RunUpdate DEF Becomes
<1> QED  BY <1>1 DEF TInv, TypeOK, pool, store, Lists

LEMMA TypeFindReference ==
  ASSUME TInv, NEW r \in Runners, FindReference(r)
  PROVE  TInv'
<1> DEFINE finished == Completed(run[r].dest)
           prev == IF finished = {} THEN None ELSE Latest(finished)
           ref == IF finished = {} \/ note[Latest(finished)] = None THEN NoShas
                  ELSE note[Latest(finished)].sha
           s == [run[r] EXCEPT !.pc = "pools", !.prev = prev, !.ref = ref]
           t == [run[r] EXCEPT !.pc = "pools"]
<1>1. finished # {} => Latest(finished) \in Jobs
  BY LatestIsNewest DEF Completed
<1>2. prev \in Optional(Jobs) /\ ref \in Shas
  BY <1>1 DEF TInv, TypeOK, Manifest, NoShas, Optional, Shas
<1>3. Becomes(r, s) \/ Becomes(r, t)
  BY DEF FindReference, GoesTo, Becomes
<1> HIDE DEF prev, ref
<1>4. s \in RunState /\ t \in RunState
  <2>1. run[r] \in RunState /\ "pools" \in Steps
    BY StateOf DEF Steps
  <2> QED  BY <1>2, <2>1 DEF RunState
<1>5. Lists(s) /\ Lists(t)
  BY DEF FindReference, TInv, TypeOK, RunState, Lists, CopyingSteps
<1> HIDE DEF s, t
<1>6. writes' \in Nat /\ faults' \in Nat
  BY Counted DEF FindReference
<1> QED  BY <1>3, <1>4, <1>5, <1>6, TypeMove DEF FindReference

LEMMA TypeListPool ==
  ASSUME TInv, NEW r \in Runners, NEW p \in Pools, ListPool(r, p)
  PROVE  TInv'
<1> DEFINE listed == {f \in Files : PoolOf[f] = p /\ row[f] # None}
           seen == [f \in Files |-> IF f \in listed THEN row[f] ELSE run[r].seen[f]]
           s == [run[r] EXCEPT !.pools = @ \ {p}, !.todo = listed, !.seen = seen]
<1>1. listed \subseteq Files /\ seen \in Shas /\ \A f \in listed : seen[f] # None
  BY DEF TInv, TypeOK, RunState, Shas
<1>2. run[r].seen = [run[r] EXCEPT !.pools = @ \ {p}, !.todo = listed].seen
  BY DEF TInv, TypeOK, RunState
<1>3. Becomes(r, s)
  BY <1>2 DEF ListPool
<1> HIDE DEF listed, seen
<1>4. s \in RunState
  BY <1>1, StateOf, ZenonT(60) DEF RunState
<1>5. Lists(s)
  BY <1>1 DEF TInv, TypeOK, RunState, Lists
<1> HIDE DEF s
<1> QED  BY <1>3, <1>4, <1>5, TypeMove DEF ListPool, TInv, TypeOK, bounds

LEMMA EndedIsState ==
  ASSUME TInv, NEW r \in Runners, NEW pc \in Steps \ CopyingSteps
  PROVE  Ended(r, pc) \in RunState /\ Lists(Ended(r, pc))
BY IdleIsState, ZenonT(60) DEF TInv, TypeOK, RunState, Ended, Lists, Steps, CopyingSteps, Idle

LEMMA CopiedIsState ==
  ASSUME TInv, NEW r \in Runners, NEW f \in Files, run[r].pc = "pools", Copied(r, f)
  PROVE  /\ run' \in [Runners -> RunState]
         /\ \A q \in Runners : Lists(run'[q])
<1> DEFINE done == [run[r].done EXCEPT ![f] = run[r].seen[f]]
           s == [run[r] EXCEPT !.todo = @ \ {f}, !.done = done]
<1>1. done \in Shas
  BY DEF TInv, TypeOK, RunState, Shas
<1>2. [run[r] EXCEPT !.todo = @ \ {f}, !.done[f] = run[r].seen[f]] = s
  BY DEF TInv, TypeOK, RunState
<1> HIDE DEF done
<1>3. s \in RunState
  BY <1>1, StateOf, ZenonT(60) DEF RunState
<1>4. Lists(s)
  BY DEF TInv, TypeOK, RunState, Lists
<1>5. Becomes(r, s)
  BY <1>2 DEF Copied
<1> HIDE DEF s
<1> QED  BY <1>3, <1>4, <1>5, RunUpdate DEF Becomes

LEMMA TypeLinkFile ==
  ASSUME TInv, NEW r \in Runners, NEW f \in Files, LinkFile(r, f),
         run[r].job \in Jobs
  PROVE  TInv'
<1>1. run' \in [Runners -> RunState] /\ \A q \in Runners : Lists(run'[q])
  BY CopiedIsState DEF LinkFile
<1>2. run[r].prev \in Jobs
  BY StateOf DEF LinkFile, Linkable, RunState, Optional
<1>3. /\ copy' \in [Jobs -> [Files -> Optional(Jobs)]]
      /\ \A j \in Jobs : \A g \in Files : copy'[j][g] # None => bytes[copy'[j][g]][g] # None
  BY <1>2 DEF LinkFile, TInv, TypeOK
<1> QED  BY <1>1, <1>3 DEF LinkFile, TInv, TypeOK, Lists, pool, bounds

LEMMA TypeCopyFile ==
  ASSUME TInv, NEW r \in Runners, NEW f \in Files, CopyFile(r, f),
         run[r].job \in Jobs
  PROVE  TInv'
<1>1. CASE disk[f] = run[r].seen[f]
  <2>1. run' \in [Runners -> RunState] /\ \A q \in Runners : Lists(run'[q])
    BY <1>1, CopiedIsState DEF CopyFile
  <2>2. <<disk[f], run[r].key>> \in Contents \X Optional(Keys)
    <3>1. run[r].seen[f] # None
      BY DEF CopyFile, TInv, Lists, CopyingSteps
    <3>2. disk[f] \in Contents
      BY <1>1, <3>1 DEF TInv, TypeOK, Shas, Optional
    <3> QED  BY <3>2, StateOf DEF RunState
  <2> DEFINE own == <<disk[f], run[r].key>>
  <2>3. /\ copy' = [copy EXCEPT ![run[r].job][f] = run[r].job]
        /\ bytes' = [bytes EXCEPT ![run[r].job][f] = own]
    BY <1>1 DEF CopyFile
  <2> HIDE DEF own
  <2>4. own \in Optional(Contents \X Optional(Keys)) /\ own # None
    BY <2>2, NothingAssumption DEF own, Optional
  <2>5. /\ copy' \in [Jobs -> [Files -> Optional(Jobs)]]
        /\ bytes' \in [Jobs -> [Files -> Optional(Contents \X Optional(Keys))]]
    BY <2>3, <2>4 DEF TInv, TypeOK, Optional
  <2>6. \A j \in Jobs : \A g \in Files : copy'[j][g] # None => bytes'[copy'[j][g]][g] # None
    BY <2>3, <2>4 DEF TInv, TypeOK, Optional
  <2>7. writes' \in Nat /\ faults' \in Nat
    BY Counted DEF CopyFile
  <2> QED  BY <2>1, <2>5, <2>6, <2>7 DEF CopyFile, TInv, TypeOK, Lists, pool
<1>2. CASE disk[f] # run[r].seen[f]
  <2>1. Becomes(r, Ended(r, "fail")) /\ UNCHANGED <<copy, bytes>>
    BY <1>2 DEF CopyFile
  <2>2. Ended(r, "fail") \in RunState /\ Lists(Ended(r, "fail"))
    BY EndedIsState DEF Steps, CopyingSteps
  <2>3. writes' \in Nat /\ faults' \in Nat
    BY Counted DEF CopyFile
  <2> QED  BY <2>1, <2>2, <2>3, TypeMove DEF CopyFile, store
<1> QED  BY <1>1, <1>2

LEMMA TypeGoesTo ==
  ASSUME TInv, NEW r \in Runners, NEW pc \in Steps \ CopyingSteps, GoesTo(r, pc)
  PROVE  /\ run' \in [Runners -> RunState]
         /\ \A q \in Runners : Lists(run'[q])
<1> DEFINE s == [run[r] EXCEPT !.pc = pc]
<1>1. run[r] \in RunState
  BY StateOf
<1>2. s \in RunState
  BY <1>1 DEF RunState
<1>3. Lists(s)
  BY <1>1 DEF Lists, RunState
<1>4. run' = [run EXCEPT ![r] = s]
  BY DEF GoesTo
<1> HIDE DEF s
<1> QED  BY <1>2, <1>3, <1>4, RunUpdate

LEMMA TypeWriteManifest ==
  ASSUME TInv, NEW r \in Runners, WriteManifest(r), run[r].job \in Jobs
  PROVE  TInv'
<1>1. run' \in [Runners -> RunState] /\ \A q \in Runners : Lists(run'[q])
  BY TypeGoesTo DEF WriteManifest, Steps, CopyingSteps
<1>2. [sha |-> run[r].done, key |-> run[r].key] \in Manifest
  BY StateOf DEF Manifest, RunState
<1> QED  BY <1>1, <1>2 DEF WriteManifest, TInv, TypeOK, Lists, pool, bounds, Optional

LEMMA TypeFinalize ==
  ASSUME TInv, NEW r \in Runners, Finalize(r)
  PROVE  TInv'
<1>1. run' \in [Runners -> RunState] /\ \A q \in Runners : Lists(run'[q])
  BY TypeGoesTo DEF Finalize, Steps, CopyingSteps
<1> QED  BY <1>1 DEF Finalize, TInv, TypeOK, Lists, pool, bounds, store

\* A row gets another status.
LEMMA StatusIsType ==
  ASSUME TInv, NEW j \in Jobs, jobs[j] # None,
         NEW status \in {"running", "completed", "failed"},
         jobs' = [jobs EXCEPT ![j].status = status]
  PROVE  jobs' \in [Jobs -> Optional(JobRow)]
<1>1. jobs[j] \in JobRow
  BY DEF TInv, TypeOK, Optional
<1>2. [jobs[j] EXCEPT !.status = status] \in JobRow
  BY <1>1 DEF JobRow
<1> QED  BY <1>2 DEF TInv, TypeOK, Optional

LEMMA TypeFinish ==
  ASSUME TInv, NEW r \in Runners, Finish(r), run[r].job \in Jobs, jobs[run[r].job] # None
  PROVE  TInv'
<1>1. jobs' \in [Jobs -> Optional(JobRow)]
  BY StatusIsType DEF Finish
<1>2. Ended(r, "prune") \in RunState /\ Lists(Ended(r, "prune"))
  BY EndedIsState DEF Steps, CopyingSteps
<1>3. Idle \in RunState /\ Lists(Idle)
  BY IdleIsState DEF Lists, CopyingSteps
<1>4. run' \in [Runners -> RunState] /\ \A q \in Runners : Lists(run'[q])
  <2>1. CASE run[r].keep > 0 \/ run[r].days
    BY <1>2, <2>1, RunUpdate DEF Finish, Becomes
  <2>2. CASE ~(run[r].keep > 0 \/ run[r].days)
    BY <1>3, <2>2, RunUpdate DEF Finish, Becomes
  <2> QED  BY <2>1, <2>2
<1> QED  BY <1>1, <1>4 DEF Finish, TInv, TypeOK, Lists, pool, bounds, store

LEMMA TypePruneList ==
  ASSUME TInv, NEW r \in Runners, PruneList(r)
  PROVE  TInv'
<1> DEFINE s == [run[r] EXCEPT !.pc = "remove", !.old = Surplus(r)]
<1>1. Surplus(r) \subseteq Jobs
  BY DEF Surplus, Completed
<1>2. s \in RunState /\ Lists(s)
  <2>1. run[r] \in RunState
    BY StateOf
  <2>2. s \in RunState
    BY <1>1, <2>1 DEF RunState, Steps
  <2> QED  BY <2>1, <2>2 DEF RunState, Lists, CopyingSteps
<1>3. Idle \in RunState /\ Lists(Idle)
  BY IdleIsState DEF Lists, CopyingSteps
<1>4. Becomes(r, Idle) \/ Becomes(r, s)
  BY DEF PruneList
<1> HIDE DEF s
<1> QED  BY <1>2, <1>3, <1>4, TypeMove DEF PruneList, TInv, TypeOK, bounds

\* What is emptied loses names, never an inode.
LEMMA TypeEmptied ==
  ASSUME TInv, NEW j \in Jobs, Emptied(j), UNCHANGED bytes
  PROVE  /\ copy' \in [Jobs -> [Files -> Optional(Jobs)]]
         /\ note' \in [Jobs -> Optional(Manifest)]
         /\ \A i \in Jobs : \A f \in Files : copy'[i][f] # None => bytes'[copy'[i][f]][f] # None
BY DEF TInv, TypeOK, Emptied, Optional

LEMMA OldIsOfJobs ==
  ASSUME TInv, Ownership, NEW r \in Runners, run[r].pc \in RemoveSteps
  PROVE  /\ run[r].old \subseteq Jobs /\ Latest(run[r].old) \in Jobs
         /\ Latest(run[r].old) \in run[r].old
<1>1. run[r].old \subseteq Jobs /\ run[r].old # {}
  BY StateOf DEF RunState, Ownership, Uses
<1> QED  BY <1>1, LatestIsNewest

LEMMA TypeRemoveJob ==
  ASSUME TInv, Ownership, NEW r \in Runners, RemoveJob(r)
  PROVE  TInv'
<1>1. run' \in [Runners -> RunState] /\ \A q \in Runners : Lists(run'[q])
  BY TypeGoesTo DEF RemoveJob, Steps, CopyingSteps
<1> DEFINE j == Latest(run[r].old)
<1>2. j \in Jobs
  BY OldIsOfJobs DEF RemoveJob, RemoveSteps
<1>3. Emptied(j) /\ doomed' = doomed \cup {j} /\ UNCHANGED <<pool, jobs, bytes, aged, last, writes>>
  BY DEF RemoveJob
<1>4. inbound' \in [Jobs -> {"none", "running", "completed"}] /\ faults' \in Nat
  BY Counted DEF RemoveJob, Forgotten, TInv, TypeOK
<1> HIDE DEF j
<1> QED  BY <1>1, <1>2, <1>3, <1>4, TypeEmptied DEF TInv, TypeOK, Lists, pool

\* The rest of the list, or nothing more to do.
LEMMA TypePruneOn ==
  ASSUME TInv, NEW r \in Runners, NEW s \in RunState, Lists(s), PruneOn(r, s)
  PROVE  /\ run' \in [Runners -> RunState]
         /\ \A q \in Runners : Lists(run'[q])
<1>1. Idle \in RunState /\ Lists(Idle)
  BY IdleIsState DEF Lists, CopyingSteps
<1> QED  BY <1>1, RunUpdate DEF PruneOn, Becomes

LEMMA TypeRemoveBreaks ==
  ASSUME TInv, Ownership, NEW r \in Runners, RemoveBreaks(r)
  PROVE  TInv'
<1> DEFINE j == Latest(run[r].old)
           s == [run[r] EXCEPT !.old = @ \ {j}]
<1>1. j \in Jobs
  BY OldIsOfJobs DEF RemoveBreaks, RemoveSteps
<1>2. s \in RunState
  BY StateOf DEF RunState
<1>3. Lists(s)
  BY StateOf DEF Lists, RunState, RemoveBreaks, CopyingSteps
<1>4. PruneOn(r, s) /\ doomed' = doomed \cup {j} /\ faults' = faults + 1
      /\ UNCHANGED <<pool, jobs, inbound, bytes, note, aged, last, writes>>
  BY DEF RemoveBreaks
<1>5. run' \in [Runners -> RunState] /\ \A q \in Runners : Lists(run'[q])
  <2> HIDE DEF s
  <2> QED  BY <1>2, <1>3, <1>4, TypePruneOn
<1>6. PICK S \in SUBSET Files :
        copy' = [copy EXCEPT ![j] = [f \in Files |-> IF f \in S THEN None ELSE copy[j][f]]]
  BY <1>1 DEF RemoveBreaks, TInv, TypeOK
<1> HIDE DEF j, s
<1>7. /\ copy' \in [Jobs -> [Files -> Optional(Jobs)]]
      /\ \A i \in Jobs : \A f \in Files : copy'[i][f] # None => bytes[copy'[i][f]][f] # None
  BY <1>1, <1>6 DEF TInv, TypeOK, Optional
<1>8. doomed' \subseteq Jobs /\ faults' \in Nat
  BY <1>1, <1>4, Counted DEF TInv, TypeOK
<1> QED  BY <1>4, <1>5, <1>7, <1>8 DEF TInv, TypeOK, Lists, pool

LEMMA TypeDropRow ==
  ASSUME TInv, Ownership, NEW r \in Runners, DropRow(r)
  PROVE  TInv'
<1> DEFINE j == Latest(run[r].old)
           s == [run[r] EXCEPT !.old = @ \ {j}, !.pc = "remove"]
<1>1. j \in Jobs
  BY OldIsOfJobs DEF DropRow, RemoveSteps
<1>2. s \in RunState /\ Lists(s)
  <2>1. run[r] \in RunState
    BY StateOf
  <2>2. s \in RunState
    BY <2>1 DEF RunState, Steps
  <2> QED  BY <2>1, <2>2 DEF RunState, Lists, CopyingSteps
<1>3. PruneOn(r, s) /\ UNCHANGED <<pool, inbound, store, aged, last, writes, doomed>>
  BY DEF DropRow
<1>4. run' \in [Runners -> RunState] /\ \A q \in Runners : Lists(run'[q])
  <2> HIDE DEF s
  <2> QED  BY <1>2, <1>3, TypePruneOn
<1>5. jobs' \in [Jobs -> Optional(JobRow)] /\ faults' \in Nat
  BY DEF DropRow, TInv, TypeOK, Optional
<1> QED  BY <1>3, <1>4, <1>5 DEF TInv, TypeOK, Lists, pool, store

LEMMA TypeReceiverPrunes ==
  ASSUME TInv, NEW j \in Jobs, ReceiverPrunes(j)
  PROVE  TInv'
BY TypeEmptied DEF ReceiverPrunes, Forgotten, TInv, TypeOK, Lists, pool, bounds

LEMMA TypeBreaks ==
  ASSUME TInv, NEW r \in Runners, Breaks(r)
  PROVE  TInv'
<1>1. Ended(r, "fail") \in RunState /\ Lists(Ended(r, "fail"))
  BY EndedIsState DEF Steps, CopyingSteps
<1>2. Idle \in RunState /\ Lists(Idle)
  BY IdleIsState DEF Lists, CopyingSteps
<1>3. Becomes(r, Idle) \/ Becomes(r, Ended(r, "fail"))
  BY DEF Breaks
<1>4. run' \in [Runners -> RunState] /\ \A q \in Runners : Lists(run'[q])
  BY <1>1, <1>2, <1>3, RunUpdate DEF Becomes
<1>5. inbound' \in [Jobs -> {"none", "running", "completed"}]
  BY DEF Breaks, TInv, TypeOK
<1>6. faults' \in Nat /\ UNCHANGED <<pool, jobs, store, aged, last, writes, doomed>>
  BY Counted DEF Breaks
<1> QED  BY <1>4, <1>5, <1>6 DEF TInv, TypeOK, Lists, pool, store

LEMMA TypeMarkFailed ==
  ASSUME TInv, NEW r \in Runners, MarkFailed(r), run[r].job \in Jobs, jobs[run[r].job] # None
  PROVE  TInv'
<1>1. Idle \in RunState /\ Lists(Idle)
  BY IdleIsState DEF Lists, CopyingSteps
<1>2. run' \in [Runners -> RunState] /\ \A q \in Runners : Lists(run'[q])
  BY <1>1, RunUpdate DEF MarkFailed, Becomes
<1>3. jobs' \in [Jobs -> Optional(JobRow)] /\ faults' \in Nat
  <2>1. CASE jobs' = [jobs EXCEPT ![run[r].job].status = "failed"] /\ UNCHANGED faults
    BY <2>1, StatusIsType, Counted
  <2>2. CASE faults' = faults + 1 /\ UNCHANGED jobs
    BY <2>2, Counted DEF TInv, TypeOK
  <2> QED  BY <2>1, <2>2 DEF MarkFailed
<1> QED  BY <1>2, <1>3 DEF MarkFailed, TInv, TypeOK, Lists, pool, store

LEMMA TypeDies ==
  ASSUME TInv, NEW r \in Runners, Dies(r) \/ Report(r)
  PROVE  TInv'
<1>1. Idle \in RunState /\ Lists(Idle)
  BY IdleIsState DEF Lists, CopyingSteps
<1>2. faults' \in Nat /\ writes' \in Nat
  BY Counted DEF Dies, Report, bounds
<1> QED  BY <1>1, <1>2, TypeMove DEF Dies, Report

LEMMA TypeRot ==
  ASSUME TInv, NEW j \in Jobs, NEW f \in Files, Rot(j, f)
  PROVE  TInv'
<1>1. Rotten \in Contents \X Optional(Keys) /\ Rotten # None
  BY NothingAssumption DEF Rotten, Contents, Optional
<1>2. /\ bytes' \in [Jobs -> [Files -> Optional(Contents \X Optional(Keys))]]
      /\ \A i \in Jobs : \A g \in Files : copy[i][g] # None => bytes'[copy[i][g]][g] # None
  BY <1>1 DEF Rot, TInv, TypeOK, Optional
<1>3. faults' \in Nat
  BY Counted DEF Rot
<1> QED  BY <1>2, <1>3 DEF Rot, TInv, TypeOK, Lists, pool

LEMMA TypeBegin ==
  ASSUME TInv, NEW r \in Runners, NEW o \in RunOptions, Begin(r, o)
  PROVE  TInv'
<1> DEFINE chosen == {p \in o.pools : mode[p] = "backed"}
           steady == {f \in Files : PoolOf[f] \in chosen /\ row[f] # None}
           pc == IF o.incremental /\ o.key = None THEN "reference" ELSE "pools"
           s == [Idle EXCEPT !.job = last + 1, !.dest = o.dest, !.pools = chosen,
                             !.incremental = o.incremental, !.key = o.key,
                             !.keep = o.keep, !.days = o.days,
                             !.steady = steady, !.pc = pc]
<1>1. last + 1 \in Jobs /\ last' \in 0 .. MaxJobs
  BY BackupAssumption DEF Begin, TInv, TypeOK, Jobs
<1>2. steady \in SUBSET Files /\ pc \in Steps /\ chosen \in SUBSET Pools
  BY DEF RunOptions, Steps
<1>3. Becomes(r, s)
  BY DEF Begin
<1> HIDE DEF chosen, steady, pc
<1>4. s \in RunState
  BY <1>1, <1>2, IdleIsState, ZenonT(60) DEF RunState, RunOptions, Optional
<1>5. s.todo = {}
  BY DEF Idle
<1> HIDE DEF s
<1>6. run' \in [Runners -> RunState] /\ \A q \in Runners : Lists(run'[q])
  BY <1>3, <1>4, <1>5, RunUpdate DEF Becomes, Lists
<1>7. [status |-> "running", dest |-> o.dest] \in JobRow
  BY DEF JobRow, RunOptions
<1>8. jobs' \in [Jobs -> Optional(JobRow)]
  BY <1>1, <1>7 DEF Begin, TInv, TypeOK, Optional
<1> QED  BY <1>1, <1>6, <1>8 DEF Begin, TInv, TypeOK, Lists, pool, store, bounds

LEMMA TypeOpen ==
  ASSUME TInv, NEW r \in Runners, NEW j \in Jobs, NEW k \in Optional(Keys), NEW ps \in SUBSET Pools,
         NEW pc \in ReadSteps, Open(r, j, pc, k, ps)
  PROVE  TInv'
<1> DEFINE todo == {f \in Files : note[j].sha[f] # None}
           key == KeyFor(j, k)
           dest == jobs[j].dest
           seen == note[j].sha
           s == [Idle EXCEPT !.pc = pc, !.job = j, !.dest = dest, !.pools = ps,
                             !.key = key, !.seen = seen, !.todo = todo]
<1>1. jobs[j] \in JobRow /\ note[j] \in Manifest
  BY DEF Open, TInv, TypeOK, Optional
<1>2. /\ pc \in Steps /\ dest \in Destinations /\ key \in Optional(Keys)
      /\ seen \in Shas /\ todo \in SUBSET Files
  BY <1>1 DEF ReadSteps, Steps, JobRow, Manifest, KeyFor, Optional
<1>3. Becomes(r, s)
  BY DEF Open
<1> HIDE DEF todo, key, dest, seen
<1>4. s \in RunState
  BY <1>2, IdleIsState DEF RunState, Optional
<1>5. s.pc = pc
  BY DEF Idle
<1> HIDE DEF s
<1>6. writes' \in Nat /\ faults' \in Nat
  BY Counted DEF Open, Acts
<1> QED  BY <1>3, <1>4, <1>5, <1>6, TypeMove DEF Open, Lists, ReadSteps, CopyingSteps

\* What is read is nothing, a content, or garbage.
LEMMA ReadsIsType ==
  ASSUME TInv, NEW j \in Jobs, NEW f \in Files, NEW k \in Optional(Keys)
  PROVE  Reads(j, f, k) \in Optional(Contents)
<1>1. CASE copy[j][f] = None
  BY <1>1 DEF Reads, Optional
<1>2. CASE copy[j][f] # None
  <2>1. bytes[copy[j][f]][f] \in Contents \X Optional(Keys)
    BY <1>2 DEF TInv, TypeOK, Optional
  <2> QED  BY <1>2, <2>1 DEF Reads, Optional, Contents
<1> QED  BY <1>1, <1>2

(***************************************************************************)
(* The steps of the commands that read a backup.                           *)
(***************************************************************************)
OthersStay(r) == \A q \in Runners : q # r => run'[q] = run[q]

LEMMA MoveShape ==
  ASSUME TInv, NEW r \in Runners, NEW s, Becomes(r, s)
  PROVE  run'[r] = s /\ OthersStay(r)
BY DEF Becomes, TInv, TypeOK, OthersStay

\* A step of Restore, RestoreToPool or Verify leaves the run as it is but for
\* its files.
Reading(s, t) ==
  /\ s.pc \in ReadSteps /\ s.job = t.job /\ s.dest = t.dest /\ s.key = t.key
  /\ s.prev = t.prev /\ s.old = t.old /\ s.seen = t.seen

ReadsOn(r) ==
  /\ run[r].pc \in ReadSteps /\ run'[r] \in RunState
  /\ run' = [run EXCEPT ![r] = run'[r]] /\ OthersStay(r) /\ Reading(run'[r], run[r])

ReadStep(r, f) ==
  \/ RestoreFile(r, f) \/ CheckFile(r, f) \/ VerifyFile(r, f)
  \/ UploadFile(r, f) \/ RecordFile(r, f) \/ FileFails(r, f)

LEMMA ReadsOnTo ==
  ASSUME TInv, NEW r \in Runners, NEW s \in RunState, Becomes(r, s),
         run[r].pc \in ReadSteps, Reading(s, run[r])
  PROVE  ReadsOn(r) /\ run'[r] = s
<1>1. run'[r] = s /\ OthersStay(r)
  BY MoveShape
<1> QED  BY <1>1 DEF ReadsOn, Becomes

LEMMA BlamedShape ==
  ASSUME TInv, NEW r \in Runners, NEW f \in Files, NEW left \in Optional(Contents),
         run[r].pc \in ReadSteps
  PROVE  /\ Blamed(r, f, left) \in RunState /\ Reading(Blamed(r, f, left), run[r])
         /\ Blamed(r, f, left).pc = run[r].pc
         /\ Blamed(r, f, left).todo = run[r].todo \ {f}
         /\ Blamed(r, f, left).errors = run[r].errors \cup {f}
         /\ Blamed(r, f, left).failed = run[r].failed
         /\ \A g \in Files : g # f => Blamed(r, f, left).done[g] = run[r].done[g]
<1> DEFINE done == [run[r].done EXCEPT ![f] = left]
           s == [run[r] EXCEPT !.todo = @ \ {f}, !.done = done, !.errors = @ \cup {f}]
<1>1. run[r] \in RunState
  BY StateOf
<1>2. Blamed(r, f, left) = s
  BY <1>1 DEF Blamed, RunState
<1>3. done \in Shas /\ \A g \in Files : g # f => done[g] = run[r].done[g]
  BY <1>1 DEF RunState, Shas
<1> HIDE DEF done
<1>4. s \in RunState
  BY <1>1, <1>3 DEF RunState
<1>5. /\ s.pc = run[r].pc /\ s.todo = run[r].todo \ {f} /\ s.errors = run[r].errors \cup {f}
      /\ s.failed = run[r].failed /\ s.done = done /\ Reading(s, run[r])
  BY <1>1 DEF RunState, Reading
<1> HIDE DEF s
<1> QED  BY <1>2, <1>3, <1>4, <1>5

\* So is what a run reads of its job.
LEMMA ReadsOfRun ==
  ASSUME TInv, Ownership, NEW r \in Runners, NEW f \in Files, run[r].pc \in ReadSteps
  PROVE  Reads(run[r].job, f, run[r].key) \in Optional(Contents)
<1>1. run[r].job \in Jobs /\ run[r].key \in Optional(Keys)
  BY StateOf DEF Ownership, Uses, RunState
<1> QED  BY <1>1, ReadsIsType

LEMMA RestoreFileShape ==
  ASSUME TInv, Ownership, NEW r \in Runners, NEW f \in Files, RestoreFile(r, f)
  PROVE  /\ ReadsOn(r) /\ run'[r].pc = "restore" /\ run'[r].todo = run[r].todo \ {f}
         /\ run'[r].failed = run[r].failed
         /\ \A g \in Files : g # f => run'[r].done[g] = run[r].done[g]
         /\ \/ run'[r].done[f] = run[r].seen[f] /\ run'[r].errors = run[r].errors
            \/ /\ Reads(run[r].job, f, run[r].key) # run[r].seen[f]
               /\ run'[r].errors = run[r].errors \cup {f}
<1> DEFINE got == Reads(run[r].job, f, run[r].key)
           done == [run[r].done EXCEPT ![f] = got]
           s == [run[r] EXCEPT !.todo = @ \ {f}, !.done = done]
<1>1. run[r] \in RunState /\ run[r].pc = "restore" /\ run[r].pc \in ReadSteps
  BY StateOf DEF RestoreFile, ReadSteps
<1>2. got \in Optional(Contents) /\ None \in Optional(Contents)
  BY <1>1, ReadsOfRun DEF Optional
<1>3. [run[r] EXCEPT !.todo = @ \ {f}, !.done[f] = got] = s
  BY <1>1 DEF RunState
<1>4. \/ Becomes(r, s) /\ got = run[r].seen[f]
      \/ got # run[r].seen[f] /\ \E left \in {None, got} : Becomes(r, Blamed(r, f, left))
  BY <1>3 DEF RestoreFile
<1>5. done \in Shas /\ done[f] = got /\ \A g \in Files : g # f => done[g] = run[r].done[g]
  BY <1>1, <1>2 DEF RunState, Shas
<1> HIDE DEF got, done
<1>6. s \in RunState
  BY <1>1, <1>5 DEF RunState
<1>7. /\ Reading(s, run[r]) /\ s.pc = "restore" /\ s.todo = run[r].todo \ {f}
      /\ s.done = done /\ s.errors = run[r].errors /\ s.failed = run[r].failed
  BY <1>1 DEF RunState, Reading
<1> HIDE DEF s
<1>8. CASE Becomes(r, s) /\ got = run[r].seen[f]
  <2>1. ReadsOn(r) /\ run'[r] = s
    BY <1>1, <1>6, <1>7, <1>8, ReadsOnTo
  <2> QED  BY <1>5, <1>7, <1>8, <2>1
<1>9. ASSUME got # run[r].seen[f], NEW left \in {None, got}, Becomes(r, Blamed(r, f, left))
      PROVE  /\ ReadsOn(r) /\ run'[r].pc = "restore" /\ run'[r].todo = run[r].todo \ {f}
             /\ run'[r].failed = run[r].failed /\ run'[r].errors = run[r].errors \cup {f}
             /\ \A g \in Files : g # f => run'[r].done[g] = run[r].done[g]
  <2>1. left \in Optional(Contents)
    BY <1>2, <1>9
  <2>2. ReadsOn(r) /\ run'[r] = Blamed(r, f, left)
    BY <1>1, <1>9, <2>1, BlamedShape, ReadsOnTo
  <2> QED  BY <1>1, <2>1, <2>2, BlamedShape
<1> QED  BY <1>4, <1>8, <1>9 DEF got

LEMMA CheckFileShape ==
  ASSUME TInv, NEW r \in Runners, NEW f \in Files, CheckFile(r, f)
  PROVE  /\ ReadsOn(r) /\ run'[r].pc = "check" /\ run'[r].todo = run[r].todo \ {f}
         /\ run'[r].failed = run[r].failed
         /\ \/ run'[r].errors = run[r].errors
            \/ ~Verified(r, f) /\ run'[r].errors = run[r].errors \cup {f}
<1> DEFINE s == [run[r] EXCEPT !.todo = @ \ {f}]
<1>1. run[r] \in RunState /\ run[r].pc = "check" /\ run[r].pc \in ReadSteps
  BY StateOf DEF CheckFile, ReadSteps
<1>2. Becomes(r, s) \/ (~Verified(r, f) /\ Becomes(r, Blamed(r, f, None)))
  BY DEF CheckFile
<1>3. s \in RunState /\ Reading(s, run[r])
  BY <1>1 DEF RunState, Reading
<1>4. /\ s.pc = "check" /\ s.todo = run[r].todo \ {f} /\ s.failed = run[r].failed
      /\ s.errors = run[r].errors
  BY <1>1 DEF RunState
<1> HIDE DEF s
<1>5. None \in Optional(Contents)
  BY DEF Optional
<1>6. CASE Becomes(r, s)
  <2>1. ReadsOn(r) /\ run'[r] = s
    BY <1>1, <1>3, <1>6, ReadsOnTo
  <2> QED  BY <1>4, <2>1
<1>7. CASE ~Verified(r, f) /\ Becomes(r, Blamed(r, f, None))
  <2>1. ReadsOn(r) /\ run'[r] = Blamed(r, f, None)
    BY <1>1, <1>5, <1>7, BlamedShape, ReadsOnTo
  <2> QED  BY <1>1, <1>5, <1>7, <2>1, BlamedShape
<1> QED  BY <1>2, <1>6, <1>7

LEMMA PoolFileShape ==
  ASSUME TInv, Ownership, NEW r \in Runners, NEW f \in Files,
         VerifyFile(r, f) \/ UploadFile(r, f) \/ RecordFile(r, f)
  PROVE  ReadsOn(r) /\ run'[r].pc \in {"verify", "upload", "record"}
<1> DEFINE got == Reads(run[r].job, f, run[r].key)
           ref1 == [run[r].ref EXCEPT ![f] = run[r].seen[f]]
           ref2 == [NoShas EXCEPT ![f] = got]
           done == [run[r].done EXCEPT ![f] = run[r].ref[f]]
           b == Blamed(r, f, None)
           s1 == [run[r] EXCEPT !.pc = "upload", !.ref = ref1]
           s2 == [run[r] EXCEPT !.pc = "record", !.ref = ref2]
           s3 == [b EXCEPT !.pc = "verify", !.ref = NoShas]
           s4 == [run[r] EXCEPT !.pc = "verify", !.todo = @ \ {f}, !.ref = NoShas, !.done = done]
<1>1. /\ run[r] \in RunState /\ run[r].pc \in ReadSteps
      /\ {"verify", "upload", "record"} \subseteq Steps \cap ReadSteps
  BY StateOf DEF VerifyFile, UploadFile, RecordFile, ReadSteps, Steps
<1>2. /\ [run[r] EXCEPT !.pc = "upload", !.ref[f] = run[r].seen[f]] = s1
      /\ [run[r] EXCEPT !.pc = "verify", !.todo = @ \ {f}, !.ref = NoShas,
                        !.done[f] = run[r].ref[f]] = s4
  BY <1>1 DEF RunState
<1>3. \/ Becomes(r, s1) \/ Becomes(r, s2) \/ Becomes(r, s3) \/ Becomes(r, s4)
      \/ run[r].pc = "verify" /\ Becomes(r, b)
  BY <1>2 DEF VerifyFile, UploadFile, RecordFile
<1>4. got \in Optional(Contents) /\ None \in Optional(Contents)
  BY <1>1, ReadsOfRun DEF Optional
<1>5. ref1 \in Shas /\ ref2 \in Shas /\ done \in Shas /\ NoShas \in Shas
  BY <1>1, <1>4 DEF RunState, Shas, NoShas, Optional
<1>6. b \in RunState /\ Reading(b, run[r]) /\ b.pc = run[r].pc
  BY <1>1, <1>4, BlamedShape
<1> HIDE DEF got, ref1, ref2, done, b
<1>7. s1 \in RunState /\ s2 \in RunState /\ s3 \in RunState /\ s4 \in RunState
  BY <1>1, <1>5, <1>6 DEF RunState
<1>8. /\ Reading(s1, run[r]) /\ s1.pc = "upload" /\ Reading(s2, run[r]) /\ s2.pc = "record"
      /\ Reading(s3, run[r]) /\ s3.pc = "verify" /\ Reading(s4, run[r]) /\ s4.pc = "verify"
  BY <1>1, <1>6 DEF RunState, Reading
<1> HIDE DEF s1, s2, s3, s4
<1> QED  BY <1>1, <1>3, <1>6, <1>7, <1>8, ReadsOnTo

LEMMA FileFailsShape ==
  ASSUME TInv, NEW r \in Runners, NEW f \in Files, FileFails(r, f)
  PROVE  /\ ReadsOn(r)
         /\ \/ /\ run'[r].pc = run[r].pc /\ run[r].pc \in {"restore", "check", "verify"}
               /\ f \in run[r].todo /\ run'[r].todo = run[r].todo \ {f}
               /\ run'[r].errors = run[r].errors \cup {f}
               /\ run'[r].failed = run[r].failed \cup {f}
               /\ \A g \in Files : g # f => run'[r].done[g] = run[r].done[g]
            \/ run'[r].pc = "verify" /\ run[r].pc \in {"upload", "record"}
<1>1. run[r] \in RunState /\ run[r].pc \in ReadSteps /\ "verify" \in Steps \cap ReadSteps
  BY StateOf DEF FileFails, ReadSteps, Steps
<1>2. None \in Optional(Contents) /\ Garbage \in Optional(Contents) /\ NoShas \in Shas
  BY DEF Optional, Contents, NoShas, Shas
<1>3. ASSUME NEW left \in {None, Garbage}, run[r].pc \in {"restore", "check", "verify"},
             f \in run[r].todo, Becomes(r, [Blamed(r, f, left) EXCEPT !.failed = @ \cup {f}])
      PROVE  /\ ReadsOn(r) /\ run'[r].pc = run[r].pc /\ run'[r].todo = run[r].todo \ {f}
             /\ run'[r].errors = run[r].errors \cup {f}
             /\ run'[r].failed = run[r].failed \cup {f}
             /\ \A g \in Files : g # f => run'[r].done[g] = run[r].done[g]
  <2> DEFINE b == Blamed(r, f, left)
             s == [b EXCEPT !.failed = @ \cup {f}]
  <2>1. left \in Optional(Contents)
    BY <1>2, <1>3
  <2>2. /\ b \in RunState /\ Reading(b, run[r]) /\ b.pc = run[r].pc
        /\ b.todo = run[r].todo \ {f} /\ b.errors = run[r].errors \cup {f}
        /\ b.failed = run[r].failed
        /\ \A g \in Files : g # f => b.done[g] = run[r].done[g]
    BY <1>1, <2>1, BlamedShape
  <2> HIDE DEF b
  <2>3. s \in RunState
    BY <2>2 DEF RunState
  <2>4. /\ Reading(s, run[r]) /\ s.pc = b.pc /\ s.todo = b.todo /\ s.errors = b.errors
        /\ s.failed = b.failed \cup {f} /\ s.done = b.done
    BY <2>2 DEF RunState, Reading
  <2>5. Becomes(r, s)
    BY <1>3 DEF b
  <2> HIDE DEF s
  <2>6. ReadsOn(r) /\ run'[r] = s
    BY <1>1, <2>3, <2>4, <2>5, ReadsOnTo
  <2> QED  BY <2>2, <2>4, <2>6
<1>4. ASSUME run[r].pc \in {"upload", "record"},
             Becomes(r, [Blamed(r, f, None) EXCEPT
               !.pc = "verify", !.ref = NoShas, !.failed = @ \cup {f}])
      PROVE  ReadsOn(r) /\ run'[r].pc = "verify"
  <2> DEFINE b == Blamed(r, f, None)
             s == [b EXCEPT !.pc = "verify", !.ref = NoShas, !.failed = @ \cup {f}]
  <2>1. b \in RunState /\ Reading(b, run[r])
    BY <1>1, <1>2, BlamedShape
  <2> HIDE DEF b
  <2>2. s \in RunState /\ Reading(s, run[r]) /\ s.pc = "verify"
    BY <1>1, <1>2, <2>1 DEF RunState, Reading
  <2>3. Becomes(r, s)
    BY <1>4 DEF b
  <2> HIDE DEF s
  <2> QED  BY <1>1, <2>2, <2>3, ReadsOnTo
<1> QED  BY <1>3, <1>4 DEF FileFails

LEMMA ReadStepShape ==
  ASSUME TInv, Ownership, NEW r \in Runners, NEW f \in Files, ReadStep(r, f)
  PROVE  ReadsOn(r) /\ UNCHANGED <<jobs, inbound, store, aged, last, doomed>>
<1>1. ReadsOn(r)
  BY RestoreFileShape, CheckFileShape, PoolFileShape, FileFailsShape DEF ReadStep
<1>2. UNCHANGED <<jobs, inbound, store, aged, last, doomed>>
  BY ZenonT(60)
     DEF ReadStep, RestoreFile, CheckFile, VerifyFile, UploadFile, RecordFile, FileFails
<1> QED  BY <1>1, <1>2

LEMMA TypeReads ==
  ASSUME TInv, Ownership, NEW r \in Runners, NEW f \in Files, ReadStep(r, f)
  PROVE  TInv'
<1>1. ReadsOn(r) /\ UNCHANGED <<jobs, inbound, store, aged, last, doomed>>
  BY ReadStepShape
<1>2. run' \in [Runners -> RunState] /\ \A q \in Runners : Lists(run'[q])
  <2>1. run \in [Runners -> RunState] /\ \A q \in Runners : Lists(run[q])
    BY DEF TInv, TypeOK
  <2>2. run' \in [Runners -> RunState]
    BY <1>1, <2>1 DEF ReadsOn
  <2>3. Lists(run'[r])
    <3>1. run'[r].pc \in ReadSteps
      BY <1>1 DEF ReadsOn, Reading
    <3> QED  BY <3>1 DEF ReadSteps, CopyingSteps, Lists
  <2>4. \A q \in Runners : q # r => run'[q] = run[q]
    BY <1>1 DEF ReadsOn, OthersStay
  <2>5. ASSUME NEW q \in Runners PROVE Lists(run'[q])
    BY <2>1, <2>3, <2>4
  <2> QED  BY <2>2, <2>5
<1>3. writes' \in Nat /\ faults' \in Nat
  <2>1. \/ UNCHANGED bounds
        \/ faults' = faults + 1 /\ UNCHANGED writes
    BY ZenonT(60) DEF ReadStep, RestoreFile, CheckFile, VerifyFile, UploadFile,
       RecordFile, FileFails
  <2>2. writes \in Nat /\ faults \in Nat
    BY DEF TInv, TypeOK
  <2> QED  BY <2>1, <2>2 DEF bounds
<1>4. row' \in Shas /\ disk' \in Shas /\ mode' = mode
  <2>1. CASE UNCHANGED pool
    BY <2>1 DEF pool, TInv, TypeOK
  <2>2. CASE UploadFile(r, f)
    <3> DEFINE got == Reads(run[r].job, f, run[r].key)
    <3>1. got \in Optional(Contents)
      BY <1>1, ReadsOfRun DEF ReadsOn
    <3>2. row' = row /\ mode' = mode /\ (disk' = disk \/ disk' = [disk EXCEPT ![f] = got])
      BY <2>2 DEF UploadFile
    <3> HIDE DEF got
    <3> QED  BY <3>1, <3>2 DEF TInv, TypeOK, Shas
  <2>3. CASE RecordFile(r, f)
    <3>1. run[r].ref[f] \in Optional(Contents)
      BY StateOf DEF RunState, Shas
    <3> QED  BY <2>3, <3>1 DEF RecordFile, TInv, TypeOK, Shas
  <2> QED  BY <2>1, <2>2, <2>3 DEF ReadStep, RestoreFile, CheckFile, VerifyFile, FileFails
<1> QED  BY <1>1, <1>2, <1>3, <1>4 DEF TInv, TypeOK, store

LEMMA TypeDelete ==
  ASSUME TInv, NEW f \in Files, Delete(f)
  PROVE  TInv'
<1>1. \A r \in Runners : run'[r] = [run[r] EXCEPT !.steady = @ \ {f}]
  BY DEF Delete
<1>2. \A r \in Runners : run'[r] \in RunState /\ Lists(run'[r])
  <2> TAKE r \in Runners
  <2>1. run[r] \in RunState /\ Lists(run[r])
    BY StateOf DEF TInv
  <2> DEFINE steady == run[r].steady \ {f}
             s == [run[r] EXCEPT !.steady = steady]
  <2>2. run'[r] = s /\ steady \in SUBSET Files
    BY <1>1, <2>1 DEF RunState
  <2> HIDE DEF steady
  <2>3. s \in RunState
    BY <2>1, <2>2 DEF RunState
  <2>4. Lists(s)
    BY <2>1 DEF RunState, Lists
  <2> QED  BY <2>2, <2>3, <2>4
<1>3. run' \in [Runners -> RunState]
  BY <1>2 DEF Delete
<1>4. row' \in Shas /\ disk' \in Shas
  BY DEF Delete, TInv, TypeOK, Shas, Optional
<1>5. writes' \in Nat
  BY Counted DEF Delete, Acts
<1> QED  BY <1>2, <1>3, <1>4, <1>5 DEF Delete, TInv, TypeOK, store

\* What users, administrators and time do besides.
LEMMA TypeElse ==
  ASSUME TInv,
         \/ \E f \in Files : (\E b \in Blobs : Write(f, b)) \/ Commit(f)
         \/ \E p \in Pools, m \in Modes : SetPool(p, m)
         \/ \E j \in Jobs : Age(j)
  PROVE  TInv'
<1>1. ASSUME NEW f \in Files, NEW b \in Blobs, Write(f, b) PROVE TInv'
  <2>1. disk' \in Shas
    BY <1>1 DEF Write, TInv, TypeOK, Shas, Contents, Optional
  <2>2. writes' \in Nat
    BY <1>1, Counted DEF Write, Acts
  <2> QED  BY <1>1, <2>1, <2>2 DEF Write, TInv, TypeOK, store, Lists
<1>2. ASSUME NEW f \in Files, Commit(f) PROVE TInv'
  <2>1. row' \in Shas
    BY <1>2 DEF Commit, TInv, TypeOK, Shas
  <2> QED  BY <1>2, <2>1 DEF Commit, TInv, TypeOK, store, bounds, Lists
<1>3. ASSUME NEW p \in Pools, NEW m \in Modes, SetPool(p, m) PROVE TInv'
  <2>1. mode' \in [Pools -> Modes]
    BY <1>3 DEF SetPool, TInv, TypeOK
  <2>2. writes' \in Nat
    BY <1>3, Counted DEF SetPool, Acts
  <2> QED  BY <1>3, <2>1, <2>2 DEF SetPool, TInv, TypeOK, store, Lists
<1>4. ASSUME NEW j \in Jobs, Age(j) PROVE TInv'
  BY <1>4 DEF Age, TInv, TypeOK, pool, store, bounds, Lists
<1> QED  BY <1>1, <1>2, <1>3, <1>4

LEMMA TypeNext ==
  ASSUME TInv, Ownership, [Next]_vars
  PROVE  TInv'
<1>1. CASE UNCHANGED vars
  BY <1>1 DEF vars, pool, store, bounds, TInv, TypeOK, Lists
<1>2. ASSUME NEW r \in Runners, Step(r) PROVE TInv'
  <2>1. run[r].pc \in WorkSteps =>
          /\ run[r].job \in Jobs /\ jobs[run[r].job] # None
    BY DEF Ownership, Owns
  <2>2. CASE \/ FindReference(r) \/ WriteManifest(r) \/ Finalize(r) \/ Finish(r)
            \/ PruneList(r) \/ RemoveJob(r) \/ DropRow(r) \/ MarkFailed(r) \/ Report(r)
    <3>1. WriteManifest(r) \/ Finish(r) \/ MarkFailed(r) => run[r].pc \in WorkSteps
      BY DEF WriteManifest, Finish, MarkFailed, WorkSteps, CopyingSteps
    <3> QED  BY <2>1, <2>2, <3>1, TypeFindReference, TypeWriteManifest, TypeFinalize, TypeFinish,
                TypePruneList, TypeRemoveJob, TypeDropRow, TypeMarkFailed, TypeDies
  <2>3. CASE \/ \E p \in Pools : ListPool(r, p)
            \/ \E f \in Files : LinkFile(r, f) \/ CopyFile(r, f)
    <3>1. \A f \in Files : LinkFile(r, f) \/ CopyFile(r, f) => run[r].pc \in WorkSteps
      BY DEF LinkFile, CopyFile, WorkSteps, CopyingSteps
    <3> QED  BY <2>1, <2>3, <3>1, TypeListPool, TypeLinkFile, TypeCopyFile
  <2>4. CASE \E f \in Files :
               \/ RestoreFile(r, f) \/ CheckFile(r, f) \/ VerifyFile(r, f)
               \/ UploadFile(r, f) \/ RecordFile(r, f)
    BY <2>4, TypeReads DEF ReadStep
  <2> QED  BY <1>2, <2>2, <2>3, <2>4 DEF Step
<1>3. ASSUME NEW r \in Runners, Started(r) PROVE TInv'
  <2>1. CASE ScheduledRun(r) \/ RunCommand(r)
    BY <2>1, BackupAssumption, TypeBegin DEF ScheduledRun, RunCommand
  <2>2. CASE RestoreCommand(r) \/ VerifyCommand(r) \/ RestoreToPoolCommand(r)
    BY <2>2, TypeOpen DEF RestoreCommand, VerifyCommand, RestoreToPoolCommand, ReadSteps
  <2> QED  BY <1>3, <2>1, <2>2 DEF Started
<1>4. ASSUME NEW r \in Runners, Breaks(r) \/ RemoveBreaks(r) \/ Dies(r) PROVE TInv'
  BY <1>4, TypeBreaks, TypeRemoveBreaks, TypeDies
<1>6. ASSUME NEW r \in Runners, NEW f \in Files, FileFails(r, f) PROVE TInv'
  BY <1>6, TypeReads DEF ReadStep
<1>5. ASSUME NEW j \in Jobs, ReceiverPrunes(j) \/ \E f \in Files : Rot(j, f) PROVE TInv'
  BY <1>5, TypeReceiverPrunes, TypeRot
<1> QED  BY <1>1, <1>2, <1>3, <1>4, <1>5, <1>6, TypeDelete, TypeElse DEF Next

(***************************************************************************)
(* What each step makes of the runner that takes it.                       *)
(***************************************************************************)
\* What a run keeps from its beginning to its end.
SameRun(s, t) ==
  s.job = t.job /\ s.dest = t.dest /\ s.key = t.key /\ s.keep = t.keep /\ s.days = t.days

SameReference(s, t) == s.prev = t.prev /\ s.ref = t.ref
SameWork(s, t) ==
  s.pools = t.pools /\ s.todo = t.todo /\ s.seen = t.seen /\ s.done = t.done
SameRest(s, t) ==
  s.old = t.old /\ s.errors = t.errors /\ s.failed = t.failed /\ s.steady = t.steady

LEMMA GoesToShape ==
  ASSUME TInv, NEW r \in Runners, NEW pc, GoesTo(r, pc)
  PROVE  /\ OthersStay(r) /\ run'[r].pc = pc
         /\ SameRun(run'[r], run[r]) /\ SameReference(run'[r], run[r])
         /\ SameWork(run'[r], run[r]) /\ SameRest(run'[r], run[r])
<1>1. run[r] \in RunState
  BY StateOf
<1>2. run'[r] = [run[r] EXCEPT !.pc = pc] /\ OthersStay(r)
  BY DEF GoesTo, TInv, TypeOK, OthersStay
<1> QED  BY <1>1, <1>2 DEF RunState, SameRun, SameReference, SameWork, SameRest

LEMMA EndedShape ==
  ASSUME NEW r \in Runners, NEW pc
  PROVE  LET s == Ended(r, pc) IN
         /\ s.pc = pc /\ s.job = run[r].job /\ s.dest = run[r].dest
         /\ s.keep = run[r].keep /\ s.days = run[r].days
         /\ s.prev = None /\ s.old = {}
BY DEF Ended, Idle

LEMMA FindReferenceShape ==
  ASSUME TInv, NEW r \in Runners, FindReference(r)
  PROVE  LET finished == Completed(run[r].dest) IN
         /\ OthersStay(r) /\ run'[r].pc = "pools"
         /\ \/ /\ run'[r].prev = IF finished = {} THEN None ELSE Latest(finished)
               /\ run'[r].ref = IF finished = {} \/ note[Latest(finished)] = None THEN NoShas
                                ELSE note[Latest(finished)].sha
            \/ SameReference(run'[r], run[r])
         /\ SameRun(run'[r], run[r]) /\ SameWork(run'[r], run[r]) /\ SameRest(run'[r], run[r])
<1> DEFINE finished == Completed(run[r].dest)
           prev == IF finished = {} THEN None ELSE Latest(finished)
           ref == IF finished = {} \/ note[Latest(finished)] = None THEN NoShas
                  ELSE note[Latest(finished)].sha
           s == [run[r] EXCEPT !.pc = "pools", !.prev = prev, !.ref = ref]
<1>1. run[r] \in RunState
  BY StateOf
<1>2. CASE GoesTo(r, "pools")
  BY <1>2, GoesToShape
<1>3. CASE Becomes(r, s)
  <2>1. run'[r] = s /\ OthersStay(r)
    BY <1>3, MoveShape
  <2>2. /\ s.pc = "pools" /\ s.prev = prev /\ s.ref = ref
        /\ SameRun(s, run[r]) /\ SameWork(s, run[r]) /\ SameRest(s, run[r])
    <3> HIDE DEF prev, ref
    <3> QED  BY <1>1 DEF RunState, SameRun, SameWork, SameRest
  <2> HIDE DEF s
  <2> QED  BY <2>1, <2>2
<1> QED  BY <1>2, <1>3 DEF FindReference

LEMMA ListPoolShape ==
  ASSUME TInv, NEW r \in Runners, NEW p \in Pools, ListPool(r, p)
  PROVE  LET listed == {f \in Files : PoolOf[f] = p /\ row[f] # None} IN
         /\ OthersStay(r) /\ run'[r].pc = "pools"
         /\ run'[r].pools = run[r].pools \ {p} /\ run'[r].todo = listed
         /\ run'[r].done = run[r].done
         /\ SameRun(run'[r], run[r]) /\ SameReference(run'[r], run[r])
         /\ SameRest(run'[r], run[r])
<1> DEFINE listed == {f \in Files : PoolOf[f] = p /\ row[f] # None}
           seen == [f \in Files |-> IF f \in listed THEN row[f] ELSE run[r].seen[f]]
           s == [run[r] EXCEPT !.pools = @ \ {p}, !.todo = listed, !.seen = seen]
<1>1. run[r] \in RunState /\ run[r].pc = "pools"
  BY StateOf DEF ListPool
<1>2. run[r].seen = [run[r] EXCEPT !.pools = @ \ {p}, !.todo = listed].seen
  BY <1>1 DEF RunState
<1>3. Becomes(r, s)
  BY <1>2 DEF ListPool
<1>4. run'[r] = s /\ OthersStay(r)
  BY <1>3, MoveShape
<1>5. /\ s.pc = "pools" /\ s.pools = run[r].pools \ {p} /\ s.todo = listed /\ s.done = run[r].done
      /\ SameRun(s, run[r]) /\ SameReference(s, run[r]) /\ SameRest(s, run[r])
  <2> HIDE DEF listed, seen
  <2> QED  BY <1>1 DEF RunState, SameRun, SameReference, SameRest
<1> HIDE DEF s
<1> QED  BY <1>4, <1>5

LEMMA CopiedShape ==
  ASSUME TInv, NEW r \in Runners, NEW f \in Files, run[r].pc = "pools", Copied(r, f)
  PROVE  /\ OthersStay(r) /\ run'[r].pc = "pools"
         /\ run'[r].todo = run[r].todo \ {f} /\ run'[r].pools = run[r].pools
         /\ run'[r].done[f] = run[r].seen[f]
         /\ \A g \in Files : g # f => run'[r].done[g] = run[r].done[g]
         /\ SameRun(run'[r], run[r]) /\ SameReference(run'[r], run[r])
         /\ SameRest(run'[r], run[r])
<1> DEFINE done == [run[r].done EXCEPT ![f] = run[r].seen[f]]
           s == [run[r] EXCEPT !.todo = @ \ {f}, !.done = done]
<1>1. run[r] \in RunState /\ run[r].pc = "pools"
  BY StateOf
<1>2. [run[r] EXCEPT !.todo = @ \ {f}, !.done[f] = run[r].seen[f]] = s
  BY <1>1 DEF RunState
<1>3. Becomes(r, s)
  BY <1>2 DEF Copied
<1>4. run'[r] = s /\ OthersStay(r)
  BY <1>3, MoveShape
<1>5. done[f] = run[r].seen[f] /\ \A g \in Files : g # f => done[g] = run[r].done[g]
  BY <1>1 DEF RunState, Shas
<1> HIDE DEF done
<1>6. /\ s.pc = "pools" /\ s.pools = run[r].pools /\ s.todo = run[r].todo \ {f} /\ s.done = done
      /\ SameRun(s, run[r]) /\ SameReference(s, run[r]) /\ SameRest(s, run[r])
  BY <1>1 DEF RunState, SameRun, SameReference, SameRest
<1> HIDE DEF s
<1> QED  BY <1>4, <1>5, <1>6

\* Only what is left of the list changes.
ShortensList(s, t, pc) ==
  /\ s.pc = pc /\ s.old = t.old \ {Latest(t.old)} /\ s.old # {}
  /\ SameRun(s, t) /\ SameReference(s, t)

LEMMA RemoveBreaksShape ==
  ASSUME TInv, NEW r \in Runners, RemoveBreaks(r)
  PROVE  /\ OthersStay(r)
         /\ run'[r] = Idle \/ ShortensList(run'[r], run[r], "remove")
<1> DEFINE old == run[r].old \ {Latest(run[r].old)}
           s == [run[r] EXCEPT !.old = old]
<1>1. run[r] \in RunState /\ run[r].pc = "remove"
  BY StateOf DEF RemoveBreaks
<1>2. [run[r] EXCEPT !.old = @ \ {Latest(run[r].old)}] = s
  BY <1>1 DEF RunState
<1>3. Becomes(r, Idle) \/ (s.old # {} /\ Becomes(r, s))
  BY <1>2 DEF RemoveBreaks, PruneOn
<1> HIDE DEF old
<1>4. s.pc = "remove" /\ s.old = old /\ SameRun(s, run[r]) /\ SameReference(s, run[r])
  BY <1>1 DEF RunState, SameRun, SameReference
<1> HIDE DEF s
<1> QED  BY <1>3, <1>4, MoveShape DEF ShortensList, old

LEMMA DropRowShape ==
  ASSUME TInv, NEW r \in Runners, DropRow(r)
  PROVE  /\ OthersStay(r)
         /\ run'[r] = Idle \/ ShortensList(run'[r], run[r], "remove")
<1> DEFINE old == run[r].old \ {Latest(run[r].old)}
           s == [run[r] EXCEPT !.old = old, !.pc = "remove"]
<1>1. run[r] \in RunState
  BY StateOf
<1>2. [run[r] EXCEPT !.old = @ \ {Latest(run[r].old)}, !.pc = "remove"] = s
  BY <1>1 DEF RunState
<1>3. Becomes(r, Idle) \/ (s.old # {} /\ Becomes(r, s))
  BY <1>2 DEF DropRow, PruneOn
<1> HIDE DEF old
<1>4. s.pc = "remove" /\ s.old = old /\ SameRun(s, run[r]) /\ SameReference(s, run[r])
  BY <1>1 DEF RunState, SameRun, SameReference
<1> HIDE DEF s
<1> QED  BY <1>3, <1>4, MoveShape DEF ShortensList, old

LEMMA PruneListShape ==
  ASSUME TInv, NEW r \in Runners, PruneList(r)
  PROVE  /\ OthersStay(r)
         /\ \/ run'[r] = Idle
            \/ /\ run'[r].pc = "remove" /\ run'[r].old = Surplus(r) /\ Surplus(r) # {}
               /\ SameRun(run'[r], run[r]) /\ SameReference(run'[r], run[r])
<1> DEFINE old == Surplus(r)
           s == [run[r] EXCEPT !.pc = "remove", !.old = old]
<1>1. run[r] \in RunState
  BY StateOf
<1>2. Becomes(r, Idle) \/ (old # {} /\ Becomes(r, s))
  BY DEF PruneList
<1> HIDE DEF old
<1>3. s.pc = "remove" /\ s.old = old /\ SameRun(s, run[r]) /\ SameReference(s, run[r])
  BY <1>1 DEF RunState, SameRun, SameReference
<1> HIDE DEF s
<1> QED  BY <1>2, <1>3, MoveShape DEF old

LEMMA BeginShape ==
  ASSUME TInv, NEW r \in Runners, NEW o \in RunOptions, Begin(r, o)
  PROVE  LET chosen == {p \in o.pools : mode[p] = "backed"} IN
         /\ OthersStay(r) /\ run'[r].pc \in CopyingSteps
         /\ run'[r].job = last + 1 /\ run'[r].dest = o.dest /\ run'[r].pools = chosen
         /\ run'[r].prev = None /\ run'[r].old = {} /\ run'[r].todo = {}
         /\ run'[r].ref = NoShas /\ run'[r].done = NoShas /\ run'[r].key = o.key
         /\ run'[r].steady = {f \in Files : PoolOf[f] \in chosen /\ row[f] # None}
<1> DEFINE chosen == {p \in o.pools : mode[p] = "backed"}
           steady == {f \in Files : PoolOf[f] \in chosen /\ row[f] # None}
           pc == IF o.incremental /\ o.key = None THEN "reference" ELSE "pools"
           s == [Idle EXCEPT !.job = last + 1, !.dest = o.dest, !.pools = chosen,
                             !.incremental = o.incremental, !.key = o.key,
                             !.keep = o.keep, !.days = o.days,
                             !.steady = steady, !.pc = pc]
<1>1. run'[r] = s /\ OthersStay(r)
  BY MoveShape DEF Begin
<1>2. pc \in CopyingSteps
  BY DEF CopyingSteps
<1> HIDE DEF pc, chosen, steady
<1>3. /\ s.pc = pc /\ s.job = last + 1 /\ s.dest = o.dest /\ s.pools = chosen
      /\ s.prev = None /\ s.old = {} /\ s.todo = {} /\ s.ref = NoShas /\ s.done = NoShas
      /\ s.steady = steady /\ s.key = o.key
  BY DEF Idle
<1> HIDE DEF s
<1> QED  BY <1>1, <1>2, <1>3 DEF chosen, steady

LEMMA OpenShape ==
  ASSUME TInv, NEW r \in Runners, NEW j \in Jobs, NEW k \in Optional(Keys), NEW ps, NEW pc,
         Open(r, j, pc, k, ps)
  PROVE  /\ OthersStay(r) /\ run'[r].pc = pc /\ run'[r].job = j
         /\ run'[r].prev = None /\ run'[r].old = {} /\ run'[r].seen = note[j].sha
         /\ run'[r].todo = {f \in Files : note[j].sha[f] # None}
         /\ run'[r].done = NoShas /\ run'[r].errors = {}
<1> DEFINE todo == {f \in Files : note[j].sha[f] # None}
           key == KeyFor(j, k)
           dest == jobs[j].dest
           seen == note[j].sha
           s == [Idle EXCEPT !.pc = pc, !.job = j, !.dest = dest, !.pools = ps,
                             !.key = key, !.seen = seen, !.todo = todo]
<1>1. run'[r] = s /\ OthersStay(r)
  BY MoveShape DEF Open
<1> HIDE DEF todo, key, dest, seen
<1>2. /\ s.pc = pc /\ s.job = j /\ s.prev = None /\ s.old = {} /\ s.seen = seen
      /\ s.todo = todo /\ s.done = NoShas /\ s.errors = {}
  BY DEF Idle
<1> HIDE DEF s
<1> QED  BY <1>1, <1>2 DEF todo, seen

LEMMA DeleteShape ==
  ASSUME TInv, NEW f \in Files, Delete(f), NEW r \in Runners
  PROVE  /\ run'[r].pc = run[r].pc /\ run'[r].steady = run[r].steady \ {f}
         /\ run'[r].old = run[r].old
         /\ run'[r].errors = run[r].errors /\ run'[r].failed = run[r].failed
         /\ SameRun(run'[r], run[r]) /\ SameReference(run'[r], run[r])
         /\ SameWork(run'[r], run[r])
<1>1. run[r] \in RunState
  BY StateOf
<1>2. run'[r] = [run[r] EXCEPT !.steady = @ \ {f}]
  BY DEF Delete
<1> QED  BY <1>1, <1>2 DEF RunState, SameRun, SameReference, SameWork

(***************************************************************************)
(* Who works on which job.                                                 *)
(***************************************************************************)
LEMMA OwnershipInit == Init => Ownership
BY DEF Init, Ownership, Owns, Uses, Untouched, Working, Idle, WorkSteps, CopyingSteps,
       ReadSteps, RemoveSteps, Jobs

\* A runner that works on no job but the one it worked on, while no row changes.
LEMMA OwnershipMove ==
  ASSUME TInv, Ownership, NEW r \in Runners, OthersStay(r), UNCHANGED <<jobs, last>>,
         Owns(run'[r]), Uses(run'[r]),
         run'[r].pc \in WorkSteps => Working(r) /\ run'[r].job = run[r].job,
         \A j \in Jobs : j > last => Untouched(j)'
  PROVE  Ownership'
<1>1. \A q \in Runners : Owns(run[q])' /\ Uses(run[q])'
  <2> TAKE q \in Runners
  <2>1. Owns(run[q]') /\ Uses(run[q]')
    BY DEF OthersStay, Ownership
  <2> QED  BY <2>1 DEF Owns, Uses, Closed
<1>2. \A q \in Runners : Working(q)' => Working(q) /\ run'[q].job = run[q].job
  BY DEF OthersStay, Working
<1> QED  BY <1>1, <1>2 DEF Ownership

\* The same when nothing but the runner changes that Ownership speaks of.
LEMMA OwnershipQuiet ==
  ASSUME TInv, Ownership, NEW r \in Runners, OthersStay(r),
         UNCHANGED <<jobs, inbound, copy, note, aged, last, doomed>>,
         Owns(run'[r]), Uses(run'[r]),
         run'[r].pc \in WorkSteps => Working(r) /\ run'[r].job = run[r].job
  PROVE  Ownership'
<1>1. \A j \in Jobs : j > last => Untouched(j)'
  BY DEF Ownership, Untouched
<1> QED  BY <1>1, OwnershipMove

LEMMA OwnershipIdle ==
  ASSUME TInv, Ownership, NEW r \in Runners, run'[r] = Idle
  PROVE  Owns(run'[r]) /\ Uses(run'[r]) /\ run'[r].pc \notin WorkSteps
BY DEF Owns, Uses, Idle, WorkSteps, CopyingSteps, ReadSteps, RemoveSteps

LEMMA OwnershipEnded ==
  ASSUME TInv, Ownership, NEW r \in Runners, Working(r), run'[r] = Ended(r, "fail")
  PROVE  Owns(run'[r]) /\ Uses(run'[r])
<1>1. Owns(run[r])
  BY DEF Ownership
<1> QED  BY <1>1, EndedShape DEF Owns, Uses, Working, WorkSteps, CopyingSteps, ReadSteps, RemoveSteps

LEMMA LastIsJob == TInv => last \in Nat /\ MaxJobs \in Nat /\ \A j \in Jobs : j \in Nat
BY BackupAssumption DEF TInv, TypeOK, Jobs

LEMMA CompletedClosed ==
  ASSUME TInv, Ownership, NEW d, NEW j \in Completed(d)
  PROVE  Closed(j) /\ j \in Jobs /\ jobs[j].dest = d
<1>1. j \in Jobs /\ jobs[j] # None /\ jobs[j].status = "completed" /\ jobs[j].dest = d
  BY DEF Completed
<1>2. ~(j > last)
  BY <1>1 DEF Ownership, Untouched
<1> QED  BY <1>1, <1>2, LastIsJob DEF Closed

LEMMA OwnershipFindReference ==
  ASSUME TInv, Ownership, NEW r \in Runners, FindReference(r)
  PROVE  Ownership'
<1>1. Owns(run[r]) /\ Uses(run[r]) /\ run[r].pc = "reference"
  BY DEF Ownership, FindReference
<1>2. /\ OthersStay(r) /\ run'[r].pc = "pools" /\ SameRun(run'[r], run[r])
      /\ SameRest(run'[r], run[r])
      /\ \/ run'[r].prev # None => run'[r].prev \in Completed(run[r].dest)
         \/ run'[r].prev = run[r].prev
  BY FindReferenceShape, LatestIsNewest DEF Completed, SameReference
<1>3. run'[r].prev # None => Closed(run'[r].prev)
  BY <1>1, <1>2, CompletedClosed DEF Uses
<1>4. Owns(run'[r])
  BY <1>1, <1>2 DEF Owns, SameRun, WorkSteps, CopyingSteps
<1>5. Uses(run'[r])
  BY <1>1, <1>2, <1>3 DEF Uses, SameRun, SameRest, ReadSteps, RemoveSteps
<1> QED  BY <1>1, <1>2, <1>4, <1>5, OwnershipQuiet
         DEF FindReference, store, Working, WorkSteps, CopyingSteps, SameRun

LEMMA OwnershipListPool ==
  ASSUME TInv, Ownership, NEW r \in Runners, NEW p \in Pools, ListPool(r, p)
  PROVE  Ownership'
<1>1. Owns(run[r]) /\ Uses(run[r]) /\ run[r].pc = "pools"
  BY DEF Ownership, ListPool
<1>2. /\ OthersStay(r) /\ run'[r].pc = "pools" /\ SameRun(run'[r], run[r])
      /\ SameReference(run'[r], run[r]) /\ SameRest(run'[r], run[r])
  BY ListPoolShape
<1>3. Owns(run'[r]) /\ Uses(run'[r])
  BY <1>1, <1>2 DEF Owns, Uses, SameRun, SameRest, SameReference, WorkSteps, CopyingSteps,
                    ReadSteps, RemoveSteps
<1> QED  BY <1>1, <1>2, <1>3, OwnershipQuiet
         DEF ListPool, store, Working, WorkSteps, CopyingSteps, SameRun

\* A step of Working, to another one of it, keeps the job.
LEMMA OwnershipWorks ==
  ASSUME TInv, Ownership, NEW r \in Runners, Working(r),
         run'[r].pc \in WorkSteps, run'[r].pc = "finalize" => run[r].dest = "remote",
         SameRun(run'[r], run[r]), SameReference(run'[r], run[r]), SameRest(run'[r], run[r])
  PROVE  Owns(run'[r]) /\ Uses(run'[r])
<1>1. Owns(run[r]) /\ Uses(run[r])
  BY DEF Ownership
<1> QED  BY <1>1 DEF Owns, Uses, SameRun, SameRest, SameReference, Working,
                     WorkSteps, CopyingSteps, ReadSteps, RemoveSteps

LEMMA OwnJob ==
  ASSUME TInv, Ownership, NEW r \in Runners, Working(r)
  PROVE  /\ run[r].job \in Jobs /\ run[r].job <= last /\ ~(run[r].job > last)
         /\ jobs[run[r].job] # None /\ jobs[run[r].job].status = "running"
         /\ jobs[run[r].job].dest = run[r].dest
<1>1. Owns(run[r])
  BY DEF Ownership
<1> QED  BY <1>1, LastIsJob DEF Owns, Working

LEMMA OwnershipLinkFile ==
  ASSUME TInv, Ownership, NEW r \in Runners, NEW f \in Files, LinkFile(r, f)
  PROVE  Ownership'
<1>1. Working(r) /\ run[r].pc = "pools"
  BY DEF LinkFile, Working, WorkSteps, CopyingSteps
<1>2. /\ OthersStay(r) /\ run'[r].pc = "pools" /\ SameRun(run'[r], run[r])
      /\ SameReference(run'[r], run[r]) /\ SameRest(run'[r], run[r])
  BY <1>1, CopiedShape DEF LinkFile
<1>3. Owns(run'[r]) /\ Uses(run'[r])
  BY <1>1, <1>2, OwnershipWorks DEF WorkSteps, CopyingSteps
<1>4. \A j \in Jobs : j > last => Untouched(j)'
  <2>1. \A j \in Jobs : j > last => j # run[r].job
    BY <1>1, OwnJob
  <2> QED  BY <2>1 DEF LinkFile, Ownership, Untouched, TInv, TypeOK
<1> QED  BY <1>1, <1>2, <1>3, <1>4, OwnershipMove DEF LinkFile, SameRun

LEMMA OwnershipCopyFile ==
  ASSUME TInv, Ownership, NEW r \in Runners, NEW f \in Files, CopyFile(r, f)
  PROVE  Ownership'
<1>1. Working(r) /\ run[r].pc = "pools"
  BY DEF CopyFile, Working, WorkSteps, CopyingSteps
<1>2. CASE disk[f] = run[r].seen[f]
  <2>1. Copied(r, f) /\ copy' = [copy EXCEPT ![run[r].job][f] = run[r].job]
    BY <1>2 DEF CopyFile
  <2>2. /\ OthersStay(r) /\ run'[r].pc = "pools" /\ SameRun(run'[r], run[r])
        /\ SameReference(run'[r], run[r]) /\ SameRest(run'[r], run[r])
    BY <1>1, <2>1, CopiedShape
  <2>3. Owns(run'[r]) /\ Uses(run'[r])
    BY <1>1, <2>2, OwnershipWorks DEF WorkSteps, CopyingSteps
  <2>4. \A j \in Jobs : j > last => Untouched(j)'
    <3>1. \A j \in Jobs : j > last => j # run[r].job
      BY <1>1, OwnJob
    <3> QED  BY <2>1, <3>1 DEF CopyFile, Ownership, Untouched, TInv, TypeOK
  <2> QED  BY <1>1, <2>2, <2>3, <2>4, OwnershipMove DEF CopyFile, SameRun
<1>3. CASE disk[f] # run[r].seen[f]
  <2>1. Becomes(r, Ended(r, "fail")) /\ UNCHANGED <<copy, bytes>>
    BY <1>3 DEF CopyFile
  <2>2. run'[r] = Ended(r, "fail") /\ OthersStay(r)
    BY <2>1, MoveShape
  <2> QED  BY <1>1, <2>1, <2>2, OwnershipEnded, OwnershipQuiet, EndedShape DEF CopyFile
<1> QED  BY <1>2, <1>3

LEMMA OwnershipWriteManifest ==
  ASSUME TInv, Ownership, NEW r \in Runners, WriteManifest(r)
  PROVE  Ownership'
<1>1. Working(r)
  BY DEF WriteManifest, Working, WorkSteps, CopyingSteps
<1>2. /\ OthersStay(r) /\ run'[r].pc = IF run[r].dest = "remote" THEN "finalize" ELSE "finish"
      /\ SameRun(run'[r], run[r])
      /\ SameReference(run'[r], run[r]) /\ SameRest(run'[r], run[r])
  BY GoesToShape DEF WriteManifest
<1>3. Owns(run'[r]) /\ Uses(run'[r])
  BY <1>1, <1>2, OwnershipWorks DEF WorkSteps
<1>4. \A j \in Jobs : j > last => Untouched(j)'
  <2>1. \A j \in Jobs : j > last => j # run[r].job
    BY <1>1, OwnJob
  <2> QED  BY <2>1 DEF WriteManifest, Ownership, Untouched, TInv, TypeOK
<1> QED  BY <1>1, <1>2, <1>3, <1>4, OwnershipMove DEF WriteManifest, SameRun

LEMMA OwnershipFinalize ==
  ASSUME TInv, Ownership, NEW r \in Runners, Finalize(r)
  PROVE  Ownership'
<1>1. Working(r)
  BY DEF Finalize, Working, WorkSteps
<1>2. /\ OthersStay(r) /\ run'[r].pc = "finish" /\ SameRun(run'[r], run[r])
      /\ SameReference(run'[r], run[r]) /\ SameRest(run'[r], run[r])
  BY GoesToShape DEF Finalize
<1>3. Owns(run'[r]) /\ Uses(run'[r])
  BY <1>1, <1>2, OwnershipWorks DEF WorkSteps
<1>4. \A j \in Jobs : j > last => Untouched(j)'
  <2>1. \A j \in Jobs : j > last => j # run[r].job
    BY <1>1, OwnJob
  <2> QED  BY <2>1 DEF Finalize, Ownership, Untouched, TInv, TypeOK, store
<1> QED  BY <1>1, <1>2, <1>3, <1>4, OwnershipMove DEF Finalize, SameRun

LEMMA OwnershipBreaks ==
  ASSUME TInv, Ownership, NEW r \in Runners, Breaks(r)
  PROVE  Ownership'
<1>1. Working(r)
  BY DEF Breaks, Running, Working, WorkSteps, CopyingSteps
<1>2. OthersStay(r) /\ (run'[r] = Idle \/ run'[r] = Ended(r, "fail"))
  <2>1. Becomes(r, Idle) \/ Becomes(r, Ended(r, "fail"))
    BY DEF Breaks
  <2> QED  BY <2>1, MoveShape
<1>3. Owns(run'[r]) /\ Uses(run'[r])
  BY <1>1, <1>2, OwnershipIdle, OwnershipEnded
<1>4. \A j \in Jobs : j > last => Untouched(j)'
  <2>1. \A j \in Jobs : j > last => j # run[r].job
    BY <1>1, OwnJob
  <2> QED  BY <2>1 DEF Breaks, Ownership, Untouched, TInv, TypeOK, store
<1>5. run'[r].pc \in WorkSteps => run'[r].job = run[r].job
  BY <1>2, EndedShape, OwnershipIdle
<1> QED  BY <1>1, <1>2, <1>3, <1>4, <1>5, OwnershipMove DEF Breaks

\* One row changes, or goes; what is closed stays so.
LEMMA OwnershipRow ==
  ASSUME TInv, Ownership, NEW r \in Runners, OthersStay(r), UNCHANGED last,
         NEW i \in Jobs, \A j \in Jobs : j # i => jobs'[j] = jobs[j],
         \A q \in Runners : q # r /\ Working(q) => run[q].job # i,
         Closed(i) => jobs'[i] = None \/ jobs'[i] = jobs[i],
         Owns(run[r])', Uses(run[r])', run'[r].pc \notin WorkSteps,
         \A j \in Jobs : j > last => Untouched(j)'
  PROVE  Ownership'
<1>1. \A j \in Jobs : Closed(j) =>
         Closed(j)' /\ (jobs'[j] # None => jobs[j] # None /\ jobs'[j].dest = jobs[j].dest)
  BY DEF Closed
<1>2. \A q \in Runners : Owns(run[q])' /\ Uses(run[q])'
  <2> TAKE q \in Runners
  <2>1. CASE q = r
    BY <2>1
  <2>2. CASE q # r
    <3>1. run'[q] = run[q] /\ Owns(run[q]) /\ Uses(run[q])
      BY <2>2 DEF OthersStay, Ownership
    <3>2. Owns(run[q])'
      BY <2>2, <3>1 DEF Owns, Working
    <3>3. /\ run[q].prev # None => run[q].prev \in Jobs
          /\ run[q].old \subseteq Jobs
      BY StateOf DEF RunState, Optional
    <3>4. Uses(run[q])'
      <4>1. \A j \in run[q].old : Closed(j)' /\ (jobs'[j] # None => jobs'[j].dest = run[q].dest)
        BY <1>1, <3>1, <3>3 DEF Uses
      <4> QED  BY <1>1, <3>1, <3>3, <4>1 DEF Uses
    <3> QED  BY <3>2, <3>4
  <2> QED  BY <2>1, <2>2
<1>3. \A q \in Runners : Working(q)' => Working(q) /\ run'[q].job = run[q].job
  BY DEF OthersStay, Working
<1> QED  BY <1>2, <1>3 DEF Ownership

LEMMA OwnershipFinish ==
  ASSUME TInv, Ownership, NEW r \in Runners, Finish(r)
  PROVE  Ownership'
<1>1. Working(r)
  BY DEF Finish, Working, WorkSteps
<1> DEFINE i == run[r].job
<1>2. /\ i \in Jobs /\ i <= last /\ ~(i > last) /\ jobs[i] # None
      /\ jobs[i].status = "running" /\ jobs[i].dest = run[r].dest
  BY <1>1, OwnJob
<1>3. OthersStay(r) /\ (run'[r] = Idle \/ run'[r] = Ended(r, "prune"))
  <2>1. Becomes(r, Idle) \/ Becomes(r, Ended(r, "prune"))
    BY DEF Finish
  <2> QED  BY <2>1, MoveShape
<1>4. Owns(run[r])' /\ Uses(run[r])' /\ run'[r].pc \notin WorkSteps
  <2>1. CASE run'[r] = Idle
    BY <2>1 DEF Owns, Uses, Idle, WorkSteps, CopyingSteps, ReadSteps, RemoveSteps
  <2>2. CASE run'[r] = Ended(r, "prune")
    <3>1. last' = last
      BY DEF Finish
    <3> QED  BY <1>2, <2>2, <3>1, EndedShape
             DEF Owns, Uses, WorkSteps, CopyingSteps, ReadSteps, RemoveSteps
  <2> QED  BY <1>3, <2>1, <2>2
<1>5. \A j \in Jobs : j # i => jobs'[j] = jobs[j]
  BY DEF Finish, TInv, TypeOK
<1>6. \A j \in Jobs : j > last => Untouched(j)'
  BY <1>2, <1>5 DEF Finish, Ownership, Untouched, store
<1>7. \A q \in Runners : q # r /\ Working(q) => run[q].job # i
  BY <1>1 DEF Ownership
<1>8. ~Closed(i) /\ UNCHANGED last
  BY <1>2 DEF Closed, Finish
<1> HIDE DEF i
<1> QED  BY <1>2, <1>3, <1>4, <1>5, <1>6, <1>7, <1>8, OwnershipRow

LEMMA OwnershipMarkFailed ==
  ASSUME TInv, Ownership, NEW r \in Runners, MarkFailed(r)
  PROVE  Ownership'
<1>1. Working(r)
  BY DEF MarkFailed, Working, WorkSteps
<1> DEFINE i == run[r].job
<1>2. /\ i \in Jobs /\ ~(i > last) /\ jobs[i] # None /\ jobs[i].status = "running"
  BY <1>1, OwnJob
<1>3. OthersStay(r) /\ run'[r] = Idle
  BY MoveShape DEF MarkFailed
<1>4. Owns(run[r])' /\ Uses(run[r])' /\ run'[r].pc \notin WorkSteps
  BY <1>3 DEF Owns, Uses, Idle, WorkSteps, CopyingSteps, ReadSteps, RemoveSteps
<1>5. \A j \in Jobs : j # i => jobs'[j] = jobs[j]
  BY DEF MarkFailed, TInv, TypeOK
<1>6. \A j \in Jobs : j > last => Untouched(j)'
  BY <1>2, <1>5 DEF MarkFailed, Ownership, Untouched, store
<1>7. \A q \in Runners : q # r /\ Working(q) => run[q].job # i
  BY <1>1 DEF Ownership
<1>8. ~Closed(i) /\ UNCHANGED last
  BY <1>2 DEF Closed, MarkFailed
<1> HIDE DEF i
<1> QED  BY <1>2, <1>3, <1>4, <1>5, <1>6, <1>7, <1>8, OwnershipRow

\* The rest of the list is as closed as all of it.
LEMMA OwnershipShortens ==
  ASSUME TInv, Ownership, NEW r \in Runners, run[r].pc \in RemoveSteps,
         run'[r] = Idle \/ ShortensList(run'[r], run[r], "remove")
  PROVE  Owns(run'[r]) /\ Uses(run'[r]) /\ run'[r].pc \notin WorkSteps
<1>1. Uses(run[r])
  BY DEF Ownership
<1>2. CASE ShortensList(run'[r], run[r], "remove")
  BY <1>1, <1>2 DEF Owns, Uses, ShortensList, SameRun, SameReference, WorkSteps,
                    CopyingSteps, ReadSteps, RemoveSteps
<1> QED  BY <1>2, OwnershipIdle

\* What a retention has on its list, nobody works on.
LEMMA OldIsClosed ==
  ASSUME TInv, Ownership, NEW r \in Runners, NEW j \in run[r].old
  PROVE  /\ j \in Jobs /\ Closed(j) /\ ~(j > last)
         /\ jobs[j] # None => jobs[j].status = "completed" /\ jobs[j].dest = run[r].dest
         /\ \A q \in Runners : Working(q) => run[q].job # j
<1>1. j \in Jobs /\ Closed(j) /\ (jobs[j] # None => jobs[j].dest = run[r].dest)
  BY StateOf DEF Ownership, Uses, RunState
<1> QED  BY <1>1, OwnJob, LastIsJob DEF Closed

LEMMA OwnershipDropRow ==
  ASSUME TInv, Ownership, NEW r \in Runners, DropRow(r)
  PROVE  Ownership'
<1> DEFINE i == Latest(run[r].old)
<1>1. run[r].pc \in RemoveSteps /\ i \in run[r].old
  BY OldIsOfJobs DEF DropRow, RemoveSteps
<1>2. i \in Jobs /\ ~(i > last) /\ \A q \in Runners : Working(q) => run[q].job # i
  BY <1>1, OldIsClosed
<1>3. OthersStay(r) /\ (run'[r] = Idle \/ ShortensList(run'[r], run[r], "remove"))
  BY DropRowShape
<1>4. Owns(run'[r]) /\ Uses(run'[r]) /\ run'[r].pc \notin WorkSteps
  BY <1>1, <1>3, OwnershipShortens
<1>5. /\ \A j \in Jobs : j # i => jobs'[j] = jobs[j]
      /\ jobs'[i] = None \/ jobs'[i] = jobs[i]
  BY <1>2 DEF DropRow, TInv, TypeOK
<1>6. /\ UNCHANGED <<last, inbound, copy, note, doomed, aged>>
  BY DEF DropRow, store
<1> HIDE DEF i
<1>7. \A j \in Jobs : j > last => Untouched(j)'
  BY <1>2, <1>5, <1>6 DEF Ownership, Untouched
<1>8. Owns(run[r])'
  BY <1>4 DEF Owns
<1>9. Uses(run[r])'
  <2>1. \A j \in Jobs : Closed(j) =>
          Closed(j)' /\ (jobs'[j] # None => jobs[j] # None /\ jobs'[j].dest = jobs[j].dest)
    BY <1>5, <1>6 DEF Closed
  <2>2. /\ run'[r].pc = "remove" \/ run'[r] = Idle
        /\ run'[r].prev # None => run'[r].prev \in Jobs
        /\ run'[r].old \subseteq Jobs
    <3>1. run[r] \in RunState
      BY StateOf
    <3> QED  BY <1>3, <3>1 DEF ShortensList, SameReference, RunState, Optional, Idle
  <2>3. \A j \in run'[r].old : Closed(j)' /\ (jobs'[j] # None => jobs'[j].dest = run'[r].dest)
    BY <1>4, <2>1, <2>2 DEF Uses
  <2> QED  BY <1>4, <2>1, <2>2, <2>3 DEF Uses, ReadSteps, Idle
<1> QED  BY <1>2, <1>3, <1>4, <1>5, <1>6, <1>7, <1>8, <1>9, OwnershipRow

LEMMA OwnershipBegin ==
  ASSUME TInv, Ownership, NEW r \in Runners, NEW o \in RunOptions, Begin(r, o)
  PROVE  Ownership'
<1> DEFINE i == last + 1
           new == [status |-> "running", dest |-> o.dest]
<1>1. /\ OthersStay(r) /\ run'[r].pc \in CopyingSteps /\ run'[r].job = i
      /\ run'[r].dest = o.dest /\ run'[r].prev = None /\ run'[r].old = {}
  BY BeginShape
<1>2. i \in Jobs /\ last' = i /\ i > last /\ last \in Nat
  BY LastIsJob DEF Begin, Jobs
<1>3. new \in JobRow
  BY DEF JobRow, RunOptions
<1>4. /\ jobs'[i] = new /\ new # None /\ new.status = "running" /\ new.dest = o.dest
      /\ \A j \in Jobs : j # i => jobs'[j] = jobs[j]
  BY <1>2, <1>3, NothingAssumption DEF Begin, TInv, TypeOK
<1>5. UNCHANGED <<inbound, copy, note, doomed, aged>>
  BY DEF Begin, store
<1> HIDE DEF i, new
<1>6. \A j \in Jobs : j > i => j > last /\ j # i
  BY <1>2, LastIsJob
<1>7. \A j \in Jobs : j > last' => Untouched(j)'
  BY <1>2, <1>4, <1>5, <1>6 DEF Ownership, Untouched
<1>8. \A j \in Jobs : j <= last => j <= i /\ j # i
  BY <1>2, LastIsJob
<1>9. \A j \in Jobs : Closed(j) => Closed(j)' /\ jobs'[j] = jobs[j]
  BY <1>2, <1>4, <1>8 DEF Closed
<1>10. \A q \in Runners : q # r /\ Working(q) => run[q].job # i
  BY <1>8, OwnJob
<1>11. \A q \in Runners : Owns(run[q])' /\ Uses(run[q])'
  <2> TAKE q \in Runners
  <2>1. CASE q = r
    <3>1. i <= last'
      BY <1>2, LastIsJob
    <3>2. Owns(run[r])'
      BY <1>1, <1>2, <1>4, <3>1 DEF Owns
    <3>3. run'[r].pc \in {"reference", "pools"}
      BY <1>1 DEF CopyingSteps
    <3>4. Uses(run[r])'
      BY <1>1, <3>3 DEF Uses, ReadSteps, RemoveSteps
    <3> QED  BY <2>1, <3>2, <3>4
  <2>2. CASE q # r
    <3>1. run'[q] = run[q] /\ Owns(run[q]) /\ Uses(run[q])
      BY <1>1, <2>2 DEF OthersStay, Ownership
    <3>2. Owns(run[q])'
      BY <1>2, <1>4, <1>8, <3>1 DEF Owns
    <3>3. /\ run[q].prev # None => run[q].prev \in Jobs
          /\ run[q].old \subseteq Jobs
      BY StateOf DEF RunState, Optional
    <3>4. \A j \in run[q].old : Closed(j)' /\ (jobs'[j] # None => jobs'[j].dest = run[q].dest)
      BY <1>9, <3>1, <3>3 DEF Uses
    <3>5. run[q].pc = "prune" => run[q].job <= last'
      BY <1>2, <1>8, <3>1 DEF Uses
    <3>6. Uses(run[q])'
      BY <1>9, <3>1, <3>3, <3>4, <3>5 DEF Uses
    <3> QED  BY <3>2, <3>6
  <2> QED  BY <2>1, <2>2
<1>12. \A p, q \in Runners : Working(p)' /\ Working(q)' /\ p # q => run'[p].job # run'[q].job
  <2>1. \A q \in Runners : q # r => run'[q] = run[q] /\ (Working(q)' <=> Working(q))
    BY <1>1 DEF OthersStay, Working
  <2> QED  BY <1>1, <1>10, <2>1 DEF Ownership
<1> QED  BY <1>7, <1>11, <1>12 DEF Ownership

LEMMA OwnershipPruneList ==
  ASSUME TInv, Ownership, NEW r \in Runners, PruneList(r)
  PROVE  Ownership'
<1>1. Uses(run[r])
  BY DEF Ownership
<1>2. /\ OthersStay(r)
      /\ \/ run'[r] = Idle
         \/ /\ run'[r].pc = "remove" /\ run'[r].old = Surplus(r) /\ Surplus(r) # {}
            /\ SameRun(run'[r], run[r]) /\ SameReference(run'[r], run[r])
  BY PruneListShape
<1>3. \A j \in Surplus(r) : Closed(j) /\ jobs[j].dest = run[r].dest
  <2>1. Surplus(r) \subseteq Completed(run[r].dest)
    BY DEF Surplus
  <2> QED  BY <2>1, CompletedClosed
<1>4. Owns(run'[r]) /\ Uses(run'[r]) /\ run'[r].pc \notin WorkSteps
  <2>1. CASE run'[r].pc = "remove" /\ run'[r].old = Surplus(r) /\ Surplus(r) # {}
             /\ SameRun(run'[r], run[r]) /\ SameReference(run'[r], run[r])
    BY <1>1, <1>3, <2>1 DEF Owns, Uses, SameRun, SameReference, WorkSteps, CopyingSteps,
                            ReadSteps, RemoveSteps
  <2> QED  BY <1>2, <2>1, OwnershipIdle
<1> QED  BY <1>2, <1>4, OwnershipQuiet DEF PruneList, store

LEMMA OwnershipRemoveJob ==
  ASSUME TInv, Ownership, NEW r \in Runners, RemoveJob(r)
  PROVE  Ownership'
<1> DEFINE i == Latest(run[r].old)
<1>1. i \in run[r].old /\ run[r].pc \in RemoveSteps /\ Uses(run[r])
  BY OldIsOfJobs DEF RemoveJob, RemoveSteps, Ownership
<1>2. i \in Jobs /\ ~(i > last)
  BY <1>1, OldIsClosed
<1>3. /\ OthersStay(r) /\ run'[r].pc = "drop" /\ SameRun(run'[r], run[r])
      /\ SameReference(run'[r], run[r]) /\ SameRest(run'[r], run[r])
  BY GoesToShape DEF RemoveJob
<1>4. Owns(run'[r]) /\ Uses(run'[r]) /\ run'[r].pc \notin WorkSteps
  BY <1>1, <1>3 DEF Owns, Uses, SameRun, SameReference, SameRest, WorkSteps, CopyingSteps,
                    ReadSteps, RemoveSteps
<1>5. /\ Emptied(i) /\ doomed' = doomed \cup {i} /\ UNCHANGED <<jobs, last, aged>>
      /\ inbound' = Forgotten(i) \/ UNCHANGED inbound
  BY DEF RemoveJob
<1> HIDE DEF i
<1>6. \A j \in Jobs : j > last => Untouched(j)'
  BY <1>2, <1>5 DEF Emptied, Forgotten, Ownership, Untouched, TInv, TypeOK
<1> QED  BY <1>3, <1>4, <1>5, <1>6, OwnershipMove

LEMMA OwnershipRemoveBreaks ==
  ASSUME TInv, Ownership, NEW r \in Runners, RemoveBreaks(r)
  PROVE  Ownership'
<1> DEFINE i == Latest(run[r].old)
<1>1. i \in run[r].old /\ run[r].pc \in RemoveSteps
  BY OldIsOfJobs DEF RemoveBreaks, RemoveSteps
<1>2. i \in Jobs /\ ~(i > last)
  BY <1>1, OldIsClosed
<1>3. OthersStay(r) /\ (run'[r] = Idle \/ ShortensList(run'[r], run[r], "remove"))
  BY RemoveBreaksShape
<1>4. Owns(run'[r]) /\ Uses(run'[r]) /\ run'[r].pc \notin WorkSteps
  BY <1>1, <1>3, OwnershipShortens
<1>5. /\ \A j \in Jobs : j # i => copy'[j] = copy[j]
      /\ doomed' = doomed \cup {i} /\ UNCHANGED <<jobs, inbound, note, last, aged>>
  BY DEF RemoveBreaks, TInv, TypeOK
<1> HIDE DEF i
<1>6. \A j \in Jobs : j > last => Untouched(j)'
  BY <1>2, <1>5 DEF Ownership, Untouched
<1> QED  BY <1>3, <1>4, <1>5, <1>6, OwnershipMove

LEMMA OwnershipReceiverPrunes ==
  ASSUME TInv, Ownership, NEW j \in Jobs, ReceiverPrunes(j)
  PROVE  Ownership'
<1>1. ~(j > last)
  BY DEF ReceiverPrunes, Ownership, Untouched
<1>2. UNCHANGED <<jobs, run, aged, last>>
  BY DEF ReceiverPrunes
<1>3. \A i \in Jobs : i > last => Untouched(i)'
  BY <1>1, <1>2 DEF ReceiverPrunes, Emptied, Forgotten, Ownership, Untouched, TInv, TypeOK
<1> QED  BY <1>2, <1>3 DEF Ownership, Owns, Uses, Closed, Working

LEMMA OwnershipDies ==
  ASSUME TInv, Ownership, NEW r \in Runners, Dies(r) \/ Report(r)
  PROVE  Ownership'
<1>1. run'[r] = Idle /\ OthersStay(r)
  BY MoveShape DEF Dies, Report
<1> QED  BY <1>1, OwnershipIdle, OwnershipQuiet DEF Dies, Report, store

LEMMA OwnershipOpen ==
  ASSUME TInv, Ownership, NEW r \in Runners, NEW j \in Jobs,
         NEW k \in Optional(Keys), NEW ps \in SUBSET Pools,
         NEW pc \in {"restore", "check", "verify"}, Open(r, j, pc, k, ps)
  PROVE  Ownership'
<1>1. /\ OthersStay(r) /\ run'[r].pc = pc /\ run'[r].job = j
      /\ run'[r].prev = None /\ run'[r].old = {}
  BY OpenShape
<1>2. Closed(j)
  <2>1. j \in Completed(jobs[j].dest)
    BY DEF Open, Completed
  <2> QED  BY <2>1, CompletedClosed
<1>3. Owns(run'[r]) /\ Uses(run'[r]) /\ run'[r].pc \notin WorkSteps
  BY <1>1, <1>2 DEF Owns, Uses, WorkSteps, CopyingSteps, ReadSteps, RemoveSteps
<1> QED  BY <1>1, <1>3, OwnershipQuiet DEF Open, store

LEMMA OwnershipReads ==
  ASSUME TInv, Ownership, NEW r \in Runners, NEW f \in Files, ReadStep(r, f)
  PROVE  Ownership'
<1>1. /\ ReadsOn(r)
      /\ UNCHANGED <<jobs, inbound, store, aged, last, doomed>>
  BY ReadStepShape
<1>2. Uses(run[r])
  BY DEF Ownership
<1>3. Owns(run'[r]) /\ Uses(run'[r]) /\ run'[r].pc \notin WorkSteps
  BY <1>1, <1>2 DEF Owns, Uses, ReadsOn, Reading, WorkSteps, CopyingSteps, ReadSteps, RemoveSteps
<1> QED  BY <1>1, <1>3, OwnershipQuiet DEF ReadsOn, store

LEMMA OwnershipElse ==
  ASSUME TInv, Ownership,
         \/ \E f \in Files : (\E b \in Blobs : Write(f, b)) \/ Commit(f) \/ Delete(f)
         \/ \E p \in Pools, m \in Modes : SetPool(p, m)
         \/ \E j \in Jobs : Age(j) \/ \E f \in Files : Rot(j, f)
  PROVE  Ownership'
<1>1. UNCHANGED <<jobs, inbound, copy, note, last, doomed>>
  BY DEF Write, Commit, Delete, SetPool, Age, Rot, store
<1>2. \A r \in Runners :
         /\ run'[r].pc = run[r].pc /\ run'[r].job = run[r].job /\ run'[r].dest = run[r].dest
         /\ run'[r].prev = run[r].prev /\ run'[r].old = run[r].old
  <2>1. CASE UNCHANGED run
    BY <2>1
  <2>2. CASE \E f \in Files : Delete(f)
    BY <2>2, DeleteShape DEF SameRun, SameReference
  <2> QED  BY <2>1, <2>2 DEF Write, Commit, SetPool, Age, Rot
<1>3. \A j \in Jobs : j > last => j \notin aged'
  <2>1. CASE UNCHANGED aged
    BY <2>1 DEF Ownership, Untouched
  <2>2. ASSUME NEW i \in Jobs, Age(i) PROVE \A j \in Jobs : j > last => j \notin aged'
    BY <2>2, LastIsJob DEF Age, Ownership, Untouched
  <2> QED  BY <2>1, <2>2 DEF Write, Commit, Delete, SetPool, Rot
<1>4. \A j \in Jobs : j > last => Untouched(j)'
  BY <1>1, <1>3 DEF Ownership, Untouched
<1>5. \A r \in Runners : Owns(run[r])' /\ Uses(run[r])'
  BY <1>1, <1>2 DEF Ownership, Owns, Uses, Closed
<1> QED  BY <1>1, <1>2, <1>4, <1>5 DEF Ownership, Working

LEMMA OwnershipNext ==
  ASSUME TInv, Ownership, [Next]_vars
  PROVE  Ownership'
<1>1. CASE UNCHANGED vars
  BY <1>1 DEF vars, pool, store, bounds, Ownership, Owns, Uses, Closed, Working, Untouched
<1>2. ASSUME NEW r \in Runners, Step(r) PROVE Ownership'
  BY <1>2, OwnershipFindReference, OwnershipWriteManifest, OwnershipFinalize, OwnershipFinish,
     OwnershipPruneList, OwnershipRemoveJob, OwnershipDropRow, OwnershipMarkFailed,
     OwnershipDies, OwnershipListPool, OwnershipLinkFile, OwnershipCopyFile, OwnershipReads
     DEF Step, ReadStep
<1>3. ASSUME NEW r \in Runners, Started(r) PROVE Ownership'
  <2>1. CASE ScheduledRun(r) \/ RunCommand(r)
    BY <2>1, BackupAssumption, OwnershipBegin DEF ScheduledRun, RunCommand
  <2>2. CASE RestoreCommand(r) \/ VerifyCommand(r) \/ RestoreToPoolCommand(r)
    BY <2>2, OwnershipOpen DEF RestoreCommand, VerifyCommand, RestoreToPoolCommand
  <2> QED  BY <1>3, <2>1, <2>2 DEF Started
<1>4. ASSUME NEW r \in Runners, Breaks(r) \/ RemoveBreaks(r) \/ Dies(r) PROVE Ownership'
  BY <1>4, OwnershipBreaks, OwnershipRemoveBreaks, OwnershipDies
<1>5. ASSUME NEW r \in Runners, NEW f \in Files, FileFails(r, f) PROVE Ownership'
  BY <1>5, OwnershipReads DEF ReadStep
<1> QED  BY <1>1, <1>2, <1>3, <1>4, <1>5, OwnershipReceiverPrunes, OwnershipElse DEF Next

\* Whatever runners cross, the state keeps its types, and a job is written by
\* no runner but the one that created its row (Run, pruneOldBackups).
THEOREM JobsHaveOneOwner == Spec => [](TInv /\ Ownership)
<1>1. Init => TInv /\ Ownership
  BY TypeInit, OwnershipInit
<1>2. TInv /\ Ownership /\ [Next]_vars => TInv' /\ Ownership'
  BY TypeNext, OwnershipNext
<1> QED  BY <1>1, <1>2, PTL DEF Spec

\* The type invariant of the backups (TypeOK), whatever fails and whoever dies.
THEOREM BackupTypeCorrect == Spec => []TypeOK
<1>1. TInv => TypeOK
  BY DEF TInv
<1> QED  BY <1>1, JobsHaveOneOwner, PTL

(***************************************************************************)
(* What retention has begun to remove.                                     *)
(***************************************************************************)
LEMMA RetentionInit == Init => Retention
BY DEF Init, Retention, Fresh, Private, Prunes, Idle, WorkSteps, CopyingSteps, RemoveSteps

\* Who relies on a good newer backup goes on having one: when that one goes,
\* there is another one behind it.
LEMMA KeptStays ==
  ASSUME TInv, NEW i, doomed' \subseteq doomed \cup {i},
         \A j \in Completed("local") : j \notin doomed => j \in Completed("local")',
         i \in doomed' \ doomed /\ i \in Completed("local") => KeptAfter(i),
         NEW j \in Jobs
  PROVE  /\ KeptFrom(j) => KeptFrom(j)'
         /\ KeptAfter(j) => KeptAfter(j)'
<1>1. ASSUME NEW k \in Completed("local"), k \notin doomed
      PROVE  \E h \in Completed("local")' : h >= k /\ h \notin doomed'
  <2>1. k \in Jobs
    BY DEF Completed
  <2>2. CASE k # i \/ i \notin doomed'
    BY <1>1, <2>1, <2>2, LastIsJob
  <2>3. CASE k = i /\ i \in doomed'
    <3>1. PICK h \in Completed("local") : h > i /\ h \notin doomed
      BY <1>1, <2>3 DEF KeptAfter
    <3>2. h \in Jobs
      BY DEF Completed
    <3>3. h >= k /\ h # i
      BY <2>1, <2>3, <3>1, <3>2, LastIsJob
    <3> QED  BY <3>1, <3>3
  <2> QED  BY <2>2, <2>3
<1>2. \A k \in Completed("local") : k \in Jobs
  BY DEF Completed
<1>3. \A k \in Completed("local")' : k \in Jobs
  BY DEF Completed
<1>4. ASSUME KeptFrom(j) PROVE KeptFrom(j)'
  <2>1. PICK k \in Completed("local") : k >= j /\ k \notin doomed
    BY <1>4 DEF KeptFrom
  <2>2. PICK h \in Completed("local")' : h >= k /\ h \notin doomed'
    BY <1>1, <2>1
  <2>3. h >= j
    BY <1>2, <1>3, <2>1, <2>2, LastIsJob
  <2> QED  BY <2>2, <2>3 DEF KeptFrom
<1>5. ASSUME KeptAfter(j) PROVE KeptAfter(j)'
  <2>1. PICK k \in Completed("local") : k > j /\ k \notin doomed
    BY <1>5 DEF KeptAfter
  <2>2. PICK h \in Completed("local")' : h >= k /\ h \notin doomed'
    BY <1>1, <2>1
  <2>3. h > j
    BY <1>2, <1>3, <2>1, <2>2, LastIsJob
  <2> QED  BY <2>2, <2>3 DEF KeptAfter
<1> QED  BY <1>4, <1>5

\* A step that registers, forgets or begins to remove at most the job i, and
\* after which each runner is what it was or keeps the rules by itself.
LEMMA RetentionStep ==
  ASSUME TInv, Ownership, Retention, NEW i, UNCHANGED aged,
         \A j \in Jobs : j # i => inbound'[j] = inbound[j],
         doomed \subseteq doomed', doomed' \subseteq doomed \cup {i},
         \A j \in Completed("local") : j \notin doomed => j \in Completed("local")',
         \A j \in Completed("local")' : j \in Completed("local") \/ j \notin doomed',
         i \in doomed' \ doomed /\ i \in Completed("local") => KeptAfter(i),
         \A j \in Jobs : inbound'[j] # "none" /\ jobs'[j] # None => jobs'[j].dest = "remote",
         \A q \in Runners :
           \/ run'[q] = run[q] /\ (Private(run[q]) => run[q].job # i)
           \/ Fresh(run[q])' /\ Prunes(run[q])'
  PROVE  Retention'
<1>2. \A j \in doomed' : j \in Completed("local")' => KeptAfter(j)'
  <2> SUFFICES ASSUME NEW j \in doomed', j \in Completed("local")'
               PROVE  KeptAfter(j)'
    OBVIOUS
  <2>1. j \in Completed("local") /\ j \in Jobs
    BY DEF Completed
  <2>2. KeptAfter(j)
    <3>1. CASE j \in doomed
      BY <2>1, <3>1 DEF Retention
    <3>2. CASE j \notin doomed
      BY <2>1, <3>2
    <3> QED  BY <3>1, <3>2
  <2> QED  BY <2>1, <2>2, KeptStays
<1>3. \A q \in Runners : Fresh(run[q])' /\ Prunes(run[q])'
  <2> SUFFICES ASSUME NEW q \in Runners, run'[q] = run[q], Private(run[q]) => run[q].job # i
               PROVE  Fresh(run[q])' /\ Prunes(run[q])'
    OBVIOUS
  <2>1. Fresh(run[q]) /\ Prunes(run[q])
    BY DEF Retention
  <2>2. Private(run[q]) => run[q].job \in Jobs
    BY OwnJob DEF Private, Working
  <2>3. Fresh(run[q])'
    BY <2>1, <2>2 DEF Fresh, Private
  <2>4. /\ run[q].pc = "prune" => run[q].job \in Jobs
        /\ run[q].old \subseteq Jobs
    BY StateOf DEF Ownership, Uses, RunState
  <2>5. Prunes(run[q])'
    <3>1. run[q].pc = "prune" /\ run[q].dest = "local" => KeptFrom(run[q].job)'
      BY <2>1, <2>4, KeptStays DEF Prunes
    <3>2. ASSUME NEW j \in run[q].old, run[q].pc \in RemoveSteps, run[q].dest = "local"
          PROVE  KeptAfter(j)'
      BY <2>1, <2>4, <3>2, KeptStays DEF Prunes
    <3> QED  BY <2>1, <3>1, <3>2 DEF Prunes
  <2> QED  BY <2>3, <2>5
<1> QED  BY <1>2, <1>3 DEF Retention

\* The same when only a runner changes.
LEMMA RetentionQuiet ==
  ASSUME TInv, Ownership, Retention, NEW r \in Runners, OthersStay(r),
         UNCHANGED <<jobs, inbound, doomed, aged>>, Fresh(run'[r]), Prunes(run'[r])
  PROVE  Retention'
<1>1. \A q \in Runners : Fresh(run'[q]) /\ Prunes(run'[q])
  BY DEF OthersStay, Retention
<1>2. \A q \in Runners : Fresh(run[q])' /\ Prunes(run[q])'
  BY <1>1 DEF Fresh, Prunes, KeptFrom, KeptAfter, Completed
<1> QED  BY <1>2 DEF Retention, KeptAfter, Completed

LEMMA RetentionIdle == Fresh(Idle) /\ Prunes(Idle)
BY DEF Fresh, Private, Prunes, Idle, WorkSteps, CopyingSteps, RemoveSteps

\* A run that has not ended goes on.
LEMMA RetentionWorks ==
  ASSUME TInv, Ownership, Retention, NEW r \in Runners, Working(r), Private(run[r]),
         run'[r].pc \in WorkSteps, run'[r].job = run[r].job, run'[r].dest = run[r].dest
  PROVE  Fresh(run'[r]) /\ Prunes(run'[r])
<1>1. Fresh(run[r])
  BY DEF Retention
<1> QED  BY <1>1 DEF Fresh, Private, Prunes, Working, WorkSteps, CopyingSteps, RemoveSteps

LEMMA RetentionCopies ==
  ASSUME TInv, Ownership, Retention, NEW r \in Runners,
         \/ FindReference(r) \/ WriteManifest(r)
         \/ \E p \in Pools : ListPool(r, p)
         \/ \E f \in Files : LinkFile(r, f) \/ CopyFile(r, f)
  PROVE  Retention'
<1>1. Working(r) /\ Private(run[r])
  BY ZenonT(60) DEF FindReference, WriteManifest, ListPool, LinkFile, CopyFile, Working, Private,
         WorkSteps, CopyingSteps
<1>2. /\ OthersStay(r) /\ run'[r].pc \in WorkSteps
      /\ run'[r].job = run[r].job /\ run'[r].dest = run[r].dest
  <2>1. CASE FindReference(r)
    BY <2>1, FindReferenceShape DEF SameRun, WorkSteps, CopyingSteps
  <2>2. CASE WriteManifest(r)
    BY <2>2, GoesToShape DEF WriteManifest, SameRun, WorkSteps
  <2>3. CASE \E p \in Pools : ListPool(r, p)
    BY <2>3, ListPoolShape DEF SameRun, WorkSteps, CopyingSteps
  <2>4. ASSUME NEW f \in Files, LinkFile(r, f) \/ CopyFile(r, f)
        PROVE  <1>2
    <3>1. CASE Copied(r, f)
      BY <2>4, <3>1, CopiedShape DEF LinkFile, CopyFile, SameRun, WorkSteps, CopyingSteps
    <3>2. CASE Becomes(r, Ended(r, "fail"))
      BY <3>2, MoveShape, EndedShape DEF WorkSteps
    <3> QED  BY <2>4, <3>1, <3>2 DEF LinkFile, CopyFile
  <2> QED  BY <2>1, <2>2, <2>3, <2>4
<1>3. UNCHANGED <<jobs, inbound, doomed, aged>>
  BY ZenonT(60) DEF FindReference, WriteManifest, ListPool, LinkFile, CopyFile
<1> QED  BY <1>1, <1>2, <1>3, RetentionWorks, RetentionQuiet

\* Two runners that work do not work on the same job.
LEMMA OthersJob ==
  ASSUME TInv, Ownership, NEW r \in Runners, Working(r), NEW q \in Runners, q # r
  PROVE  Private(run[q]) => run[q].job # run[r].job
BY DEF Ownership, Private, Working

LEMMA RetentionFinalize ==
  ASSUME TInv, Ownership, Retention, NEW r \in Runners, Finalize(r)
  PROVE  Retention'
<1>1. Working(r) /\ Private(run[r]) /\ Uses(run[r]) /\ run[r].pc = "finalize"
  BY DEF Finalize, Working, Private, WorkSteps, Ownership
<1>2. run[r].dest = "remote" /\ run[r].job \in Jobs /\ jobs[run[r].job].dest = "remote"
  BY <1>1, OwnJob DEF Uses
<1>3. OthersStay(r) /\ run'[r].pc = "finish" /\ SameRun(run'[r], run[r])
  BY GoesToShape DEF Finalize
<1>4. Fresh(run[r]) /\ UNCHANGED <<jobs, doomed, aged>>
  BY DEF Retention, Finalize
<1>5. Fresh(run[r])' /\ Prunes(run[r])'
  BY <1>2, <1>3, <1>4, <1>1 DEF Fresh, Private, Prunes, SameRun, WorkSteps, CopyingSteps, RemoveSteps
<1>6. /\ \A j \in Jobs : j # run[r].job => inbound'[j] = inbound[j]
  BY DEF Finalize, TInv, TypeOK
<1>7. \A j \in Jobs : inbound'[j] # "none" /\ jobs'[j] # None => jobs'[j].dest = "remote"
  BY <1>2, <1>4, <1>6 DEF Retention
<1>8. Completed("local")' = Completed("local")
  BY <1>4 DEF Completed
<1>9. \A q \in Runners :
        \/ run'[q] = run[q] /\ (Private(run[q]) => run[q].job # run[r].job)
        \/ Fresh(run[q])' /\ Prunes(run[q])'
  BY <1>1, <1>3, <1>5, OthersJob DEF OthersStay
<1> QED  BY <1>4, <1>6, <1>7, <1>8, <1>9, RetentionStep

\* One row changes that was running, or has begun to be removed, and the
\* rest stays as it is.
LEMMA RetentionRow ==
  ASSUME TInv, Ownership, Retention, NEW r \in Runners, OthersStay(r),
         UNCHANGED <<inbound, doomed, aged>>, NEW i \in Jobs,
         \A j \in Jobs : j # i => jobs'[j] = jobs[j],
         i \in doomed \/ i \notin Completed("local"),
         i \in Completed("local")' => i \in Completed("local") \/ i \notin doomed,
         inbound[i] # "none" /\ jobs'[i] # None => jobs'[i].dest = "remote",
         Fresh(run[r])', Prunes(run[r])'
  PROVE  Retention'
<1>1. \A j \in Completed("local") : j \notin doomed => j \in Completed("local")'
  BY DEF Completed
<1>2. \A j \in Completed("local")' : j \in Completed("local") \/ j \notin doomed'
  BY DEF Completed
<1>3. \A j \in Jobs : inbound'[j] # "none" /\ jobs'[j] # None => jobs'[j].dest = "remote"
  BY DEF Retention
<1>4. \A q \in Runners :
        \/ run'[q] = run[q] /\ (Private(run[q]) => run[q].job # None)
        \/ Fresh(run[q])' /\ Prunes(run[q])'
  <2>1. \A q \in Runners : Private(run[q]) => run[q].job # None
    BY OwnJob, BackupAssumption DEF Private, Working, Jobs
  <2> QED  BY <2>1 DEF OthersStay
<1>5. None \notin doomed'
  BY LastIsJob, BackupAssumption DEF TInv, TypeOK
<1> QED  BY <1>1, <1>2, <1>3, <1>4, <1>5, RetentionStep

LEMMA RetentionFinish ==
  ASSUME TInv, Ownership, Retention, NEW r \in Runners, Finish(r)
  PROVE  Retention'
<1>1. Working(r) /\ Fresh(run[r]) /\ run[r].pc = "finish"
  BY DEF Finish, Working, WorkSteps, Retention
<1> PICK i \in Jobs : i = run[r].job
  BY <1>1, OwnJob
<1>2. /\ jobs[i] # None /\ jobs[i].status = "running" /\ jobs[i].dest = run[r].dest
      /\ jobs[i] \in JobRow
  BY <1>1, OwnJob DEF TInv, TypeOK, Optional
<1>3. /\ jobs'[i] = [jobs[i] EXCEPT !.status = "completed"]
      /\ \A j \in Jobs : j # i => jobs'[j] = jobs[j]
      /\ UNCHANGED <<inbound, doomed, aged>>
  BY <1>2 DEF Finish, TInv, TypeOK
<1>4. jobs'[i].dest = run[r].dest /\ jobs'[i].status = "completed" /\ jobs'[i] # None
  <2>1. [jobs[i] EXCEPT !.status = "completed"] \in JobRow
    BY <1>2 DEF JobRow
  <2> QED  BY <1>2, <1>3, <2>1, NothingAssumption DEF JobRow
<1>5. i \notin Completed("local") /\ (run[r].dest = "local" => i \in Completed("local")')
  BY <1>2, <1>4 DEF Completed
<1>6. run[r].dest = "local" => inbound[i] = "none" /\ i \notin doomed
  BY <1>1 DEF Fresh, Private, WorkSteps
<1>7. /\ OthersStay(r)
      /\ run'[r] = IF run[r].keep > 0 \/ run[r].days THEN Ended(r, "prune") ELSE Idle
  BY MoveShape DEF Finish
<1>8. Fresh(run[r])' /\ Prunes(run[r])'
  <2>1. CASE run'[r] = Idle
    BY <2>1 DEF Fresh, Private, Prunes, Idle, WorkSteps, CopyingSteps, RemoveSteps
  <2>2. CASE run'[r] = Ended(r, "prune") /\ (run[r].keep > 0 \/ run[r].days)
    <3>1. /\ run'[r].pc = "prune" /\ run'[r].job = i /\ run'[r].dest = run[r].dest
          /\ run'[r].keep > 0 \/ run'[r].days
      BY <2>2, EndedShape
    <3>2. i \notin aged
      BY <1>1 DEF Fresh, WorkSteps
    <3>3. run[r].dest = "local" => KeptFrom(i)'
      <4>1. i >= i
        BY <1>2, LastIsJob
      <4> QED  BY <1>3, <1>5, <1>6, <4>1 DEF KeptFrom
    <3>4. Fresh(run[r])'
      BY <1>3, <3>1, <3>2 DEF Fresh, Private, WorkSteps, CopyingSteps
    <3>5. Prunes(run[r])'
      BY <3>1, <3>3 DEF Prunes, RemoveSteps
    <3> QED  BY <3>4, <3>5
  <2> QED  BY <1>7, <2>1, <2>2
<1>9. i \in Completed("local")' => i \notin doomed
  BY <1>4, <1>6 DEF Completed
<1>10. inbound[i] # "none" /\ jobs'[i] # None => jobs'[i].dest = "remote"
  BY <1>2, <1>4 DEF Retention
<1> QED  BY <1>2, <1>3, <1>5, <1>7, <1>8, <1>9, <1>10, RetentionRow

LEMMA RetentionMarkFailed ==
  ASSUME TInv, Ownership, Retention, NEW r \in Runners, MarkFailed(r)
  PROVE  Retention'
<1> DEFINE i == run[r].job
<1>1. Working(r)
  BY DEF MarkFailed, Working, WorkSteps
<1>2. /\ i \in Jobs /\ jobs[i] # None /\ jobs[i].status = "running"
      /\ jobs[i] \in JobRow
  BY <1>1, OwnJob DEF TInv, TypeOK, Optional
<1>3. /\ jobs'[i] = [jobs[i] EXCEPT !.status = "failed"] \/ jobs'[i] = jobs[i]
      /\ \A j \in Jobs : j # i => jobs'[j] = jobs[j]
      /\ UNCHANGED <<inbound, doomed, aged>>
  BY <1>2 DEF MarkFailed, TInv, TypeOK
<1>4. jobs'[i].dest = jobs[i].dest /\ jobs'[i].status # "completed"
  BY <1>2, <1>3 DEF JobRow
<1>5. i \notin Completed("local") /\ i \notin Completed("local")'
  BY <1>2, <1>4 DEF Completed
<1>6. OthersStay(r) /\ run'[r] = Idle
  BY MoveShape DEF MarkFailed
<1>7. Fresh(run[r])' /\ Prunes(run[r])'
  BY <1>6 DEF Fresh, Private, Prunes, Idle, WorkSteps, CopyingSteps, RemoveSteps
<1>8. inbound[i] # "none" /\ jobs'[i] # None => jobs'[i].dest = "remote"
  BY <1>2, <1>4 DEF Retention
<1> HIDE DEF i
<1> QED  BY <1>2, <1>3, <1>5, <1>6, <1>7, <1>8, RetentionRow

\* The next one of the list, and a good newer one for each that is left.
LEMMA NextOfOld ==
  ASSUME TInv, Ownership, Retention, NEW r \in Runners, run[r].pc \in RemoveSteps
  PROVE  LET i == Latest(run[r].old) IN
         /\ i \in run[r].old /\ i \in Jobs
         /\ i \in Completed("local") => KeptAfter(i)
         /\ \A q \in Runners : Private(run[q]) => run[q].job # i
<1> DEFINE i == Latest(run[r].old)
<1>1. i \in run[r].old /\ i \in Jobs
  BY OldIsOfJobs
<1>2. i \in Completed("local") => run[r].dest = "local"
  BY <1>1, OldIsClosed DEF Completed
<1>3. i \in Completed("local") => KeptAfter(i)
  <2>1. Prunes(run[r])
    BY DEF Retention
  <2> QED  BY <1>1, <1>2, <2>1 DEF Prunes
<1> HIDE DEF i
<1> QED  BY <1>1, <1>3, OldIsClosed DEF Private, Working, i

LEMMA RetentionShortens ==
  ASSUME TInv, Ownership, Retention, NEW r \in Runners, run[r].pc \in RemoveSteps,
         run'[r] = Idle \/ ShortensList(run'[r], run[r], "remove"),
         \A j \in Jobs : KeptAfter(j) => KeptAfter(j)'
  PROVE  Fresh(run[r])' /\ Prunes(run[r])'
<1>1. CASE run'[r] = Idle
  BY <1>1 DEF Fresh, Private, Prunes, Idle, WorkSteps, CopyingSteps, RemoveSteps
<1>2. CASE ShortensList(run'[r], run[r], "remove")
  <2>1. /\ run'[r].pc = "remove" /\ run'[r].old \subseteq run[r].old
        /\ run'[r].dest = run[r].dest
    BY <1>2 DEF ShortensList, SameRun
  <2>2. Fresh(run[r])'
    BY <2>1 DEF Fresh, Private, WorkSteps, CopyingSteps
  <2>3. run[r].old \subseteq Jobs
    BY OldIsOfJobs
  <2>4. ASSUME NEW j \in run'[r].old, run'[r].dest = "local" PROVE KeptAfter(j)'
    BY <2>1, <2>3, <2>4 DEF Retention, Prunes
  <2>5. Prunes(run[r])'
    BY <2>1, <2>4 DEF Prunes
  <2> QED  BY <2>2, <2>5
<1> QED  BY <1>1, <1>2

\* What is surplus has a good newer backup: with a number to keep, because
\* there are newer ones, and the newest of those is good; with days, because
\* the run that prunes has left one that is not as old.
LEMMA SurplusHasNewer ==
  ASSUME TInv, Ownership, Retention, NEW r \in Runners, run[r].pc = "prune",
         run[r].dest = "local", NEW j \in Surplus(r)
  PROVE  KeptAfter(j)
<1> DEFINE newer == {i \in Completed("local") : i > j}
<1>1. /\ Prunes(run[r]) /\ Fresh(run[r]) /\ run[r] \in RunState
      /\ run[r].job \in Jobs
  BY StateOf DEF Retention, Ownership, Uses
<1>2. /\ j \in Completed("local") /\ j \in Jobs
      /\ run[r].keep > 0 => Cardinality(newer) >= run[r].keep
      /\ run[r].days => j \in aged
  BY DEF Surplus, Completed
<1>3. CASE run[r].keep > 0
  <2>1. newer # {}
    <3>1. SUFFICES ASSUME newer = {} PROVE FALSE
      OBVIOUS
    <3>2. Cardinality(newer) = 0
      BY <3>1, FS_EmptySet
    <3> HIDE DEF newer
    <3> QED  BY <1>2, <1>3, <3>2, <1>1 DEF RunState
  <2>2. PICK i \in Completed("local") : i > j
    BY <2>1
  <2>3. CASE i \notin doomed
    BY <2>2, <2>3 DEF KeptAfter
  <2>4. CASE i \in doomed
    <3>1. PICK h \in Completed("local") : h > i /\ h \notin doomed
      BY <2>4 DEF Retention, KeptAfter
    <3>2. h \in Jobs /\ i \in Jobs
      BY DEF Completed
    <3>3. h > j
      BY <1>2, <2>2, <3>1, <3>2, LastIsJob
    <3> QED  BY <3>1, <3>3 DEF KeptAfter
  <2> QED  BY <2>3, <2>4
<1>4. CASE ~(run[r].keep > 0)
  <2>1. run[r].days /\ j \in aged
    BY <1>1, <1>2, <1>4 DEF Prunes
  <2>2. run[r].job \notin aged
    BY <1>1 DEF Fresh
  <2>3. j < run[r].job
    <3>1. ~(run[r].job \in 1 .. j - 1) /\ j # run[r].job
      BY <2>1, <2>2 DEF Retention
    <3> QED  BY <1>1, <1>2, <3>1, LastIsJob DEF Jobs
  <2>4. PICK i \in Completed("local") : i >= run[r].job /\ i \notin doomed
    BY <1>1 DEF Prunes, KeptFrom
  <2>5. i \in Jobs
    BY DEF Completed
  <2>6. i > j
    BY <1>1, <1>2, <2>3, <2>4, <2>5, LastIsJob
  <2> QED  BY <2>4, <2>6 DEF KeptAfter
<1> QED  BY <1>3, <1>4

LEMMA RetentionPruneList ==
  ASSUME TInv, Ownership, Retention, NEW r \in Runners, PruneList(r)
  PROVE  Retention'
<1>1. run[r].pc = "prune" /\ UNCHANGED <<jobs, inbound, doomed, aged>>
  BY DEF PruneList
<1>2. /\ OthersStay(r)
      /\ \/ run'[r] = Idle
         \/ /\ run'[r].pc = "remove" /\ run'[r].old = Surplus(r) /\ Surplus(r) # {}
            /\ SameRun(run'[r], run[r]) /\ SameReference(run'[r], run[r])
  BY PruneListShape
<1>3. CASE run'[r] = Idle
  BY <1>1, <1>2, <1>3, RetentionIdle, RetentionQuiet
<1>4. CASE run'[r].pc = "remove" /\ run'[r].old = Surplus(r) /\ SameRun(run'[r], run[r])
  <2>1. Fresh(run'[r])
    BY <1>4 DEF Fresh, Private, WorkSteps, CopyingSteps
  <2>2. Prunes(run'[r])
    BY <1>1, <1>4, SurplusHasNewer DEF Prunes, SameRun
  <2> QED  BY <1>1, <1>2, <2>1, <2>2, RetentionQuiet
<1> QED  BY <1>2, <1>3, <1>4

LEMMA RetentionRemoves ==
  ASSUME TInv, Ownership, Retention, NEW r \in Runners, OthersStay(r),
         run[r].pc \in RemoveSteps, UNCHANGED <<jobs, aged>>,
         NEW i \in Jobs, i = Latest(run[r].old), doomed' = doomed \cup {i},
         inbound' = Forgotten(i) \/ UNCHANGED inbound,
         Fresh(run[r])', Prunes(run[r])'
  PROVE  Retention'
<1>1. i \in Completed("local") => KeptAfter(i)
  BY NextOfOld
<1>2. \A q \in Runners :
        \/ run'[q] = run[q] /\ (Private(run[q]) => run[q].job # i)
        \/ Fresh(run[q])' /\ Prunes(run[q])'
  BY NextOfOld DEF OthersStay
<1>3. \A j \in Jobs : j # i => inbound'[j] = inbound[j]
  BY DEF Forgotten, TInv, TypeOK
<1>4. \A j \in Jobs : inbound'[j] # "none" /\ jobs'[j] # None => jobs'[j].dest = "remote"
  BY DEF Forgotten, TInv, TypeOK, Retention
<1>5. Completed("local")' = Completed("local")
  BY DEF Completed
<1> QED  BY <1>1, <1>2, <1>3, <1>4, <1>5, RetentionStep

LEMMA RetentionRemoveJob ==
  ASSUME TInv, Ownership, Retention, NEW r \in Runners, RemoveJob(r)
  PROVE  Retention'
<1>1. run[r].pc \in RemoveSteps
  BY DEF RemoveJob, RemoveSteps
<1> PICK i \in Jobs : i = Latest(run[r].old)
  BY <1>1, NextOfOld
<1>2. /\ OthersStay(r) /\ run'[r].pc = "drop" /\ SameRun(run'[r], run[r])
      /\ run'[r].old = run[r].old
  BY GoesToShape DEF RemoveJob, SameRest
<1>3. /\ UNCHANGED <<jobs, aged>> /\ doomed' = doomed \cup {i}
      /\ inbound' = Forgotten(i) \/ UNCHANGED inbound
  BY DEF RemoveJob
<1>4. Fresh(run[r])'
  BY <1>2 DEF Fresh, Private, WorkSteps, CopyingSteps
<1>5. ASSUME NEW j \in Jobs, KeptAfter(j) PROVE KeptAfter(j)'
  <2>1. \A k \in Completed("local") : k \notin doomed => k \in Completed("local")'
    BY <1>3 DEF Completed
  <2>2. i \in Completed("local") => KeptAfter(i)
    BY <1>1, NextOfOld
  <2> QED  BY <1>3, <1>5, <2>1, <2>2, KeptStays
<1>6. run'[r].old \subseteq Jobs /\ Latest(run'[r].old) \in doomed'
  BY <1>1, <1>2, <1>3, OldIsOfJobs
<1>7. ASSUME NEW j \in run'[r].old, run'[r].dest = "local" PROVE KeptAfter(j)'
  <2>1. KeptAfter(j)
    BY <1>1, <1>2, <1>7 DEF Retention, Prunes, SameRun
  <2> QED  BY <1>5, <1>6, <2>1
<1>8. Prunes(run[r])'
  BY <1>2, <1>6, <1>7 DEF Prunes, Latest
<1> QED  BY <1>1, <1>2, <1>3, <1>4, <1>8, RetentionRemoves

LEMMA RetentionRemoveBreaks ==
  ASSUME TInv, Ownership, Retention, NEW r \in Runners, RemoveBreaks(r)
  PROVE  Retention'
<1>1. run[r].pc \in RemoveSteps
  BY DEF RemoveBreaks, RemoveSteps
<1> PICK i \in Jobs : i = Latest(run[r].old)
  BY <1>1, NextOfOld
<1>2. OthersStay(r) /\ (run'[r] = Idle \/ ShortensList(run'[r], run[r], "remove"))
  BY RemoveBreaksShape
<1>3. UNCHANGED <<jobs, aged, inbound>> /\ doomed' = doomed \cup {i}
  BY DEF RemoveBreaks
<1>4. ASSUME NEW j \in Jobs, KeptAfter(j) PROVE KeptAfter(j)'
  <2>1. \A k \in Completed("local") : k \notin doomed => k \in Completed("local")'
    BY <1>3 DEF Completed
  <2>2. i \in Completed("local") => KeptAfter(i)
    BY <1>1, NextOfOld
  <2> QED  BY <1>3, <1>4, <2>1, <2>2, KeptStays
<1>5. Fresh(run[r])' /\ Prunes(run[r])'
  BY <1>1, <1>2, <1>4, RetentionShortens
<1> QED  BY <1>1, <1>2, <1>3, <1>5, RetentionRemoves

LEMMA RetentionDropRow ==
  ASSUME TInv, Ownership, Retention, NEW r \in Runners, DropRow(r)
  PROVE  Retention'
<1>1. run[r].pc \in RemoveSteps /\ run[r].pc = "drop"
  BY DEF DropRow, RemoveSteps
<1> PICK i \in Jobs : i = Latest(run[r].old)
  BY <1>1, NextOfOld
<1>2. OthersStay(r) /\ (run'[r] = Idle \/ ShortensList(run'[r], run[r], "remove"))
  BY DropRowShape
<1>3. /\ UNCHANGED <<inbound, doomed, aged>> /\ \A j \in Jobs : j # i => jobs'[j] = jobs[j]
      /\ jobs'[i] = None \/ jobs'[i] = jobs[i]
  BY DEF DropRow, TInv, TypeOK
<1>4. i \in doomed
  BY <1>1 DEF Retention, Prunes
<1>5. i \in Completed("local")' => i \in Completed("local")
  BY <1>3 DEF Completed
<1>6. ASSUME NEW j \in Jobs, KeptAfter(j) PROVE KeptAfter(j)'
  <2>1. \A k \in Completed("local") : k \notin doomed => k \in Completed("local")'
    BY <1>3, <1>4 DEF Completed
  <2> QED  BY <1>3, <1>6, <2>1, KeptStays
<1>7. Fresh(run[r])' /\ Prunes(run[r])'
  BY <1>1, <1>2, <1>6, RetentionShortens
<1>8. inbound[i] # "none" /\ jobs'[i] # None => jobs'[i].dest = "remote"
  BY <1>3 DEF Retention
<1> QED  BY <1>2, <1>3, <1>4, <1>5, <1>7, <1>8, RetentionRow

LEMMA RetentionReceiverPrunes ==
  ASSUME TInv, Ownership, Retention, NEW i \in Jobs, ReceiverPrunes(i)
  PROVE  Retention'
<1>1. /\ inbound[i] = "completed" /\ doomed' = doomed \cup {i} /\ inbound' = Forgotten(i)
      /\ UNCHANGED <<jobs, aged, run>>
  BY DEF ReceiverPrunes
<1>2. i \notin Completed("local")
  BY <1>1 DEF Retention, Completed
<1>3. \A q \in Runners : Private(run[q]) => run[q].job # i
  BY <1>1 DEF Retention, Fresh
<1>4. \A j \in Jobs : j # i => inbound'[j] = inbound[j]
  BY <1>1 DEF Forgotten, TInv, TypeOK
<1>5. \A j \in Jobs : inbound'[j] # "none" /\ jobs'[j] # None => jobs'[j].dest = "remote"
  BY <1>1 DEF Forgotten, TInv, TypeOK, Retention
<1>6. Completed("local")' = Completed("local")
  BY <1>1 DEF Completed
<1> QED  BY <1>1, <1>2, <1>3, <1>4, <1>5, <1>6, RetentionStep

LEMMA RetentionBreaks ==
  ASSUME TInv, Ownership, Retention, NEW r \in Runners, Breaks(r)
  PROVE  Retention'
<1>1. Working(r) /\ Uses(run[r]) /\ Fresh(run[r])
  BY DEF Breaks, Running, Working, WorkSteps, CopyingSteps, Ownership, Retention
<1> PICK i \in Jobs : i = run[r].job
  BY <1>1, OwnJob
<1>2. /\ UNCHANGED <<jobs, doomed, aged>> /\ \A j \in Jobs : j # i => inbound'[j] = inbound[j]
      /\ run[r].pc = "finalize" \/ UNCHANGED inbound
  BY DEF Breaks, TInv, TypeOK
<1>3. run[r].pc = "finalize" => jobs[i].dest = "remote" /\ run[r].dest = "remote"
  BY <1>1, OwnJob DEF Uses
<1>4. OthersStay(r) /\ run'[r] = IF run[r].pc = "finish" THEN Idle ELSE Ended(r, "fail")
  BY MoveShape DEF Breaks
<1>5. Fresh(run[r])' /\ Prunes(run[r])'
  <2>1. CASE run'[r] = Idle
    BY <2>1 DEF Fresh, Private, Prunes, Idle, WorkSteps, CopyingSteps, RemoveSteps
  <2>2. CASE run'[r] = Ended(r, "fail") /\ run[r].pc # "finish"
    <3>1. run'[r].pc = "fail" /\ run'[r].job = i /\ run'[r].dest = run[r].dest
      BY <2>2, EndedShape
    <3>2. run[r].pc # "fail"
      BY DEF Breaks, Running
    <3>3. Fresh(run[r])'
      BY <1>1, <1>2, <1>3, <2>2, <3>1, <3>2 DEF Fresh, Private, Working, WorkSteps
    <3> QED  BY <3>1, <3>3 DEF Prunes, RemoveSteps
  <2> QED  BY <1>4, <2>1, <2>2
<1>6. \A j \in Jobs : inbound'[j] # "none" /\ jobs'[j] # None => jobs'[j].dest = "remote"
  BY <1>2, <1>3 DEF Retention
<1>7. Completed("local")' = Completed("local")
  BY <1>2 DEF Completed
<1>8. \A q \in Runners :
        \/ run'[q] = run[q] /\ (Private(run[q]) => run[q].job # i)
        \/ Fresh(run[q])' /\ Prunes(run[q])'
  BY <1>1, <1>4, <1>5, OthersJob DEF OthersStay
<1> QED  BY <1>2, <1>6, <1>7, <1>8, RetentionStep

LEMMA RetentionReads ==
  ASSUME TInv, Ownership, Retention, NEW r \in Runners,
         Dies(r) \/ Report(r) \/ \E f \in Files : ReadStep(r, f)
  PROVE  Retention'
<1>1. CASE Dies(r) \/ Report(r)
  <2>1. run'[r] = Idle /\ OthersStay(r)
    BY <1>1, MoveShape DEF Dies, Report
  <2>2. UNCHANGED <<jobs, inbound, doomed, aged>>
    BY <1>1 DEF Dies, Report
  <2> QED  BY <2>1, <2>2, RetentionIdle, RetentionQuiet
<1>2. ASSUME NEW f \in Files, ReadStep(r, f) PROVE Retention'
  <2>1. ReadsOn(r) /\ UNCHANGED <<jobs, inbound, doomed, aged>>
    BY <1>2, ReadStepShape
  <2>2. Fresh(run'[r]) /\ Prunes(run'[r])
    BY <2>1 DEF Fresh, Private, Prunes, WorkSteps, CopyingSteps, RemoveSteps, ReadSteps,
                ReadsOn, Reading
  <2> QED  BY <2>1, <2>2, RetentionQuiet DEF ReadsOn
<1> QED  BY <1>1, <1>2

LEMMA RetentionOpen ==
  ASSUME TInv, Ownership, Retention, NEW r \in Runners, NEW j \in Jobs,
         NEW k \in Optional(Keys), NEW ps \in SUBSET Pools,
         NEW pc \in {"restore", "check", "verify"}, Open(r, j, pc, k, ps)
  PROVE  Retention'
<1>1. OthersStay(r) /\ run'[r].pc = pc
  BY OpenShape
<1>2. Fresh(run'[r]) /\ Prunes(run'[r])
  BY <1>1 DEF Fresh, Private, Prunes, WorkSteps, CopyingSteps, RemoveSteps
<1> QED  BY <1>1, <1>2, RetentionQuiet DEF Open

LEMMA RetentionBegin ==
  ASSUME TInv, Ownership, Retention, NEW r \in Runners, NEW o \in RunOptions, Begin(r, o)
  PROVE  Retention'
<1>1. /\ OthersStay(r) /\ run'[r].pc \in CopyingSteps /\ run'[r].job = last + 1
  BY BeginShape
<1> PICK i \in Jobs : i = last + 1 /\ i > last
  BY LastIsJob DEF Begin, Jobs
<1>2. Untouched(i)
  BY DEF Ownership
<1>3. /\ UNCHANGED <<inbound, doomed, aged>> /\ \A j \in Jobs : j # i => jobs'[j] = jobs[j]
      /\ jobs'[i] = [status |-> "running", dest |-> o.dest]
  BY DEF Begin, TInv, TypeOK
<1>4. i \notin Completed("local") /\ i \notin Completed("local")'
  BY <1>2, <1>3 DEF Completed, Untouched
<1>5. Fresh(run[r])'
  BY <1>1, <1>2, <1>3 DEF Fresh, Private, Untouched, WorkSteps
<1>6. Prunes(run[r])'
  BY <1>1 DEF Prunes, CopyingSteps, RemoveSteps
<1>7. inbound[i] = "none"
  BY <1>2 DEF Untouched
<1> QED  BY <1>1, <1>3, <1>4, <1>5, <1>6, <1>7, RetentionRow

\* Time goes by for the oldest job that is not old yet.
LEMMA RetentionAge ==
  ASSUME TInv, Ownership, Retention, NEW i \in Jobs, Age(i)
  PROVE  Retention'
<1>1. UNCHANGED <<jobs, inbound, doomed, run>> /\ aged' = aged \cup {i}
  BY DEF Age
<1>2. \A r \in Runners : Fresh(run[r])'
  <2>1. \A r \in Runners : run[r].pc \in WorkSteps \cup {"prune"} => run[r].job # i
    BY DEF Age, WorkSteps, CopyingSteps
  <2> QED  BY <1>1, <2>1 DEF Retention, Fresh, Private
<1>3. \A r \in Runners : Prunes(run[r])'
  BY <1>1 DEF Retention, Prunes, KeptFrom, KeptAfter, Completed
<1>4. \A j \in aged' : \A k \in 1 .. j - 1 : k \in aged'
  BY <1>1 DEF Age, Retention
<1> QED  BY <1>1, <1>2, <1>3, <1>4 DEF Retention, KeptAfter, Completed

LEMMA RetentionElse ==
  ASSUME TInv, Ownership, Retention,
         \/ \E f \in Files : (\E b \in Blobs : Write(f, b)) \/ Commit(f) \/ Delete(f)
         \/ \E p \in Pools, m \in Modes : SetPool(p, m)
         \/ \E j \in Jobs : \E f \in Files : Rot(j, f)
         \/ UNCHANGED vars
  PROVE  Retention'
<1>1. UNCHANGED <<jobs, inbound, aged, doomed>>
  BY DEF Write, Commit, Delete, SetPool, Rot, store, vars
<1>2. \A r \in Runners :
         /\ run'[r].pc = run[r].pc /\ run'[r].job = run[r].job /\ run'[r].dest = run[r].dest
         /\ run'[r].old = run[r].old /\ run'[r].keep = run[r].keep /\ run'[r].days = run[r].days
  <2>1. CASE UNCHANGED run
    BY <2>1
  <2>2. CASE \E f \in Files : Delete(f)
    BY <2>2, DeleteShape DEF SameRun, SameReference
  <2> QED  BY <2>1, <2>2 DEF Write, Commit, SetPool, Rot, vars
<1>3. \A r \in Runners : Fresh(run[r])'
  BY <1>1, <1>2 DEF Retention, Fresh, Private
<1>4. \A r \in Runners : Prunes(run[r])'
  BY <1>1, <1>2 DEF Retention, Prunes, KeptFrom, KeptAfter, Completed
<1> QED  BY <1>1, <1>3, <1>4 DEF Retention, KeptAfter, Completed

LEMMA RetentionNext ==
  ASSUME TInv, Ownership, Retention, [Next]_vars
  PROVE  Retention'
<1>1. ASSUME NEW r \in Runners, Step(r) PROVE Retention'
  BY <1>1, RetentionCopies, RetentionFinalize, RetentionFinish, RetentionPruneList,
     RetentionRemoveJob, RetentionDropRow, RetentionMarkFailed, RetentionReads DEF Step, ReadStep
<1>2. ASSUME NEW r \in Runners, Started(r) PROVE Retention'
  <2>1. CASE ScheduledRun(r) \/ RunCommand(r)
    BY <2>1, BackupAssumption, RetentionBegin DEF ScheduledRun, RunCommand
  <2>2. CASE RestoreCommand(r) \/ VerifyCommand(r) \/ RestoreToPoolCommand(r)
    BY <2>2, RetentionOpen DEF RestoreCommand, VerifyCommand, RestoreToPoolCommand
  <2> QED  BY <1>2, <2>1, <2>2 DEF Started
<1>3. ASSUME NEW r \in Runners, Breaks(r) \/ RemoveBreaks(r) \/ Dies(r) PROVE Retention'
  BY <1>3, RetentionBreaks, RetentionRemoveBreaks, RetentionReads
<1>4. ASSUME NEW r \in Runners, NEW f \in Files, FileFails(r, f) PROVE Retention'
  BY <1>4, RetentionReads DEF ReadStep
<1> QED  BY <1>1, <1>2, <1>3, <1>4, RetentionReceiverPrunes, RetentionAge, RetentionElse DEF Next

\* Whatever a run has on its list to remove, and whatever a job that is being
\* removed leaves behind, has a good newer backup (pruneOldBackups).
THEOREM RetentionHolds == Spec => []Retention
<1>1. Init => Retention
  BY RetentionInit
<1>2. TInv /\ Ownership /\ Retention /\ [Next]_vars => Retention'
  BY RetentionNext
<1> QED  BY <1>1, <1>2, JobsHaveOneOwner, PTL DEF Spec

LEMMA WhoDooms ==
  ASSUME [Next]_vars, doomed' # doomed
  PROVE  \/ \E r \in Runners : RemoveJob(r) \/ RemoveBreaks(r)
         \/ \E j \in Jobs : ReceiverPrunes(j)
<1>1. CASE UNCHANGED vars
  BY <1>1 DEF vars
<1>2. ASSUME NEW r \in Runners, Step(r), ~RemoveJob(r) PROVE FALSE
  BY <1>2, ZenonT(60) DEF Step, FindReference, WriteManifest, Finalize, Finish, PruneList, DropRow, MarkFailed,
              Report, ListPool, LinkFile, CopyFile, RestoreFile, CheckFile, VerifyFile, UploadFile,
              RecordFile
<1>3. ASSUME NEW r \in Runners, Started(r) PROVE FALSE
  BY <1>3, ZenonT(60) DEF Started, ScheduledRun, RunCommand, RestoreCommand, VerifyCommand,
              RestoreToPoolCommand, Begin, Open
<1>4. ASSUME NEW r \in Runners, Breaks(r) \/ Dies(r) \/ \E f \in Files : FileFails(r, f)
      PROVE  FALSE
  BY <1>4, ZenonT(60) DEF Breaks, Dies, FileFails
<1>5. ASSUME \/ \E f \in Files : (\E b \in Blobs : Write(f, b)) \/ Commit(f) \/ Delete(f)
             \/ \E p \in Pools, m \in Modes : SetPool(p, m)
             \/ \E j \in Jobs : Age(j) \/ \E f \in Files : Rot(j, f)
      PROVE  FALSE
  BY <1>5 DEF Write, Commit, Delete, SetPool, Age, Rot
<1> QED  BY <1>1, <1>2, <1>3, <1>4, <1>5 DEF Next

LEMMA NewerStays ==
  ASSUME TInv, Ownership, Retention, [Next]_vars,
         NEW j \in doomed' \ doomed, jobs[j] # None, jobs[j].dest = "local"
  PROVE  \E i \in Completed("local") : i \notin doomed'
<1>1. j \in Jobs /\ doomed' # doomed /\ inbound[j] = "none"
  <2>1. j \in Jobs
    BY TypeNext DEF TInv, TypeOK
  <2> QED  BY <2>1 DEF Retention
<1>2. PICK r \in Runners : RemoveJob(r) \/ RemoveBreaks(r)
  <2>1. ~ \E i \in Jobs : ReceiverPrunes(i)
    BY <1>1 DEF ReceiverPrunes
  <2> QED  BY <1>1, <2>1, WhoDooms
<1>3. run[r].pc \in RemoveSteps /\ doomed' = doomed \cup {Latest(run[r].old)}
  BY <1>2 DEF RemoveJob, RemoveBreaks, RemoveSteps
<1>4. j = Latest(run[r].old)
  BY <1>3
<1>5. j \in Completed("local")
  <2>1. j \in run[r].old
    BY <1>3, <1>4, OldIsOfJobs
  <2> QED  BY <2>1, OldIsClosed DEF Completed
<1>6. KeptAfter(j)
  BY <1>3, <1>4, <1>5, NextOfOld
<1>7. PICK i \in Completed("local") : i > j /\ i \notin doomed
  BY <1>6 DEF KeptAfter
<1>8. i # j
  BY <1>1, <1>7, LastIsJob
<1> QED  BY <1>3, <1>4, <1>7, <1>8

\* Retention never begins to remove the last good local backup, whatever the
\* numbers and days to keep of the runs that prune at the same time
\* (LastGoodKept, pruneOldBackups).
THEOREM LastGoodBackupKept == Spec => LastGoodKept
<1>1. TInv /\ Ownership /\ Retention /\ [Next]_vars =>
        [\A j \in doomed' \ doomed : jobs[j] # None /\ jobs[j].dest = "local" =>
           \E i \in Completed("local") : i \notin doomed']_vars
  BY NewerStays
<1> QED  BY <1>1, JobsHaveOneOwner, RetentionHolds, PTL DEF Spec, LastGoodKept

(***************************************************************************)
(* What is stored.                                                         *)
(***************************************************************************)
\* A folder loses names or contents, and gains nothing.
Weakened(j) == \A f \in Files :
  copy'[j][f] # None =>
    /\ copy'[j][f] = copy[j][f]
    /\ bytes'[copy[j][f]][f] \in {bytes[copy[j][f]][f], Rotten}

\* A folder stays as it is, but for sectors that go bad.
Intact(j) == note'[j] = note[j] /\ copy'[j] = copy[j] /\ Weakened(j)

LEMMA ContainedInit == Init => Contained
BY BackupAssumption DEF Init, Contained, Copies, Ends, Restores, Truthful, Linked, Whole,
   ReceiverKnows, IsCompleted, Idle, CopyingSteps

LEMMA WeakenedAgrees ==
  ASSUME NEW j \in Jobs, Weakened(j), NEW f \in Files, NEW sha, NEW key,
         Agrees(j, f, sha, key)
  PROVE  Agrees(j, f, sha, key)'
BY DEF Weakened, Agrees

LEMMA IntactHolds ==
  ASSUME NEW j \in Jobs, Intact(j), NEW f \in Files, NEW sha, NEW key,
         Holds(j, f, sha, key)
  PROVE  Holds(j, f, sha, key)'
<1>1. Agrees(j, f, sha, key)'
  BY WeakenedAgrees DEF Holds, Intact
<1> QED  BY <1>1 DEF Holds, Intact

LEMMA IntactTruthful ==
  ASSUME NEW j \in Jobs, Intact(j), Truthful(j)
  PROVE  Truthful(j)'
BY DEF Intact, Weakened, Truthful, Agrees

LEMMA IntactWhole ==
  ASSUME NEW j \in Jobs, Intact(j), Whole(j)
  PROVE  Whole(j)'
BY DEF Intact, Whole

LEMMA CopiesStays ==
  ASSUME TInv, Ownership, Contained, NEW q \in Runners, run'[q] = run[q], Copying(q),
         \A f \in Files : row[f] # None => row'[f] # None,
         Intact(run[q].job), run[q].prev # None => Weakened(run[q].prev)
  PROVE  Copies(run[q])'
<1>1. run[q].job \in Jobs /\ run[q].steady \subseteq Files
  BY OwnJob, StateOf DEF Copying, Working, WorkSteps, RunState
<1>2. Copies(run[q])
  BY DEF Contained
<1> PICK s : s = run[q]
  OBVIOUS
<1>3. s.pc \in CopyingSteps /\ Copies(s) /\ Intact(s.job) /\ s.job \in Jobs
  BY <1>1, <1>2 DEF Copying
<1>4. \A f \in Files :
        /\ s.done[f] # None => Holds(s.job, f, s.done[f], s.key)'
        /\ s.prev # None /\ s.ref[f] # None /\ copy'[s.prev][f] # None =>
             \/ bytes'[copy'[s.prev][f]][f] = Rotten
             \/ bytes'[copy'[s.prev][f]][f][1] = s.ref[f]
  <2> TAKE f \in Files
  <2>1. s.done[f] # None => Holds(s.job, f, s.done[f], s.key)'
    BY <1>3, IntactHolds DEF Copies
  <2>2. ASSUME s.prev # None, s.ref[f] # None, copy'[s.prev][f] # None
        PROVE  \/ bytes'[copy'[s.prev][f]][f] = Rotten
               \/ bytes'[copy'[s.prev][f]][f][1] = s.ref[f]
    <3>1. /\ copy'[s.prev][f] = copy[s.prev][f]
          /\ bytes'[copy[s.prev][f]][f] \in {bytes[copy[s.prev][f]][f], Rotten}
      BY <2>2 DEF Weakened
    <3>2. \/ bytes[copy[s.prev][f]][f] = Rotten
          \/ bytes[copy[s.prev][f]][f][1] = s.ref[f]
      BY <1>3, <2>2, <3>1 DEF Copies
    <3> QED  BY <3>1, <3>2
  <2> QED  BY <2>1, <2>2
<1>5. note'[s.job] = None
  BY <1>3 DEF Copies, Intact
<1>6. \A f \in s.steady : row'[f] # None /\
         (PoolOf[f] \in s.pools \/ f \in s.todo \/ s.done[f] # None)
  BY <1>1, <1>3 DEF Copies
<1>7. Copies(s)'
  BY <1>3, <1>4, <1>5, <1>6 DEF Copies
<1> QED  BY <1>7 DEF Copies

LEMMA EndsStays ==
  ASSUME TInv, Ownership, Contained, NEW q \in Runners, run'[q] = run[q],
         run[q].pc \in {"finalize", "finish"}, doomed \subseteq doomed',
         \/ Intact(run[q].job) /\ inbound'[run[q].job] = inbound[run[q].job]
         \/ run[q].job \in doomed'
  PROVE  Ends(run[q])'
<1>1. run[q].job \in Jobs
  BY OwnJob DEF Working, WorkSteps
<1> PICK s : s = run[q]
  OBVIOUS
<1>2. Ends(s)
  BY DEF Contained
<1>3. s.job \notin doomed' => Whole(s.job)'
  BY <1>1, <1>2, IntactWhole DEF Ends
<1>4. Ends(s)'
  BY <1>2, <1>3 DEF Ends
<1> QED  BY <1>4 DEF Ends

LEMMA RestoresStays ==
  ASSUME TInv, Ownership, Contained, NEW q \in Runners, run'[q] = run[q],
         run[q].pc \in {"restore", "check"}, doomed \subseteq doomed',
         run[q].job \notin doomed' => Intact(run[q].job) /\ jobs'[run[q].job] = jobs[run[q].job]
  PROVE  Restores(run[q])'
<1>1. run[q].job \in Jobs /\ run[q].errors \subseteq Files
  BY StateOf DEF Ownership, Uses, ReadSteps, RunState
<1> PICK s : s = run[q]
  OBVIOUS
<1>2. Restores(s) /\ s.pc \in {"restore", "check"}
  BY DEF Contained
<1>3. s.job \notin doomed' =>
        IsCompleted(s.job)' /\ note'[s.job] # None /\ s.seen = note'[s.job].sha
  BY <1>2 DEF Restores, IsCompleted, Intact
<1>4. ASSUME NEW f \in s.errors \ s.failed, s.job \notin doomed'
      PROVE  \/ bytes'[copy'[s.job][f]][f] = Rotten
             \/ bytes'[copy'[s.job][f]][f][2] # s.key
  <2>1. /\ IsCompleted(s.job) /\ s.seen = note[s.job].sha /\ s.seen[f] # None
        /\ bytes[copy[s.job][f]][f] = Rotten \/ bytes[copy[s.job][f]][f][2] # s.key
    BY <1>2, <1>4 DEF Restores
  <2>2. copy[s.job][f] # None
    BY <1>1, <1>4, <2>1 DEF Contained, Whole
  <2>3. copy'[s.job] = copy[s.job] /\ Weakened(s.job)
    BY <1>4 DEF Intact
  <2> QED  BY <1>1, <2>1, <2>2, <2>3, ZenonT(60) DEF Weakened
<1>5. Restores(s)'
  BY <1>2, <1>3, <1>4 DEF Restores
<1> QED  BY <1>5 DEF Restores

\* A runner that does not move, while at most the folder and the registration
\* of a job change that is not its own, or is being removed.
LEMMA RunnerStays ==
  ASSUME TInv, Ownership, Contained, NEW q \in Runners, run'[q] = run[q],
         \A f \in Files : row[f] # None => row'[f] # None,
         doomed \subseteq doomed',
         Working(q) =>
           \/ Intact(run[q].job) /\ inbound'[run[q].job] = inbound[run[q].job]
           \/ run[q].job \in doomed' /\ ~Private(run[q]),
         \A j \in Jobs : Closed(j) => Weakened(j),
         \A j \in Jobs : Closed(j) /\ j \notin doomed' => Intact(j) /\ jobs'[j] = jobs[j]
  PROVE  Copies(run[q])' /\ Ends(run[q])' /\ Restores(run[q])'
<1>1. run[q] \in RunState /\ Uses(run[q])
  BY StateOf DEF Ownership
<1>2. Copies(run[q])'
  <2>1. CASE Copying(q)
    <3>1. Intact(run[q].job)
      BY <2>1 DEF Copying, Working, Private, WorkSteps, CopyingSteps
    <3>2. run[q].prev # None => Weakened(run[q].prev)
      BY <1>1 DEF Uses, RunState, Optional
    <3> QED  BY <2>1, <3>1, <3>2, CopiesStays
  <2>2. CASE ~Copying(q)
    BY <2>2 DEF Copies, Copying
  <2> QED  BY <2>1, <2>2
<1>3. Ends(run[q])'
  <2>1. CASE run[q].pc \in {"finalize", "finish"}
    BY <2>1, EndsStays DEF Working, WorkSteps
  <2>2. CASE run[q].pc \notin {"finalize", "finish"}
    BY <2>2 DEF Ends
  <2> QED  BY <2>1, <2>2
<1>4. Restores(run[q])'
  <2>1. CASE run[q].pc \in {"restore", "check"}
    BY <1>1, <2>1, RestoresStays DEF Uses, ReadSteps
  <2>2. CASE run[q].pc \notin {"restore", "check"}
    BY <2>2 DEF Restores
  <2> QED  BY <2>1, <2>2
<1> QED  BY <1>2, <1>3, <1>4

LEMMA SameIsIntact ==
  ASSUME UNCHANGED store
  PROVE  \A j \in Jobs : Intact(j)
BY DEF store, Intact, Weakened

LEMMA LinkedStays ==
  ASSUME TInv, TInv', Ownership, Contained, NEW j \in Jobs, copy'[j] = copy[j], last <= last',
         \A q \in Runners : Copying(q)' =>
           run'[q].job > last \/ (Copying(q) /\ run'[q].job = run[q].job)
  PROVE  Linked(j)'
<1> SUFFICES ASSUME NEW f \in Files, copy'[j][f] # None
             PROVE  /\ copy'[j][f] <= last'
                    /\ \/ copy'[j][f] = j
                       \/ \A q \in Runners : Copying(q)' => run'[q].job # copy'[j][f]
  BY DEF Linked
<1> PICK i \in Jobs : i = copy[j][f]
  BY DEF TInv, TypeOK, Optional
<1>1. /\ i <= last
      /\ i = j \/ \A q \in Runners : Copying(q) => run[q].job # i
  BY DEF Contained, Linked
<1>2. last \in Nat /\ last' \in Nat /\ i \in Nat
  <2>1. last' \in 0 .. MaxJobs
    BY DEF TInv, TypeOK
  <2> QED  BY <2>1, LastIsJob
<1>3. i <= last'
  BY <1>1, <1>2
<1>4. ~(i > last)
  BY <1>1, <1>2
<1> QED  BY <1>1, <1>3, <1>4

\* A step that leaves the folders alone, and the row and the registration of
\* every job but i.
LEMMA ContainedRow ==
  ASSUME TInv, TInv', Ownership, Contained, NEW r \in Runners, OthersStay(r),
         UNCHANGED <<store, doomed>>, last <= last',
         \A f \in Files : row[f] # None => row'[f] # None,
         Copying(r)' => run'[r].job > last \/ (Copying(r) /\ run'[r].job = run[r].job),
         NEW i,
         \A j \in Jobs : j # i => jobs'[j] = jobs[j] /\ inbound'[j] = inbound[j],
         \A q \in Runners : q # r /\ Working(q) => run[q].job # i,
         i \in Jobs /\ Closed(i) /\ i \notin doomed => jobs'[i] = jobs[i],
         i \in Jobs /\ i \notin doomed /\ IsCompleted(i)' =>
           Whole(i) /\ (jobs'[i].dest = "remote" => inbound'[i] = "completed"),
         i \in Jobs /\ i \notin doomed /\ inbound'[i] # "none" => Whole(i),
         Copies(run[r])', Ends(run[r])', Restores(run[r])'
  PROVE  Contained'
<1>1. \A j \in Jobs : Intact(j)
  BY SameIsIntact
<1>2. \A q \in Runners : Copies(run[q])' /\ Ends(run[q])' /\ Restores(run[q])'
  <2> SUFFICES ASSUME NEW q \in Runners, q # r
               PROVE  Copies(run[q])' /\ Ends(run[q])' /\ Restores(run[q])'
    OBVIOUS
  <2>1. run'[q] = run[q] /\ doomed \subseteq doomed'
    BY DEF OthersStay
  <2>2. Working(q) => Intact(run[q].job) /\ inbound'[run[q].job] = inbound[run[q].job]
    BY <1>1, OwnJob
  <2>3. \A j \in Jobs : Closed(j) => Weakened(j)
    BY <1>1 DEF Intact
  <2>4. \A j \in Jobs : Closed(j) /\ j \notin doomed' => Intact(j) /\ jobs'[j] = jobs[j]
    BY <1>1
  <2> QED  BY <2>1, <2>2, <2>3, <2>4, RunnerStays
<1>3. ASSUME NEW j \in Jobs PROVE Truthful(j)' /\ Linked(j)'
  <2>1. Truthful(j)'
    BY <1>1, IntactTruthful DEF Contained
  <2>2. copy'[j] = copy[j]
    BY <1>1 DEF Intact
  <2>3. \A q \in Runners : Copying(q)' =>
          run'[q].job > last \/ (Copying(q) /\ run'[q].job = run[q].job)
    BY DEF OthersStay, Copying
  <2> QED  BY <2>1, <2>2, <2>3, LinkedStays
<1>4. ASSUME NEW j \in Jobs, IsCompleted(j)', j \notin doomed' PROVE Whole(j)'
  <2>1. Whole(j)
    BY <1>4 DEF Contained, IsCompleted
  <2> QED  BY <1>1, <2>1, IntactWhole
<1>5. ReceiverKnows'
  <2> SUFFICES ASSUME NEW j \in Jobs
               PROVE  j \notin doomed' =>
                        /\ inbound'[j] # "none" => Whole(j)'
                        /\ IsCompleted(j)' /\ jobs'[j].dest = "remote" =>
                             inbound'[j] = "completed"
    BY DEF ReceiverKnows, Whole
  <2>1. (Whole(j) => Whole(j)') /\ doomed' = doomed
    BY <1>1, IntactWhole
  <2>2. CASE j = i
    BY <2>1, <2>2
  <2>3. CASE j # i
    BY <2>1, <2>3 DEF Contained, ReceiverKnows, IsCompleted, Whole
  <2> QED  BY <2>2, <2>3
<1> QED  BY <1>2, <1>3, <1>4, <1>5 DEF Contained

\* The same when neither rows nor registrations change.
LEMMA ContainedQuiet ==
  ASSUME TInv, TInv', Ownership, Contained, NEW r \in Runners, OthersStay(r),
         UNCHANGED <<store, doomed, jobs, inbound, last>>,
         \A f \in Files : row[f] # None => row'[f] # None,
         Copying(r)' => Copying(r) /\ run'[r].job = run[r].job,
         Copies(run[r])', Ends(run[r])', Restores(run[r])'
  PROVE  Contained'
<1>1. None \notin Jobs
  BY BackupAssumption, LastIsJob
<1>2. last <= last'
  BY LastIsJob
<1>3. \A q \in Runners : q # r /\ Working(q) => run[q].job # None
  BY <1>1, OwnJob
<1> QED  BY <1>1, <1>2, <1>3, ContainedRow

\* Neither writing manifests nor reading them.
LEMMA ContainedNothingNext ==
  ASSUME NEW r \in Runners, run'[r].pc \notin CopyingSteps,
         run'[r].pc \notin {"finalize", "finish"}, run'[r].pc \notin {"restore", "check"}
  PROVE  Copies(run[r])' /\ Ends(run[r])' /\ Restores(run[r])'
BY DEF Copies, Ends, Restores

LEMMA ContainedFindReference ==
  ASSUME TInv, TInv', Ownership, Contained, NEW r \in Runners, FindReference(r)
  PROVE  Contained'
<1> DEFINE finished == Completed(run[r].dest)
<1>1. run[r].pc = "reference" /\ UNCHANGED <<pool, jobs, inbound, store, last, doomed>>
  BY DEF FindReference
<1>2. /\ OthersStay(r) /\ run'[r].pc = "pools"
      /\ \/ /\ run'[r].prev = IF finished = {} THEN None ELSE Latest(finished)
            /\ run'[r].ref = IF finished = {} \/ note[Latest(finished)] = None THEN NoShas
                             ELSE note[Latest(finished)].sha
         \/ SameReference(run'[r], run[r])
      /\ SameRun(run'[r], run[r]) /\ SameWork(run'[r], run[r]) /\ SameRest(run'[r], run[r])
  BY FindReferenceShape
<1>3. Copies(run[r]) /\ run[r] \in RunState
  BY StateOf DEF Contained
<1>4. run[r].done = NoShas /\ run[r].todo = {} /\ note[run[r].job] = None
  BY <1>1, <1>3 DEF Copies, CopyingSteps
<1>5. ASSUME NEW f \in Files, run'[r].prev # None, run'[r].ref[f] # None,
             copy[run'[r].prev][f] # None
      PROVE  \/ bytes[copy[run'[r].prev][f]][f] = Rotten
             \/ bytes[copy[run'[r].prev][f]][f][1] = run'[r].ref[f]
  <2>1. CASE SameReference(run'[r], run[r])
    BY <1>1, <1>3, <1>5, <2>1 DEF Copies, CopyingSteps, SameReference
  <2>2. CASE ~SameReference(run'[r], run[r])
    <3>1. finished # {} /\ run'[r].prev = Latest(finished)
      BY <1>2, <1>5, <2>2
    <3>2. run'[r].prev \in Jobs
      BY <3>1, LatestIsNewest DEF Completed
    <3>3. note[run'[r].prev] # None /\ run'[r].ref = note[run'[r].prev].sha
      BY <1>2, <1>5, <2>2, <3>1 DEF NoShas
    <3> QED  BY <1>5, <3>2, <3>3 DEF Contained, Truthful, Agrees
  <2> QED  BY <2>1, <2>2
<1>6. \A f \in run[r].steady : row[f] # None /\
        (PoolOf[f] \in run[r].pools \/ f \in run[r].todo \/ run[r].done[f] # None)
  BY <1>1, <1>3 DEF Copies, CopyingSteps
<1>7. \A f \in Files : run'[r].done[f] = None
  BY <1>2, <1>4 DEF SameWork, NoShas
<1>8. Copies(run'[r])
  BY <1>2, <1>4, <1>5, <1>6, <1>7, ZenonT(60) DEF Copies, SameRun, SameWork, SameRest
<1>9. Copies(run[r])'
  BY <1>1, <1>8 DEF Copies, Holds, Agrees, store, pool
<1>10. Ends(run[r])' /\ Restores(run[r])'
  BY <1>2 DEF Ends, Restores
<1> QED  BY <1>1, <1>2, <1>9, <1>10, ContainedQuiet DEF Copying, CopyingSteps, SameRun, pool

LEMMA ContainedListPool ==
  ASSUME TInv, TInv', Ownership, Contained, NEW r \in Runners, NEW p \in Pools, ListPool(r, p)
  PROVE  Contained'
<1>1. /\ run[r].pc = "pools" /\ run[r].todo = {}
      /\ UNCHANGED <<pool, jobs, inbound, store, last, doomed>>
  BY DEF ListPool
<1>2. /\ OthersStay(r) /\ run'[r].pc = "pools"
      /\ run'[r].pools = run[r].pools \ {p}
      /\ run'[r].todo = {f \in Files : PoolOf[f] = p /\ row[f] # None}
      /\ run'[r].done = run[r].done
      /\ SameRun(run'[r], run[r]) /\ SameReference(run'[r], run[r])
      /\ SameRest(run'[r], run[r])
  BY ListPoolShape
<1>3. Copies(run[r]) /\ run[r].steady \subseteq Files
  BY StateOf DEF Contained, RunState
<1>4. \A f \in run[r].steady : row[f] # None /\
        (PoolOf[f] \in run'[r].pools \/ f \in run'[r].todo \/ run'[r].done[f] # None)
  BY <1>1, <1>2, <1>3 DEF Copies, CopyingSteps
<1>5. Copies(run'[r])
  BY <1>1, <1>2, <1>3, <1>4, ZenonT(60) DEF Copies, SameRun, SameReference, SameRest, CopyingSteps
<1>6. Copies(run[r])'
  BY <1>1, <1>5, ZenonT(60) DEF Copies, Holds, Agrees, store, pool
<1>7. Ends(run[r])' /\ Restores(run[r])'
  BY <1>2 DEF Ends, Restores
<1> QED  BY <1>1, <1>2, <1>6, <1>7, ContainedQuiet DEF Copying, CopyingSteps, SameRun, pool

LEMMA ContainedFinalize ==
  ASSUME TInv, TInv', Ownership, Retention, Contained, NEW r \in Runners, Finalize(r)
  PROVE  Contained'
<1>1. /\ run[r].pc = "finalize" /\ Working(r) /\ Private(run[r])
      /\ UNCHANGED <<pool, jobs, store, last, doomed>>
  BY DEF Finalize, Working, Private, WorkSteps
<1> PICK i \in Jobs : i = run[r].job
  BY <1>1, OwnJob
<1>2. jobs[i] # None /\ jobs[i].status = "running" /\ i \notin doomed
  BY <1>1, OwnJob DEF Retention, Fresh
<1>3. /\ inbound'[i] = "completed" /\ \A j \in Jobs : j # i => inbound'[j] = inbound[j]
  BY DEF Finalize, TInv, TypeOK
<1>4. /\ OthersStay(r) /\ run'[r].pc = "finish" /\ SameRun(run'[r], run[r])
      /\ SameWork(run'[r], run[r]) /\ SameRest(run'[r], run[r])
  BY GoesToShape DEF Finalize
<1>5. Ends(run[r])
  BY DEF Contained
<1>6. Whole(i) /\ note[i] # None
  BY <1>1, <1>2, <1>5 DEF Ends, Whole
<1>7. Ends(run[r])'
  BY <1>1, <1>3, <1>4, <1>5 DEF Ends, Whole, store, SameRun, SameWork, SameRest
<1>8. Copies(run[r])' /\ Restores(run[r])' /\ ~Copying(r)'
  BY <1>4 DEF Copies, Restores, Copying, CopyingSteps
<1>9. \A q \in Runners : q # r /\ Working(q) => run[q].job # i
  BY <1>1 DEF Ownership
<1>10. ~IsCompleted(i)' /\ ~Closed(i)
  BY <1>1, <1>2 DEF IsCompleted, Closed
<1>11. last <= last' /\ \A f \in Files : row[f] # None => row'[f] # None
  BY <1>1, LastIsJob DEF pool
<1> QED  BY <1>1, <1>3, <1>4, <1>6, <1>7, <1>8, <1>9, <1>10, <1>11, ContainedRow

LEMMA ContainedFinish ==
  ASSUME TInv, TInv', Ownership, Retention, Contained, NEW r \in Runners, Finish(r)
  PROVE  Contained'
<1>1. /\ run[r].pc = "finish" /\ Working(r)
      /\ UNCHANGED <<pool, inbound, store, last, doomed>>
  BY DEF Finish, Working, WorkSteps
<1> PICK i \in Jobs : i = run[r].job
  BY <1>1, OwnJob
<1>2. /\ jobs[i] # None /\ jobs[i].status = "running" /\ jobs[i].dest = run[r].dest
      /\ jobs[i] \in JobRow
  BY <1>1, OwnJob DEF TInv, TypeOK, Optional
<1>3. /\ jobs'[i] = [jobs[i] EXCEPT !.status = "completed"]
      /\ \A j \in Jobs : j # i => jobs'[j] = jobs[j]
  BY <1>2 DEF Finish, TInv, TypeOK
<1>4. jobs'[i].dest = run[r].dest
  BY <1>2, <1>3 DEF JobRow
<1>5. OthersStay(r) /\ (run'[r] = Ended(r, "prune") \/ run'[r] = Idle)
  BY MoveShape DEF Finish
<1>6. run'[r].pc \in {"prune", "idle"}
  BY <1>5, EndedShape, IdleIsState
<1>7. Copies(run[r])' /\ Ends(run[r])' /\ Restores(run[r])' /\ ~Copying(r)'
  BY <1>6, ContainedNothingNext DEF Copying, CopyingSteps
<1>8. Ends(run[r])
  BY DEF Contained
<1>9. i \notin doomed => Whole(i) /\ (run[r].dest = "remote" => inbound[i] = "completed")
  BY <1>1, <1>8 DEF Ends
<1>10. \A q \in Runners : q # r /\ Working(q) => run[q].job # i
  BY <1>1 DEF Ownership
<1>11. ~Closed(i)
  BY <1>2 DEF Closed
<1>12. last <= last' /\ \A f \in Files : row[f] # None => row'[f] # None
  BY <1>1, LastIsJob DEF pool
<1>13. i \notin doomed /\ inbound'[i] # "none" => Whole(i)
  BY <1>9
<1>14. i \notin doomed /\ IsCompleted(i)' =>
         Whole(i) /\ (jobs'[i].dest = "remote" => inbound'[i] = "completed")
  BY <1>1, <1>4, <1>9
<1>15. \A j \in Jobs : j # i => jobs'[j] = jobs[j] /\ inbound'[j] = inbound[j]
  BY <1>1, <1>3
<1>16. UNCHANGED <<store, doomed>>
  BY <1>1
<1> QED  BY <1>5, <1>7, <1>10, <1>11, <1>12, <1>13, <1>14, <1>15, <1>16, ContainedRow

LEMMA ContainedDropRow ==
  ASSUME TInv, TInv', Ownership, Retention, Contained, NEW r \in Runners, DropRow(r)
  PROVE  Contained'
<1>1. /\ run[r].pc = "drop" /\ run[r].pc \in RemoveSteps
      /\ UNCHANGED <<pool, inbound, store, last, doomed>>
  BY DEF DropRow, RemoveSteps
<1> PICK i \in Jobs : i = Latest(run[r].old)
  BY <1>1, NextOfOld
<1>2. i \in run[r].old /\ i \in doomed
  BY <1>1, NextOfOld DEF Retention, Prunes
<1>3. OthersStay(r) /\ (run'[r] = Idle \/ ShortensList(run'[r], run[r], "remove"))
  BY DropRowShape
<1>4. run'[r].pc \in {"idle", "remove"}
  BY <1>3, IdleIsState DEF ShortensList
<1>5. Copies(run[r])' /\ Ends(run[r])' /\ Restores(run[r])' /\ ~Copying(r)'
  BY <1>4, ContainedNothingNext DEF Copying, CopyingSteps
<1>6. \A j \in Jobs : j # i => jobs'[j] = jobs[j]
  BY DEF DropRow, TInv, TypeOK
<1>7. \A q \in Runners : q # r /\ Working(q) => run[q].job # i
  BY <1>2, OldIsClosed
<1>8. last <= last' /\ \A f \in Files : row[f] # None => row'[f] # None
  BY <1>1, LastIsJob DEF pool
<1> QED  BY <1>1, <1>2, <1>3, <1>5, <1>6, <1>7, <1>8, ContainedRow

LEMMA ContainedMarkFailed ==
  ASSUME TInv, TInv', Ownership, Contained, NEW r \in Runners, MarkFailed(r)
  PROVE  Contained'
<1>1. Working(r) /\ UNCHANGED <<pool, inbound, store, last, doomed>>
  BY DEF MarkFailed, Working, WorkSteps
<1> PICK i \in Jobs : i = run[r].job
  BY <1>1, OwnJob
<1>2. /\ jobs[i] # None /\ jobs[i].status = "running" /\ jobs[i] \in JobRow
  BY <1>1, OwnJob DEF TInv, TypeOK, Optional
<1>3. /\ jobs'[i] = [jobs[i] EXCEPT !.status = "failed"] \/ jobs'[i] = jobs[i]
      /\ \A j \in Jobs : j # i => jobs'[j] = jobs[j]
  BY <1>2 DEF MarkFailed, TInv, TypeOK
<1>4. ~IsCompleted(i)'
  BY <1>2, <1>3 DEF IsCompleted, JobRow
<1>5. OthersStay(r) /\ run'[r] = Idle
  BY MoveShape DEF MarkFailed
<1>6. Copies(run[r])' /\ Ends(run[r])' /\ Restores(run[r])' /\ ~Copying(r)'
  BY <1>5, IdleIsState, ContainedNothingNext DEF Copying, CopyingSteps
<1>7. i \notin doomed /\ inbound'[i] # "none" => Whole(i)
  BY <1>1 DEF Contained, ReceiverKnows, Whole
<1>8. \A q \in Runners : q # r /\ Working(q) => run[q].job # i
  BY <1>1 DEF Ownership
<1>9. ~Closed(i)
  BY <1>2 DEF Closed
<1>10. last <= last' /\ \A f \in Files : row[f] # None => row'[f] # None
  BY <1>1, LastIsJob DEF pool
<1> QED  BY <1>1, <1>3, <1>4, <1>5, <1>6, <1>7, <1>8, <1>9, <1>10, ContainedRow

LEMMA ContainedBreaks ==
  ASSUME TInv, TInv', Ownership, Retention, Contained, NEW r \in Runners, Breaks(r)
  PROVE  Contained'
<1>1. Working(r) /\ UNCHANGED <<pool, jobs, store, last, doomed>>
  BY DEF Breaks, Running, Working, WorkSteps, CopyingSteps
<1> PICK i \in Jobs : i = run[r].job
  BY <1>1, OwnJob
<1>2. jobs[i] # None /\ jobs[i].status = "running"
  BY <1>1, OwnJob
<1>3. /\ \A j \in Jobs : j # i => inbound'[j] = inbound[j]
      /\ run[r].pc = "finalize" \/ UNCHANGED inbound
  BY DEF Breaks, TInv, TypeOK
<1>4. OthersStay(r) /\ (run'[r] = Idle \/ run'[r] = Ended(r, "fail"))
  BY MoveShape DEF Breaks
<1>5. run'[r].pc \in {"idle", "fail"}
  BY <1>4, EndedShape, IdleIsState
<1>6. Copies(run[r])' /\ Ends(run[r])' /\ Restores(run[r])' /\ ~Copying(r)'
  BY <1>5, ContainedNothingNext DEF Copying, CopyingSteps
<1>7. i \notin doomed /\ inbound'[i] # "none" => Whole(i)
  <2>1. CASE run[r].pc = "finalize"
    BY <2>1 DEF Contained, Ends
  <2>2. CASE UNCHANGED inbound
    BY <2>2 DEF Contained, ReceiverKnows, Whole
  <2> QED  BY <1>3, <2>1, <2>2
<1>8. \A q \in Runners : q # r /\ Working(q) => run[q].job # i
  BY <1>1 DEF Ownership
<1>9. ~Closed(i) /\ ~IsCompleted(i)'
  BY <1>1, <1>2 DEF Closed, IsCompleted
<1>10. last <= last' /\ \A f \in Files : row[f] # None => row'[f] # None
  BY <1>1, LastIsJob DEF pool
<1> QED  BY <1>1, <1>3, <1>4, <1>6, <1>7, <1>8, <1>9, <1>10, ContainedRow

LEMMA ContainedBegin ==
  ASSUME TInv, TInv', Ownership, Contained, NEW r \in Runners, NEW o \in RunOptions, Begin(r, o)
  PROVE  Contained'
<1> PICK i \in Jobs : i = last + 1 /\ i > last
  BY LastIsJob DEF Begin, Jobs
<1>1. /\ OthersStay(r) /\ run'[r].pc \in CopyingSteps /\ run'[r].job = i
      /\ run'[r].pools = {p \in o.pools : mode[p] = "backed"} /\ run'[r].prev = None
      /\ run'[r].todo = {} /\ run'[r].done = NoShas
      /\ run'[r].steady = {f \in Files
           : PoolOf[f] \in {p \in o.pools : mode[p] = "backed"} /\ row[f] # None}
  BY BeginShape
<1>2. Untouched(i)
  BY DEF Ownership
<1>3. /\ UNCHANGED <<pool, inbound, store, doomed>> /\ last' = i
      /\ \A j \in Jobs : j # i => jobs'[j] = jobs[j]
      /\ jobs'[i] = [status |-> "running", dest |-> o.dest]
  BY DEF Begin, TInv, TypeOK
<1>4. Copies(run[r])'
  BY <1>1, <1>2, <1>3 DEF Copies, NoShas, Untouched, store, pool
<1>5. Ends(run[r])' /\ Restores(run[r])'
  BY <1>1 DEF Ends, Restores, CopyingSteps
<1>6. ~IsCompleted(i)' /\ ~Closed(i) /\ inbound'[i] = "none"
  <2>1. ~(i <= last)
    BY LastIsJob
  <2> QED  BY <1>2, <1>3, <2>1 DEF IsCompleted, Closed, Untouched
<1>7. \A q \in Runners : q # r /\ Working(q) => run[q].job # i
  BY OwnJob
<1>8. last <= last' /\ \A f \in Files : row[f] # None => row'[f] # None
  BY <1>3, LastIsJob DEF pool
<1> QED  BY <1>1, <1>3, <1>4, <1>5, <1>6, <1>7, <1>8, ContainedRow

LEMMA ContainedOpen ==
  ASSUME TInv, TInv', Ownership, Contained, NEW r \in Runners, NEW j \in Jobs,
         NEW k \in Optional(Keys), NEW ps \in SUBSET Pools,
         NEW pc \in {"restore", "check", "verify"}, Open(r, j, pc, k, ps)
  PROVE  Contained'
<1>1. /\ OthersStay(r) /\ run'[r].pc = pc /\ run'[r].job = j
      /\ run'[r].seen = note[j].sha
      /\ run'[r].todo = {f \in Files : note[j].sha[f] # None}
      /\ run'[r].done = NoShas /\ run'[r].errors = {}
  BY OpenShape
<1>2. /\ IsCompleted(j) /\ note[j] # None
      /\ UNCHANGED <<pool, jobs, inbound, store, last, doomed>>
  BY DEF Open, IsCompleted
<1>3. Restores(run[r])'
  BY <1>1, <1>2 DEF Restores, IsCompleted, NoShas, store
<1>4. Copies(run[r])' /\ Ends(run[r])' /\ ~Copying(r)'
  BY <1>1 DEF Copies, Ends, Copying, CopyingSteps
<1> QED  BY <1>1, <1>2, <1>3, <1>4, ContainedQuiet DEF pool

\* The folder of i is being removed.
LEMMA ContainedRemoval ==
  ASSUME TInv, TInv', Ownership, Contained, NEW i \in Jobs, doomed' = doomed \cup {i},
         UNCHANGED <<row, jobs, bytes, last>>,
         \A j \in Jobs : j # i =>
           note'[j] = note[j] /\ copy'[j] = copy[j] /\ inbound'[j] = inbound[j],
         note'[i] \in {note[i], None},
         \A f \in Files : copy'[i][f] \in {copy[i][f], None},
         \A q \in Runners : Working(q) => run[q].job # i \/ ~Private(run[q]),
         \A q \in Runners :
           \/ run'[q] = run[q]
           \/ ~Copying(q)' /\ Copies(run[q])' /\ Ends(run[q])' /\ Restores(run[q])'
  PROVE  Contained'
<1>1. \A j \in Jobs : j # i => Intact(j)
  BY DEF Intact, Weakened
<1>2. \A j \in Jobs : Weakened(j)
  BY DEF Weakened
<1>3. \A q \in Runners : Copies(run[q])' /\ Ends(run[q])' /\ Restores(run[q])'
  <2> SUFFICES ASSUME NEW q \in Runners, run'[q] = run[q]
               PROVE  Copies(run[q])' /\ Ends(run[q])' /\ Restores(run[q])'
    OBVIOUS
  <2>1. Working(q) =>
          \/ Intact(run[q].job) /\ inbound'[run[q].job] = inbound[run[q].job]
          \/ run[q].job \in doomed' /\ ~Private(run[q])
    BY <1>1, OwnJob
  <2>2. \A j \in Jobs : Closed(j) => Weakened(j)
    BY <1>2
  <2>3. \A j \in Jobs : Closed(j) /\ j \notin doomed' => Intact(j) /\ jobs'[j] = jobs[j]
    BY <1>1
  <2> QED  BY <2>1, <2>2, <2>3, RunnerStays
<1>4. \A j \in Jobs : Truthful(j)'
  <2> TAKE j \in Jobs
  <2>1. CASE j = i
    BY <1>2, <2>1 DEF Contained, Truthful, Agrees, Weakened
  <2>2. CASE j # i
    BY <1>1, <2>2, IntactTruthful DEF Contained
  <2> QED  BY <2>1, <2>2
<1>5. \A j \in Jobs : Linked(j)'
  <2> TAKE j \in Jobs
  <2>1. \A q \in Runners : Copying(q)' => Copying(q) /\ run'[q].job = run[q].job
    BY DEF Copying
  <2>2. \A f \in Files : copy'[j][f] # None => copy'[j][f] = copy[j][f]
    OBVIOUS
  <2> QED  BY <2>1, <2>2 DEF Contained, Linked
<1>6. ASSUME NEW j \in Jobs, IsCompleted(j)', j \notin doomed' PROVE Whole(j)'
  <2>1. Whole(j) /\ Intact(j)
    BY <1>1, <1>6 DEF Contained, IsCompleted
  <2> QED  BY <2>1, IntactWhole
<1>7. ReceiverKnows'
  BY DEF Contained, ReceiverKnows, IsCompleted
<1> QED  BY <1>3, <1>4, <1>5, <1>6, <1>7 DEF Contained

LEMMA EmptiedShape ==
  ASSUME TInv, NEW i \in Jobs, Emptied(i)
  PROVE  /\ note'[i] = None /\ \A f \in Files : copy'[i][f] = None
         /\ \A j \in Jobs : j # i => note'[j] = note[j] /\ copy'[j] = copy[j]
BY DEF Emptied, TInv, TypeOK

LEMMA ContainedRemoveJob ==
  ASSUME TInv, TInv', Ownership, Retention, Contained, NEW r \in Runners, RemoveJob(r)
  PROVE  Contained'
<1>1. run[r].pc = "remove" /\ run[r].pc \in RemoveSteps
  BY DEF RemoveJob, RemoveSteps
<1> PICK i \in Jobs : i = Latest(run[r].old)
  BY <1>1, NextOfOld
<1>2. i \in run[r].old
  BY <1>1, NextOfOld
<1>3. OthersStay(r) /\ run'[r].pc = "drop"
  BY GoesToShape DEF RemoveJob
<1>4. Copies(run[r])' /\ Ends(run[r])' /\ Restores(run[r])' /\ ~Copying(r)'
  BY <1>3, ContainedNothingNext DEF Copying, CopyingSteps
<1>5. /\ note'[i] = None /\ \A f \in Files : copy'[i][f] = None
      /\ \A j \in Jobs : j # i => note'[j] = note[j] /\ copy'[j] = copy[j]
  BY EmptiedShape DEF RemoveJob
<1>6. \A j \in Jobs : j # i => inbound'[j] = inbound[j]
  BY DEF RemoveJob, Forgotten, TInv, TypeOK
<1>7. \A q \in Runners : Working(q) => run[q].job # i
  BY <1>2, OldIsClosed
<1>8. doomed' = doomed \cup {i} /\ UNCHANGED <<row, jobs, bytes, last>>
  BY DEF RemoveJob, pool
<1> QED  BY <1>3, <1>4, <1>5, <1>6, <1>7, <1>8, ContainedRemoval DEF OthersStay

LEMMA ContainedRemoveBreaks ==
  ASSUME TInv, TInv', Ownership, Retention, Contained, NEW r \in Runners, RemoveBreaks(r)
  PROVE  Contained'
<1>1. run[r].pc = "remove" /\ run[r].pc \in RemoveSteps
  BY DEF RemoveBreaks, RemoveSteps
<1> PICK i \in Jobs : i = Latest(run[r].old)
  BY <1>1, NextOfOld
<1>2. i \in run[r].old
  BY <1>1, NextOfOld
<1>3. OthersStay(r) /\ (run'[r] = Idle \/ ShortensList(run'[r], run[r], "remove"))
  BY RemoveBreaksShape
<1>4. run'[r].pc \in {"idle", "remove"}
  BY <1>3, IdleIsState DEF ShortensList
<1>5. Copies(run[r])' /\ Ends(run[r])' /\ Restores(run[r])' /\ ~Copying(r)'
  BY <1>4, ContainedNothingNext DEF Copying, CopyingSteps
<1>6. /\ \A f \in Files : copy'[i][f] \in {copy[i][f], None}
      /\ \A j \in Jobs : j # i => copy'[j] = copy[j]
  <2>1. PICK S \in SUBSET Files :
          copy' = [copy EXCEPT ![i] = [f \in Files |-> IF f \in S THEN None ELSE @[f]]]
    BY DEF RemoveBreaks
  <2> QED  BY <2>1 DEF TInv, TypeOK
<1>7. \A q \in Runners : Working(q) => run[q].job # i
  BY <1>2, OldIsClosed
<1>8. doomed' = doomed \cup {i} /\ UNCHANGED <<row, jobs, bytes, last, note, inbound>>
  BY DEF RemoveBreaks, pool
<1> QED  BY <1>3, <1>5, <1>6, <1>7, <1>8, ContainedRemoval DEF OthersStay

LEMMA ContainedReceiverPrunes ==
  ASSUME TInv, TInv', Ownership, Retention, Contained, NEW i \in Jobs, ReceiverPrunes(i)
  PROVE  Contained'
<1>1. /\ note'[i] = None /\ \A f \in Files : copy'[i][f] = None
      /\ \A j \in Jobs : j # i => note'[j] = note[j] /\ copy'[j] = copy[j]
  BY EmptiedShape DEF ReceiverPrunes
<1>2. \A j \in Jobs : j # i => inbound'[j] = inbound[j]
  BY DEF ReceiverPrunes, Forgotten, TInv, TypeOK
<1>3. \A q \in Runners : Private(run[q]) => run[q].job # i
  BY DEF ReceiverPrunes, Retention, Fresh
<1>4. doomed' = doomed \cup {i} /\ UNCHANGED <<row, jobs, bytes, last, run>>
  BY DEF ReceiverPrunes, pool
<1> QED  BY <1>1, <1>2, <1>3, <1>4, ContainedRemoval

\* What a command that reads a backup finds wrong is being removed, has gone
\* bad, or is sealed with another key.
LEMMA ReadsWrong ==
  ASSUME TInv, Ownership, Contained, NEW r \in Runners, run[r].pc \in {"restore", "check"},
         NEW f \in run[r].todo, Reads(run[r].job, f, run[r].key) # run[r].seen[f]
  PROVE  \/ run[r].job \in doomed
         \/ bytes[copy[run[r].job][f]][f] = Rotten
         \/ bytes[copy[run[r].job][f]][f][2] # run[r].key
<1> SUFFICES ASSUME run[r].job \notin doomed, bytes[copy[run[r].job][f]][f] # Rotten,
                    bytes[copy[run[r].job][f]][f][2] = run[r].key
             PROVE  FALSE
  OBVIOUS
<1>1. f \in Files /\ run[r].job \in Jobs
  BY StateOf DEF Ownership, Uses, ReadSteps, RunState
<1>2. /\ IsCompleted(run[r].job) /\ note[run[r].job] # None
      /\ run[r].seen = note[run[r].job].sha /\ run[r].seen[f] # None
  BY DEF Contained, Restores
<1> PICK i \in Jobs : i = run[r].job
  BY <1>1
<1>3. copy[i][f] # None
  BY <1>1, <1>2 DEF Contained, Whole
<1>4. bytes[copy[i][f]][f][1] = run[r].seen[f]
  BY <1>1, <1>2, <1>3, ZenonT(60) DEF Contained, Truthful, Agrees
<1> QED  BY <1>3, <1>4 DEF Reads

\* A step of Restore or Verify: its file is blamed for a reason.
LEMMA ContainedReport ==
  ASSUME TInv, TInv', Ownership, Contained, NEW r \in Runners, NEW f \in run[r].todo,
         ReadsOn(r), UNCHANGED <<pool, jobs, inbound, store, last, doomed>>,
         run[r].pc \in {"restore", "check"}, run'[r].pc = run[r].pc,
         run'[r].todo = run[r].todo \ {f},
         run[r].pc = "restore" =>
           \A g \in Files : g # f => run'[r].done[g] = run[r].done[g],
         run[r].failed \subseteq run'[r].failed,
         \/ /\ run'[r].errors = run[r].errors
            /\ run[r].pc = "restore" => run'[r].done[f] = run[r].seen[f]
         \/ /\ run'[r].errors = run[r].errors \cup {f}
            /\ f \in run'[r].failed \/ Reads(run[r].job, f, run[r].key) # run[r].seen[f]
  PROVE  Contained'
<1>1. OthersStay(r) /\ Reading(run'[r], run[r])
  BY DEF ReadsOn
<1>2. Restores(run[r]) /\ run[r].todo \subseteq Files
  BY StateOf DEF Contained, RunState
<1>3. \A g \in run'[r].errors \ run'[r].failed :
        \/ run[r].job \in doomed
        \/ bytes[copy[run[r].job][g]][g] = Rotten
        \/ bytes[copy[run[r].job][g]][g][2] # run[r].key
  <2>1. ASSUME Reads(run[r].job, f, run[r].key) # run[r].seen[f]
        PROVE  \/ run[r].job \in doomed
               \/ bytes[copy[run[r].job][f]][f] = Rotten
               \/ bytes[copy[run[r].job][f]][f][2] # run[r].key
    BY <2>1, ReadsWrong
  <2>2. \A g \in run[r].errors \ run[r].failed :
          \/ run[r].job \in doomed
          \/ bytes[copy[run[r].job][g]][g] = Rotten
          \/ bytes[copy[run[r].job][g]][g][2] # run[r].key
    BY <1>2 DEF Restores
  <2> QED  BY <2>1, <2>2
<1>4. run'[r].pc = "restore" => \A g \in Files \ (run'[r].todo \cup run'[r].errors) :
        run'[r].done[g] = run[r].seen[g]
  <2> SUFFICES ASSUME run[r].pc = "restore", NEW g \in Files,
                      g \notin run'[r].todo, g \notin run'[r].errors
               PROVE  run'[r].done[g] = run[r].seen[g]
    OBVIOUS
  <2>1. CASE g = f
    BY <2>1
  <2>2. CASE g # f
    BY <1>2, <2>2 DEF Restores
  <2> QED  BY <2>1, <2>2
<1>5. \A g \in run'[r].todo \cup run'[r].errors : run[r].seen[g] # None
  BY <1>2 DEF Restores
<1>6. run[r].job \notin doomed =>
        IsCompleted(run[r].job) /\ note[run[r].job] # None /\ run[r].seen = note[run[r].job].sha
  BY <1>2 DEF Restores
<1>7. Restores(run'[r])
  <2>1. /\ run'[r].job = run[r].job /\ run'[r].seen = run[r].seen
        /\ run'[r].key = run[r].key
    BY <1>1 DEF Reading
  <2> QED  BY <1>3, <1>4, <1>5, <1>6, <2>1 DEF Restores
<1>8. Restores(run[r])'
  BY <1>7 DEF Restores, IsCompleted, store
<1>9. Copies(run[r])' /\ Ends(run[r])' /\ ~Copying(r)'
  BY DEF Copies, Ends, Copying, CopyingSteps
<1> QED  BY <1>1, <1>8, <1>9, ContainedQuiet DEF pool

LEMMA ContainedReads ==
  ASSUME TInv, TInv', Ownership, Contained, NEW r \in Runners, NEW f \in Files, ReadStep(r, f)
  PROVE  Contained'
<1>1. ReadsOn(r) /\ UNCHANGED <<jobs, inbound, store, last, doomed>>
  BY ReadStepShape
<1>2. CASE RestoreFile(r, f)
  <2>1. run[r].pc = "restore" /\ f \in run[r].todo /\ UNCHANGED pool
    BY <1>2 DEF RestoreFile
  <2> QED  BY <1>1, <1>2, <2>1, RestoreFileShape, ContainedReport
<1>3. CASE CheckFile(r, f)
  <2>1. run[r].pc = "check" /\ f \in run[r].todo /\ UNCHANGED pool
    BY <1>3 DEF CheckFile
  <2> QED  BY <1>1, <1>3, <2>1, CheckFileShape, ContainedReport DEF Verified
<1>4. CASE FileFails(r, f) /\ run[r].pc \in {"restore", "check"}
  <2>1. UNCHANGED pool
    BY <1>4 DEF FileFails
  <2> QED  BY <1>1, <1>4, <2>1, FileFailsShape, ContainedReport
<1>5. ASSUME run'[r].pc \in {"verify", "upload", "record"} PROVE Contained'
  <2>1. Copies(run[r])' /\ Ends(run[r])' /\ Restores(run[r])' /\ ~Copying(r)'
    BY <1>5, ContainedNothingNext DEF Copying, CopyingSteps
  <2>2. \A g \in Files : row[g] # None => row'[g] # None
    <3>1. CASE RecordFile(r, f)
      BY <3>1 DEF RecordFile, TInv, TypeOK, Shas
    <3>2. CASE UploadFile(r, f)
      BY <3>2 DEF UploadFile
    <3>3. CASE ~RecordFile(r, f) /\ ~UploadFile(r, f)
      BY <3>3, ZenonT(60) DEF ReadStep, RestoreFile, CheckFile, VerifyFile, FileFails, pool
    <3> QED  BY <3>1, <3>2, <3>3
  <2> QED  BY <1>1, <2>1, <2>2, ContainedQuiet DEF ReadsOn
<1>6. CASE FileFails(r, f) /\ run[r].pc \notin {"restore", "check"}
  BY <1>5, <1>6, FileFailsShape
<1>7. CASE VerifyFile(r, f) \/ UploadFile(r, f) \/ RecordFile(r, f)
  BY <1>5, <1>7, PoolFileShape
<1> QED  BY <1>2, <1>3, <1>4, <1>6, <1>7 DEF ReadStep

\* What a runner does without any backup in hand.
LEMMA ContainedRest ==
  ASSUME TInv, TInv', Ownership, Contained, NEW r \in Runners,
         PruneList(r) \/ Report(r) \/ Dies(r)
  PROVE  Contained'
<1>1. OthersStay(r) /\ run'[r].pc \in {"idle", "remove"}
  <2>1. CASE PruneList(r)
    BY <2>1, PruneListShape, IdleIsState
  <2>2. CASE Report(r) \/ Dies(r)
    BY <2>2, MoveShape, IdleIsState DEF Report, Dies
  <2> QED  BY <2>1, <2>2
<1>2. Copies(run[r])' /\ Ends(run[r])' /\ Restores(run[r])' /\ ~Copying(r)'
  BY <1>1, ContainedNothingNext DEF Copying, CopyingSteps
<1>3. UNCHANGED <<pool, store, doomed, jobs, inbound, last>>
  BY ZenonT(60) DEF PruneList, Report, Dies
<1> QED  BY <1>1, <1>2, <1>3, ContainedQuiet DEF pool

\* A run changes nothing but the folder of its own job.
LEMMA ContainedOwnFolder ==
  ASSUME TInv, TInv', Ownership, Retention, Contained, NEW r \in Runners, Copying(r),
         OthersStay(r), UNCHANGED <<row, jobs, inbound, last, doomed>>,
         NEW i \in Jobs, i = run[r].job, run'[r].job = i,
         \A j \in Jobs : j # i => Intact(j),
         Truthful(i)', Linked(i)',
         Copies(run[r])', Ends(run[r])', Restores(run[r])'
  PROVE  Contained'
<1>1. Working(r) /\ Private(run[r])
  BY DEF Copying, Working, WorkSteps, Private, CopyingSteps
<1>2. jobs[i] # None /\ jobs[i].status = "running" /\ inbound[i] = "none" /\ i \notin doomed
  BY <1>1, OwnJob DEF Retention, Fresh
<1>3. ~Closed(i) /\ ~IsCompleted(i)
  BY <1>2 DEF Closed, IsCompleted
<1>4. ASSUME NEW q \in Runners, q # r
      PROVE  Copies(run[q])' /\ Ends(run[q])' /\ Restores(run[q])'
  <2>1. run'[q] = run[q] /\ doomed \subseteq doomed'
    BY <1>4 DEF OthersStay
  <2>2. Working(q) => Intact(run[q].job) /\ inbound'[run[q].job] = inbound[run[q].job]
    BY <1>1, <1>4, OwnJob DEF Ownership
  <2>3. \A j \in Jobs : Closed(j) => Weakened(j)
    BY <1>3 DEF Intact
  <2>4. \A j \in Jobs : Closed(j) /\ j \notin doomed' => Intact(j) /\ jobs'[j] = jobs[j]
    BY <1>3
  <2> QED  BY <2>1, <2>2, <2>3, <2>4, RunnerStays
<1>5. ASSUME NEW j \in Jobs, j # i PROVE Truthful(j)' /\ Linked(j)'
  <2>1. Truthful(j)'
    BY <1>5, IntactTruthful DEF Contained
  <2>2. copy'[j] = copy[j] /\ last <= last'
    BY <1>5, LastIsJob DEF Intact
  <2>3. \A q \in Runners : Copying(q)' => Copying(q) /\ run'[q].job = run[q].job
    BY DEF OthersStay, Copying
  <2> QED  BY <2>1, <2>2, <2>3, LinkedStays
<1>6. ASSUME NEW j \in Jobs, IsCompleted(j)', j \notin doomed' PROVE Whole(j)'
  <2>1. j # i /\ Whole(j)
    BY <1>3, <1>6 DEF Contained, IsCompleted
  <2> QED  BY <2>1, IntactWhole
<1>7. ReceiverKnows'
  <2> SUFFICES ASSUME NEW j \in Jobs
               PROVE  j \notin doomed' =>
                        /\ inbound'[j] # "none" => Whole(j)'
                        /\ IsCompleted(j)' /\ jobs'[j].dest = "remote" =>
                             inbound'[j] = "completed"
    BY DEF ReceiverKnows, Whole
  <2>1. CASE j = i
    BY <1>2, <1>3, <2>1 DEF IsCompleted
  <2>2. CASE j # i
    BY <2>2 DEF Contained, ReceiverKnows, IsCompleted, Intact, Whole
  <2> QED  BY <2>1, <2>2
<1> QED  BY <1>4, <1>5, <1>6, <1>7 DEF Contained

\* The reference of a run is another job, which nobody writes.
LEMMA ReferenceIsOther ==
  ASSUME TInv, Ownership, NEW r \in Runners, run[r].prev # None
  PROVE  /\ run[r].prev \in Jobs /\ Closed(run[r].prev)
         /\ \A q \in Runners : Working(q) => run[q].job # run[r].prev
<1>1. run[r].prev \in Jobs /\ Closed(run[r].prev)
  BY StateOf DEF Ownership, Uses, RunState, Optional
<1> QED  BY <1>1, OwnJob DEF Closed

LEMMA ContainedLinkFile ==
  ASSUME TInv, TInv', Ownership, Retention, Contained,
         NEW r \in Runners, NEW f \in Files, LinkFile(r, f)
  PROVE  Contained'
<1>1. /\ run[r].pc = "pools" /\ f \in run[r].todo /\ Linkable(r, f) /\ Copied(r, f)
      /\ UNCHANGED <<pool, jobs, inbound, bytes, note, last, doomed>>
  BY DEF LinkFile
<1>2. Copying(r) /\ Working(r)
  BY <1>1 DEF Copying, Working, WorkSteps, CopyingSteps
<1> PICK i \in Jobs : i = run[r].job
  BY <1>2, OwnJob
<1> PICK p \in Jobs : p = run[r].prev
  BY <1>1, ReferenceIsOther DEF Linkable
<1>3. p # i /\ run[r].prev # None /\ \A q \in Runners : Working(q) => run[q].job # p
  BY <1>1, <1>2, ReferenceIsOther DEF Linkable
<1> PICK c \in Jobs : c = copy[p][f]
  BY <1>1 DEF Linkable, TInv, TypeOK, Optional
<1>4. /\ copy'[i][f] = c
      /\ \A g \in Files : g # f => copy'[i][g] = copy[i][g]
      /\ \A j \in Jobs : j # i => copy'[j] = copy[j]
  BY DEF LinkFile, TInv, TypeOK
<1>5. copy[p][f] # None
  BY <1>1 DEF Linkable
<1>6. c <= last /\ \A q \in Runners : Copying(q) => run[q].job # c
  <2>1. \A q \in Runners : Copying(q) => Working(q)
    BY DEF Copying, Working, WorkSteps
  <2> QED  BY <1>3, <1>5, <2>1 DEF Contained, Linked
<1>7. /\ OthersStay(r) /\ run'[r].pc = "pools"
      /\ run'[r].todo = run[r].todo \ {f} /\ run'[r].pools = run[r].pools
      /\ run'[r].done[f] = run[r].seen[f]
      /\ \A g \in Files : g # f => run'[r].done[g] = run[r].done[g]
      /\ SameRun(run'[r], run[r]) /\ SameReference(run'[r], run[r])
      /\ SameRest(run'[r], run[r])
  BY <1>1, CopiedShape
<1>8. \A j \in Jobs : j # i => Intact(j)
  BY <1>1, <1>4 DEF Intact, Weakened
<1>9. Copies(run[r]) /\ run[r].seen[f] # None /\ run[r].ref[f] = run[r].seen[f]
  BY <1>1, <1>2 DEF Contained, TInv, Lists, Copying, Linkable
<1> PICK s : s = run'[r]
  OBVIOUS
<1>10. Holds(i, f, s.done[f], s.key)'
  <2>1. c # i /\ c # None
    BY <1>2, <1>5, <1>6
  <2>2. bytes[c][f] = Rotten \/ bytes[c][f][1] = s.done[f]
    BY <1>1, <1>3, <1>5, <1>7, <1>9 DEF Copies, CopyingSteps
  <2> QED  BY <1>1, <1>4, <2>1, <2>2 DEF Holds, Agrees
<1>11. ASSUME NEW g \in Files, s.done[g] # None
       PROVE  Holds(i, g, s.done[g], s.key)'
  <2>1. CASE g = f
    BY <1>10, <2>1
  <2>2. CASE g # f
    <3>1. Holds(i, g, s.done[g], s.key)
      BY <1>1, <1>7, <1>9, <1>11, <2>2 DEF Copies, CopyingSteps, SameRun
    <3> QED  BY <1>1, <1>4, <2>2, <3>1 DEF Holds, Agrees
  <2> QED  BY <2>1, <2>2
<1>12. ASSUME NEW g \in Files, run[r].ref[g] # None, copy'[p][g] # None
       PROVE  bytes'[copy'[p][g]][g] = Rotten \/ bytes'[copy'[p][g]][g][1] = run[r].ref[g]
  BY <1>1, <1>3, <1>4, <1>9, <1>12, ZenonT(60) DEF Copies, CopyingSteps
<1>13. \A g \in run[r].steady : row[g] # None /\
         (PoolOf[g] \in run[r].pools \/ g \in run'[r].todo \/ run'[r].done[g] # None)
  <2>1. run[r].steady \subseteq Files
    BY StateOf DEF RunState
  <2> QED  BY <1>1, <1>7, <1>9, <2>1 DEF Copies, CopyingSteps
<1>14. note'[i] = None
  BY <1>1, <1>9 DEF Copies, CopyingSteps
<1>15. Copies(run[r])'
  <2>1. s.pc = "pools" /\ s.job = i /\ s.prev = p /\ s.ref = run[r].ref
    BY <1>7 DEF SameRun, SameReference
  <2>2. \A g \in s.steady : row'[g] # None /\
          (PoolOf[g] \in s.pools \/ g \in s.todo \/ s.done[g] # None)
    BY <1>1, <1>7, <1>13 DEF SameRest, pool
  <2>3. Copies(s)'
    BY <1>11, <1>12, <1>14, <2>1, <2>2 DEF Copies
  <2> QED  BY <2>3 DEF Copies
<1>16. Ends(run[r])' /\ Restores(run[r])'
  BY <1>7 DEF Ends, Restores
<1>17. Truthful(i)'
  BY <1>14 DEF Truthful
<1>18. Linked(i)'
  <2>1. \A q \in Runners : Copying(q)' => Copying(q) /\ run'[q].job = run[q].job
    BY <1>2, <1>7 DEF OthersStay, Copying, SameRun
  <2> QED  BY <1>1, <1>4, <1>6, <2>1 DEF Contained, Linked
<1>19. UNCHANGED <<row, jobs, inbound, last, doomed>> /\ run'[r].job = i
  BY <1>1, <1>7 DEF pool, SameRun
<1> QED  BY <1>2, <1>7, <1>8, <1>15, <1>16, <1>17, <1>18, <1>19, ContainedOwnFolder

LEMMA ContainedCopyFile ==
  ASSUME TInv, TInv', Ownership, Retention, Contained,
         NEW r \in Runners, NEW f \in Files, CopyFile(r, f)
  PROVE  Contained'
<1>1. /\ run[r].pc = "pools" /\ f \in run[r].todo
      /\ UNCHANGED <<pool, jobs, inbound, note, last, doomed>>
  BY DEF CopyFile
<1>2. Copying(r) /\ Working(r)
  BY <1>1 DEF Copying, Working, WorkSteps, CopyingSteps
<1>3. CASE disk[f] # run[r].seen[f]
  <2>1. UNCHANGED store /\ Becomes(r, Ended(r, "fail"))
    BY <1>1, <1>3 DEF CopyFile, store
  <2>2. OthersStay(r) /\ run'[r].pc = "fail"
    BY <2>1, MoveShape, EndedShape
  <2>3. Copies(run[r])' /\ Ends(run[r])' /\ Restores(run[r])' /\ ~Copying(r)'
    BY <2>2, ContainedNothingNext DEF Copying, CopyingSteps
  <2> QED  BY <1>1, <2>1, <2>2, <2>3, ContainedQuiet DEF pool
<1>4. CASE disk[f] = run[r].seen[f]
  <2> PICK i \in Jobs : i = run[r].job
    BY <1>2, OwnJob
  <2> PICK s : s = run'[r]
    OBVIOUS
  <2>1. Copied(r, f)
    BY <1>4 DEF CopyFile
  <2>2. /\ copy' = [copy EXCEPT ![i][f] = i]
        /\ bytes' = [bytes EXCEPT ![i][f] = <<disk[f], run[r].key>>]
    BY <1>4 DEF CopyFile
  <2>3. /\ copy'[i][f] = i /\ bytes'[i][f] = <<run[r].seen[f], run[r].key>>
        /\ \A g \in Files : g # f => copy'[i][g] = copy[i][g]
        /\ \A j \in Jobs : j # i => copy'[j] = copy[j]
    BY <1>4, <2>2 DEF TInv, TypeOK
  <2>4. \A j \in Jobs, g \in Files : j # i \/ g # f => bytes'[j][g] = bytes[j][g]
    BY <2>2 DEF TInv, TypeOK
  <2>5. /\ OthersStay(r) /\ s.pc = "pools"
        /\ s.todo = run[r].todo \ {f} /\ s.pools = run[r].pools
        /\ s.done[f] = run[r].seen[f]
        /\ \A g \in Files : g # f => s.done[g] = run[r].done[g]
        /\ SameRun(s, run[r]) /\ SameReference(s, run[r]) /\ SameRest(s, run[r])
    BY <1>1, <2>1, CopiedShape
  <2>6. ASSUME NEW j \in Jobs, j # i PROVE Intact(j)
    <3>1. Linked(j)
      BY DEF Contained
    <3>2. ASSUME NEW g \in Files, copy[j][g] # None
          PROVE  bytes'[copy[j][g]][g] = bytes[copy[j][g]][g]
      <4>1. copy[j][g] \in Jobs /\ copy[j][g] # i
        BY <1>2, <2>6, <3>1, <3>2 DEF Linked, TInv, TypeOK, Optional
      <4> QED  BY <2>4, <4>1
    <3> QED  BY <1>1, <2>3, <2>6, <3>2 DEF Intact, Weakened
  <2>7. Copies(run[r]) /\ run[r].seen[f] # None
    BY <1>1, <1>2 DEF Contained, TInv, Lists, Copying
  <2>8. ASSUME NEW g \in Files, s.done[g] # None
        PROVE  Holds(i, g, s.done[g], s.key)'
    <3>1. CASE g = f
      <4>1. s.key = run[r].key
        BY <2>5 DEF SameRun
      <4>2. bytes'[copy'[i][g]][g] = <<s.done[g], s.key>>
        BY <2>3, <2>5, <3>1, <4>1
      <4>3. copy'[i][g] # None
        BY <2>3, <3>1, BackupAssumption, LastIsJob
      <4> QED  BY <4>2, <4>3 DEF Holds, Agrees
    <3>2. CASE g # f
      <4>1. Holds(i, g, s.done[g], s.key)
        BY <1>1, <2>5, <2>7, <2>8, <3>2 DEF Copies, CopyingSteps, SameRun
      <4>2. copy[i][g] \in Jobs
        BY <4>1 DEF Holds, TInv, TypeOK, Optional
      <4>3. copy'[i][g] = copy[i][g] /\ bytes'[copy[i][g]][g] = bytes[copy[i][g]][g]
        BY <2>3, <2>4, <3>2, <4>2
      <4> QED  BY <4>1, <4>3 DEF Holds, Agrees
    <3> QED  BY <3>1, <3>2
  <2>9. ASSUME NEW g \in Files, s.prev # None, s.ref[g] # None, copy'[s.prev][g] # None
        PROVE  bytes'[copy'[s.prev][g]][g] = Rotten \/ bytes'[copy'[s.prev][g]][g][1] = s.ref[g]
    <3>1. s.prev = run[r].prev /\ s.ref = run[r].ref
      BY <2>5 DEF SameReference
    <3>2. s.prev \in Jobs /\ s.prev # i
      BY <1>2, <2>9, <3>1, ReferenceIsOther
    <3>3. Intact(s.prev)
      BY <2>6, <3>2
    <3> QED  BY <1>1, <2>7, <2>9, <3>1, <3>3 DEF Copies, CopyingSteps, Intact, Weakened
  <2>10. \A g \in s.steady : row'[g] # None /\
           (PoolOf[g] \in s.pools \/ g \in s.todo \/ s.done[g] # None)
    <3>1. s.steady = run[r].steady /\ s.steady \subseteq Files
      BY <2>5, StateOf DEF RunState, SameRest
    <3> QED  BY <1>1, <2>5, <2>7, <3>1 DEF Copies, CopyingSteps, pool
  <2>11. note'[i] = None
    BY <1>1, <2>7 DEF Copies, CopyingSteps
  <2>12. Copies(run[r])'
    <3>1. s.job = i
      BY <2>5 DEF SameRun
    <3>2. Copies(s)'
      BY <2>5, <2>8, <2>9, <2>10, <2>11, <3>1 DEF Copies
    <3> QED  BY <3>2 DEF Copies
  <2>13. Ends(run[r])' /\ Restores(run[r])'
    BY <2>5 DEF Ends, Restores
  <2>14. Truthful(i)'
    BY <2>11 DEF Truthful
  <2>15. Linked(i)'
    <3>1. \A q \in Runners : Copying(q)' => Copying(q) /\ run'[q].job = run[q].job
      BY <1>2, <2>5 DEF OthersStay, Copying, SameRun
    <3>2. i <= last /\ last' = last
      BY <1>1, <1>2, OwnJob
    <3> QED  BY <2>3, <3>1, <3>2 DEF Contained, Linked
  <2>16. UNCHANGED <<row, jobs, inbound, last, doomed>> /\ run'[r].job = i
    BY <1>1, <2>5 DEF pool, SameRun
  <2> QED  BY <1>2, <2>5, <2>6, <2>12, <2>13, <2>14, <2>15, <2>16, ContainedOwnFolder
<1> QED  BY <1>3, <1>4

LEMMA ContainedWriteManifest ==
  ASSUME TInv, TInv', Ownership, Retention, Contained, NEW r \in Runners, WriteManifest(r)
  PROVE  Contained'
<1>1. /\ run[r].pc = "pools" /\ run[r].todo = {} /\ run[r].pools = {}
      /\ UNCHANGED <<pool, jobs, inbound, copy, bytes, last, doomed>>
  BY DEF WriteManifest
<1>2. Copying(r) /\ Working(r)
  BY <1>1 DEF Copying, Working, WorkSteps, CopyingSteps
<1> PICK i \in Jobs : i = run[r].job
  BY <1>2, OwnJob
<1>3. /\ note'[i] = [sha |-> run[r].done, key |-> run[r].key]
      /\ \A j \in Jobs : j # i => note'[j] = note[j]
  BY DEF WriteManifest, TInv, TypeOK
<1>4. /\ OthersStay(r) /\ SameRun(run'[r], run[r]) /\ SameWork(run'[r], run[r])
      /\ SameRest(run'[r], run[r])
      /\ run'[r].pc = IF run[r].dest = "remote" THEN "finalize" ELSE "finish"
  BY GoesToShape DEF WriteManifest
<1>5. Copies(run[r])
  BY DEF Contained
<1>6. \A j \in Jobs : j # i => Intact(j)
  BY <1>1, <1>3 DEF Intact, Weakened
<1>7. \A f \in Files : run[r].done[f] # None => Holds(i, f, run[r].done[f], run[r].key)
  BY <1>1, <1>5 DEF Copies, CopyingSteps
<1>8. Truthful(i)'
  BY <1>1, <1>3, <1>7 DEF Truthful, Holds, Agrees
<1>9. Whole(i)'
  <2>1. note'[i] \in Manifest
    BY <1>3, StateOf DEF RunState, Manifest
  <2> QED  BY <1>1, <1>3, <1>7, <2>1, NothingAssumption DEF Whole, Holds
<1>10. \A f \in run[r].steady : run[r].done[f] # None
  BY <1>1, <1>5 DEF Copies, CopyingSteps
<1>11. Ends(run[r])'
  BY <1>4, <1>9, <1>10 DEF Ends, SameRun, SameWork, SameRest
<1>12. Copies(run[r])' /\ Restores(run[r])'
  BY <1>4 DEF Copies, Restores, CopyingSteps
<1>13. Linked(i)'
  <2>1. \A q \in Runners : Copying(q)' => Copying(q) /\ run'[q].job = run[q].job
    BY <1>2, <1>4 DEF OthersStay, Copying, SameRun
  <2> QED  BY <1>1, <2>1 DEF Contained, Linked
<1>14. UNCHANGED <<row, jobs, inbound, last, doomed>> /\ run'[r].job = i
  BY <1>1, <1>4 DEF pool, SameRun
<1> QED  BY <1>2, <1>4, <1>6, <1>8, <1>11, <1>12, <1>13, <1>14, ContainedOwnFolder

\* What happens outside of the runs; of the folders, sectors may go bad.
LEMMA ContainedElse ==
  ASSUME TInv, TInv', Ownership, Contained,
         \/ \E f \in Files : (\E b \in Blobs : Write(f, b)) \/ Commit(f)
         \/ \E p \in Pools, m \in Modes : SetPool(p, m)
         \/ \E j \in Jobs : Age(j) \/ \E f \in Files : Rot(j, f)
         \/ UNCHANGED vars
  PROVE  Contained'
<1>1. UNCHANGED <<run, jobs, inbound, copy, note, last, doomed>>
  BY DEF Write, Commit, SetPool, Age, Rot, store, vars
<1>2. \A f \in Files : row[f] # None => row'[f] # None
  BY DEF Write, Commit, SetPool, Age, Rot, pool, vars, TInv, TypeOK, Shas
<1>3. \A j \in Jobs : Intact(j)
  <2>1. CASE UNCHANGED bytes
    BY <1>1, <2>1 DEF Intact, Weakened
  <2>2. ASSUME NEW j \in Jobs, NEW f \in Files, Rot(j, f) PROVE \A i \in Jobs : Intact(i)
    <3>1. \A i \in Jobs, g \in Files : bytes'[i][g] \in {bytes[i][g], Rotten}
      BY <2>2 DEF Rot, TInv, TypeOK
    <3>2. \A i \in Jobs, g \in Files : copy[i][g] # None => copy[i][g] \in Jobs
      BY DEF TInv, TypeOK, Optional
    <3> QED  BY <1>1, <3>1, <3>2 DEF Intact, Weakened
  <2> QED  BY <2>1, <2>2 DEF Write, Commit, SetPool, Age, store, vars
<1>4. \A q \in Runners : Copies(run[q])' /\ Ends(run[q])' /\ Restores(run[q])'
  <2> TAKE q \in Runners
  <2>1. Working(q) => Intact(run[q].job) /\ inbound'[run[q].job] = inbound[run[q].job]
    BY <1>1, <1>3, OwnJob
  <2>2. \A j \in Jobs : Closed(j) => Weakened(j)
    BY <1>3 DEF Intact
  <2>3. \A j \in Jobs : Closed(j) /\ j \notin doomed' => Intact(j) /\ jobs'[j] = jobs[j]
    BY <1>1, <1>3
  <2> QED  BY <1>1, <1>2, <2>1, <2>2, <2>3, RunnerStays
<1>5. \A j \in Jobs : Truthful(j)'
  BY <1>3, IntactTruthful DEF Contained
<1>6. \A j \in Jobs : Linked(j)'
  BY <1>1 DEF Contained, Linked, Copying
<1>7. \A j \in Jobs : IsCompleted(j)' /\ j \notin doomed' => Whole(j)'
  BY <1>1 DEF Contained, IsCompleted, Whole
<1>8. ReceiverKnows'
  BY <1>1 DEF Contained, ReceiverKnows, IsCompleted
<1> QED  BY <1>4, <1>5, <1>6, <1>7, <1>8 DEF Contained

\* A file that is deleted is no longer one that a run has to have.
LEMMA ContainedDelete ==
  ASSUME TInv, TInv', Ownership, Contained, NEW f \in Files, Delete(f)
  PROVE  Contained'
<1>1. UNCHANGED <<jobs, inbound, store, last, doomed>>
  BY DEF Delete
<1>2. \A g \in Files : g # f => row'[g] = row[g]
  BY DEF Delete, TInv, TypeOK, Shas
<1>3. ASSUME NEW q \in Runners PROVE Copies(run[q])' /\ Ends(run[q])' /\ Restores(run[q])'
  <2> PICK s : s = run'[q]
    OBVIOUS
  <2>1. /\ s.pc = run[q].pc /\ s.steady = run[q].steady \ {f} /\ s.errors = run[q].errors
        /\ s.failed = run[q].failed
        /\ SameRun(s, run[q]) /\ SameReference(s, run[q]) /\ SameWork(s, run[q])
    BY DeleteShape
  <2>2. Copies(run[q]) /\ Ends(run[q]) /\ Restores(run[q]) /\ run[q].steady \subseteq Files
    BY StateOf DEF Contained, RunState
  <2>3. ASSUME s.pc \in CopyingSteps, NEW g \in s.steady
        PROVE  row'[g] # None /\ (PoolOf[g] \in s.pools \/ g \in s.todo \/ s.done[g] # None)
    <3>1. g # f /\ row'[g] = row[g] /\ g \in run[q].steady
      BY <1>2, <2>1, <2>2, <2>3
    <3> QED  BY <2>1, <2>2, <2>3, <3>1 DEF Copies, SameWork
  <2>4. Copies(s)'
    <3>1. ASSUME s.pc \in CopyingSteps, NEW g \in Files
          PROVE  /\ s.done[g] # None => Holds(s.job, g, s.done[g], s.key)'
                 /\ s.prev # None /\ s.ref[g] # None /\ copy'[s.prev][g] # None =>
                      \/ bytes'[copy'[s.prev][g]][g] = Rotten
                      \/ bytes'[copy'[s.prev][g]][g][1] = s.ref[g]
      <4>1. /\ s.done[g] # None => Holds(s.job, g, s.done[g], s.key)
            /\ s.prev # None /\ s.ref[g] # None /\ copy[s.prev][g] # None =>
                 \/ bytes[copy[s.prev][g]][g] = Rotten
                 \/ bytes[copy[s.prev][g]][g][1] = s.ref[g]
        BY <2>1, <2>2, <3>1, ZenonT(60) DEF Copies, SameRun, SameReference, SameWork
      <4> QED  BY <1>1, <4>1 DEF Holds, Agrees, store
    <3>2. s.pc \in CopyingSteps =>
            note'[s.job] = None /\ (s.pc = "reference" => s.done = NoShas /\ s.todo = {})
      BY <1>1, <2>1, <2>2 DEF Copies, SameRun, SameWork, store
    <3> QED  BY <2>3, <3>1, <3>2 DEF Copies
  <2>5. Ends(s)'
    BY <1>1, <2>1, <2>2 DEF Ends, SameRun, SameWork, Whole, store
  <2>6. Restores(s)'
    <3>1. Restores(s)
      BY <2>1, <2>2, ZenonT(60) DEF Restores, SameRun, SameWork
    <3>2. IsCompleted(s.job)' = IsCompleted(s.job)
      BY <1>1 DEF IsCompleted, store
    <3> QED  BY <1>1, <3>1, <3>2 DEF Restores, store
  <2> QED  BY <2>4, <2>5, <2>6 DEF Copies, Ends, Restores
<1>4. \A j \in Jobs : Truthful(j)' /\ Linked(j)'
  <2>1. \A q \in Runners : run'[q].pc = run[q].pc /\ run'[q].job = run[q].job
    BY DeleteShape DEF SameRun
  <2> QED  BY <1>1, <2>1 DEF Contained, Truthful, Agrees, Linked, Copying, store
<1>5. \A j \in Jobs : IsCompleted(j)' /\ j \notin doomed' => Whole(j)'
  BY <1>1 DEF Contained, IsCompleted, Whole, store
<1>6. ReceiverKnows'
  BY <1>1 DEF Contained, ReceiverKnows, IsCompleted, store
<1> QED  BY <1>3, <1>4, <1>5, <1>6 DEF Contained

LEMMA ContainedNext ==
  ASSUME TInv, TInv', Ownership, Retention, Contained, [Next]_vars
  PROVE  Contained'
<1>1. ASSUME NEW r \in Runners, Step(r) PROVE Contained'
  <2>1. CASE \/ FindReference(r) \/ WriteManifest(r) \/ Finalize(r) \/ Finish(r)
             \/ MarkFailed(r) \/ PruneList(r) \/ RemoveJob(r) \/ DropRow(r) \/ Report(r)
    BY <2>1, ContainedFindReference, ContainedWriteManifest, ContainedFinalize, ContainedFinish,
       ContainedMarkFailed, ContainedRest, ContainedRemoveJob, ContainedDropRow
  <2>2. CASE \/ \E p \in Pools : ListPool(r, p)
             \/ \E f \in Files : LinkFile(r, f) \/ CopyFile(r, f)
    BY <2>2, ContainedListPool, ContainedLinkFile, ContainedCopyFile
  <2>3. CASE \E f \in Files :
               \/ RestoreFile(r, f) \/ CheckFile(r, f) \/ VerifyFile(r, f)
               \/ UploadFile(r, f) \/ RecordFile(r, f)
    BY <2>3, ContainedReads DEF ReadStep
  <2> QED  BY <1>1, <2>1, <2>2, <2>3 DEF Step
<1>2. ASSUME NEW r \in Runners, Started(r) PROVE Contained'
  <2>1. CASE ScheduledRun(r) \/ RunCommand(r)
    BY <2>1, BackupAssumption, ContainedBegin DEF ScheduledRun, RunCommand
  <2>2. CASE RestoreCommand(r) \/ VerifyCommand(r) \/ RestoreToPoolCommand(r)
    BY <2>2, ContainedOpen DEF RestoreCommand, VerifyCommand, RestoreToPoolCommand
  <2> QED  BY <1>2, <2>1, <2>2 DEF Started
<1>3. ASSUME NEW r \in Runners, Breaks(r) \/ RemoveBreaks(r) \/ Dies(r) PROVE Contained'
  BY <1>3, ContainedBreaks, ContainedRemoveBreaks, ContainedRest
<1>4. ASSUME NEW r \in Runners, NEW f \in Files, FileFails(r, f) PROVE Contained'
  BY <1>4, ContainedReads DEF ReadStep
<1> QED  BY <1>1, <1>2, <1>3, <1>4, ContainedReceiverPrunes, ContainedDelete, ContainedElse DEF Next

\* What is in a folder is what the manifest and the runs take it for: no inode
\* is shared with a job that may still be written, a manifest names only what
\* has been stored, and what retention removes is out of every hand.
THEOREM ContainedHolds == Spec => []Contained
<1>1. Init => Contained
  BY ContainedInit
<1>2. TInv /\ TInv' /\ Ownership /\ Retention /\ Contained /\ [Next]_vars => Contained'
  BY ContainedNext
<1> QED  BY <1>1, <1>2, JobsHaveOneOwner, RetentionHolds, PTL DEF Spec

\* A completed job that no retention has touched has its manifest and every
\* content of it (Run, localDestination.Link, pruneOldBackups).
THEOREM CompletedIsRestorable == Spec => []Restorable
<1>1. Contained => Restorable
  BY DEF Contained, Whole, Truthful, Agrees, Restorable, Stored
<1> QED  BY <1>1, ContainedHolds, PTL

\* Whatever requests and answers are lost, a receiver lists no job of which
\* something has not arrived, and an origin takes no job for completed that
\* its receiver does not list (finalize, CompleteInboundBackup).
THEOREM ReceiverIsTold == Spec => []ReceiverKnows
<1>1. Contained => ReceiverKnows
  BY DEF Contained
<1> QED  BY <1>1, ContainedHolds, PTL

\* Whatever calls fail, a file that a restore does not report is what the
\* manifest says; and whatever a restore or a verification reports is being
\* removed, rotten, sealed with another key, or has had a call fail (Restore,
\* copyToLocalFile, Verify).
THEOREM RestoresAreExact == Spec => []RestoreIsExact
<1>1. Contained => RestoreIsExact
  BY DEF Contained, Restores, RestoreIsExact
<1> QED  BY <1>1, ContainedHolds, PTL

\* A run that has written its manifest has every file in it that was active
\* from its beginning to its end (Run, ListFilesByPool).
THEOREM RunsMissNothing == Spec => []NothingMissed
<1>1. Contained => NothingMissed
  BY DEF Contained, Ends, NothingMissed
<1> QED  BY <1>1, ContainedHolds, PTL
=============================================================================
