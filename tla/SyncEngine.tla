----------------------------- MODULE SyncEngine -----------------------------
(***************************************************************************)
(* The desktop client's sync of one pair of folders in the mode "both"     *)
(* (client/lib/features/sync/domain/services/sync_engine.dart): a walk of  *)
(* the server and of the local folder, a three-way comparison with the     *)
(* manifest of the last pass, transfers, conflict copies, moves and        *)
(* deletions, and a new manifest written at the end.  The server and the   *)
(* local folder are also written by their users, and between two requests  *)
(* of a pass anything may have changed.                                    *)
(*                                                                         *)
(* Abstractions.  A Key is a relative path, each in a folder of its own;   *)
(* paths that differ in case only (collisionKeys) and empty folders are    *)
(* left out.  All contents have one size, so that only the hash and the    *)
(* modification times, stamps of one clock, tell them apart.  A download   *)
(* ends in a rename onto the local path, after its hash was checked.  A    *)
(* request that fails has no effect, but for the upload whose answer is    *)
(* lost.  The server's trash is not purged.                                *)
(***************************************************************************)
EXTENDS Naturals, FiniteSets, Functions

CONSTANTS
  Keys,      \* relative paths of the pair
  Contents,  \* blobs and their hashes
  None,      \* no file, no entry
  MaxEvents, \* bound: acts of the users, failed requests, deaths of the client
  MaxFaults, \* bound: those of them that are failures
  MaxAutoDeleteBatch,  \* _maxAutoDeleteBatch
  Tolerance, \* _mtimeTolerance, in units of the clock
  Gaps,      \* how far apart the writes of a behaviour may be, by the clock
  MidPass    \* TRUE: the users also act while a pass is running

ASSUME SyncEngineAssumption ==
  /\ MaxEvents \in Nat /\ MaxFaults \in Nat /\ MaxAutoDeleteBatch \in Nat
  /\ Tolerance \in Nat /\ Gaps \subseteq Nat \ {0} /\ MidPass \in BOOLEAN
  /\ None \notin Contents \cup Keys

VARIABLES
  local,    \* Key -> the local file: its hash and modification time
  remote,   \* Key -> the active file of the server: id, hash, updated_at
  trashed,  \* Key -> the file in the server's trash under that name
  kept,     \* contents in the version history of the server
  copies,   \* Key -> the conflict copies next to the file, by remote date
  bin,      \* contents in the local trash
  mounted,  \* the local folder exists
  base,     \* SyncStateStore: Key -> entry of the last pass that ended
  pass,     \* the pass in progress
  pending,  \* pendingDeletes of the last result
  clock,    \* last stamp given
  gap,      \* how far the clock goes on between two writes
  edits, faults,
  exposed,  \* history: local contents that a pass took for synced without
            \* comparing them, or left on one side of a conflict
  lost,     \* history: paths whose local file the user deleted or renamed,
            \* until a file comes to the path
  taken     \* history: those whose local file a pass took away, until a file
            \* comes to the path or a manifest without it is written

server == <<remote, trashed, kept>>
disk == <<local, copies, bin, mounted>>
counts == <<clock, gap, edits, faults>>
emptied == <<lost, taken>>
history == <<exposed, emptied>>
vars == <<server, disk, base, pass, pending, counts, history>>

Nowhere == [k \in Keys |-> None]

Places == {"idle", "walk.remote", "walk.local", "classify", "touch", "moves",
           "newRemote", "newLocal", "deletes"}

LocalFile == [sha : Contents, stamp : Nat]
RemoteFile == [id : Nat, sha : Contents, stamp : Nat]
Entry == [sha : Contents, remote : Nat, local : Nat]
Upload == [key : Keys, sha : Contents, stamp : Nat]

Pass ==
  [pc : Places,
   todo : SUBSET Keys,                    \* keys the current loop has left
   seen : [Keys -> RemoteFile \cup {None}],   \* remoteByKey
   found : [Keys -> LocalFile \cup {None}],   \* localByKey
   entries : [Keys -> Entry \cup {None}],     \* newBaseline
   toRemote : SUBSET Keys, toLocal : SUBSET Keys,      \* deleteCandidates
   newRemote : SUBSET Keys, newLocal : SUBSET Keys,    \* new...Candidates
   confirmed : SUBSET Keys,               \* confirmedDeletePaths
   sent : Upload \cup {None},             \* uploaded, local date not yet set
   quiet : BOOLEAN,                       \* history: no user acted meanwhile
   clean : BOOLEAN]                       \* tally.errors is empty

Idle == [pc |-> "idle", todo |-> {}, seen |-> Nowhere, found |-> Nowhere,
         entries |-> Nowhere, toRemote |-> {}, toLocal |-> {},
         newRemote |-> {}, newLocal |-> {}, confirmed |-> {},
         sent |-> None, quiet |-> TRUE, clean |-> TRUE]

At(place) == pass.pc = place

Passes == clock' = clock + gap /\ UNCHANGED gap

\* What the histories keep of a step that may take local files away.
Emptied == {k \in Keys : local[k] # None /\ local'[k] = None}
StillEmpty(S) == {k \in S : local'[k] = None}

ByUser == lost' = StillEmpty(lost) \cup Emptied /\ taken' = StillEmpty(taken)
ByPass == taken' = StillEmpty(taken) \cup Emptied /\ lost' = StillEmpty(lost)

(***************************************************************************)
(* The users of the two folders.                                           *)
(***************************************************************************)
UserActs ==
  /\ edits + faults < MaxEvents /\ (MidPass \/ At("idle"))
  /\ edits' = edits + 1 /\ Passes
  /\ pass' = IF At("idle") THEN pass ELSE [pass EXCEPT !.quiet = FALSE]
  /\ UNCHANGED <<base, pending, faults, exposed>>

ChangesLocal(new) ==
  /\ mounted /\ local' = new /\ ByUser
  /\ UNCHANGED <<server, copies, bin, mounted>>

LocalWrite(k, c) ==
  UserActs /\ ChangesLocal([local EXCEPT ![k] = [sha |-> c, stamp |-> clock']])

LocalDelete(k) ==
  local[k] # None /\ UserActs /\ ChangesLocal([local EXCEPT ![k] = None])

LocalRename(j, k) ==
  /\ local[j] # None /\ local[k] = None
  /\ UserActs
  /\ ChangesLocal([local EXCEPT ![k] = local[j], ![j] = None])

\* The folder is on a drive that is unplugged, or the pair's path is gone.
Unplug ==
  /\ pass.pc \in {"idle", "walk.remote"} /\ UserActs /\ mounted' = ~mounted
  /\ UNCHANGED <<server, local, copies, bin, emptied>>

\* Upload on the server: 409 while the trash has the name; it keeps the
\* content it replaces as a version.
Stored(k, c) ==
  /\ trashed[k] = None
  /\ remote' = [remote EXCEPT ![k] =
       [id |-> IF remote[k] = None THEN clock' ELSE remote[k].id,
        sha |-> c, stamp |-> clock']]
  /\ kept' = IF remote[k] = None THEN kept ELSE kept \cup {remote[k].sha}
  /\ UNCHANGED trashed

RemoteWrite(k, c) == UserActs /\ Stored(k, c) /\ UNCHANGED <<disk, emptied>>

RemoteDelete(k) ==
  /\ remote[k] # None
  /\ trashed' = [trashed EXCEPT ![k] = remote[k]]
  /\ remote' = [remote EXCEPT ![k] = None]
  /\ UserActs /\ UNCHANGED <<kept, disk, emptied>>

RemoteRestore(k) ==
  /\ trashed[k] # None
  /\ remote' = [remote EXCEPT ![k] = trashed[k]]
  /\ trashed' = [trashed EXCEPT ![k] = None]
  /\ UserActs /\ UNCHANGED <<kept, disk, emptied>>

\* PATCH /files/{id}: never onto a name in use, and updated_at stays.
Free(k) == remote[k] = None /\ trashed[k] = None

RemoteRename(j, k) ==
  /\ remote[j] # None /\ Free(k)
  /\ remote' = [remote EXCEPT ![k] = remote[j], ![j] = None]
  /\ UserActs /\ UNCHANGED <<trashed, kept, disk, emptied>>

(***************************************************************************)
(* A pass: its walks.                                                      *)
(***************************************************************************)
\* syncNow, with what the user confirmed of the last result or from a tick.
Begin(confirmed) ==
  /\ At("idle")
  /\ pass' = [Idle EXCEPT !.pc = "walk.remote", !.todo = Keys,
                          !.confirmed = confirmed]
  /\ UNCHANGED <<server, disk, base, pending, counts, history>>

WalkRemote(k) ==
  /\ At("walk.remote") /\ k \in pass.todo
  /\ pass' = [pass EXCEPT !.seen[k] = remote[k],
       !.todo = IF @ = {k} THEN Keys ELSE @ \ {k},
       !.pc = IF pass.todo = {k} THEN "walk.local" ELSE @]
  /\ UNCHANGED <<server, disk, base, pending, counts, history>>

\* Without the local folder the pass ends and the manifest stays as it is.
GiveUp ==
  /\ At("walk.local") /\ pass.todo = Keys /\ ~mounted
  /\ pass' = Idle /\ pending' = {}
  /\ UNCHANGED <<server, disk, base, counts, history>>

\* Mutant of WalkLocal: walks a folder that is not there and finds nothing.
WalkUnmounted(k) ==
  /\ At("walk.local") /\ k \in pass.todo
  /\ LET found == [pass.found EXCEPT ![k] = IF mounted THEN local[k] ELSE None]
         present == {j \in Keys : pass.seen[j] # None \/ found[j] # None}
     IN pass' = [pass EXCEPT !.found = found,
          !.todo = IF @ = {k} THEN present ELSE @ \ {k},
          !.pc = IF pass.todo = {k} THEN "classify" ELSE @]
  /\ UNCHANGED <<server, disk, base, pending, counts, history>>

WalkLocal(k) ==
  /\ At("walk.local") /\ k \in pass.todo
  /\ pass.todo = Keys => mounted
  /\ LET found == [pass.found EXCEPT ![k] = local[k]]
         present == {j \in Keys : pass.seen[j] # None \/ found[j] # None}
     IN pass' = [pass EXCEPT !.found = found,
          !.todo = IF @ = {k} THEN present ELSE @ \ {k},
          !.pc = IF pass.todo = {k} THEN "classify" ELSE @]
  /\ UNCHANGED <<server, disk, base, pending, counts, history>>

(***************************************************************************)
(* A pass: what can happen to one key.                                     *)
(***************************************************************************)
BothPresent(k) == pass.seen[k] # None /\ pass.found[k] # None

\* Mutant of Close: b.difference(a) without abs().
CloseOneSided(s, t) == t <= s + Tolerance

\* _close: dates at most _mtimeTolerance apart count as equal.
Close(s, t) == s <= t + Tolerance /\ t <= s + Tolerance

RemoteChanged(k) == ~Close(pass.seen[k].stamp, base[k].remote)

\* Mutant of LocalChanged: only a later date counts.
LocalNewer(k) == pass.found[k].stamp > base[k].local + Tolerance

LocalChanged(k) == ~Close(pass.found[k].stamp, base[k].local)

\* The key is dealt with and gets an entry in the new manifest.
Noted(k, entry) ==
  pass' = [pass EXCEPT !.todo = @ \ {k}, !.entries[k] = entry]

\* Its error is tallied and the key gets no entry.
Missed(k) == pass' = [pass EXCEPT !.todo = @ \ {k}, !.clean = FALSE]

InSync(file, stamp) ==
  [sha |-> file.sha, remote |-> file.stamp, local |-> stamp]

\* GET /files/{id}, in the trash or not, with the hash the walk saw.
Available(file) ==
  \E k \in Keys : \E f \in {remote[k], trashed[k]} \ {None} :
    f.id = file.id /\ f.sha = file.sha

\* A local content whose date is too near that of the last pass to be noticed.
Unseen(k) ==
  IF BothPresent(k) /\ base[k] # None /\ ~LocalChanged(k)
  THEN {pass.found[k].sha} \ {base[k].sha} ELSE {}

Download(k) ==
  LET file == pass.seen[k]
  IN /\ \/ /\ Available(file)
           /\ local' = [local EXCEPT ![k] = [sha |-> file.sha,
                                             stamp |-> file.stamp]]
           /\ Noted(k, InSync(file, file.stamp))
        \/ ~Available(file) /\ Missed(k) /\ UNCHANGED local
     /\ ByPass /\ exposed' = exposed \cup Unseen(k)
     /\ UNCHANGED <<server, copies, bin, mounted, base, pending, counts>>

Send(k) ==
  /\ \/ /\ local[k] # None
        /\ Passes
        /\ Stored(k, local[k].sha)
        /\ pass' = [pass EXCEPT !.pc = "touch",
             !.sent = [key |-> k, sha |-> local[k].sha, stamp |-> clock']]
     \/ /\ local[k] = None \/ trashed[k] # None
        /\ Missed(k) /\ UNCHANGED <<server, clock, gap>>
  /\ UNCHANGED <<disk, base, pending, edits, faults, history>>

AfterTouch(k) == [pass EXCEPT !.todo = @ \ {k}, !.sent = None,
  !.pc = IF k \in pass.newLocal THEN "newLocal" ELSE "classify"]

\* setLastModified: the local file gets the date of the upload, whatever it
\* contains by now.
Touch ==
  LET up == pass.sent  k == pass.sent.key
  IN /\ At("touch")
     /\ \/ /\ local[k] # None
           /\ local' = [local EXCEPT ![k].stamp = up.stamp]
           /\ pass' = [AfterTouch(k) EXCEPT !.entries[k] = InSync(up, up.stamp)]
           /\ exposed' = exposed \cup ({local[k].sha} \ {up.sha})
        \/ /\ local[k] = None
           /\ pass' = [AfterTouch(k) EXCEPT !.clean = FALSE]
           /\ UNCHANGED <<local, exposed>>
     /\ UNCHANGED <<server, copies, bin, mounted, base, pending, counts, emptied>>

(***************************************************************************)
(* A pass: the comparison of every key with the last manifest.             *)
(***************************************************************************)
Classifying(k) == At("classify") /\ k \in pass.todo

Known(k) == BothPresent(k) /\ base[k] # None
Untouched(k) == Known(k) /\ ~RemoteChanged(k) /\ ~LocalChanged(k)

\* Mutant of OnlyRemoteChanged: whatever happened to the local file.
RemoteChangedAtAll(k) == Known(k) /\ RemoteChanged(k)

OnlyRemoteChanged(k) == Known(k) /\ RemoteChanged(k) /\ ~LocalChanged(k)
OnlyLocalChanged(k) == Known(k) /\ ~RemoteChanged(k) /\ LocalChanged(k)

\* On one side only: new there, or gone from the other.
Collect(k) ==
  /\ Classifying(k) /\ ~BothPresent(k)
  /\ LET onServer == pass.seen[k] # None  known == base[k] # None
         added(S, test) == IF test THEN S \cup {k} ELSE S
     IN pass' = [pass EXCEPT !.todo = @ \ {k},
          !.newRemote = added(@, onServer /\ ~known),
          !.newLocal = added(@, ~onServer /\ ~known),
          !.toRemote = added(@, onServer /\ known),
          !.toLocal = added(@, ~onServer /\ known)]
  /\ UNCHANGED <<server, disk, base, pending, counts, history>>

Skip(k) ==
  /\ Classifying(k) /\ Untouched(k)
  /\ Noted(k, base[k])
  /\ UNCHANGED <<server, disk, base, pending, counts, history>>

DownloadChanged(k) == Classifying(k) /\ OnlyRemoteChanged(k) /\ Download(k)
UploadChanged(k) == Classifying(k) /\ OnlyLocalChanged(k) /\ Send(k)

\* New or changed on both sides: equal, or in conflict.  A conflict copy is
\* named for the remote date and made once.  The manifest then takes both
\* sides as they are.
Compare(k) ==
  LET file == pass.seen[k]
      copy == [sha |-> file.sha, stamp |-> file.stamp]
      entry == InSync(file, pass.found[k].stamp)
  IN /\ Classifying(k) /\ BothPresent(k)
     /\ base[k] # None => RemoteChanged(k) /\ LocalChanged(k)
     /\ \/ local[k] = None /\ Missed(k) /\ UNCHANGED <<copies, exposed>>
        \/ /\ local[k] # None /\ local[k].sha = file.sha
           /\ Noted(k, entry) /\ UNCHANGED <<copies, exposed>>
        \/ /\ local[k] # None /\ local[k].sha # file.sha
           /\ Available(file) \/ copy \in copies[k]
           /\ copies' = [copies EXCEPT ![k] = @ \cup {copy}]
           /\ Noted(k, entry)
           /\ exposed' = exposed \cup {local[k].sha}
        \/ /\ local[k] # None /\ local[k].sha # file.sha
           /\ ~Available(file) /\ copy \notin copies[k]
           /\ Missed(k) /\ UNCHANGED <<copies, exposed>>
     /\ UNCHANGED <<server, local, bin, mounted, base, pending, counts, emptied>>

(***************************************************************************)
(* A pass: moves, new files, deletions.                                    *)
(***************************************************************************)
Holding(id) == {k \in Keys : remote[k] # None /\ remote[k].id = id}

NewWithContentOf(k) ==
  {j \in pass.newLocal : local[j] # None /\ local[j].sha = pass.seen[k].sha}

NewWithHashOf(k) == {j \in pass.newRemote : pass.seen[j].sha = base[k].sha}

\* Gone from the local folder, where a new file has the content the server
\* has: PATCH /files/{id} to the path of that file.
MoveOnServer(k) ==
  LET matches == NewWithContentOf(k)
      move(x, j) ==
        /\ remote' = [[remote EXCEPT ![x] = None] EXCEPT ![j] = remote[x]]
        /\ pass' = [pass EXCEPT !.todo = @ \ {k}, !.toRemote = @ \ {k},
             !.newLocal = @ \ {j},
             !.entries[j] = InSync(remote[x], pass.found[j].stamp)]
        /\ exposed' = exposed \cup ({local[j].sha} \ {remote[x].sha})
  IN /\ At("moves") /\ k \in pass.todo \cap pass.toRemote
     /\ \/ /\ matches = {} /\ \A j \in pass.newLocal : local[j] # None
           /\ pass' = [pass EXCEPT !.todo = @ \ {k}]
           /\ UNCHANGED <<remote, exposed>>
        \/ \E j \in matches : \E x \in Holding(pass.seen[k].id) :
             (x = j \/ Free(j)) /\ move(x, j)
        \/ /\ \E j \in matches : \A x \in Holding(pass.seen[k].id) : x # j /\ ~Free(j)
           /\ Missed(k) /\ UNCHANGED <<remote, exposed>>
     /\ UNCHANGED <<trashed, kept, disk, base, pending, counts, emptied>>

\* Hashing a new file that is gone ends the pass: nothing catches the error.
MoveBreaks(k) ==
  /\ At("moves") /\ k \in pass.todo \cap pass.toRemote
  /\ \E j \in pass.newLocal : local[j] = None
  /\ pass' = Idle
  /\ UNCHANGED <<server, disk, base, pending, counts, history>>

\* Gone from the server, where a new file has the hash the manifest has: the
\* local file is renamed, and the manifest takes it for that file.
MoveLocally(k) ==
  LET matches == NewWithHashOf(k)
  IN /\ At("moves") /\ k \in pass.todo \cap pass.toLocal
     /\ \/ /\ matches = {} /\ pass' = [pass EXCEPT !.todo = @ \ {k}]
           /\ UNCHANGED <<local, exposed>>
        \/ /\ matches # {} /\ local[k] = None
           /\ Missed(k) /\ UNCHANGED <<local, exposed>>
        \/ \E j \in matches :
             /\ local[k] # None
             /\ local' = [local EXCEPT ![j] = local[k], ![k] = None]
             /\ pass' = [pass EXCEPT !.todo = @ \ {k}, !.toLocal = @ \ {k},
                  !.newRemote = @ \ {j},
                  !.entries[j] = InSync(pass.seen[j], local[k].stamp)]
             /\ exposed' = exposed \cup ({local[k].sha} \ {base[k].sha})
     /\ ByPass
     /\ UNCHANGED <<server, copies, bin, mounted, base, pending, counts>>

DownloadNew(k) == At("newRemote") /\ k \in pass.todo /\ Download(k)
UploadNew(k) == At("newLocal") /\ k \in pass.todo /\ Send(k)

Candidates == pass.toRemote \cup pass.toLocal

\* A batch over the limit goes only as far as it is confirmed.
Held == IF Cardinality(Candidates) <= MaxAutoDeleteBatch THEN {}
        ELSE Candidates \ pass.confirmed

\* The end of a loop and the start of the next one.
NextLoop ==
  /\ pass.todo = {}
  /\ \/ /\ At("classify")
        /\ pass' = [pass EXCEPT !.pc = "moves", !.todo = Candidates]
     \/ /\ At("moves")
        /\ pass' = [pass EXCEPT !.pc = "newRemote", !.todo = pass.newRemote]
     \/ /\ At("newRemote")
        /\ pass' = [pass EXCEPT !.pc = "newLocal", !.todo = pass.newLocal]
     \/ /\ At("newLocal")
        /\ pass' = [pass EXCEPT !.pc = "deletes", !.todo = Candidates \ Held,
             !.entries = [k \in Keys |-> IF k \in Held THEN base[k] ELSE @[k]]]
  /\ UNCHANGED <<server, disk, base, pending, counts, history>>

\* DELETE /files/{id}, to the trash; one that is already there stays there.
DeleteOnServer(k) ==
  LET id == pass.seen[k].id
      binned == \E x \in Keys : trashed[x] # None /\ trashed[x].id = id
  IN /\ At("deletes") /\ k \in pass.todo \cap pass.toRemote
     /\ \/ \E x \in Holding(id) :
             /\ trashed' = [trashed EXCEPT ![x] = remote[x]]
             /\ remote' = [remote EXCEPT ![x] = None]
             /\ pass' = [pass EXCEPT !.todo = @ \ {k}]
        \/ /\ binned /\ pass' = [pass EXCEPT !.todo = @ \ {k}]
           /\ UNCHANGED <<remote, trashed>>
     /\ UNCHANGED <<kept, disk, base, pending, counts, history>>

\* Mutant of Postponed: keeps what the walk saw instead of the entry.
PostponedAsSeen(k) == pass' = [pass EXCEPT !.todo = @ \ {k}, !.clean = FALSE,
                                           !.entries[k] = pass.seen[k]]

\* An error keeps the entry of a deletion, for the next pass.
Postponed(k) == pass' = [pass EXCEPT !.todo = @ \ {k}, !.clean = FALSE,
                                     !.entries[k] = base[k]]

DeleteLocally(k) ==
  /\ At("deletes") /\ k \in pass.todo \cap pass.toLocal
  /\ \/ /\ local[k] # None
        /\ bin' = bin \cup {local[k].sha}
        /\ local' = [local EXCEPT ![k] = None]
        /\ pass' = [pass EXCEPT !.todo = @ \ {k}]
     \/ local[k] = None /\ Postponed(k) /\ UNCHANGED <<bin, local>>
  /\ ByPass
  /\ UNCHANGED <<server, copies, mounted, base, pending, counts, exposed>>

\* SyncStateStore.write: a rename, so that it happens whole or not at all.
Save ==
  /\ At("deletes") /\ pass.todo = {}
  /\ base' = pass.entries /\ pending' = Held /\ pass' = Idle
  /\ taken' = {k \in taken : pass.entries[k] # None}
  /\ UNCHANGED <<server, disk, counts, exposed, lost>>

(***************************************************************************)
(* Failures.                                                               *)
(***************************************************************************)
Fault == /\ faults < MaxFaults /\ edits + faults < MaxEvents
         /\ faults' = faults + 1
         /\ UNCHANGED <<server, copies, bin, mounted, base, pending, edits>>

\* A request or an access to the local disk fails.
RequestFails ==
  /\ Fault /\ UNCHANGED <<local, clock, gap, history>>
  /\ \/ At("walk.remote") /\ pass' = Idle
     \/ At("touch") /\ pass' = [AfterTouch(pass.sent.key) EXCEPT !.clean = FALSE]
     \/ \E k \in pass.todo :
          \/ At("classify") /\ BothPresent(k) /\ ~Untouched(k) /\ Missed(k)
          \/ /\ At("moves") /\ Missed(k)
             /\ \/ k \in pass.toRemote /\ NewWithContentOf(k) # {}
                \/ k \in pass.toLocal /\ NewWithHashOf(k) # {}
          \/ pass.pc \in {"newRemote", "newLocal"} /\ Missed(k)
          \/ At("deletes") /\ Postponed(k)

\* A download is in place but does not get the date of the remote file.
HalfDownloaded(k) ==
  /\ Fault /\ k \in pass.todo
  /\ At("newRemote") \/ (At("classify") /\ OnlyRemoteChanged(k))
  /\ Available(pass.seen[k])
  /\ Passes
  /\ local' = [local EXCEPT ![k] = [sha |-> pass.seen[k].sha, stamp |-> clock']]
  /\ ByPass /\ exposed' = exposed \cup Unseen(k)
  /\ Missed(k) \/ pass' = Idle

\* The client is closed, or the pass ends in an error before its last step.
Dies ==
  ~At("idle") /\ Fault /\ pass' = Idle /\ UNCHANGED <<local, clock, gap, history>>

\* A new pair, or one whose last pass left some files in sync.
Init ==
  \E had \in [Keys -> Contents \cup {None}] :
  \E nth \in Bijection(Keys, 1 .. Cardinality(Keys)) :
    LET at == [k \in Keys |-> nth[k] * (Tolerance + 1)]
        files(file(_)) == [k \in Keys |-> IF had[k] = None THEN None ELSE file(k)]
    IN /\ local = files(LAMBDA k : [sha |-> had[k], stamp |-> at[k]])
       /\ remote = files(LAMBDA k : [id |-> at[k], sha |-> had[k],
                                      stamp |-> at[k]])
       /\ base = files(LAMBDA k : [sha |-> had[k], remote |-> at[k],
                                    local |-> at[k]])
       /\ trashed = Nowhere /\ kept = {} /\ bin = {}
       /\ copies = [k \in Keys |-> {}] /\ mounted = TRUE
       /\ pass = Idle /\ pending = {} /\ exposed = {}
       /\ lost = {} /\ taken = {}
       /\ clock = Cardinality(Keys) * (Tolerance + 1) /\ gap \in Gaps
       /\ edits = 0 /\ faults = 0

User ==
  \/ \E k \in Keys : \/ \E c \in Contents : LocalWrite(k, c) \/ RemoteWrite(k, c)
                     \/ LocalDelete(k) \/ RemoteDelete(k) \/ RemoteRestore(k)
  \/ \E j, k \in Keys : LocalRename(j, k) \/ RemoteRename(j, k)
  \/ Unplug

Engine ==
  \/ \E k \in Keys :
       \/ WalkRemote(k) \/ WalkLocal(k) \/ Collect(k) \/ Skip(k)
       \/ DownloadChanged(k) \/ UploadChanged(k) \/ Compare(k)
       \/ MoveOnServer(k) \/ MoveBreaks(k) \/ MoveLocally(k)
       \/ DownloadNew(k) \/ UploadNew(k)
       \/ DeleteOnServer(k) \/ DeleteLocally(k)
  \/ GiveUp \/ Touch \/ NextLoop \/ Save

Next == \/ User \/ Engine \/ RequestFails \/ Dies
        \/ \E k \in Keys : HalfDownloaded(k)
        \/ \E confirmed \in {{}, pending} : Begin(confirmed)

Spec == Init /\ [][Next]_vars

(***************************************************************************)
(* Properties.                                                             *)
(***************************************************************************)
Maybe(S) == S \cup {None}

TypeOK ==
  /\ local \in [Keys -> Maybe(LocalFile)]
  /\ remote \in [Keys -> Maybe(RemoteFile)]
  /\ trashed \in [Keys -> Maybe(RemoteFile)]
  /\ kept \subseteq Contents /\ bin \subseteq Contents
  /\ copies \in [Keys -> SUBSET LocalFile]
  /\ exposed \subseteq Contents /\ lost \cup taken \subseteq Keys /\ mounted \in BOOLEAN
  /\ base \in [Keys -> Maybe(Entry)]
  /\ pass \in Pass /\ pending \subseteq Keys
  /\ clock \in Nat /\ gap \in Gaps /\ edits \in Nat /\ faults \in Nat

Agree(k) == IF local[k] = None \/ remote[k] = None THEN local[k] = remote[k]
            ELSE local[k].sha = remote[k].sha

\* The content of the server is in a conflict copy of the local folder.
InConflict(k) ==
  remote[k] # None /\ \E j \in Keys : \E c \in copies[j] : c.sha = remote[k].sha

\* On one side lies a file whose date is too close to that of the last pass to
\* tell: written soon after it, or renamed to here.
TooClose(stamp, synced) ==
  stamp # synced /\ stamp \in synced - Tolerance .. synced + Tolerance

Overlooked(k) ==
  /\ base[k] # None /\ local[k] # None /\ remote[k] # None
  /\ TooClose(local[k].stamp, base[k].local) \/ TooClose(remote[k].stamp, base[k].remote)

\* When a pass ends in which no request failed and nobody wrote meanwhile,
\* whatever crashes and failures came before, the two sides have the same
\* content at every path, or a conflict copy, or a deletion to confirm, or a
\* write within the tolerance of the dates, or a local content the engine has
\* stopped comparing.
Settles ==
  [][Save /\ pass.quiet /\ pass.clean =>
       \A k \in Keys : \/ Agree(k) \/ k \in Held \/ InConflict(k) \/ Overlooked(k)
                       \/ local[k] # None /\ local[k].sha \in exposed]_vars

\* As Settles, for every change made on either side.
\* The code does not keep it: README, "What the code does not keep".
AllChangesTravel ==
  [][Save /\ pass.quiet /\ pass.clean =>
       \A k \in Keys : Agree(k) \/ k \in Held \/ InConflict(k)]_vars

Somewhere ==
  kept \cup bin
    \cup {f.sha : f \in UNION {copies[k] \cup {local[k], remote[k], trashed[k]}
                                : k \in Keys} \ {None}}

\* Whatever a pass overwrites or removes in the local folder is still in the
\* local trash, in a conflict copy or on the server, unless the engine took it
\* for synced without comparing it (exposed).
NothingLost ==
  [][edits' = edits /\ pass.quiet =>
       \A k \in Keys : local[k] # None =>
         local[k].sha \in Somewhere' \cup exposed']_vars

\* A local file in conflict is never overwritten without a copy.
ConflictNeverOverwritten ==
  [][edits' = edits /\ pass.quiet =>
       \A k \in Keys : local[k] # None => local[k].sha \in Somewhere']_vars

Deletes(k) == edits' = edits /\ pass.quiet /\ trashed'[k] # trashed[k]

\* What a pass puts into the trash of the server was missing from a folder
\* that is there, and for a reason: the user has deleted or renamed the local
\* file, or a pass that did not live to write its manifest has taken it away.
DeletesFollowLosses ==
  [][\A k \in Keys : Deletes(k) => mounted /\ k \in lost \cup taken]_vars

\* A file that is missing on one side was deleted there by the user.
\* The code does not keep it: README, "What the code does not keep".
DeletesAreTheUsers ==
  [][\A k \in Keys : Deletes(k) => mounted /\ k \in lost]_vars
=============================================================================
