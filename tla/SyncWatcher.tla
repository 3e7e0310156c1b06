----------------------------- MODULE SyncWatcher ----------------------------
(***************************************************************************)
(* What starts the passes of the desktop client (AutoSyncScheduler,        *)
(* LocalChangeWatcherService, MultiPairSyncCoordinator and the guard of    *)
(* SyncEngine.syncNow): a periodic timer that goes through the list of     *)
(* pairs, a watcher of the local folders with one debounce timer per pair, *)
(* and the button of the settings page, all in one event loop, while the   *)
(* user edits the list and the folders.                                    *)
(*                                                                         *)
(* Abstractions.  Of a local folder the model keeps whether it holds a     *)
(* change that no pass has taken to the server.  An event of the file      *)
(* system and the debounce timer it starts are one notice.  The pass       *)
(* itself is SyncEngine's: here it walks the server, walks the local       *)
(* folder and ends.                                                        *)
(***************************************************************************)
EXTENDS Naturals, Sequences, FiniteSets, SequencesExt

CONSTANTS Pairs, Callers,  \* the ticks that may overlap, and the button
          Button, None,
          Directions,      \* bound: those a pair is given
          MaxActs,         \* bound: acts of the user and changes of a folder
          MaxFaults        \* bound: requests that fail, restarts

Sends(direction) == direction \in {"upload", "both"}
Config == [direction : Directions, auto : BOOLEAN]
Passes == [sends : BOOLEAN, at : {"server", "local", "transfer"}, missed : BOOLEAN]

ASSUME WatcherAssumption ==
  /\ IsFiniteSet(Pairs) /\ Button \in Callers /\ MaxActs \in Nat /\ MaxFaults \in Nat
  /\ "both" \in Directions /\ Directions \subseteq {"download", "upload", "both"}
  /\ None \notin Pairs \union Config \union Directions \union Passes

VARIABLES
  list,      \* the saved pairs, in their order
  config,    \* [Pairs -> [direction, auto]]
  timer,     \* the scheduler's timer is armed
  watching,  \* LocalChangeWatcherService._enabled
  watched,   \* _watchedConfigs: the direction the next shot will use
  notices,   \* pairs with a debounce timer
  stale,     \* the list was saved and updatePairs has not run yet
  session,   \* currentUser is not null
  running,   \* _inFlightByPairKey: [Pairs -> [sends, at, missed]]
  call,      \* [Callers -> [todo, on]]: the syncAllNow in progress
  dirty,     \* pairs with a change that is not on the server
  unreadable,\* pairs with a folder the walk cannot enter
  excused,   \* history: pairs whose change the watcher is known to forget
  acts, faults

settings == <<list, config, timer>>
watcher == <<watching, watched, notices, stale>>
counts == <<acts, faults>>
vars == <<settings, watcher, session, running, call, dirty, unreadable, excused, counts>>

Idle == [todo |-> <<>>, on |-> None]
Listed(p) == p \in ToSet(list)
Watched(p) == watched[p] # None
Running(p) == running[p] # None
Busy == \E p \in Pairs : Running(p)

(***************************************************************************)
(* Passes.  A second request for a pair joins the pass in progress.        *)
(***************************************************************************)
StartPass(p, direction) ==
  running' = [running EXCEPT ![p] = [sends |-> Sends(direction), at |-> "server", missed |-> FALSE]]

\* Mutant: a pass that fails leaves those who joined it waiting.
ReleaseTheFirst(p, error) ==
  call' = [c \in Callers |-> IF call[c].on # p \/ (error # "" /\ c = Button) THEN call[c]
                             ELSE IF error = "other" THEN Idle
                             ELSE [call[c] EXCEPT !.on = None]]

\* Those who wait go on with their list; what is no ApiException ends it.
Release(p, error) ==
  call' = [c \in Callers |-> IF call[c].on # p THEN call[c]
                             ELSE IF error = "other" THEN Idle
                             ELSE [call[c] EXCEPT !.on = None]]

EndPass(p, error) ==
  /\ running' = [running EXCEPT ![p] = None]
  /\ Release(p, error)
  /\ UNCHANGED <<settings, watcher, session, unreadable, acts>>

\* A pass that ended without taking the change leaves it to the next notice.
LeaveChange(p) ==
  /\ dirty' = dirty
  /\ excused' = IF p \in dirty \ notices THEN excused \union {p} ELSE excused

\* The server's tree comes first; a request that fails ends the pass.
WalkRemote(p) ==
  /\ Running(p) /\ running[p].at = "server"
  /\ \/ /\ faults < MaxFaults /\ faults' = faults + 1
        /\ EndPass(p, "api") /\ LeaveChange(p)
     \/ /\ running' = [running EXCEPT ![p].at = "local"]
        /\ UNCHANGED <<settings, watcher, session, call, dirty, unreadable, excused, counts>>

\* root.list throws a FileSystemException at a folder it may not enter.
WalkLocal(p) ==
  /\ Running(p) /\ running[p].at = "local"
  /\ IF running[p].sends /\ p \in unreadable
     THEN EndPass(p, "other") /\ LeaveChange(p) /\ UNCHANGED faults
     ELSE /\ running' = [running EXCEPT ![p].at = "transfer", ![p].missed = FALSE]
          /\ UNCHANGED <<settings, watcher, session, call, dirty, unreadable, excused, counts>>

\* The transfers and the manifest: a file that fails is one of the errors of
\* the result; when the manifest cannot be written the pass fails.
Transfer(p) ==
  /\ Running(p) /\ running[p].at = "transfer"
  /\ \/ /\ EndPass(p, "") /\ UNCHANGED faults
        /\ IF running[p].sends /\ ~running[p].missed
           THEN dirty' = dirty \ {p} /\ excused' = excused \ {p}
           ELSE LeaveChange(p)
     \/ /\ faults < MaxFaults /\ faults' = faults + 1
        /\ \E error \in {"", "other"} : EndPass(p, error)
        /\ LeaveChange(p)

(***************************************************************************)
(* syncAllNow: one pair after the other.                                   *)
(***************************************************************************)
SyncNext(c) ==
  /\ call[c].on = None /\ call[c].todo # <<>>
  /\ LET next == Head(call[c].todo) IN
     /\ call' = [call EXCEPT ![c] = [todo |-> Tail(call[c].todo), on |-> next.pair]]
     /\ IF Running(next.pair) THEN UNCHANGED running ELSE StartPass(next.pair, next.direction)
  /\ UNCHANGED <<settings, watcher, session, dirty, unreadable, excused, counts>>

Asked(p) == [pair |-> p, direction |-> config[p].direction]
Begin(c, ps) ==
  /\ call[c] = Idle /\ ps # <<>>
  /\ call' = [call EXCEPT ![c].todo = [n \in DOMAIN ps |-> Asked(ps[n])]]

\* Mutant: a pair whose folder is watched is left to its watcher.
TickUnwatched(c) ==
  /\ c # Button /\ timer /\ session
  /\ Begin(c, SelectSeq(list, LAMBDA p : config[p].auto /\ ~Watched(p)))
  /\ UNCHANGED <<settings, watcher, session, running, dirty, unreadable, excused, counts>>

\* The session and the list are read again at every tick.
Tick(c) ==
  /\ c # Button /\ timer /\ session
  /\ Begin(c, SelectSeq(list, LAMBDA p : config[p].auto))
  /\ UNCHANGED <<settings, watcher, session, running, dirty, unreadable, excused, counts>>

\* The button is disabled while anything runs.
SyncAll ==
  /\ session /\ ~Busy /\ Begin(Button, list)
  /\ UNCHANGED <<settings, watcher, session, running, dirty, unreadable, excused, counts>>

(***************************************************************************)
(* The watcher.                                                            *)
(***************************************************************************)
Wanted(p) == Listed(p) /\ Sends(config[p].direction)

\* The timer of a pair that is not wanted any more is cancelled.
Stopped == {p \in Pairs : Watched(p) /\ ~Wanted(p)}
Forget(ps) ==
  /\ notices' = notices \ ps
  /\ excused' = excused \union {p \in ps \intersect dirty : ~Running(p)}

UpdatePairs ==
  /\ stale /\ stale' = FALSE
  /\ IF watching
     THEN /\ watched' = [p \in Pairs |-> IF Wanted(p) THEN config[p].direction ELSE None]
          /\ Forget(Stopped)
     ELSE UNCHANGED <<watched, notices, excused>>
  /\ UNCHANGED <<settings, watching, session, running, call, dirty, unreadable, counts>>

SetEnabled ==
  /\ watching' = ~watching
  /\ IF watching
     THEN watched' = [p \in Pairs |-> None] /\ Forget(Pairs) /\ UNCHANGED stale
     ELSE stale' = TRUE /\ UNCHANGED <<watched, notices, excused>>
  /\ UNCHANGED <<settings, session, running, call, dirty, unreadable>>

\* Mutant: the shot asks whether anything runs (isRunning), not whether its pair does.
FireWhenIdle(p) ==
  /\ p \in notices /\ notices' = notices \ {p}
  /\ IF session /\ ~Busy
     THEN StartPass(p, watched[p]) /\ UNCHANGED excused
     ELSE /\ UNCHANGED running
          /\ excused' = IF p \in dirty /\ ~session THEN excused \union {p} ELSE excused
  /\ UNCHANGED <<settings, watching, watched, stale, session, call, dirty, unreadable, counts>>

\* A shot that finds the pair running trusts the pass to take the change.
Fire(p) ==
  /\ p \in notices /\ notices' = notices \ {p}
  /\ IF session /\ ~Running(p)
     THEN StartPass(p, watched[p]) /\ UNCHANGED excused
     ELSE /\ UNCHANGED running
          /\ excused' = IF p \in dirty /\ ~Running(p) THEN excused \union {p} ELSE excused
  /\ UNCHANGED <<settings, watching, watched, stale, session, call, dirty, unreadable, counts>>

(***************************************************************************)
(* The user.                                                               *)
(***************************************************************************)
\* A change behind the back of a pass that has walked the folder is missed.
LocalChange(p) ==
  /\ dirty' = dirty \union {p}
  /\ running' = IF Running(p) THEN [running EXCEPT ![p].missed = TRUE] ELSE running
  /\ IF Watched(p) THEN notices' = notices \union {p} /\ excused' = excused \ {p}
     ELSE excused' = excused \union {p} /\ UNCHANGED notices
  /\ UNCHANGED <<settings, watching, watched, stale, session, call, unreadable>>

SavePairs(newList, newConfig) ==
  /\ list' = newList /\ config' = newConfig /\ stale' = TRUE
  /\ UNCHANGED <<timer, watching, watched, notices, session, running, call, dirty, unreadable, excused>>

\* Mutant: the dialog does not look at the pairs there are.
AddAgain(p) == SavePairs(Append(list, p), config)

AddPair(p) == ~Listed(p) /\ SavePairs(Append(list, p), config)
RemovePair(p) == Listed(p) /\ SavePairs(SelectSeq(list, LAMBDA q : q # p), config)

\* One thing at a time: the direction, or whether the clock takes the pair.
EditPair(p) ==
  /\ Listed(p)
  /\ \/ SavePairs(list, [config EXCEPT ![p].auto = ~@])
     \/ \E direction \in Directions \ {config[p].direction} :
          SavePairs(list, [config EXCEPT ![p].direction = direction])

UpdateSettings ==
  /\ timer' = ~timer
  /\ UNCHANGED <<list, config, watcher, session, running, call, dirty, unreadable, excused>>

LoginOrLogout ==
  /\ session' = ~session
  /\ UNCHANGED <<settings, watcher, running, call, dirty, unreadable, excused>>

\* A folder becomes unreadable, or readable again.
SwitchAccess(p) ==
  /\ unreadable' = IF p \in unreadable THEN unreadable \ {p} ELSE unreadable \union {p}
  /\ UNCHANGED <<settings, watcher, session, running, call, dirty, excused>>

User ==
  /\ acts < MaxActs /\ acts' = acts + 1 /\ UNCHANGED faults
  /\ \/ \E p \in Pairs : LocalChange(p) \/ AddPair(p) \/ RemovePair(p) \/ EditPair(p)
                         \/ SwitchAccess(p)
     \/ SetEnabled \/ UpdateSettings \/ LoginOrLogout

\* The client ends and starts again: nothing in memory is left.
Restart ==
  /\ faults < MaxFaults /\ faults' = faults + 1
  /\ running' = [p \in Pairs |-> None] /\ call' = [c \in Callers |-> Idle]
  /\ watched' = [p \in Pairs |-> None] /\ notices' = {} /\ stale' = TRUE
  /\ excused' = excused \union dirty
  /\ UNCHANGED <<settings, watching, session, dirty, unreadable, acts>>

Init ==
  /\ list = SetToSeq(Pairs) /\ config = [p \in Pairs |-> [direction |-> "both", auto |-> TRUE]]
  /\ timer = TRUE /\ watching = TRUE /\ session = TRUE
  /\ watched = [p \in Pairs |-> None] /\ notices = {} /\ stale = TRUE
  /\ running = [p \in Pairs |-> None] /\ call = [c \in Callers |-> Idle]
  /\ dirty = {} /\ unreadable = {} /\ excused = {} /\ acts = 0 /\ faults = 0

Pass(p) == WalkRemote(p) \/ WalkLocal(p) \/ Transfer(p)

Next ==
  \/ \E p \in Pairs : Pass(p) \/ Fire(p)
  \/ \E c \in Callers : Tick(c) \/ SyncNext(c)
  \/ SyncAll \/ UpdatePairs \/ User \/ Restart

(***************************************************************************)
(* Fairness.  Timer.periodic goes off again and again; a request is        *)
(* answered or times out and a walk of a folder ends; what an await waits  *)
(* for is scheduled by the event loop.  Nobody has to press a button.      *)
(***************************************************************************)
Fairness ==
  /\ \A p \in Pairs : WF_vars(Pass(p)) /\ WF_vars(Fire(p))
  /\ \A c \in Callers : WF_vars(Tick(c)) /\ WF_vars(SyncNext(c))
  /\ WF_vars(UpdatePairs)

Spec == Init /\ [][Next]_vars /\ Fairness

(***************************************************************************)
(* Properties.                                                             *)
(***************************************************************************)
\* The variables have their types; no pair is in the list twice.
TypeOK ==
  /\ list \in Seq(Pairs) /\ IsInjective(list) /\ config \in [Pairs -> Config]
  /\ {timer, watching, stale, session} \subseteq BOOLEAN
  /\ watched \in [Pairs -> Directions \union {None}]
  /\ {notices, dirty, unreadable, excused} \subseteq SUBSET Pairs
  /\ running \in [Pairs -> Passes \union {None}]
  /\ \A c \in Callers : call[c].on \in Pairs \union {None}

\* A watched folder whose change is not on the server has a debounce timer or a
\* pass at work, unless the watcher is known to have forgotten the change: it was
\* made while nobody watched, the shot found no session, the pair stopped being
\* watched, the client restarted, or the pass that ran failed or had already walked
\* the folder.  (LocalChangeWatcherService._fire drops the shot when its pair runs.)
Attended == \A p \in dirty \ excused : Watched(p) => p \in notices \/ Running(p)

\* Whatever the watcher forgot, the clock takes to the server: a pair of the list
\* that stays automatic and sends, with the timer on and a session, and whose folder
\* and those before it can be read, is not behind for ever.  (AutoSyncScheduler._tick,
\* MultiPairSyncCoordinator.syncAllNow: what is no ApiException ends the list.)
Steady(p) ==
  /\ timer /\ session /\ Listed(p) /\ config[p].auto /\ Sends(config[p].direction)
  /\ \A n \in DOMAIN list : Contains(SubSeq(list, n, Len(list)), p) => list[n] \notin unreadable
EventuallySynced == \A p \in Pairs : <>[]Steady(p) => <>[](p \notin dirty)

\* Every syncAllNow ends, whether its passes succeed, fail or are joined: no caller
\* waits for a pass for ever.  (SyncEngine.syncNow: the joined future is removed in
\* whenComplete, which runs after an error too.)
CallsEnd == \A c \in Callers : call[c] # Idle ~> call[c] = Idle
=============================================================================
