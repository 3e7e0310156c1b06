-------------------------- MODULE SyncWatcherProofs --------------------------
(***************************************************************************)
(* That no change of a watched folder is left without a timer or a pass,   *)
(* but for those the watcher is known to forget: proof, for any number of  *)
(* pairs and callers and whatever the lists of the callers hold.           *)
(***************************************************************************)
EXTENDS SyncWatcher, TLAPS

PassState == [Pairs -> Passes \union {None}]

\* Attended asks it of the pairs that are watched.  It takes all of them to be
\* inductive, since UpdatePairs may watch a pair that was not.
NeverIdle == \A p \in dirty \ excused : p \in notices \/ Running(p)

WatchInv ==
  /\ running \in PassState
  /\ notices \subseteq Pairs /\ dirty \subseteq Pairs
  /\ NeverIdle

LEMMA PassIsNot ==
  ASSUME NEW direction
  PROVE  /\ [sends |-> Sends(direction), at |-> "server", missed |-> FALSE] \in Passes
         /\ None \notin Passes
BY WatcherAssumption DEF Passes, Sends

LEMMA WatchInit == Init => WatchInv
BY DEF Init, WatchInv, NeverIdle, PassState

\* A pass that begins, or is asked for, adds one to those that run.
LEMMA StartPassRuns ==
  ASSUME running \in PassState, NEW p, NEW direction, StartPass(p, direction)
  PROVE  /\ running' \in PassState
         /\ \A q \in Pairs : Running(q) => Running(q)'
         /\ p \in Pairs => Running(p)'
<1> DEFINE pass == [sends |-> Sends(direction), at |-> "server", missed |-> FALSE]
<1>1. pass \in Passes /\ pass # None
  BY PassIsNot
<1>2. running' = [running EXCEPT ![p] = pass]
  BY DEF StartPass
<1> HIDE DEF pass
<1> QED  BY <1>1, <1>2 DEF PassState, Running

\* A pass that goes on still runs.
LEMMA PassGoesOn ==
  ASSUME running \in PassState, NEW p \in Pairs, Running(p), NEW pass \in Passes,
         running' = [running EXCEPT ![p] = pass]
  PROVE  running' \in PassState /\ \A q \in Pairs : Running(q) => Running(q)'
BY PassIsNot DEF PassState, Running

\* A pass that ends leaves its change to a timer, or it is excused.
LEMMA PassEnds ==
  ASSUME WatchInv, NEW p \in Pairs, NEW error, EndPass(p, error),
         \/ LeaveChange(p)
         \/ dirty' = dirty \ {p} /\ excused' = excused \ {p}
  PROVE  WatchInv'
<1>1. running' = [running EXCEPT ![p] = None] /\ notices' = notices
  BY DEF EndPass, watcher
<1>2. running' \in PassState /\ \A q \in Pairs : q # p => running'[q] = running[q]
  BY <1>1 DEF WatchInv, PassState
<1>3. NeverIdle'
  BY <1>1, <1>2 DEF WatchInv, NeverIdle, LeaveChange, Running
<1>4. notices' \subseteq Pairs /\ dirty' \subseteq Pairs
  BY <1>1 DEF WatchInv, LeaveChange
<1> QED  BY <1>2, <1>3, <1>4 DEF WatchInv

\* The invariant, when no pass ends and no timer is cancelled.
LEMMA WatchMore ==
  ASSUME WatchInv, UNCHANGED <<dirty, excused>>, notices' = notices,
         running' \in PassState, \A q \in Pairs : Running(q) => Running(q)'
  PROVE  WatchInv'
BY DEF WatchInv, NeverIdle

LEMMA WatchPass ==
  ASSUME WatchInv, NEW p \in Pairs, Pass(p)
  PROVE  WatchInv'
<1>1. Running(p) /\ running \in PassState /\ running[p] \in Passes
  BY ZenonT(60) DEF Pass, WalkRemote, WalkLocal, Transfer, WatchInv, PassState, Running
<1>2. CASE WalkRemote(p)
  <2>1. CASE EndPass(p, "api") /\ LeaveChange(p)
    BY <2>1, PassEnds
  <2>2. CASE /\ running' = [running EXCEPT ![p].at = "local"]
             /\ UNCHANGED <<watcher, dirty, excused>>
    <3>1. running' = [running EXCEPT ![p] = [running[p] EXCEPT !.at = "local"]]
      BY <2>2
    <3>2. [running[p] EXCEPT !.at = "local"] \in Passes
      BY <1>1 DEF Passes
    <3> QED  BY <1>1, <2>2, <3>1, <3>2, PassGoesOn, WatchMore DEF watcher
  <2> QED  BY <1>2, <2>1, <2>2 DEF WalkRemote
<1>3. CASE WalkLocal(p)
  <2>1. CASE EndPass(p, "other") /\ LeaveChange(p)
    BY <2>1, PassEnds
  <2>2. CASE /\ running' = [running EXCEPT ![p].at = "transfer", ![p].missed = FALSE]
             /\ UNCHANGED <<watcher, dirty, excused>>
    <3>1. running' = [running EXCEPT ![p] =
                        [running[p] EXCEPT !.at = "transfer", !.missed = FALSE]]
      BY <1>1, <2>2 DEF PassState
    <3>2. [running[p] EXCEPT !.at = "transfer", !.missed = FALSE] \in Passes
      BY <1>1 DEF Passes
    <3> QED  BY <1>1, <2>2, <3>1, <3>2, PassGoesOn, WatchMore DEF watcher
  <2> QED  BY <1>3, <2>1, <2>2 DEF WalkLocal
<1>4. CASE Transfer(p)
  BY <1>4, PassEnds, ZenonT(60) DEF Transfer
<1> QED  BY <1>2, <1>3, <1>4 DEF Pass

\* The shot of a timer starts a pass, trusts the one that runs, or is excused.
LEMMA WatchFire ==
  ASSUME WatchInv, NEW p \in Pairs, Fire(p)
  PROVE  WatchInv'
<1>1. running \in PassState /\ notices' = notices \ {p} /\ dirty' = dirty
  BY DEF Fire, WatchInv
<1>2. CASE StartPass(p, watched[p]) /\ UNCHANGED excused
  <2>1. running' \in PassState /\ Running(p)' /\ \A q \in Pairs : Running(q) => Running(q)'
    BY <1>1, <1>2, StartPassRuns
  <2> QED  BY <1>1, <1>2, <2>1 DEF WatchInv, NeverIdle
<1>3. CASE /\ UNCHANGED running
           /\ excused' = IF p \in dirty /\ ~Running(p) THEN excused \union {p} ELSE excused
  BY <1>1, <1>3 DEF WatchInv, NeverIdle, Running
<1> QED  BY <1>2, <1>3 DEF Fire

LEMMA WatchCalls ==
  ASSUME WatchInv, SyncAll \/ \E c \in Callers : Tick(c) \/ SyncNext(c)
  PROVE  WatchInv'
<1>1. running \in PassState
  BY DEF WatchInv
<1>2. UNCHANGED <<dirty, excused>> /\ notices' = notices
  BY DEF SyncAll, Tick, SyncNext, watcher
<1>3. running' \in PassState /\ \A q \in Pairs : Running(q) => Running(q)'
  <2>1. CASE UNCHANGED running
    BY <1>1, <2>1 DEF Running
  <2>2. CASE \E p, direction : StartPass(p, direction)
    BY <1>1, <2>2, StartPassRuns
  <2>3. ASSUME NEW c \in Callers, SyncNext(c)
        PROVE  UNCHANGED running \/ \E p, direction : StartPass(p, direction)
    BY <2>3 DEF SyncNext
  <2> QED  BY <2>1, <2>2, <2>3 DEF SyncAll, Tick
<1> QED  BY <1>2, <1>3, WatchMore

\* Timers are cancelled for pairs that are not wanted any more; what they stood
\* for is excused.
LEMMA WatchForget ==
  ASSUME WatchInv, NEW ps, Forget(ps), UNCHANGED <<running, dirty>>
  PROVE  WatchInv'
BY DEF WatchInv, NeverIdle, Forget, Running

LEMMA WatchUpdatePairs ==
  ASSUME WatchInv, UpdatePairs
  PROVE  WatchInv'
<1>1. UNCHANGED <<running, dirty>>
  BY DEF UpdatePairs
<1>2. Forget(Stopped) \/ UNCHANGED <<notices, excused>>
  BY DEF UpdatePairs
<1> QED  BY <1>1, <1>2, WatchForget DEF WatchInv, NeverIdle, Running

LEMMA WatchUser ==
  ASSUME WatchInv, User
  PROVE  WatchInv'
<1>1. ASSUME NEW p \in Pairs, LocalChange(p) PROVE WatchInv'
  <2>1. running' \in PassState /\ \A q \in Pairs : Running(q) => Running(q)'
    <3>1. CASE Running(p)
      <4>1. running[p] \in Passes
        BY <3>1 DEF WatchInv, PassState, Running
      <4>2. [running[p] EXCEPT !.missed = TRUE] \in Passes
        BY <4>1 DEF Passes
      <4>3. running' = [running EXCEPT ![p] = [running[p] EXCEPT !.missed = TRUE]]
        BY <1>1, <3>1 DEF LocalChange
      <4> QED  BY <3>1, <4>2, <4>3, PassGoesOn DEF WatchInv
    <3>2. CASE ~Running(p)
      BY <1>1, <3>2 DEF LocalChange, WatchInv, Running
    <3> QED  BY <3>1, <3>2
  <2> QED  BY <1>1, <2>1 DEF LocalChange, WatchInv, NeverIdle
<1>2. CASE SetEnabled
  <2>1. UNCHANGED <<running, dirty>> /\ (Forget(Pairs) \/ UNCHANGED <<notices, excused>>)
    BY <1>2 DEF SetEnabled
  <2> QED  BY <2>1, WatchForget DEF WatchInv, NeverIdle, Running
<1>3. ASSUME UNCHANGED <<running, dirty, notices, excused>> PROVE WatchInv'
  BY <1>3 DEF WatchInv, NeverIdle, Running
<1> QED  BY <1>1, <1>2, <1>3
         DEF User, AddPair, RemovePair, EditPair, SavePairs, SwitchAccess,
             UpdateSettings, LoginOrLogout, watcher

LEMMA WatchRestart ==
  ASSUME WatchInv, Restart
  PROVE  WatchInv'
BY DEF Restart, WatchInv, NeverIdle, PassState

LEMMA WatchNext ==
  ASSUME WatchInv, [Next]_vars
  PROVE  WatchInv'
<1>1. CASE UNCHANGED vars
  BY <1>1 DEF vars, watcher, WatchInv, NeverIdle, Running
<1> QED  BY <1>1, WatchPass, WatchFire, WatchCalls, WatchUpdatePairs, WatchUser, WatchRestart DEF Next

\* A watched folder whose change is not on the server has a debounce timer or a
\* pass at work, unless the watcher is known to have forgotten the change
\* (LocalChangeWatcherService._fire, updatePairs, setEnabled; SyncEngine.syncNow).
THEOREM ChangesAreAttended == Spec => []Attended
<1>1. Init => WatchInv
  BY WatchInit
<1>2. WatchInv /\ [Next]_vars => WatchInv'
  BY WatchNext
<1>3. WatchInv => Attended
  BY DEF WatchInv, NeverIdle, Attended
<1> QED  BY <1>1, <1>2, <1>3, PTL DEF Spec
=============================================================================
