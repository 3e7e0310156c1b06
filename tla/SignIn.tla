------------------------------- MODULE SignIn -------------------------------
(***************************************************************************)
(* How requests come to act for an account (internal/auth, the tokens of   *)
(* internal/webdav, the handlers of internal/api/v1): passwords with TOTP, *)
(* passkeys and their ceremonies, sessions, WebDAV tokens - while the      *)
(* accounts of Accounts are changed and deleted.                           *)
(*                                                                         *)
(* A login reads the row of the account first, checks the second factor,   *)
(* opens the session and writes the row back (completeLogin).  A request   *)
(* with a session reads the session, then the account (ValidateToken), and *)
(* then its handler runs.                                                  *)
(*                                                                         *)
(* Abstractions.  A password or a code is right or wrong.  A passkey that  *)
(* answers a ceremony is one that is registered then; its signature and    *)
(* its counter belong to the library, and of the row that keeps the        *)
(* counter only its being there counts.  A session that is closed was        *)
(* revoked or has expired.  Reads that end in one insertion are one step   *)
(* with it.                                                                *)
(***************************************************************************)
EXTENDS Accounts

CONSTANTS SessionIds, PasskeyIds, CeremonyIds, TokenIds, MaxOps

SessionRows == [user : Ids, open : BOOLEAN]
CeremonyRows == [user : Ids \union {None}, purpose : {"login", "registration"}, there : BOOLEAN]

ASSUME SignInAssumption ==
  /\ {None, Gone} \intersect (Ids \union SessionRows \union CeremonyRows) = {}
  /\ MaxOps \in Nat

VARIABLES sessions,    \* [SessionIds -> [user, open]]
          passkeys,    \* [PasskeyIds -> account]
          tokens,      \* [TokenIds -> account]
          ceremonies,  \* [CeremonyIds -> [user, purpose, there]]
          visit,       \* how far each request has come
          served,      \* history: who was let in or registered by a ceremony
          ops          \* the operations begun

doors == <<sessions, passkeys, tokens, ceremonies>>
vars == <<accountVars, doors, visit, served, ops>>

Away == [at |-> "away", user |-> None, session |-> None, ceremony |-> None,
         purpose |-> "", passkey |-> None]

At(r, where) == visit[r].at = where
Goes(r, where) == visit' = [visit EXCEPT ![r].at = where]
Leaves(r) == visit' = [visit EXCEPT ![r] = Away]
Still == UNCHANGED <<doors, served>>
Active(u) == Exists(u) /\ users[u].status = "active"
IsAdmin(u) == roles[u] \intersect {"super_admin", "administrator"} # {}
PasskeysOf(u) == {p \in PasskeyIds : passkeys[p] = u}
IsOpen(s) == sessions[s] \notin {None, Gone} /\ sessions[s].open

MayBegin(r) == ops < MaxOps /\ At(r, "away") /\ Going(r, "idle")
Begins(r, where) == visit' = [visit EXCEPT ![r] = where]
Untouched == UNCHANGED accountVars

(***************************************************************************)
(* What hangs from an account goes with it.                                *)
(***************************************************************************)
Cascade ==
  LET goes(u) == Exists(u) /\ users'[u] = Gone
      owned(x, u) == x = u /\ goes(u)
  IN
  /\ sessions' = [s \in SessionIds |->
       IF sessions[s] \notin {None, Gone} /\ goes(sessions[s].user) THEN Gone ELSE sessions[s]]
  /\ passkeys' = [p \in PasskeyIds |->
       IF \E u \in Ids : owned(passkeys[p], u) THEN Gone ELSE passkeys[p]]
  /\ tokens' = [t \in TokenIds |->
       IF \E u \in Ids : owned(tokens[t], u) THEN Gone ELSE tokens[t]]
  /\ ceremonies' = [c \in CeremonyIds |->
       IF ceremonies[c] # None /\ \E u \in Ids : owned(ceremonies[c].user, u)
       THEN [ceremonies[c] EXCEPT !.there = FALSE] ELSE ceremonies[c]]
  /\ UNCHANGED served

(***************************************************************************)
(* Password and TOTP.                                                      *)
(***************************************************************************)
\* VerifyPassword, for an account that is active and the right password.
Login(r) ==
  \E u \in Ids :
    /\ Active(u) /\ ReadForLogin(r, u)
    /\ Begins(r, [Away EXCEPT !.at = "password", !.user = u]) /\ Still

\* An account with passkeys is sent to them; one with TOTP needs the code.
SecondFactor(r) ==
  /\ At(r, "password")
  /\ \/ PasskeysOf(visit[r].user) = {} /\ Goes(r, "open") /\ Untouched
     \/ /\ PasskeysOf(visit[r].user) # {} \/ task[r].row.totp
        /\ Leaves(r) /\ Refuse(r)
  /\ Still

\* Mutant: the session of an account that is gone.
CreateSessionBlindly(r) ==
  /\ At(r, "open") /\ Goes(r, "opened")
  /\ \E s \in SessionIds :
       /\ sessions[s] = None
       /\ sessions' = [sessions EXCEPT ![s] = [user |-> visit[r].user, open |-> TRUE]]
  /\ Untouched /\ UNCHANGED <<passkeys, tokens, ceremonies, served>>

\* completeLogin: the session and then the row, with the date of this login.
CreateSession(r) ==
  /\ At(r, "open")
  /\ \/ /\ Exists(visit[r].user) /\ Goes(r, "opened") /\ Untouched
        /\ \E s \in SessionIds :
             /\ sessions[s] = None
             /\ sessions' = [sessions EXCEPT ![s] = [user |-> visit[r].user, open |-> TRUE]]
     \/ ~Exists(visit[r].user) /\ Leaves(r) /\ Refuse(r) /\ UNCHANGED sessions
  /\ UNCHANGED <<passkeys, tokens, ceremonies, served>>

RecordLogin(r) == At(r, "opened") /\ UpdateUser(r) /\ Leaves(r) /\ Still

(***************************************************************************)
(* Passkeys.  A ceremony is stored when it begins, read and deleted when   *)
(* it ends, and only then compared with what it is used for.               *)
(***************************************************************************)
SaveCeremony(user, purpose) ==
  /\ \E c \in CeremonyIds :
       /\ ceremonies[c] = None
       /\ ceremonies' = [ceremonies EXCEPT ![c] =
                           [user |-> user, purpose |-> purpose, there |-> TRUE]]
  /\ UNCHANGED <<sessions, passkeys, tokens, served>>

BeginWebAuthnLogin(r) ==
  /\ \/ \E u \in Ids : Active(u) /\ PasskeysOf(u) # {} /\ SaveCeremony(u, "login")
     \/ SaveCeremony(None, "login")
  /\ Untouched /\ UNCHANGED visit

GetCeremony(r, user, purpose) ==
  \E c \in CeremonyIds :
    /\ ceremonies[c] # None /\ ceremonies[c].there
    /\ visit' = [visit EXCEPT ![r] =
         [Away EXCEPT !.at = "got", !.user = user, !.ceremony = c, !.purpose = purpose]]

\* With a name the row of the account is read first, whatever its status.
FinishWebAuthnLogin(r) ==
  /\ \/ GetCeremony(r, None, "login") /\ Untouched
     \/ \E u \in Ids : GetCeremony(r, u, "login") /\ ReadForLogin(r, u)
  /\ Still

\* Mutant: the ceremony stays in its table.
KeepCeremony(r) == At(r, "got") /\ Goes(r, "deleted") /\ Untouched /\ Still

\* That another request has deleted it in between is not an error.
Dropped(row) == IF row = None THEN None ELSE [row EXCEPT !.there = FALSE]

DeleteCeremony(r) ==
  /\ At(r, "got") /\ Goes(r, "deleted")
  /\ ceremonies' = [ceremonies EXCEPT ![visit[r].ceremony] = Dropped(@)]
  /\ Untouched /\ UNCHANGED <<sessions, passkeys, tokens, served>>

Corresponds(r) ==
  LET c == ceremonies[visit[r].ceremony] IN c.purpose = visit[r].purpose /\ c.user = visit[r].user

Serves(r, user) ==
  served' = [served EXCEPT ![visit[r].ceremony] = @ \union {<<r, visit[r].purpose, user>>}]

\* The passkey answers: in a ceremony without a name it says whose it is.
ValidateLogin(r) ==
  /\ At(r, "deleted") /\ visit[r].purpose = "login"
  /\ \/ /\ Corresponds(r) /\ visit[r].user # None /\ Untouched
        /\ \E p \in PasskeysOf(visit[r].user) :
             visit' = [visit EXCEPT ![r].at = "validated", ![r].passkey = p]
     \/ /\ Corresponds(r) /\ visit[r].user = None
        /\ \E u \in Ids : \E p \in PasskeysOf(u) :
             /\ ReadForLogin(r, u)
             /\ visit' = [visit EXCEPT ![r].at = "validated", ![r].user = u, ![r].passkey = p]
     \/ Leaves(r) /\ (IF visit[r].user = None THEN Untouched ELSE Refuse(r))
  /\ Still

\* Its row is looked up again, to keep the counter: without it no login.  That
\* the update of the counter finds no row is not an error.
PersistLoginResult(r) ==
  /\ At(r, "validated")
  /\ \/ /\ passkeys[visit[r].passkey] = visit[r].user
        /\ Serves(r, visit[r].user) /\ Goes(r, "open") /\ Untouched
     \/ /\ passkeys[visit[r].passkey] # visit[r].user
        /\ Leaves(r) /\ Refuse(r) /\ UNCHANGED served
  /\ UNCHANGED doors

FinishRegistration(r) ==
  LET u == visit[r].user IN
  /\ At(r, "deleted") /\ visit[r].purpose = "registration"
  /\ \/ /\ Corresponds(r) /\ Exists(u) /\ Serves(r, u)
        /\ \E p \in PasskeyIds : passkeys[p] = None /\ passkeys' = [passkeys EXCEPT ![p] = u]
     \/ UNCHANGED <<served, passkeys>>
  /\ Leaves(r) /\ Untouched /\ UNCHANGED <<sessions, tokens, ceremonies>>

(***************************************************************************)
(* Requests with a session (RequireAuth).                                  *)
(***************************************************************************)
ValidateToken(r) ==
  \E s \in SessionIds :
    /\ IsOpen(s) /\ Begins(r, [Away EXCEPT !.at = "session", !.user = sessions[s].user, !.session = s])
    /\ Untouched /\ Still

\* VerifyTOTP changes the row that was read here.
LoadUser(r) ==
  LET u == visit[r].user IN
  /\ At(r, "session") /\ Still
  /\ \/ Active(u) /\ Goes(r, "admitted") /\ Untouched
     \/ Active(u) /\ Leaves(r) /\ Enrols(r, u)
     \/ ~Active(u) /\ Leaves(r) /\ Untouched

RevokeSession(s, u) ==
  /\ IsOpen(s) /\ sessions[s].user = u
  /\ sessions' = [sessions EXCEPT ![s].open = FALSE]
  /\ UNCHANGED <<passkeys, tokens, ceremonies, served>>

DeleteCredential(p, u) ==
  /\ passkeys[p] = u /\ passkeys' = [passkeys EXCEPT ![p] = Gone]
  /\ UNCHANGED <<sessions, tokens, ceremonies, served>>

CreateWebDAVToken(u) ==
  /\ Exists(u)
  /\ \E t \in TokenIds : tokens[t] = None /\ tokens' = [tokens EXCEPT ![t] = u]
  /\ UNCHANGED <<sessions, passkeys, ceremonies, served>>

RevokeWebDAVToken(t, u) ==
  /\ tokens[t] = u /\ tokens' = [tokens EXCEPT ![t] = Gone]
  /\ UNCHANGED <<sessions, passkeys, ceremonies, served>>

Logout(r) == RevokeSession(visit[r].session, visit[r].user)
RevokeOwnSession(r) == \E s \in SessionIds : RevokeSession(s, visit[r].user)
BeginRegistration(r) == Exists(visit[r].user) /\ SaveCeremony(visit[r].user, "registration")
RevokeWebAuthn(r) == \E p \in PasskeyIds : DeleteCredential(p, visit[r].user)
CreateOwnToken(r) == CreateWebDAVToken(visit[r].user)
RevokeOwnToken(r) == \E t \in TokenIds : RevokeWebDAVToken(t, visit[r].user)

OwnRequest(r) ==
  \/ /\ Leaves(r)
     /\ \/ Logout(r) \/ RevokeOwnSession(r) \/ BeginRegistration(r)
        \/ RevokeWebAuthn(r) \/ CreateOwnToken(r) \/ RevokeOwnToken(r)
  \/ GetCeremony(r, visit[r].user, "registration") /\ Still

\* The middleware of the other handlers reads the roles, and then the handler
\* runs, whatever becomes of the account.
RequireAdmin(r) ==
  /\ At(r, "admitted") /\ IsAdmin(visit[r].user) /\ Goes(r, "admin")
  /\ Untouched /\ Still

Handler(r) ==
  \/ At(r, "admitted") /\ OwnRequest(r) /\ Untouched
  \/ At(r, "admin") /\ AdminRequest(r, visit[r].user) /\ Cascade /\ Leaves(r)

(***************************************************************************)
(* The commands of an administrator of the machine, each for an account    *)
(* that is looked up by its name.                                          *)
(***************************************************************************)
SessionRevokeCommand == \E u \in Ids, s \in SessionIds : Exists(u) /\ RevokeSession(s, u)
WebAuthnRevokeCommand == \E u \in Ids, p \in PasskeyIds : Exists(u) /\ DeleteCredential(p, u)
TokenCreateCommand == \E u \in Ids : CreateWebDAVToken(u)
TokenRevokeCommand == \E u \in Ids, t \in TokenIds : Exists(u) /\ RevokeWebDAVToken(t, u)

LocalCommand(r) ==
  /\ UNCHANGED visit
  /\ \/ Command(r) /\ Cascade
     \/ /\ Untouched
        /\ \/ SessionRevokeCommand \/ WebAuthnRevokeCommand
           \/ TokenCreateCommand \/ TokenRevokeCommand

\* A handler finds nothing to do or refuses, a statement fails, the process ends.
Breaks(r) ==
  /\ Leaves(r) /\ Still
  /\ Stop(r) \/ (visit[r] # Away /\ task[r] = Idle /\ Untouched)

\* Sessions and invitations expire.
Expire ==
  /\ UNCHANGED <<visit, ops>>
  /\ \/ \E s \in SessionIds, u \in Ids : RevokeSession(s, u) /\ Untouched
     \/ \E i \in Invitations : RevokeInvitation(i) /\ Still

SignInBegin(r) ==
  \/ Login(r) \/ BeginWebAuthnLogin(r) \/ FinishWebAuthnLogin(r) \/ ValidateToken(r)
  \/ LocalCommand(r)
  \/ Redeem(r) /\ UNCHANGED visit /\ Still

SignInStep(r) ==
  \/ SecondFactor(r) \/ CreateSession(r) \/ RecordLogin(r)
  \/ DeleteCeremony(r) \/ ValidateLogin(r) \/ PersistLoginResult(r)
  \/ FinishRegistration(r) \/ LoadUser(r) \/ RequireAdmin(r) \/ Handler(r)
  \/ UNCHANGED visit /\ Still /\ At(r, "away") /\ (AccountStep(r) \/ UpdateUser(r) \/ Refuse(r))
  \/ Breaks(r)

SignInNext ==
  \/ \E r \in Requests :
       \/ MayBegin(r) /\ ops' = ops + 1 /\ SignInBegin(r)
       \/ ~(At(r, "away") /\ Going(r, "idle")) /\ ops' = ops /\ SignInStep(r)
  \/ Expire

SignInInit ==
  /\ AccountsInit
  /\ sessions \in [SessionIds -> [user : Ids, open : {TRUE}] \union {None}]
  /\ \A s \in SessionIds : sessions[s] # None => Exists(sessions[s].user)
  /\ passkeys \in [PasskeyIds -> Ids \union {None}]
  /\ \A p \in PasskeyIds : passkeys[p] # None => Exists(passkeys[p])
  /\ tokens = [t \in TokenIds |-> None]
  /\ ceremonies = [c \in CeremonyIds |-> None]
  /\ visit = [r \in Requests |-> Away]
  /\ served = [c \in CeremonyIds |-> {}] /\ ops = 0

SignInSpec == SignInInit /\ [][SignInNext]_vars

(***************************************************************************)
(* Properties.                                                             *)
(***************************************************************************)
Visits == [at : {"away", "password", "open", "opened", "got", "deleted", "validated",
                 "session", "admitted", "admin"},
           user : Ids \union {None}, session : SessionIds \union {None},
           ceremony : CeremonyIds \union {None}, purpose : {"", "login", "registration"},
           passkey : PasskeyIds \union {None}]

\* Every variable has its type.
TypeOK ==
  /\ AccountsTypeOK
  /\ sessions \in [SessionIds -> SessionRows \union {None, Gone}]
  /\ passkeys \in [PasskeyIds -> Ids \union {None, Gone}]
  /\ tokens \in [TokenIds -> Ids \union {None, Gone}]
  /\ ceremonies \in [CeremonyIds -> CeremonyRows \union {None}]
  /\ visit \in [Requests -> Visits] /\ ops \in 0 .. MaxOps
  /\ served \in [CeremonyIds -> SUBSET (Requests \X {"login", "registration"} \X Ids)]

\* Whatever lets someone in or gives a right belongs to an account that is
\* there: nothing is left over by a deletion, and nothing arrives after it
\* (completeLogin, FinishRegistration, AssignRole, AddUserToGroup).
NothingOutlivesItsUser ==
  /\ \A s \in SessionIds : sessions[s] \notin {None, Gone} => Exists(sessions[s].user)
  /\ \A p \in PasskeyIds : passkeys[p] \notin {None, Gone} => Exists(passkeys[p])
  /\ \A t \in TokenIds : tokens[t] \notin {None, Gone} => Exists(tokens[t])
  /\ \A c \in CeremonyIds :
       ceremonies[c] # None /\ ceremonies[c].there /\ ceremonies[c].user # None
         => Exists(ceremonies[c].user)
  /\ RightsOwned

\* A ceremony lets in or registers only what and whom it was begun for, and
\* once it has, no other request can take it up: one more is served only if it
\* had read the ceremony before it was deleted (loadCeremony).
CeremonyServesItsOwn ==
  \A c \in CeremonyIds : served[c] # {} =>
    /\ ~ceremonies[c].there
    /\ \A x \in served[c] :
         x[2] = ceremonies[c].purpose /\ ceremonies[c].user \in {None, x[3]}

\* "Uso unico": a ceremony serves one request (loadCeremony).
\* The code does not keep it: README, "What the code does not keep".
CeremonySingleUse == \A c \in CeremonyIds : Cardinality(served[c]) <= 1

\* "Updates LastLoginAt": the end of a login leaves an account disabled that an
\* administrator has disabled meanwhile (completeLogin, Service.Disable).
\* The code does not keep it: README, "What the code does not keep".
LoginOnlyDates ==
  [][\A r \in Requests, u \in Ids :
       /\ At(r, "opened") /\ ~At(r, "opened")'
       /\ Exists(u) /\ users[u].status = "disabled"
       => users'[u].status = "disabled"]_vars
=============================================================================
