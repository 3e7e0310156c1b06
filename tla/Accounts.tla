------------------------------ MODULE Accounts ------------------------------
(***************************************************************************)
(* The accounts of a NexusCloud server (internal/users, the invitations of *)
(* internal/auth): the rows of the tables users, user_roles, groups,       *)
(* user_groups and invitations, and every operation of the API and of the  *)
(* command line that writes them.  An operation is the sequence of its     *)
(* statements; those of several requests interleave, and commands run in   *)
(* processes of their own.                                                 *)
(*                                                                         *)
(* UpdateUser writes the whole row, from a copy read some statements       *)
(* before, that of a login too.  A redemption checks its invitation,       *)
(* hashes the password (which takes a while), creates the account, gives   *)
(* it its role and only then counts the use.                               *)
(*                                                                         *)
(* Abstractions.  Of a row the model keeps the name, the status, whether   *)
(* there is a TOTP secret, one value for what the owner may edit and       *)
(* whether there is a date of a login.  The foreign keys are those of the  *)
(* migrations.  An invitation that expired is one that was revoked: `open' *)
(* is FALSE.                                                               *)
(***************************************************************************)
EXTENDS Naturals, FiniteSets

CONSTANTS Ids,          \* identifiers of accounts (idgen.New), never reused
          Names,        \* user names
          Groups, Invitations, Requests,
          RolesAsked,   \* what the requests name as the role
          MaxUses, MaxFaults,
          None, Gone    \* a row that is not there yet, or not any more

Roles == {"super_admin", "administrator", "user", "read_only"}
Statuses == {"active", "disabled"}
Rows == [name : Names, status : Statuses, totp : BOOLEAN, profile : BOOLEAN,
         login : BOOLEAN]

InvitationRows == [by : Ids, role : Roles, max : Nat, used : Nat, open : BOOLEAN]

ASSUME AccountsAssumption ==
  /\ {None, Gone} \intersect (Rows \union InvitationRows) = {}
  /\ IsFiniteSet(Requests) /\ Requests # {}
  /\ None \notin Invitations \union Groups /\ None # Gone
  /\ MaxUses \in Nat /\ MaxFaults \in Nat

VARIABLES users,    \* [Ids -> row]
          roles,    \* user_roles
          groups, member,
          invites,  \* [Invitations -> row]
          task,     \* what each request has still to do
          made,     \* history: the accounts each invitation has made
          lost,     \* history: of these, the ones that were never counted
          halfMade, \* history: the accounts whose role could not be given
          faults

tables == <<users, roles, groups, member, invites>>
history == <<made, lost, halfMade>>
accountVars == <<users, roles, groups, member, invites, task, made, lost, halfMade, faults>>

Exists(u) == users[u] \notin {None, Gone}
Present(i) == invites[i] \notin {None, Gone}
Named(name) == {u \in Ids : Exists(u) /\ users[u].name = name}
NewRow(name) ==
  [name |-> name, status |-> "active", totp |-> FALSE, profile |-> FALSE, login |-> FALSE]

Idle == [do |-> "idle", user |-> None, row |-> None, name |-> None, role |-> "", via |-> None]

Answer(r) == task' = [task EXCEPT ![r] = Idle]
Going(r, do) == task[r].do = do

(***************************************************************************)
(* The row is read, the fields asked for are set in the copy, and the copy *)
(* is written back, every column of it.                                    *)
(***************************************************************************)
Read(r, u, row) ==
  /\ Exists(u)
  /\ task' = [task EXCEPT ![r] = [Idle EXCEPT !.do = "write", !.user = u, !.row = row]]
  /\ UNCHANGED <<tables, history, faults>>

UpdateUser(r) ==
  LET u == task[r].user IN
  /\ Going(r, "write")
  /\ users' = IF Exists(u) THEN [users EXCEPT ![u] = task[r].row] ELSE users
  /\ Answer(r)
  /\ UNCHANGED <<roles, groups, member, invites, history, faults>>

\* The request ends before it writes: its body is not valid, a code is wrong.
Refuse(r) ==
  /\ Going(r, "write") /\ Answer(r) /\ UNCHANGED <<tables, history, faults>>

\* A login sets the date in the row it has read (completeLogin).
ReadForLogin(r, u) == Read(r, u, [users[u] EXCEPT !.login = TRUE])

Enrols(r, u) == Read(r, u, [users[u] EXCEPT !.totp = TRUE])

DisableCommand(r, u) == Read(r, u, [users[u] EXCEPT !.status = "disabled"])
EnableCommand(r, u) == Read(r, u, [users[u] EXCEPT !.status = "active"])
EditCommand(r, u) == Read(r, u, [users[u] EXCEPT !.profile = TRUE])
TotpVerifyCommand(r, u) == Enrols(r, u)
TotpDisableCommand(r, u) == Read(r, u, [users[u] EXCEPT !.totp = FALSE])

\* The body names the status, what the owner may edit, both or none.
PatchUser(r, u) ==
  \E s \in Statuses \union {"kept"}, edited \in BOOLEAN :
    Read(r, u, [users[u] EXCEPT !.status = IF s = "kept" THEN @ ELSE s,
                                !.profile = @ \/ edited])

(***************************************************************************)
(* Accounts are created by the API, by commands and by redemptions.        *)
(***************************************************************************)
Ask(r, name, role, via) ==
  /\ task' = [task EXCEPT ![r] = [Idle EXCEPT
                !.do = "insert", !.name = name, !.role = role, !.via = via]]
  /\ UNCHANGED <<tables, history, faults>>

\* The handler of the API asks for what it was sent, like the command.
CreateUserRequest(r) == \E n \in Names, role \in RolesAsked : Ask(r, n, role, None)
CreateUserCommand(r) == \E n \in Names, role \in RolesAsked : Ask(r, n, role, None)

\* Without --role: super_admin when there is nobody yet (IsFirstUser).
AdminCreateCommand(r) ==
  \E n \in Names :
    Ask(r, n, IF \A u \in Ids : ~Exists(u) THEN "super_admin" ELSE "administrator", None)

\* Mutant: one use too many.
UsableOnceMore(i) == Present(i) /\ invites[i].open /\ invites[i].used <= invites[i].max

IsUsable(i) == Present(i) /\ invites[i].open /\ invites[i].used < invites[i].max

Redeem(r) ==
  \E i \in Invitations, n \in Names : IsUsable(i) /\ Ask(r, n, invites[i].role, i)

\* What the failure of a creation leaves behind.
Unfinished(r) ==
  /\ halfMade' = IF Going(r, "role") THEN halfMade \union {task[r].user} ELSE halfMade
  /\ lost' = IF (Going(r, "role") \/ Going(r, "record")) /\ task[r].via \in Invitations
             THEN [lost EXCEPT ![task[r].via] = @ + 1] ELSE lost
  /\ made' = made

InsertUser(r) ==
  LET t == task[r] IN
  /\ Going(r, "insert")
  /\ \/ /\ Named(t.name) # {} /\ Answer(r)
        /\ UNCHANGED <<users, made>>
     \/ /\ Named(t.name) = {}
        /\ \E u \in Ids :
             /\ users[u] = None
             /\ users' = [users EXCEPT ![u] = NewRow(t.name)]
             /\ task' = [task EXCEPT ![r].do = "role", ![r].user = u]
        /\ made' = IF t.via \in Invitations THEN [made EXCEPT ![t.via] = @ + 1] ELSE made
  /\ UNCHANGED <<roles, groups, member, invites, lost, halfMade, faults>>

\* Mutant: the request is answered before the role is given.
RoleForgotten(r) ==
  /\ Going(r, "role") /\ Answer(r) /\ UNCHANGED <<tables, history, faults>>

\* Mutant: a role that no row of the table roles holds.
AssignRoleUnchecked(r) ==
  LET t == task[r] IN
  /\ Going(r, "role")
  /\ roles' = [roles EXCEPT ![t.user] = @ \union {t.role}]
  /\ task' = [task EXCEPT ![r] = IF t.via = None THEN Idle ELSE [t EXCEPT !.do = "record"]]
  /\ UNCHANGED <<users, groups, member, invites, history, faults>>

AssignRole(r) ==
  LET t == task[r] IN
  /\ Going(r, "role")
  /\ \/ /\ Exists(t.user) /\ t.role \in Roles
        /\ roles' = [roles EXCEPT ![t.user] = @ \union {t.role}]
        /\ task' = [task EXCEPT ![r] = IF t.via = None THEN Idle ELSE [t EXCEPT !.do = "record"]]
        /\ UNCHANGED history
     \/ /\ ~(Exists(t.user) /\ t.role \in Roles)
        /\ Unfinished(r) /\ Answer(r) /\ UNCHANGED roles
  /\ UNCHANGED <<users, groups, member, invites, faults>>

\* The foreign key used_by refuses an account that is gone.
RecordUse(r) ==
  LET t == task[r] IN
  /\ Going(r, "record")
  /\ \/ /\ Exists(t.user)
        /\ invites' = IF Present(t.via) THEN [invites EXCEPT ![t.via].used = @ + 1] ELSE invites
        /\ UNCHANGED history
     \/ ~Exists(t.user) /\ Unfinished(r) /\ UNCHANGED invites
  /\ Answer(r) /\ UNCHANGED <<users, roles, groups, member, faults>>

(***************************************************************************)
(* DELETE of the row, and what ON DELETE CASCADE takes with it.            *)
(***************************************************************************)
DeleteUser(u) ==
  /\ Exists(u)
  /\ users' = [users EXCEPT ![u] = Gone]
  /\ roles' = [roles EXCEPT ![u] = {}]
  /\ member' = {m \in member : m[1] # u}
  /\ invites' = [i \in Invitations |->
                   IF Present(i) /\ invites[i].by = u THEN Gone ELSE invites[i]]
  /\ UNCHANGED <<groups, task, history, faults>>

\* Nobody deletes the own account over the API; the command deletes any.
DeleteUserRequest(actor) == \E u \in Ids \ {actor} : DeleteUser(u)
DeleteUserCommand == \E u \in Ids : DeleteUser(u)

(***************************************************************************)
(* Groups.  Both the account and the group are looked up first.            *)
(***************************************************************************)
CreateGroup(g) ==
  /\ g \notin groups /\ groups' = groups \union {g}
  /\ UNCHANGED <<users, roles, member, invites, task, history, faults>>

CreateGroupRequest == \E g \in Groups : CreateGroup(g)
CreateGroupCommand == \E g \in Groups : CreateGroup(g)

LookUpMember(r, u, g) ==
  /\ Exists(u) /\ g \in groups
  /\ task' = [task EXCEPT ![r] = [Idle EXCEPT !.do = "member", !.user = u, !.via = g]]
  /\ UNCHANGED <<tables, history, faults>>

AddGroupMember(r) == \E u \in Ids, g \in Groups : LookUpMember(r, u, g)
AddMemberCommand(r) == \E u \in Ids, g \in Groups : LookUpMember(r, u, g)

AddUserToGroup(r) ==
  /\ Going(r, "member")
  /\ member' = IF Exists(task[r].user) THEN member \union {<<task[r].user, task[r].via>>}
               ELSE member
  /\ Answer(r)
  /\ UNCHANGED <<users, roles, groups, invites, history, faults>>

(***************************************************************************)
(* Invitations.  The foreign key of the role refuses one that is unknown.  *)
(***************************************************************************)
CreateInvitation(by) ==
  /\ Exists(by)
  /\ \E i \in Invitations, role \in RolesAsked \intersect Roles, max \in 1 .. MaxUses :
       /\ invites[i] = None
       /\ invites' = [invites EXCEPT ![i] =
                        [by |-> by, role |-> role, max |-> max, used |-> 0, open |-> TRUE]]
  /\ UNCHANGED <<users, roles, groups, member, task, history, faults>>

\* Revoked, or expired.
RevokeInvitation(i) ==
  /\ Present(i) /\ invites[i].open
  /\ invites' = [invites EXCEPT ![i].open = FALSE]
  /\ UNCHANGED <<users, roles, groups, member, task, history, faults>>

CreateInvitationRequest(actor) == CreateInvitation(actor)
CreateInvitationCommand == \E u \in Ids : CreateInvitation(u)
RevokeInvitationRequest == \E i \in Invitations : RevokeInvitation(i)
RevokeInvitationCommand == \E i \in Invitations : RevokeInvitation(i)

\* The database refuses a statement, or the process ends: nothing more is done.
Stop(r) ==
  /\ task[r] # Idle /\ faults < MaxFaults /\ faults' = faults + 1
  /\ Unfinished(r) /\ Answer(r) /\ UNCHANGED tables

(***************************************************************************)
(* The requests an administrator sends, the commands, and their steps.     *)
(***************************************************************************)
AdminRequest(r, actor) ==
  \/ CreateUserRequest(r) \/ DeleteUserRequest(actor) \/ \E u \in Ids : PatchUser(r, u)
  \/ CreateGroupRequest \/ AddGroupMember(r)
  \/ CreateInvitationRequest(actor) \/ RevokeInvitationRequest

Command(r) ==
  \/ CreateUserCommand(r) \/ AdminCreateCommand(r) \/ DeleteUserCommand
  \/ \E u \in Ids :
       \/ DisableCommand(r, u) \/ EnableCommand(r, u) \/ EditCommand(r, u)
       \/ TotpVerifyCommand(r, u) \/ TotpDisableCommand(r, u)
  \/ CreateGroupCommand \/ AddMemberCommand(r)
  \/ CreateInvitationCommand \/ RevokeInvitationCommand

AccountStep(r) ==
  \/ InsertUser(r) \/ AssignRole(r) \/ RecordUse(r) \/ AddUserToGroup(r)

\* Some accounts, each with a role, and invitations nobody has used yet.
AccountsInit ==
  /\ users \in [Ids -> Rows \union {None}]
  /\ \A u, v \in Ids : Exists(u) /\ Exists(v) /\ users[u].name = users[v].name => u = v
  /\ roles \in [Ids -> SUBSET Roles]
  /\ \A u \in Ids : roles[u] # {} <=> Exists(u)
  /\ groups = {} /\ member = {}
  /\ invites \in [Invitations ->
       [by : Ids, role : Roles, max : 1 .. MaxUses, used : {0}, open : {TRUE}] \union {None}]
  /\ \A i \in Invitations : Present(i) => Exists(invites[i].by)
  /\ task = [r \in Requests |-> Idle]
  /\ made = [i \in Invitations |-> 0] /\ lost = [i \in Invitations |-> 0]
  /\ halfMade = {} /\ faults = 0

\* A login reads a row, and writes it back with the date (SignIn); an
\* invitation expires at any time.
AccountsNext ==
  \/ \E r \in Requests :
       \/ Going(r, "idle") /\ (Command(r) \/ Redeem(r))
       \/ Going(r, "idle") /\ \E u \in Ids : AdminRequest(r, u) \/ ReadForLogin(r, u)
       \/ AccountStep(r) \/ UpdateUser(r) \/ Refuse(r) \/ Stop(r)
  \/ \E i \in Invitations : RevokeInvitation(i)

AccountsSpec == AccountsInit /\ [][AccountsNext]_accountVars

(***************************************************************************)
(* Properties.                                                             *)
(***************************************************************************)
Task(do, user, row, name, role, via) ==
  [do : do, user : user, row : row, name : name, role : role, via : via]

\* What a request holds at each of its statements.
Tasks ==
  LET asked == Roles \union RolesAsked
      from == Invitations \union {None}
  IN
  Task({"idle"}, {None}, {None}, {None}, {""}, {None})
    \union Task({"write"}, Ids, Rows, {None}, {""}, {None})
    \union Task({"member"}, Ids, {None}, {None}, {""}, Groups)
    \union Task({"insert"}, {None}, {None}, Names, asked, from)
    \union Task({"role"}, Ids, {None}, Names, asked, from)
    \union Task({"record"}, Ids, {None}, Names, asked, Invitations)

\* Every variable of this module has its type.
AccountsTypeOK ==
  /\ users \in [Ids -> Rows \union {None, Gone}]
  /\ roles \in [Ids -> SUBSET Roles]
  /\ groups \subseteq Groups /\ member \subseteq Ids \X Groups
  /\ invites \in [Invitations -> InvitationRows \union {None, Gone}]
  /\ task \in [Requests -> Tasks]
  /\ made \in [Invitations -> Nat] /\ lost \in [Invitations -> Nat]
  /\ halfMade \subseteq Ids /\ faults \in 0 .. MaxFaults

\* The requests whose redemption of i has passed the check, and those of them
\* that have made their account.
Redeeming(i) == {r \in Requests : task[r].via = i /\ task[r].do \in {"insert", "role", "record"}}
Creating(i) == {r \in Redeeming(i) : task[r].do # "insert"}

\* Each account an invitation made is one use counted, or one being counted,
\* or one whose request failed; and redemptions that overlap can spend at most
\* one use more each than there were (Redeem, IsUsable, RecordUse).
InvitationUses ==
  \A i \in Invitations : Present(i) =>
    /\ made[i] = invites[i].used + lost[i] + Cardinality(Creating(i))
    /\ invites[i].used + Cardinality(Redeeming(i))
         < invites[i].max + Cardinality(Requests)

\* An account without a role is one whose creation is under way or failed
\* between its two statements (Service.CreateUser).
RoleOrFailure ==
  \A u \in Ids : Exists(u) /\ roles[u] = {} =>
    u \in halfMade \/ \E r \in Requests : Going(r, "role") /\ task[r].user = u

\* Roles, memberships and invitations are those of accounts that are there.
RightsOwned ==
  /\ \A u \in Ids : roles[u] # {} => Exists(u)
  /\ \A m \in member : Exists(m[1])
  /\ \A i \in Invitations : Present(i) => Exists(invites[i].by)

\* An invitation that is still to be made has made nobody.
NotYetUsed ==
  \A i \in Invitations : invites[i] = None =>
    made[i] = 0 /\ lost[i] = 0 /\ Redeeming(i) = {}

\* The invariant of the proofs.
AccountsInv == AccountsTypeOK /\ NotYetUsed /\ InvitationUses /\ RightsOwned

\* What "una única operación lógica" (Redeem) would mean: an invitation is
\* never used more often than it allows.
\* The code does not keep it: README, "What the code does not keep".
RedeemIsOneOperation ==
  \A i \in Invitations : Present(i) => invites[i].used <= invites[i].max
=============================================================================
