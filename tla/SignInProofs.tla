---------------------------- MODULE SignInProofs ----------------------------
(***************************************************************************)
(* Proofs about the accounts and about what lets someone act for them.     *)
(*                                                                         *)
(* The first part is about module Accounts: whatever requests and commands *)
(* cross, every account an invitation made is one use counted, one being   *)
(* counted, or one whose request failed.  The second part is about SignIn: *)
(* every step of a login, a ceremony or a request is a step of the         *)
(* accounts or leaves them alone, and nothing that lets someone in         *)
(* outlives its account.                                                   *)
(***************************************************************************)
EXTENDS SignIn, TLAPS, FiniteSetTheorems

(***************************************************************************)
(***************************** The accounts ********************************)
(***************************************************************************)

Redeems(t, i) == t.via = i /\ t.do \in {"insert", "role", "record"}
Creates(t, i) == Redeems(t, i) /\ t.do # "insert"
One(b) == IF b THEN 1 ELSE 0

(***************************************************************************)
(* Counting the redemptions of an invitation.                              *)
(***************************************************************************)
LEMMA SubsetCount ==
  ASSUME NEW S \in SUBSET Requests
  PROVE  /\ IsFiniteSet(S) /\ Cardinality(S) \in Nat /\ Cardinality(Requests) \in Nat
         /\ Cardinality(S) <= Cardinality(Requests)
<1>1. IsFiniteSet(Requests) /\ Cardinality(Requests) \in Nat
  BY AccountsAssumption, FS_CardinalityType
<1>2. IsFiniteSet(S) /\ Cardinality(S) <= Cardinality(Requests)
  BY <1>1, FS_Subset
<1> QED  BY <1>1, <1>2, FS_CardinalityType

\* One request joins a set of them, or leaves it.
LEMMA OneMoves ==
  ASSUME NEW S \in SUBSET Requests, NEW T \in SUBSET Requests, NEW r \in Requests,
         \A q \in Requests \ {r} : q \in S <=> q \in T
  PROVE  Cardinality(T) = Cardinality(S) - One(r \in S) + One(r \in T)
<1>1. Cardinality(S) \in Nat /\ IsFiniteSet(S) /\ IsFiniteSet(T) /\ Cardinality(T) \in Nat
  BY SubsetCount
<1>2. CASE r \in S <=> r \in T
  <2>1. S = T
    BY <1>2
  <2> QED  BY <1>1, <2>1, <1>2 DEF One
<1>3. CASE r \in S /\ r \notin T
  <2>1. T = S \ {r}
    BY <1>3
  <2>2. Cardinality(T) = Cardinality(S) - 1
    BY <1>1, <1>3, <2>1, FS_RemoveElement
  <2> QED  BY <1>1, <1>3, <2>2 DEF One
<1>4. CASE r \notin S /\ r \in T
  <2>1. T = S \cup {r}
    BY <1>4
  <2>2. Cardinality(T) = Cardinality(S) + 1
    BY <1>1, <1>4, <2>1, FS_AddElement
  <2> QED  BY <1>1, <1>4, <2>2 DEF One
<1> QED  BY <1>2, <1>3, <1>4

Counted(r, t, i) ==
  /\ Cardinality(Redeeming(i)) \in Nat /\ Cardinality(Redeeming(i)') \in Nat
  /\ Cardinality(Creating(i)) \in Nat /\ Cardinality(Creating(i)') \in Nat
  /\ Cardinality(Redeeming(i)') <= Cardinality(Requests)
  /\ Cardinality(Requests) \in Nat
  /\ Cardinality(Redeeming(i)')
       = Cardinality(Redeeming(i)) - One(Redeems(task[r], i)) + One(Redeems(t, i))
  /\ Cardinality(Creating(i)')
       = Cardinality(Creating(i)) - One(Creates(task[r], i)) + One(Creates(t, i))
  /\ Redeeming(i) = {} /\ ~Redeems(t, i) => Redeeming(i)' = {}

\* What one request does to the numbers of InvitationUses.
LEMMA Count ==
  ASSUME task \in [Requests -> Tasks], NEW r \in Requests, NEW t,
         task' = [task EXCEPT ![r] = t], NEW i \in Invitations
  PROVE  Counted(r, t, i)
<1>1. task'[r] = t /\ \A q \in Requests \ {r} : task'[q] = task[q]
  OBVIOUS
<1>2. /\ Redeeming(i) \in SUBSET Requests /\ Redeeming(i)' \in SUBSET Requests
      /\ Creating(i) \in SUBSET Requests /\ Creating(i)' \in SUBSET Requests
  BY DEF Redeeming, Creating
<1>3. /\ r \in Redeeming(i) <=> Redeems(task[r], i)
      /\ r \in Creating(i) <=> Creates(task[r], i)
  BY DEF Redeeming, Creating, Redeems, Creates
<1>4. /\ r \in Redeeming(i)' <=> Redeems(t, i)
      /\ r \in Creating(i)' <=> Creates(t, i)
  BY <1>1 DEF Redeeming, Creating, Redeems, Creates
<1>5. \A q \in Requests \ {r} : /\ q \in Redeeming(i) <=> q \in Redeeming(i)'
                                /\ q \in Creating(i) <=> q \in Creating(i)'
  BY <1>1 DEF Redeeming, Creating
<1>6. Cardinality(Redeeming(i)')
        = Cardinality(Redeeming(i)) - One(r \in Redeeming(i)) + One(r \in Redeeming(i)')
  BY <1>2, <1>5, OneMoves
<1>7. Cardinality(Creating(i)')
        = Cardinality(Creating(i)) - One(r \in Creating(i)) + One(r \in Creating(i)')
  BY <1>2, <1>5, OneMoves
<1>8. Redeeming(i) = {} /\ ~Redeems(t, i) => Redeeming(i)' = {}
  BY <1>2, <1>4, <1>5
<1>9. One(r \in Redeeming(i)) = One(Redeems(task[r], i)) /\ One(r \in Creating(i)) = One(Creates(task[r], i))
  BY <1>3 DEF One
<1>10. One(r \in Redeeming(i)') = One(Redeems(t, i)) /\ One(r \in Creating(i)') = One(Creates(t, i))
  BY <1>4 DEF One
<1> QED  BY <1>2, <1>6, <1>7, <1>8, <1>9, <1>10, SubsetCount DEF Counted

(***************************************************************************)
(* A step that leaves what an invitation is counted by keeps the count.    *)
(***************************************************************************)
Uses == NotYetUsed /\ InvitationUses

LEMMA Uncounted ==
  ASSUME Uses, task \in [Requests -> Tasks], UNCHANGED <<invites, made, lost>>,
         NEW r \in Requests, NEW t, task' = [task EXCEPT ![r] = t],
         \A i \in Invitations : ~Redeems(task[r], i) /\ ~Redeems(t, i)
  PROVE  Uses'
<1>1. ASSUME NEW i \in Invitations
      PROVE  /\ Cardinality(Redeeming(i)') = Cardinality(Redeeming(i))
             /\ Cardinality(Creating(i)') = Cardinality(Creating(i))
             /\ Redeeming(i) = {} => Redeeming(i)' = {}
  <2>1. ~Creates(task[r], i) /\ ~Creates(t, i)
    BY DEF Creates
  <2>2. /\ One(Redeems(task[r], i)) = 0 /\ One(Redeems(t, i)) = 0
        /\ One(Creates(task[r], i)) = 0 /\ One(Creates(t, i)) = 0
    BY <2>1 DEF One
  <2>3. Counted(r, t, i)
    BY Count
  <2> QED  BY <2>2, <2>3 DEF Counted
<1>2. NotYetUsed'
  BY <1>1 DEF Uses, NotYetUsed
<1>3. InvitationUses'
  BY <1>1 DEF Uses, InvitationUses, Present
<1> QED  BY <1>2, <1>3 DEF Uses

(***************************************************************************)
(* Each kind of step keeps the invariant.                                  *)
(***************************************************************************)
Invariant == AccountsTypeOK /\ Uses

LEMMA IdleTyped == Idle \in Tasks /\ (\A i \in Invitations : ~Redeems(Idle, i))
  BY DEF Idle, Tasks, Task, Redeems

\* What a request holds at each of its statements.
LEMMA TaskShape ==
  ASSUME NEW t \in Tasks
  PROVE  /\ t.do = "write" => t.user \in Ids /\ t.row \in Rows
         /\ t.do = "member" => t.user \in Ids /\ t.via \in Groups
         /\ t.do = "insert" => t.name \in Names /\ t.via \in Invitations \union {None}
         /\ t.do = "role" => t.user \in Ids /\ t.via \in Invitations \union {None}
         /\ t.do = "record" => t.user \in Ids /\ t.via \in Invitations
  BY ZenonT(60) DEF Tasks, Task

\* An insertion is followed by the role, and the role by the use.
LEMMA TaskMoves ==
  ASSUME NEW t \in Tasks
  PROVE  /\ t.do = "insert" => \A u \in Ids : [t EXCEPT !.do = "role", !.user = u] \in Tasks
         /\ t.do = "role" /\ t.via # None => [t EXCEPT !.do = "record"] \in Tasks
<1>1. CASE t.do = "insert"
  <2>1. t \in Task({"insert"}, {None}, {None}, Names, Roles \union RolesAsked,
                   Invitations \union {None})
    BY <1>1, ZenonT(60) DEF Tasks, Task
  <2> QED  BY <2>1, <1>1, ZenonT(60) DEF Tasks, Task
<1>2. CASE t.do = "role"
  <2>1. t \in Task({"role"}, Ids, {None}, Names, Roles \union RolesAsked,
                   Invitations \union {None})
    BY <1>2, ZenonT(60) DEF Tasks, Task
  <2> QED  BY <2>1, <1>2, ZenonT(60) DEF Tasks, Task
<1> QED  BY <1>1, <1>2, ZenonT(60)

\* Whoever edits an account reads its row, and sets some of its fields.
Reads(r, u) == \E row : Read(r, u, row) /\ (users[u] \in Rows => row \in Rows)

LEMMA EditsRead ==
  ASSUME NEW r, NEW u,
         \/ DisableCommand(r, u) \/ EnableCommand(r, u) \/ EditCommand(r, u)
         \/ TotpVerifyCommand(r, u) \/ TotpDisableCommand(r, u) \/ PatchUser(r, u)
         \/ ReadForLogin(r, u) \/ Enrols(r, u)
  PROVE  Reads(r, u)
<1>1. CASE DisableCommand(r, u)
  <2>1. users[u] \in Rows => [users[u] EXCEPT !.status = "disabled"] \in Rows
    BY DEF Rows, Statuses
  <2> QED  BY <1>1, <2>1 DEF DisableCommand, Reads
<1>2. CASE EnableCommand(r, u)
  <2>1. users[u] \in Rows => [users[u] EXCEPT !.status = "active"] \in Rows
    BY DEF Rows, Statuses
  <2> QED  BY <1>2, <2>1 DEF EnableCommand, Reads
<1>3. CASE EditCommand(r, u)
  <2>1. users[u] \in Rows => [users[u] EXCEPT !.profile = TRUE] \in Rows
    BY DEF Rows
  <2> QED  BY <1>3, <2>1 DEF EditCommand, Reads
<1>4. CASE Enrols(r, u) \/ TotpVerifyCommand(r, u)
  <2>1. users[u] \in Rows => [users[u] EXCEPT !.totp = TRUE] \in Rows
    BY DEF Rows
  <2> QED  BY <1>4, <2>1 DEF TotpVerifyCommand, Enrols, Reads
<1>5. CASE TotpDisableCommand(r, u)
  <2>1. users[u] \in Rows => [users[u] EXCEPT !.totp = FALSE] \in Rows
    BY DEF Rows
  <2> QED  BY <1>5, <2>1 DEF TotpDisableCommand, Reads
<1>6. CASE ReadForLogin(r, u)
  <2>1. users[u] \in Rows => [users[u] EXCEPT !.login = TRUE] \in Rows
    BY DEF Rows
  <2> QED  BY <1>6, <2>1 DEF ReadForLogin, Reads
<1>7. CASE PatchUser(r, u)
  <2>1. PICK s \in Statuses \union {"kept"}, edited \in BOOLEAN :
          Read(r, u, [users[u] EXCEPT !.status = IF s = "kept" THEN @ ELSE s,
                                      !.profile = @ \/ edited])
    BY <1>7, ZenonT(60) DEF PatchUser
  <2>2. users[u] \in Rows => [users[u] EXCEPT !.status = IF s = "kept" THEN @ ELSE s,
                                              !.profile = @ \/ edited] \in Rows
    BY DEF Rows, Statuses
  <2> QED  BY <2>1, <2>2 DEF Reads
<1> QED  BY <1>1, <1>2, <1>3, <1>4, <1>5, <1>6, <1>7

\* The first step of a request that writes, or of one that adds to a group.
LEMMA ReadStep ==
  ASSUME Invariant, NEW r \in Requests, Going(r, "idle"), NEW u \in Ids, Reads(r, u)
  PROVE  Invariant'
<1>1. task \in [Requests -> Tasks] /\ users[u] \in Rows
  BY DEF Invariant, AccountsTypeOK, Reads, Read, Exists
<1>2. PICK row \in Rows : Read(r, u, row)
  BY <1>1 DEF Reads
<1> DEFINE t == [Idle EXCEPT !.do = "write", !.user = u, !.row = row]
<1>3. t \in Tasks /\ t.do = "write"
  BY ZenonT(60) DEF Tasks, Task, Idle
<1>4. task' = [task EXCEPT ![r] = t] /\ UNCHANGED <<tables, history, faults>>
  BY <1>2 DEF Read
<1>5. \A i \in Invitations : ~Redeems(task[r], i) /\ ~Redeems(t, i)
  BY <1>3 DEF Going, Redeems
<1>6. AccountsTypeOK'
  BY <1>1, <1>3, <1>4 DEF Invariant, AccountsTypeOK, tables, history, InvitationRows
<1>7. Uses'
  <2> HIDE DEF t
  <2> QED  BY <1>1, <1>4, <1>5, Uncounted DEF Invariant, tables, history
<1> QED  BY <1>6, <1>7 DEF Invariant

LEMMA LookUpStep ==
  ASSUME Invariant, NEW r \in Requests, Going(r, "idle"), NEW u \in Ids, NEW g \in Groups,
         LookUpMember(r, u, g)
  PROVE  Invariant'
<1> DEFINE t == [Idle EXCEPT !.do = "member", !.user = u, !.via = g]
<1>1. task \in [Requests -> Tasks]
  BY DEF Invariant, AccountsTypeOK
<1>2. t \in Tasks /\ t.do = "member"
  BY ZenonT(60) DEF Tasks, Task, Idle
<1>3. task' = [task EXCEPT ![r] = t] /\ UNCHANGED <<tables, history, faults>>
  BY DEF LookUpMember
<1>4. \A i \in Invitations : ~Redeems(task[r], i) /\ ~Redeems(t, i)
  BY <1>2 DEF Going, Redeems
<1>5. AccountsTypeOK'
  BY <1>1, <1>2, <1>3 DEF Invariant, AccountsTypeOK, tables, history
<1>6. Uses'
  <2> HIDE DEF t
  <2> QED  BY <1>1, <1>3, <1>4, Uncounted DEF Invariant, tables, history
<1> QED  BY <1>5, <1>6 DEF Invariant

\* A request that holds no redemption is answered.
LEMMA AnswerKeepsUses ==
  ASSUME Invariant, NEW r \in Requests, Answer(r), UNCHANGED <<invites, made, lost>>,
         \A i \in Invitations : ~Redeems(task[r], i)
  PROVE  Uses'
<1>1. task \in [Requests -> Tasks] /\ Uses
  BY DEF Invariant, AccountsTypeOK
<1> QED  BY <1>1, IdleTyped, Uncounted DEF Answer

LEMMA UpdateStep ==
  ASSUME Invariant, NEW r \in Requests, UpdateUser(r) \/ Refuse(r) \/ AddUserToGroup(r)
  PROVE  Invariant'
<1>1. /\ Answer(r) /\ UNCHANGED <<roles, groups, invites, history, faults>>
      /\ task[r].do \in {"write", "member"}
  BY DEF UpdateUser, Refuse, AddUserToGroup, Going, tables, history
<1>2. task' \in [Requests -> Tasks] /\ task[r] \in Tasks
  BY <1>1, IdleTyped DEF Answer, Invariant, AccountsTypeOK
<1>3. Uses'
  BY <1>1, AnswerKeepsUses DEF Redeems, history
<1>4. UpdateUser(r) => users' \in [Ids -> Rows \union {None, Gone}]
  BY <1>2, TaskShape DEF UpdateUser, Invariant, AccountsTypeOK, Going
<1>5. AddUserToGroup(r) => member' \subseteq Ids \X Groups
  <2> SUFFICES ASSUME AddUserToGroup(r) PROVE member' \subseteq Ids \X Groups
    OBVIOUS
  <2>1. task[r].user \in Ids /\ task[r].via \in Groups
    BY <1>2, TaskShape DEF AddUserToGroup, Going
  <2>2. member \subseteq Ids \X Groups
    BY DEF Invariant, AccountsTypeOK
  <2>3. member' \subseteq member \union {<<task[r].user, task[r].via>>}
    BY DEF AddUserToGroup
  <2>4. <<task[r].user, task[r].via>> \in Ids \X Groups
    BY <2>1
  <2> QED  BY <2>2, <2>3, <2>4
<1>6. /\ UpdateUser(r) \/ users' = users
      /\ AddUserToGroup(r) \/ member' = member
  BY DEF UpdateUser, Refuse, AddUserToGroup, tables
<1>7. AccountsTypeOK'
  BY <1>1, <1>2, <1>4, <1>5, <1>6 DEF Invariant, AccountsTypeOK, history, InvitationRows
<1> QED  BY <1>3, <1>7 DEF Invariant

(***************************************************************************)
(* The statements of a creation: each moves the account from one term of   *)
(* the count to another.                                                   *)
(***************************************************************************)
LEMMA AskStep ==
  ASSUME Invariant, NEW r \in Requests, Going(r, "idle"), NEW n \in Names,
         NEW role \in Roles \union RolesAsked, NEW via \in Invitations \union {None},
         via \in Invitations => IsUsable(via), Ask(r, n, role, via)
  PROVE  Invariant'
<1> DEFINE t == [Idle EXCEPT !.do = "insert", !.name = n, !.role = role, !.via = via]
<1>1. /\ task \in [Requests -> Tasks] /\ made \in [Invitations -> Nat]
      /\ lost \in [Invitations -> Nat]
      /\ \A i \in Invitations : Present(i) => invites[i].used \in Nat /\ invites[i].max \in Nat
  BY DEF Invariant, AccountsTypeOK, Present, InvitationRows
<1>2. t \in Tasks /\ t.do = "insert" /\ t.via = via
  BY ZenonT(60) DEF Tasks, Task, Idle
<1>3. task' = [task EXCEPT ![r] = t] /\ UNCHANGED <<tables, history, faults>>
  BY DEF Ask
<1>4. AccountsTypeOK'
  BY <1>1, <1>2, <1>3 DEF Invariant, AccountsTypeOK, tables, history
<1> HIDE DEF t
<1>5. ASSUME NEW i \in Invitations
      PROVE  /\ One(Redeems(task[r], i)) = 0 /\ One(Redeems(t, i)) = One(via = i)
             /\ One(Creates(task[r], i)) = 0 /\ One(Creates(t, i)) = 0
             /\ Redeems(t, i) => Present(i)
             /\ Redeems(t, i) => invites[i].used < invites[i].max
  BY <1>2 DEF Redeems, Creates, One, Going, IsUsable
<1>6. ASSUME NEW i \in Invitations
      PROVE  /\ Cardinality(Redeeming(i)') = Cardinality(Redeeming(i)) + One(via = i)
             /\ Cardinality(Creating(i)') = Cardinality(Creating(i))
             /\ Cardinality(Redeeming(i)') <= Cardinality(Requests)
             /\ Cardinality(Redeeming(i)) \in Nat /\ Cardinality(Creating(i)) \in Nat
             /\ Cardinality(Redeeming(i)') \in Nat /\ Cardinality(Requests) \in Nat
             /\ Redeeming(i) = {} /\ ~Redeems(t, i) => Redeeming(i)' = {}
  <2>1. Counted(r, t, i)
    BY <1>1, <1>3, Count
  <2> QED  BY <1>5, <2>1 DEF Counted
<1>7. NotYetUsed'
  <2> SUFFICES ASSUME NEW i \in Invitations, invites[i] = None
      PROVE  made[i] = 0 /\ lost[i] = 0 /\ Redeeming(i)' = {}
    BY <1>3 DEF NotYetUsed, tables, history
  <2>1. made[i] = 0 /\ lost[i] = 0 /\ Redeeming(i) = {}
    BY DEF Invariant, Uses, NotYetUsed
  <2>2. ~Redeems(t, i)
    BY <1>5 DEF Present
  <2> QED  BY <1>6, <2>1, <2>2
<1>8. InvitationUses'
  <2> SUFFICES ASSUME NEW i \in Invitations, Present(i)
      PROVE  /\ made[i] = invites[i].used + lost[i] + Cardinality(Creating(i)')
             /\ invites[i].used + Cardinality(Redeeming(i)')
                  < invites[i].max + Cardinality(Requests)
    BY <1>3 DEF InvitationUses, Present, tables, history
  <2>1. CASE via = i
    BY <1>1, <1>2, <1>5, <1>6, <2>1 DEF Redeems, Invariant, Uses, InvitationUses
  <2>2. CASE via # i
    BY <1>1, <1>6, <2>2 DEF One, Invariant, Uses, InvitationUses
  <2> QED  BY <2>1, <2>2
<1> QED  BY <1>4, <1>7, <1>8 DEF Invariant, Uses

LEMMA InsertStep ==
  ASSUME Invariant, NEW r \in Requests, InsertUser(r)
  PROVE  Invariant'
<1> DEFINE via == task[r].via
<1>1. /\ task \in [Requests -> Tasks] /\ made \in [Invitations -> Nat]
      /\ lost \in [Invitations -> Nat] /\ task[r] \in Tasks /\ task[r].do = "insert"
      /\ task[r].name \in Names /\ via \in Invitations \union {None}
      /\ \A i \in Invitations : Present(i) => invites[i].used \in Nat /\ invites[i].max \in Nat
  BY TaskShape DEF Invariant, AccountsTypeOK, Present, InvitationRows, InsertUser, Going
<1>2. UNCHANGED <<roles, groups, member, invites, lost, halfMade, faults>>
  BY DEF InsertUser
<1>3. CASE Answer(r) /\ UNCHANGED <<users, made>>
  <2>1. AccountsTypeOK'
    BY <1>1, <1>2, <1>3, IdleTyped DEF Invariant, AccountsTypeOK, Answer
  <2>2. ASSUME NEW i \in Invitations
        PROVE  /\ One(Creates(task[r], i)) = 0 /\ One(Creates(Idle, i)) = 0
               /\ One(Redeems(Idle, i)) = 0 /\ One(Redeems(task[r], i)) \in {0, 1}
    BY <1>1, IdleTyped DEF Creates, One
  <2>3. ASSUME NEW i \in Invitations
        PROVE  /\ Cardinality(Redeeming(i)') <= Cardinality(Redeeming(i))
               /\ Cardinality(Creating(i)') = Cardinality(Creating(i))
               /\ Cardinality(Redeeming(i)) \in Nat /\ Cardinality(Redeeming(i)') \in Nat
               /\ Cardinality(Creating(i)) \in Nat /\ Cardinality(Requests) \in Nat
               /\ Redeeming(i) = {} => Redeeming(i)' = {}
    <3>1. Counted(r, Idle, i)
      BY <1>1, <1>3, Count DEF Answer
    <3> QED  BY <2>2, <3>1, IdleTyped DEF Counted
  <2>4. NotYetUsed'
    BY <1>2, <1>3, <2>3 DEF Invariant, Uses, NotYetUsed
  <2>5. InvitationUses'
    BY <1>1, <1>2, <1>3, <2>3 DEF Invariant, Uses, InvitationUses, Present
  <2> QED  BY <2>1, <2>4, <2>5 DEF Invariant, Uses
<1>4. ASSUME NEW u \in Ids, users' = [users EXCEPT ![u] = NewRow(task[r].name)],
             task' = [task EXCEPT ![r].do = "role", ![r].user = u],
             made' = IF via \in Invitations THEN [made EXCEPT ![via] = @ + 1] ELSE made
      PROVE  Invariant'
  <2> DEFINE t == [task[r] EXCEPT !.do = "role", !.user = u]
  <2>1. task' = [task EXCEPT ![r] = t] /\ t \in Tasks /\ t.do = "role" /\ t.via = via
    <3>1. task' = [task EXCEPT ![r] = t]
      BY <1>1, <1>4
    <3>2. t \in Tasks
      BY <1>1, TaskMoves, ZenonT(60)
    <3>3. t.do = "role" /\ t.via = via
      BY <1>1, ZenonT(60) DEF Tasks, Task
    <3> QED  BY <3>1, <3>2, <3>3
  <2>2. NewRow(task[r].name) \in Rows
    BY <1>1 DEF NewRow, Rows, Statuses
  <2>3. AccountsTypeOK'
    BY <1>1, <1>2, <1>4, <2>1, <2>2 DEF Invariant, AccountsTypeOK
  <2> HIDE DEF t
  <2>4. ASSUME NEW i \in Invitations
        PROVE  /\ One(Redeems(task[r], i)) = One(via = i) /\ One(Redeems(t, i)) = One(via = i)
               /\ One(Creates(task[r], i)) = 0 /\ One(Creates(t, i)) = One(via = i)
               /\ One(via = i) \in {0, 1}
               /\ made'[i] = made[i] + One(via = i)
               /\ Redeems(t, i) => Redeems(task[r], i)
    BY <1>1, <1>4, <2>1 DEF Redeems, Creates, One
  <2>5. ASSUME NEW i \in Invitations
        PROVE  /\ Cardinality(Redeeming(i)') = Cardinality(Redeeming(i))
               /\ Cardinality(Creating(i)') = Cardinality(Creating(i)) + One(via = i)
               /\ Cardinality(Redeeming(i)) \in Nat /\ Cardinality(Creating(i)) \in Nat
               /\ Redeeming(i) = {} /\ ~Redeems(t, i) => Redeeming(i)' = {}
    <3>1. Counted(r, t, i)
      BY <1>1, <2>1, Count
    <3> QED  BY <2>4, <3>1 DEF Counted, One
  <2>6. NotYetUsed'
    <3> SUFFICES ASSUME NEW i \in Invitations, invites[i] = None
        PROVE  made'[i] = 0 /\ lost[i] = 0 /\ Redeeming(i)' = {}
      BY <1>2 DEF NotYetUsed
    <3>1. made[i] = 0 /\ lost[i] = 0 /\ Redeeming(i) = {}
      BY DEF Invariant, Uses, NotYetUsed
    <3>2. ~Redeems(task[r], i)
      BY <3>1 DEF Redeeming, Redeems
    <3>3. ~Redeems(t, i) /\ via # i
      BY <3>2, <1>1, <2>4 DEF Redeems
    <3> QED  BY <2>4, <2>5, <3>1, <3>3 DEF One
  <2>7. InvitationUses'
    <3> SUFFICES ASSUME NEW i \in Invitations, Present(i)
        PROVE  /\ made'[i] = invites[i].used + lost[i] + Cardinality(Creating(i)')
               /\ invites[i].used + Cardinality(Redeeming(i)')
                    < invites[i].max + Cardinality(Requests)
      BY <1>2 DEF InvitationUses, Present
    <3>1. /\ made[i] = invites[i].used + lost[i] + Cardinality(Creating(i))
          /\ invites[i].used + Cardinality(Redeeming(i))
                    < invites[i].max + Cardinality(Requests)
      BY DEF Invariant, Uses, InvitationUses
    <3> QED  BY <1>1, <2>4, <2>5, <3>1
  <2> QED  BY <2>3, <2>6, <2>7 DEF Invariant, Uses
<1> QED  BY <1>3, <1>4 DEF InsertUser

LEMMA UnfinishedStep ==
  ASSUME Invariant, NEW r \in Requests, Unfinished(r), Answer(r), UNCHANGED invites
  PROVE  /\ Uses' /\ lost' \in [Invitations -> Nat] /\ halfMade' \subseteq Ids
         /\ made' = made /\ task' \in [Requests -> Tasks]
<1>1. /\ task \in [Requests -> Tasks] /\ task[r] \in Tasks /\ made \in [Invitations -> Nat]
      /\ lost \in [Invitations -> Nat] /\ halfMade \subseteq Ids
      /\ \A i \in Invitations : Present(i) => invites[i].used \in Nat /\ invites[i].max \in Nat
  BY DEF Invariant, AccountsTypeOK, Present, InvitationRows
<1>2. /\ lost' \in [Invitations -> Nat]
      /\ \A i \in Invitations : lost'[i] = lost[i] + One(Creates(task[r], i))
  <2>1. \A i \in Invitations : Creates(task[r], i) <=>
          task[r].via = i /\ (Going(r, "role") \/ Going(r, "record"))
    BY DEF Creates, Redeems, Going
  <2>2. CASE (Going(r, "role") \/ Going(r, "record")) /\ task[r].via \in Invitations
    BY <1>1, <2>1, <2>2 DEF Unfinished, One
  <2>3. CASE ~((Going(r, "role") \/ Going(r, "record")) /\ task[r].via \in Invitations)
    BY <1>1, <2>1, <2>3 DEF Unfinished, One
  <2> QED  BY <2>2, <2>3
<1>3. ASSUME NEW i \in Invitations
      PROVE  /\ Cardinality(Redeeming(i)') <= Cardinality(Redeeming(i))
             /\ Cardinality(Creating(i)') = Cardinality(Creating(i)) - One(Creates(task[r], i))
             /\ Cardinality(Redeeming(i)) \in Nat /\ Cardinality(Creating(i)) \in Nat
             /\ Cardinality(Redeeming(i)') \in Nat /\ Cardinality(Requests) \in Nat
             /\ Redeeming(i) = {} => Redeeming(i)' = {} /\ ~Creates(task[r], i)
  <2>1. Counted(r, Idle, i)
    BY <1>1, Count DEF Answer
  <2>2. One(Creates(Idle, i)) = 0 /\ One(Redeems(Idle, i)) = 0 /\ ~Redeems(Idle, i)
    BY IdleTyped DEF Creates, One
  <2>3. One(Redeems(task[r], i)) \in {0, 1} /\ One(Creates(task[r], i)) \in {0, 1}
    BY DEF One
  <2>4. Redeeming(i) = {} => ~Creates(task[r], i)
    BY DEF Redeeming, Creates, Redeems
  <2> QED  BY <2>1, <2>2, <2>3, <2>4 DEF Counted
<1>4. made' = made
  BY DEF Unfinished
<1>5. NotYetUsed'
  BY <1>2, <1>3, <1>4 DEF Invariant, Uses, NotYetUsed, One
<1>6. InvitationUses'
  <2> SUFFICES ASSUME NEW i \in Invitations, Present(i)
      PROVE  /\ made[i] = invites[i].used + lost'[i] + Cardinality(Creating(i)')
             /\ invites[i].used + Cardinality(Redeeming(i)')
                  < invites[i].max + Cardinality(Requests)
    BY <1>4 DEF InvitationUses, Present
  <2>1. One(Creates(task[r], i)) \in {0, 1}
    BY DEF One
  <2> QED  BY <1>1, <1>2, <1>3, <2>1 DEF Invariant, Uses, InvitationUses
<1>7. halfMade' \subseteq Ids
  <2>1. Going(r, "role") => task[r].user \in Ids
    BY <1>1, TaskShape DEF Going
  <2> QED  BY <1>1, <2>1 DEF Unfinished
<1>8. task' \in [Requests -> Tasks]
  BY <1>1, IdleTyped DEF Answer
<1> QED  BY <1>2, <1>4, <1>5, <1>6, <1>7, <1>8 DEF Uses

LEMMA StopStep ==
  ASSUME Invariant, NEW r \in Requests, Stop(r)
  PROVE  Invariant'
<1>1. /\ Unfinished(r) /\ Answer(r) /\ UNCHANGED tables /\ faults < MaxFaults
      /\ faults' = faults + 1
  BY DEF Stop
<1>2. /\ Uses' /\ lost' \in [Invitations -> Nat] /\ halfMade' \subseteq Ids
      /\ made' = made /\ task' \in [Requests -> Tasks]
  BY <1>1, UnfinishedStep DEF tables
<1> QED  BY <1>1, <1>2, AccountsAssumption DEF Invariant, AccountsTypeOK, tables

LEMMA AssignStep ==
  ASSUME Invariant, NEW r \in Requests, AssignRole(r)
  PROVE  Invariant'
<1> DEFINE via == task[r].via
           t == [task[r] EXCEPT !.do = "record"]
<1>1. /\ task \in [Requests -> Tasks] /\ task[r] \in Tasks /\ task[r].do = "role"
      /\ task[r].user \in Ids /\ via \in Invitations \union {None}
      /\ None \notin Invitations
  <2>1. task[r].do = "role"
    BY DEF AssignRole, Going
  <2>2. task \in [Requests -> Tasks] /\ task[r] \in Tasks
    BY DEF Invariant, AccountsTypeOK
  <2>3. task[r].user \in Ids /\ via \in Invitations \union {None}
    BY <2>1, <2>2, TaskShape
  <2> QED  BY <2>1, <2>2, <2>3, AccountsAssumption
<1>2. UNCHANGED <<users, groups, member, invites, faults>>
  BY DEF AssignRole
<1>3. CASE Unfinished(r) /\ Answer(r) /\ UNCHANGED roles
  <2>1. /\ Uses' /\ lost' \in [Invitations -> Nat] /\ halfMade' \subseteq Ids
        /\ made' = made /\ task' \in [Requests -> Tasks]
    BY <1>2, <1>3, UnfinishedStep
  <2> QED  BY <1>2, <1>3, <2>1 DEF Invariant, AccountsTypeOK, InvitationRows
<1>4. CASE /\ task[r].role \in Roles
           /\ roles' = [roles EXCEPT ![task[r].user] = @ \union {task[r].role}]
           /\ task' = [task EXCEPT ![r] = IF via = None THEN Idle ELSE t]
           /\ UNCHANGED history
  <2>1. roles' \in [Ids -> SUBSET Roles]
    BY <1>1, <1>4 DEF Invariant, AccountsTypeOK
  <2>2. CASE via = None
    <3>1. task' = [task EXCEPT ![r] = Idle] /\ \A i \in Invitations : ~Redeems(task[r], i)
      BY <1>1, <1>4, <2>2 DEF Redeems
    <3>2. Uses'
      BY <1>1, <1>2, <1>4, <3>1, AnswerKeepsUses DEF Answer, history
    <3>3. task' \in [Requests -> Tasks]
      BY <1>1, <3>1, IdleTyped
    <3> QED  BY <1>2, <1>4, <2>1, <3>2, <3>3 DEF Invariant, AccountsTypeOK, history, InvitationRows
  <2>3. CASE via # None
    <3>1. task' = [task EXCEPT ![r] = t]
      BY <1>4, <2>3
    <3>2. t \in Tasks
      BY <1>1, <2>3, TaskMoves, ZenonT(60)
    <3>3. t.do = "record" /\ t.via = via
      BY <1>1, ZenonT(60) DEF Tasks, Task
    <3>4. AccountsTypeOK'
      BY <1>1, <1>2, <1>4, <2>1, <3>1, <3>2 DEF Invariant, AccountsTypeOK, history, InvitationRows
    <3> HIDE DEF t
    <3>5. ASSUME NEW i \in Invitations
          PROVE  /\ Cardinality(Redeeming(i)') = Cardinality(Redeeming(i))
                 /\ Cardinality(Creating(i)') = Cardinality(Creating(i))
                 /\ Redeeming(i) = {} => Redeeming(i)' = {}
      <4>1. Counted(r, t, i)
        BY <1>1, <3>1, Count
      <4>2. /\ One(Redeems(task[r], i)) = One(Redeems(t, i))
            /\ One(Creates(task[r], i)) = One(Creates(t, i))
            /\ One(Redeems(t, i)) \in {0, 1} /\ One(Creates(t, i)) \in {0, 1}
            /\ Redeeming(i) = {} => ~Redeems(t, i)
        BY <1>1, <3>3 DEF One, Redeems, Creates, Redeeming
      <4> QED  BY <4>1, <4>2 DEF Counted
    <3>6. Uses'
      BY <1>2, <1>4, <3>5 DEF Invariant, Uses, NotYetUsed, InvitationUses, Present, history
    <3> QED  BY <3>4, <3>6 DEF Invariant
  <2> QED  BY <2>2, <2>3
<1> QED  BY <1>3, <1>4 DEF AssignRole

LEMMA RecordStep ==
  ASSUME Invariant, NEW r \in Requests, RecordUse(r)
  PROVE  Invariant'
<1> DEFINE via == task[r].via
<1>1. /\ task \in [Requests -> Tasks] /\ task[r] \in Tasks /\ task[r].do = "record"
      /\ via \in Invitations /\ lost \in [Invitations -> Nat] /\ made \in [Invitations -> Nat]
      /\ invites \in [Invitations -> InvitationRows \union {None, Gone}]
      /\ {None, Gone} \intersect InvitationRows = {}
  BY TaskShape, AccountsAssumption DEF Invariant, AccountsTypeOK, RecordUse, Going
<1>2. UNCHANGED <<users, roles, groups, member, faults>> /\ Answer(r)
  BY DEF RecordUse
<1>3. CASE Unfinished(r) /\ UNCHANGED invites
  <2>1. /\ Uses' /\ lost' \in [Invitations -> Nat] /\ halfMade' \subseteq Ids
        /\ made' = made /\ task' \in [Requests -> Tasks]
    BY <1>2, <1>3, UnfinishedStep
  <2> QED  BY <1>2, <1>3, <2>1 DEF Invariant, AccountsTypeOK, InvitationRows
<1>4. CASE /\ invites' = IF Present(via) THEN [invites EXCEPT ![via].used = @ + 1] ELSE invites
           /\ UNCHANGED history
  <2>1. /\ invites' \in [Invitations -> InvitationRows \union {None, Gone}]
        /\ \A i \in Invitations : (invites'[i] = None) = (invites[i] = None)
        /\ \A i \in Invitations : Present(i) => invites'[i].max = invites[i].max
        /\ \A i \in Invitations : Present(i)' => Present(i)
    BY <1>1, <1>4 DEF Present, InvitationRows
  <2>2. \A i \in Invitations : Present(i) => invites'[i].used = invites[i].used + One(via = i)
    BY <1>1, <1>4 DEF Present, InvitationRows, One
  <2>3. task' \in [Requests -> Tasks]
    BY <1>1, <1>2, IdleTyped DEF Answer
  <2>4. AccountsTypeOK'
    BY <1>2, <1>4, <2>1, <2>3 DEF Invariant, AccountsTypeOK, history
  <2>5. ASSUME NEW i \in Invitations
        PROVE  /\ Cardinality(Redeeming(i)') = Cardinality(Redeeming(i)) - One(via = i)
               /\ Cardinality(Creating(i)') = Cardinality(Creating(i)) - One(via = i)
               /\ Cardinality(Redeeming(i)) \in Nat /\ Cardinality(Creating(i)) \in Nat
               /\ Cardinality(Requests) \in Nat /\ One(via = i) \in {0, 1}
               /\ Redeeming(i) = {} => Redeeming(i)' = {}
    <3>1. Counted(r, Idle, i)
      BY <1>1, <1>2, Count DEF Answer
    <3>2. /\ One(Creates(Idle, i)) = 0 /\ One(Redeems(Idle, i)) = 0 /\ ~Redeems(Idle, i)
          /\ One(Redeems(task[r], i)) = One(via = i) /\ One(Creates(task[r], i)) = One(via = i)
          /\ One(via = i) \in {0, 1}
      BY <1>1, IdleTyped DEF Creates, Redeems, One
    <3> QED  BY <3>1, <3>2 DEF Counted
  <2>6. NotYetUsed'
    BY <1>4, <2>1, <2>5 DEF Invariant, Uses, NotYetUsed, history
  <2>7. InvitationUses'
    <3> SUFFICES ASSUME NEW i \in Invitations, Present(i)
        PROVE  /\ made[i] = invites'[i].used + lost[i] + Cardinality(Creating(i)')
               /\ invites'[i].used + Cardinality(Redeeming(i)')
                    < invites'[i].max + Cardinality(Requests)
      BY <1>4, <2>1 DEF InvitationUses, history
    <3>1. invites[i].used \in Nat /\ invites[i].max \in Nat
      BY <1>1 DEF Present, InvitationRows
    <3>2. /\ made[i] = invites[i].used + lost[i] + Cardinality(Creating(i))
          /\ invites[i].used + Cardinality(Redeeming(i))
                    < invites[i].max + Cardinality(Requests)
      BY DEF Invariant, Uses, InvitationUses
    <3> QED  BY <1>1, <2>1, <2>2, <2>5, <3>1, <3>2
  <2> QED  BY <2>4, <2>6, <2>7 DEF Invariant, Uses
<1> QED  BY <1>3, <1>4 DEF RecordUse

(***************************************************************************)
(* Steps that are one statement.                                           *)
(***************************************************************************)
LEMMA DeleteStep ==
  ASSUME Invariant, NEW u \in Ids, DeleteUser(u)
  PROVE  Invariant'
<1>1. /\ users' = [users EXCEPT ![u] = Gone] /\ roles' = [roles EXCEPT ![u] = {}]
      /\ member' \subseteq member
      /\ UNCHANGED <<groups, task, history, faults>>
      /\ invites' = [i \in Invitations |->
                       IF Present(i) /\ invites[i].by = u THEN Gone ELSE invites[i]]
  BY DEF DeleteUser
<1>2. invites \in [Invitations -> InvitationRows \union {None, Gone}]
  BY DEF Invariant, AccountsTypeOK
<1>3. /\ invites' \in [Invitations -> InvitationRows \union {None, Gone}]
      /\ \A i \in Invitations : Present(i)' => Present(i) /\ invites'[i] = invites[i]
      /\ \A i \in Invitations : invites'[i] = None => invites[i] = None \/ Gone = None
  BY <1>1, <1>2 DEF Present
<1>4. AccountsTypeOK'
  BY <1>1, <1>3 DEF Invariant, AccountsTypeOK, history
<1>5. \A i \in Invitations : Redeeming(i)' = Redeeming(i) /\ Creating(i)' = Creating(i)
  BY <1>1 DEF Redeeming, Creating
<1>6. Uses'
  BY <1>1, <1>3, <1>5, AccountsAssumption DEF Invariant, Uses, NotYetUsed, InvitationUses, history
<1> QED  BY <1>4, <1>6 DEF Invariant

LEMMA GroupStep ==
  ASSUME Invariant, NEW g \in Groups, CreateGroup(g)
  PROVE  Invariant'
<1>1. /\ groups' = groups \union {g}
      /\ UNCHANGED <<users, roles, member, invites, task, history, faults>>
  BY DEF CreateGroup
<1>2. AccountsTypeOK'
  BY <1>1 DEF Invariant, AccountsTypeOK, history
<1>3. Uses'
  BY <1>1 DEF Invariant, Uses, NotYetUsed, InvitationUses, Present, Redeeming, Creating, history
<1> QED  BY <1>2, <1>3 DEF Invariant

LEMMA InviteStep ==
  ASSUME Invariant, NEW u \in Ids, CreateInvitation(u)
  PROVE  Invariant'
<1>1. PICK i \in Invitations, role \in RolesAsked \intersect Roles, max \in 1 .. MaxUses :
        /\ invites[i] = None
        /\ invites' = [invites EXCEPT ![i] =
                         [by |-> u, role |-> role, max |-> max, used |-> 0, open |-> TRUE]]
  BY DEF CreateInvitation
<1>2. UNCHANGED <<users, roles, groups, member, task, history, faults>>
  BY DEF CreateInvitation
<1>3. /\ invites \in [Invitations -> InvitationRows \union {None, Gone}]
      /\ max \in Nat /\ max >= 1
  BY AccountsAssumption DEF Invariant, AccountsTypeOK
<1>4. [by |-> u, role |-> role, max |-> max, used |-> 0, open |-> TRUE] \in InvitationRows
  BY <1>3 DEF InvitationRows
<1>5. invites' \in [Invitations -> InvitationRows \union {None, Gone}]
  BY <1>1, <1>3, <1>4
<1>6. AccountsTypeOK'
  BY <1>2, <1>5 DEF Invariant, AccountsTypeOK, history
<1>7. \A j \in Invitations : Redeeming(j)' = Redeeming(j) /\ Creating(j)' = Creating(j)
  BY <1>2 DEF Redeeming, Creating
<1>8. NotYetUsed'
  <2> SUFFICES ASSUME NEW j \in Invitations, invites'[j] = None
      PROVE  made'[j] = 0 /\ lost'[j] = 0 /\ Redeeming(j)' = {}
    BY DEF NotYetUsed
  <2>1. invites[j] = None
    BY <1>1, <1>3
  <2> QED  BY <1>2, <1>7, <2>1 DEF Invariant, Uses, NotYetUsed, history
<1>9. InvitationUses'
  <2> SUFFICES ASSUME NEW j \in Invitations, Present(j)'
      PROVE  /\ made[j] = invites'[j].used + lost[j] + Cardinality(Creating(j))
             /\ invites'[j].used + Cardinality(Redeeming(j))
                  < invites'[j].max + Cardinality(Requests)
    BY <1>2, <1>7 DEF InvitationUses, history
  <2>1. CASE j = i
    <3>1. made[i] = 0 /\ lost[i] = 0 /\ Redeeming(i) = {} /\ Creating(i) = {}
      BY <1>1 DEF Invariant, Uses, NotYetUsed, Creating
    <3>2. Cardinality({}) = 0 /\ Cardinality(Requests) \in Nat
      BY FS_EmptySet, SubsetCount
    <3>3. invites'[i].used = 0 /\ invites'[i].max = max
      BY <1>1, <1>3
    <3> QED  BY <1>3, <2>1, <3>1, <3>2, <3>3
  <2>2. CASE j # i
    <3>1. Present(j) /\ invites'[j] = invites[j]
      BY <1>1, <1>3, <2>2 DEF Present
    <3> QED  BY <3>1 DEF Invariant, Uses, InvitationUses
  <2> QED  BY <2>1, <2>2
<1> QED  BY <1>6, <1>8, <1>9 DEF Invariant, Uses

LEMMA RevokeStep ==
  ASSUME Invariant, NEW i \in Invitations, RevokeInvitation(i)
  PROVE  Invariant'
<1>1. /\ Present(i) /\ invites' = [invites EXCEPT ![i].open = FALSE]
      /\ UNCHANGED <<users, roles, groups, member, task, history, faults>>
  BY DEF RevokeInvitation
<1>2. /\ invites \in [Invitations -> InvitationRows \union {None, Gone}]
      /\ {None, Gone} \intersect InvitationRows = {}
  BY AccountsAssumption DEF Invariant, AccountsTypeOK
<1>3. /\ invites' \in [Invitations -> InvitationRows \union {None, Gone}]
      /\ \A j \in Invitations :
           /\ Present(j)' => /\ Present(j) /\ invites'[j].used = invites[j].used
                            /\ invites'[j].max = invites[j].max
           /\ invites'[j] = None => invites[j] = None
  <2>1. invites[i] \in InvitationRows
    BY <1>1, <1>2 DEF Present
  <2>2. /\ [invites[i] EXCEPT !.open = FALSE] \in InvitationRows
        /\ [invites[i] EXCEPT !.open = FALSE].used = invites[i].used
        /\ [invites[i] EXCEPT !.open = FALSE].max = invites[i].max
    BY <2>1 DEF InvitationRows
  <2>3. /\ invites'[i] = [invites[i] EXCEPT !.open = FALSE]
        /\ \A j \in Invitations \ {i} : invites'[j] = invites[j]
        /\ invites' \in [Invitations -> InvitationRows \union {None, Gone}]
    BY <1>1, <1>2, <2>2
  <2> QED  BY <1>1, <1>2, <2>2, <2>3 DEF Present
<1>4. AccountsTypeOK'
  BY <1>1, <1>3 DEF Invariant, AccountsTypeOK, history
<1>5. \A j \in Invitations : Redeeming(j)' = Redeeming(j) /\ Creating(j)' = Creating(j)
  BY <1>1 DEF Redeeming, Creating
<1>6. Uses'
  BY <1>1, <1>3, <1>5 DEF Invariant, Uses, NotYetUsed, InvitationUses, history
<1> QED  BY <1>4, <1>6 DEF Invariant

(***************************************************************************)
(* The specification.                                                      *)
(***************************************************************************)
LEMMA InitStep == AccountsInit => Invariant
<1> SUFFICES ASSUME AccountsInit PROVE Invariant
  OBVIOUS
<1>1. /\ users \in [Ids -> Rows \union {None}] /\ roles \in [Ids -> SUBSET Roles]
      /\ groups = {} /\ member = {} /\ task = [r \in Requests |-> Idle]
      /\ made = [i \in Invitations |-> 0] /\ lost = [i \in Invitations |-> 0]
      /\ halfMade = {} /\ faults = 0
      /\ invites \in [Invitations ->
           [by : Ids, role : Roles, max : 1 .. MaxUses, used : {0}, open : {TRUE}] \union {None}]
  BY DEF AccountsInit
<1> DEFINE Unused == [by : Ids, role : Roles, max : 1 .. MaxUses, used : {0}, open : {TRUE}]
<1>2. ASSUME NEW x \in Unused
      PROVE  x \in InvitationRows /\ x.used = 0 /\ x.max \in Nat /\ x.max >= 1
  <2>1. MaxUses \in Nat
    BY AccountsAssumption
  <2>2. 1 .. MaxUses \subseteq Nat /\ \A k \in 1 .. MaxUses : k >= 1
    BY <2>1
  <2>3. x.by \in Ids /\ x.role \in Roles /\ x.max \in 1 .. MaxUses /\ x.used = 0 /\ x.open = TRUE
    BY <1>2
  <2>4. x \in InvitationRows
    <3>1. PICK b \in Ids, role \in Roles, k \in 1 .. MaxUses :
            x = [by |-> b, role |-> role, max |-> k, used |-> 0, open |-> TRUE]
      BY <1>2, <2>3
    <3> QED  BY <2>2, <3>1 DEF InvitationRows
  <2> QED  BY <2>2, <2>3, <2>4
<1> HIDE DEF Unused
<1>3. AccountsTypeOK
  <2>1. invites \in [Invitations -> InvitationRows \union {None, Gone}]
    BY <1>1, <1>2 DEF Unused
  <2>2. faults \in 0 .. MaxFaults
    BY <1>1, AccountsAssumption
  <2>3. task \in [Requests -> Tasks]
    BY <1>1, IdleTyped
  <2>4. made \in [Invitations -> Nat] /\ lost \in [Invitations -> Nat]
    BY <1>1
  <2>5. /\ users \in [Ids -> Rows \union {None, Gone}] /\ roles \in [Ids -> SUBSET Roles]
        /\ groups \subseteq Groups /\ member \subseteq Ids \X Groups /\ halfMade \subseteq Ids
    BY <1>1
  <2> QED  BY <2>1, <2>2, <2>3, <2>4, <2>5 DEF AccountsTypeOK
<1>4. \A i \in Invitations : Redeeming(i) = {} /\ Creating(i) = {}
  BY <1>1, ZenonT(60) DEF Redeeming, Creating, Idle
<1>5. NotYetUsed
  BY <1>1, <1>4 DEF NotYetUsed
<1>6. InvitationUses
  <2> SUFFICES ASSUME NEW i \in Invitations, Present(i)
      PROVE  /\ made[i] = invites[i].used + lost[i] + Cardinality(Creating(i))
             /\ invites[i].used + Cardinality(Redeeming(i))
                  < invites[i].max + Cardinality(Requests)
    BY DEF InvitationUses
  <2>1. invites[i].used = 0 /\ invites[i].max \in Nat /\ invites[i].max >= 1
    <3>1. invites[i] \in Unused
      BY <1>1 DEF Unused, Present
    <3> QED  BY <3>1, <1>2
  <2>2. Cardinality({}) = 0 /\ Cardinality(Requests) \in Nat
    BY FS_EmptySet, SubsetCount
  <2>3. made[i] = 0 /\ lost[i] = 0 /\ Cardinality(Requests) >= 0
    BY <1>1, <2>2
  <2> QED  BY <1>4, <2>1, <2>2, <2>3
<1> QED  BY <1>3, <1>5, <1>6 DEF Invariant, Uses

LEMMA RequestStep ==
  ASSUME Invariant, NEW r \in Requests, Going(r, "idle"),
         Command(r) \/ (\E u \in Ids : AdminRequest(r, u) \/ ReadForLogin(r, u))
  PROVE  Invariant'
<1>1. ASSUME NEW u \in Ids, \/ DisableCommand(r, u) \/ EnableCommand(r, u)
                            \/ EditCommand(r, u) \/ TotpVerifyCommand(r, u)
                            \/ TotpDisableCommand(r, u) \/ PatchUser(r, u)
                            \/ ReadForLogin(r, u)
      PROVE  Invariant'
  BY <1>1, EditsRead, ReadStep
<1>2. ASSUME CreateUserRequest(r) \/ CreateUserCommand(r) \/ AdminCreateCommand(r)
      PROVE  Invariant'
  <2>1. PICK n \in Names, role \in Roles \union RolesAsked : Ask(r, n, role, None)
    BY <1>2 DEF CreateUserRequest, CreateUserCommand, AdminCreateCommand, Roles
  <2> QED  BY <2>1, AskStep, AccountsAssumption
<1>3. ASSUME NEW u \in Ids, DeleteUserRequest(u) \/ DeleteUserCommand
      PROVE  Invariant'
  BY <1>3, DeleteStep DEF DeleteUserRequest, DeleteUserCommand
<1>4. ASSUME DeleteUserCommand \/ CreateGroupRequest \/ CreateGroupCommand
      PROVE  Invariant'
  BY <1>4, DeleteStep, GroupStep DEF DeleteUserCommand, CreateGroupRequest, CreateGroupCommand
<1>5. ASSUME AddGroupMember(r) \/ AddMemberCommand(r)
      PROVE  Invariant'
  BY <1>5, LookUpStep DEF AddGroupMember, AddMemberCommand
<1>6. ASSUME NEW u \in Ids, CreateInvitationRequest(u)
      PROVE  Invariant'
  BY <1>6, InviteStep DEF CreateInvitationRequest
<1>7. ASSUME CreateInvitationCommand \/ RevokeInvitationRequest \/ RevokeInvitationCommand
      PROVE  Invariant'
  BY <1>7, InviteStep, RevokeStep
     DEF CreateInvitationCommand, RevokeInvitationRequest, RevokeInvitationCommand
<1> QED  BY <1>1, <1>2, <1>3, <1>4, <1>5, <1>6, <1>7 DEF Command, AdminRequest

LEMMA NextStep == Invariant /\ [AccountsNext]_accountVars => Invariant'
<1> SUFFICES ASSUME Invariant, [AccountsNext]_accountVars PROVE Invariant'
  OBVIOUS
<1>1. ASSUME NEW r \in Requests, Redeem(r), Going(r, "idle")
      PROVE  Invariant'
  <2>1. PICK i \in Invitations, n \in Names : IsUsable(i) /\ Ask(r, n, invites[i].role, i)
    BY <1>1 DEF Redeem
  <2>2. invites[i] \in InvitationRows
    BY <2>1 DEF IsUsable, Present, Invariant, AccountsTypeOK
  <2>3. invites[i].role \in Roles \union RolesAsked
    BY <2>2 DEF InvitationRows
  <2> QED  BY <1>1, <2>1, <2>3, AskStep
<1>2. ASSUME NEW r \in Requests,
             AccountStep(r) \/ UpdateUser(r) \/ Refuse(r) \/ Stop(r)
      PROVE  Invariant'
  BY <1>2, InsertStep, AssignStep, RecordStep, UpdateStep, StopStep DEF AccountStep
<1>3. CASE UNCHANGED accountVars
  BY <1>3, ZenonT(60) DEF accountVars, Invariant, Uses, AccountsTypeOK, NotYetUsed, InvitationUses,
              Present, Redeeming, Creating
<1> QED  BY <1>1, <1>2, <1>3, RequestStep, RevokeStep DEF AccountsNext

(***************************************************************************)
(* Rights and the accounts they belong to.                                 *)
(***************************************************************************)
Kept == \A u \in Ids : Exists(u) => Exists(u)'

\* Nobody is deleted, and rights are given only to accounts that are there.
LEMMA NobodyGoes ==
  ASSUME Invariant, RightsOwned, Kept, UNCHANGED <<roles, member, invites>>
  PROVE  RightsOwned'
<1>1. /\ invites \in [Invitations -> InvitationRows \union {None, Gone}]
      /\ member \subseteq Ids \X Groups
  BY DEF Invariant, AccountsTypeOK
<1>2. \A i \in Invitations : Present(i) => invites[i].by \in Ids
  BY <1>1 DEF Present, InvitationRows
<1> QED  BY <1>1, <1>2 DEF RightsOwned, Kept, Present

LEMMA QuietKeeps ==
  ASSUME Invariant, RightsOwned, NEW r \in Requests,
         \/ \E u \in Ids : Reads(r, u)
         \/ \E u \in Ids, g \in Groups : LookUpMember(r, u, g)
         \/ \E n, role, via : Ask(r, n, role, via)
         \/ Refuse(r) \/ Stop(r)
         \/ \E g \in Groups : CreateGroup(g)
  PROVE  Kept /\ RightsOwned'
<1>1. UNCHANGED <<users, roles, member, invites>>
  BY ZenonT(60) DEF Reads, Read, LookUpMember, Ask, Refuse, Stop, CreateGroup, tables
<1>2. Kept
  BY <1>1 DEF Kept, Exists
<1> QED  BY <1>1, <1>2, NobodyGoes

LEMMA UpdateKeeps ==
  ASSUME Invariant, RightsOwned, NEW r \in Requests, UpdateUser(r)
  PROVE  Kept /\ RightsOwned'
<1>1. task[r] \in Tasks /\ task[r].do = "write" /\ users \in [Ids -> Rows \union {None, Gone}]
  BY DEF UpdateUser, Going, Invariant, AccountsTypeOK
<1>2. task[r].row \in Rows
  BY <1>1, TaskShape
<1>3. Kept
  BY <1>1, <1>2, AccountsAssumption DEF UpdateUser, Kept, Exists
<1> QED  BY <1>3, NobodyGoes DEF UpdateUser

LEMMA InsertKeeps ==
  ASSUME Invariant, RightsOwned, NEW r \in Requests, InsertUser(r)
  PROVE  Kept /\ RightsOwned'
<1>1. /\ task[r] \in Tasks /\ task[r].do = "insert" /\ users \in [Ids -> Rows \union {None, Gone}]
      /\ UNCHANGED <<roles, member, invites>>
  BY DEF InsertUser, Going, Invariant, AccountsTypeOK
<1>2. NewRow(task[r].name) \in Rows
  BY <1>1, TaskShape DEF NewRow, Rows, Statuses
<1>3. Kept
  BY <1>1, <1>2, AccountsAssumption DEF InsertUser, Kept, Exists
<1> QED  BY <1>1, <1>3, NobodyGoes

LEMMA AssignKeeps ==
  ASSUME Invariant, RightsOwned, NEW r \in Requests, AssignRole(r)
  PROVE  Kept /\ RightsOwned'
<1>1. /\ UNCHANGED <<users, member, invites>> /\ roles \in [Ids -> SUBSET Roles]
      /\ \/ UNCHANGED roles
         \/ /\ Exists(task[r].user)
            /\ roles' = [roles EXCEPT ![task[r].user] = @ \union {task[r].role}]
  BY DEF AssignRole, Invariant, AccountsTypeOK
<1>2. Kept
  BY <1>1 DEF Kept, Exists
<1> QED  BY <1>1, <1>2 DEF RightsOwned, Present, Exists

LEMMA RecordKeeps ==
  ASSUME Invariant, RightsOwned, NEW r \in Requests, RecordUse(r)
  PROVE  Kept /\ RightsOwned'
<1>1. /\ UNCHANGED <<users, roles, member>>
      /\ invites \in [Invitations -> InvitationRows \union {None, Gone}]
      /\ \/ UNCHANGED invites
         \/ /\ Present(task[r].via)
            /\ invites' = [invites EXCEPT ![task[r].via].used = @ + 1]
  BY DEF RecordUse, Invariant, AccountsTypeOK
<1>2. \A i \in Invitations : Present(i)' => Present(i) /\ invites'[i].by = invites[i].by
  BY <1>1 DEF Present, InvitationRows
<1> QED  BY <1>1, <1>2 DEF RightsOwned, Kept, Exists

LEMMA MemberKeeps ==
  ASSUME Invariant, RightsOwned, NEW r \in Requests, AddUserToGroup(r)
  PROVE  Kept /\ RightsOwned'
<1>1. /\ UNCHANGED <<users, roles, invites>>
      /\ \A m \in member' : m \in member \/ (m = <<task[r].user, task[r].via>> /\ Exists(task[r].user))
  BY DEF AddUserToGroup
<1> QED  BY <1>1 DEF RightsOwned, Kept, Present, Exists

LEMMA InviteKeeps ==
  ASSUME Invariant, RightsOwned, NEW u \in Ids, CreateInvitation(u)
  PROVE  Kept /\ RightsOwned'
<1>1. /\ Exists(u) /\ UNCHANGED <<users, roles, member>>
      /\ \A i \in Invitations : invites'[i] = invites[i] \/ invites'[i].by = u
  BY DEF CreateInvitation, Invariant, AccountsTypeOK
<1> QED  BY <1>1 DEF RightsOwned, Kept, Present, Exists

LEMMA RevokeKeeps ==
  ASSUME Invariant, RightsOwned, NEW i \in Invitations, RevokeInvitation(i)
  PROVE  Kept /\ RightsOwned'
<1>1. /\ UNCHANGED <<users, roles, member>> /\ Present(i)
      /\ invites' = [invites EXCEPT ![i].open = FALSE]
      /\ invites \in [Invitations -> InvitationRows \union {None, Gone}]
  BY DEF RevokeInvitation, Invariant, AccountsTypeOK
<1>2. \A j \in Invitations : Present(j)' => Present(j) /\ invites'[j].by = invites[j].by
  BY <1>1 DEF Present, InvitationRows
<1> QED  BY <1>1, <1>2 DEF RightsOwned, Kept, Exists

\* A deletion takes everything of its account and nothing else.
LEMMA DeleteOwned ==
  ASSUME Invariant, RightsOwned, NEW u \in Ids, DeleteUser(u)
  PROVE  /\ RightsOwned' /\ users'[u] = Gone
         /\ \A v \in Ids \ {u} : users'[v] = users[v]
<1>1. /\ users' = [users EXCEPT ![u] = Gone] /\ roles' = [roles EXCEPT ![u] = {}]
      /\ member' = {m \in member : m[1] # u}
      /\ invites' = [i \in Invitations |->
                       IF Present(i) /\ invites[i].by = u THEN Gone ELSE invites[i]]
      /\ users \in [Ids -> Rows \union {None, Gone}] /\ roles \in [Ids -> SUBSET Roles]
      /\ member \subseteq Ids \X Groups
      /\ invites \in [Invitations -> InvitationRows \union {None, Gone}]
  BY DEF DeleteUser, Invariant, AccountsTypeOK
<1>2. users'[u] = Gone /\ \A v \in Ids \ {u} : users'[v] = users[v]
  BY <1>1
<1>3. \A i \in Invitations : Present(i)' => /\ Present(i) /\ invites'[i] = invites[i]
                                           /\ invites[i].by \in Ids \ {u}
  BY <1>1 DEF Present, InvitationRows
<1>4. \A i \in Invitations : Present(i)' => Exists(invites[i].by)'
  BY <1>2, <1>3 DEF RightsOwned, Exists
<1>5. \A v \in Ids : roles'[v] # {} => Exists(v)'
  BY <1>1, <1>2 DEF RightsOwned, Exists
<1>6. \A m \in member' : Exists(m[1])'
  BY <1>1, <1>2 DEF RightsOwned, Exists
<1> QED  BY <1>2, <1>4, <1>5, <1>6 DEF RightsOwned, Exists, Present

\* Nobody goes, or one account does.
Fate ==
  \/ Kept
  \/ \E u \in Ids : users'[u] = Gone /\ \A v \in Ids \ {u} : users'[v] = users[v]

LEMMA RequestFate ==
  ASSUME Invariant, RightsOwned, NEW r \in Requests, NEW a,
         Command(r) \/ (a \in Ids /\ AdminRequest(r, a))
  PROVE  Fate /\ RightsOwned'
<1>1. ASSUME \/ \E u \in Ids : \/ DisableCommand(r, u) \/ EnableCommand(r, u)
                              \/ EditCommand(r, u) \/ TotpVerifyCommand(r, u)
                              \/ TotpDisableCommand(r, u) \/ PatchUser(r, u)
      PROVE  Fate /\ RightsOwned'
  BY <1>1, EditsRead, QuietKeeps DEF Fate
<1>2. ASSUME CreateUserRequest(r) \/ CreateUserCommand(r) \/ AdminCreateCommand(r)
      PROVE  Fate /\ RightsOwned'
  <2>1. \E n, role, via : Ask(r, n, role, via)
    BY <1>2 DEF CreateUserRequest, CreateUserCommand, AdminCreateCommand
  <2> QED  BY <2>1, QuietKeeps DEF Fate
<1>3. ASSUME DeleteUserRequest(a) \/ DeleteUserCommand
      PROVE  Fate /\ RightsOwned'
  <2>1. PICK u \in Ids : DeleteUser(u)
    BY <1>3 DEF DeleteUserRequest, DeleteUserCommand
  <2> QED  BY <2>1, DeleteOwned DEF Fate
<1>4. ASSUME \/ CreateGroupRequest \/ CreateGroupCommand
             \/ AddGroupMember(r) \/ AddMemberCommand(r)
      PROVE  Fate /\ RightsOwned'
  <2>1. (\E g \in Groups : CreateGroup(g)) \/ (\E u \in Ids, g \in Groups : LookUpMember(r, u, g))
    BY <1>4 DEF CreateGroupRequest, CreateGroupCommand, AddGroupMember, AddMemberCommand
  <2> QED  BY <2>1, QuietKeeps DEF Fate
<1>5. ASSUME \/ (a \in Ids /\ CreateInvitationRequest(a)) \/ CreateInvitationCommand
             \/ RevokeInvitationRequest \/ RevokeInvitationCommand
      PROVE  Fate /\ RightsOwned'
  BY <1>5, InviteKeeps, RevokeKeeps
     DEF CreateInvitationRequest, CreateInvitationCommand, RevokeInvitationRequest,
         RevokeInvitationCommand, Fate
<1> QED  BY <1>1, <1>2, <1>3, <1>4, <1>5 DEF Command, AdminRequest

LEMMA StepFate ==
  ASSUME Invariant, RightsOwned, NEW r \in Requests,
         \/ AccountStep(r) \/ UpdateUser(r) \/ Refuse(r) \/ Stop(r) \/ Redeem(r)
         \/ \E u \in Ids : Reads(r, u)
  PROVE  Kept /\ RightsOwned'
<1>1. Redeem(r) => \E n, role, via : Ask(r, n, role, via)
  BY DEF Redeem
<1> QED
  BY <1>1, QuietKeeps, UpdateKeeps, InsertKeeps, AssignKeeps, RecordKeeps, MemberKeeps DEF AccountStep

LEMMA RightsStep ==
  Invariant /\ RightsOwned /\ [AccountsNext]_accountVars => RightsOwned'
<1> SUFFICES ASSUME Invariant, RightsOwned, [AccountsNext]_accountVars PROVE RightsOwned'
  OBVIOUS
<1>1. ASSUME NEW r \in Requests, Command(r) PROVE RightsOwned'
  BY <1>1, RequestFate
<1>2. CASE UNCHANGED accountVars
  BY <1>2 DEF accountVars, RightsOwned, Present, Exists
<1>3. ASSUME NEW r \in Requests, NEW u \in Ids, ReadForLogin(r, u) PROVE RightsOwned'
  BY <1>3, EditsRead, StepFate
<1> QED  BY <1>1, <1>2, <1>3, RequestFate, StepFate, RevokeKeeps DEF AccountsNext

\* Every variable of the accounts has its type, in every behaviour.
THEOREM AccountsTyped == AccountsSpec => []AccountsTypeOK
<1>1. Invariant => AccountsTypeOK
  BY DEF Invariant
<1> QED  BY <1>1, InitStep, NextStep, PTL DEF AccountsSpec

\* Nobody holds a role, a place in a group or an invitation without an
\* account (the cascades of DELETE FROM users, and what is inserted after it).
THEOREM RightsHaveOwners == AccountsSpec => []RightsOwned
<1>1. AccountsInit => RightsOwned
  BY DEF AccountsInit, RightsOwned
<1> QED  BY <1>1, InitStep, NextStep, RightsStep, PTL DEF AccountsSpec

\* Each account an invitation made is one use counted, one being counted, or
\* one whose request failed, and overlapping redemptions overspend it by less
\* than one use per request (InvitationService.Redeem).
THEOREM InvitationsCounted == AccountsSpec => []InvitationUses
<1>1. Invariant => InvitationUses
  BY DEF Invariant, Uses
<1> QED  BY <1>1, InitStep, NextStep, PTL DEF AccountsSpec

(***************************************************************************)
(* How requests begin, and accounts without a role.                        *)
(***************************************************************************)
\* A request begins, and what it is to do is not to give a role.
Takes(r) ==
  /\ Going(r, "idle") /\ UNCHANGED <<users, roles, halfMade>>
  /\ \E t : task' = [task EXCEPT ![r] = t] /\ t.do \notin {"idle", "role"}

LEMMA ReadTakes ==
  ASSUME NEW r \in Requests, Going(r, "idle"), NEW u \in Ids, Reads(r, u)
  PROVE  Takes(r)
<1>1. PICK row : Read(r, u, row)
  BY DEF Reads
<1> DEFINE t == [Idle EXCEPT !.do = "write", !.user = u, !.row = row]
<1>2. task' = [task EXCEPT ![r] = t] /\ UNCHANGED <<users, roles, halfMade>>
  BY <1>1 DEF Read, tables, history
<1>3. t.do = "write"
  BY DEF Idle
<1> QED  BY <1>2, <1>3 DEF Takes

LEMMA AskTakes ==
  ASSUME NEW r \in Requests, Going(r, "idle"),
         \/ \E n, role, via : Ask(r, n, role, via)
         \/ \E u \in Ids, g \in Groups : LookUpMember(r, u, g)
  PROVE  Takes(r)
<1>1. ASSUME NEW n, NEW role, NEW via, Ask(r, n, role, via) PROVE Takes(r)
  <2> DEFINE t == [Idle EXCEPT !.do = "insert", !.name = n, !.role = role, !.via = via]
  <2>1. task' = [task EXCEPT ![r] = t] /\ UNCHANGED <<users, roles, halfMade>>
    BY <1>1, ZenonT(60) DEF Ask, tables, history
  <2>2. t.do = "insert"
    BY DEF Idle
  <2> QED  BY <2>1, <2>2 DEF Takes
<1>2. ASSUME NEW u \in Ids, NEW g \in Groups, LookUpMember(r, u, g) PROVE Takes(r)
  <2> DEFINE t == [Idle EXCEPT !.do = "member", !.user = u, !.via = g]
  <2>1. task' = [task EXCEPT ![r] = t] /\ UNCHANGED <<users, roles, halfMade>>
    BY <1>2, ZenonT(60) DEF LookUpMember, tables, history
  <2>2. t.do = "member"
    BY DEF Idle
  <2> QED  BY <2>1, <2>2 DEF Takes
<1> QED  BY <1>1, <1>2

\* Neither requests nor accounts move.
Rests == UNCHANGED <<users, roles, task, halfMade>>

LEMMA BeginCases ==
  ASSUME Invariant, NEW r \in Requests, Going(r, "idle"),
         \/ Command(r) \/ Redeem(r)
         \/ \E u \in Ids : AdminRequest(r, u) \/ ReadForLogin(r, u)
  PROVE  Takes(r) \/ Rests \/ \E u \in Ids : DeleteUser(u)
<1>1. ASSUME NEW u \in Ids, \/ DisableCommand(r, u) \/ EnableCommand(r, u)
                            \/ EditCommand(r, u) \/ TotpVerifyCommand(r, u)
                            \/ TotpDisableCommand(r, u) \/ PatchUser(r, u)
                            \/ ReadForLogin(r, u)
      PROVE  Takes(r)
  BY <1>1, EditsRead, ReadTakes
<1>2. ASSUME CreateUserRequest(r) \/ CreateUserCommand(r) \/ AdminCreateCommand(r) \/ Redeem(r)
      PROVE  Takes(r)
  <2>1. \E n, role, via : Ask(r, n, role, via)
    BY <1>2 DEF CreateUserRequest, CreateUserCommand, AdminCreateCommand, Redeem
  <2> QED  BY <2>1, AskTakes
<1>3. ASSUME AddGroupMember(r) \/ AddMemberCommand(r) PROVE Takes(r)
  BY <1>3, AskTakes DEF AddGroupMember, AddMemberCommand
<1>4. ASSUME NEW u \in Ids, DeleteUserRequest(u) PROVE \E v \in Ids : DeleteUser(v)
  BY <1>4 DEF DeleteUserRequest
<1>5. ASSUME \/ CreateGroupRequest \/ CreateGroupCommand
             \/ CreateInvitationCommand \/ RevokeInvitationRequest \/ RevokeInvitationCommand
             \/ \E u \in Ids : CreateInvitationRequest(u)
      PROVE  Rests
  BY <1>5 DEF Rests, CreateGroupRequest, CreateGroupCommand, CreateGroup, CreateInvitationCommand,
              CreateInvitationRequest, CreateInvitation, RevokeInvitationRequest,
              RevokeInvitationCommand, RevokeInvitation, history
<1> QED  BY <1>1, <1>2, <1>3, <1>4, <1>5 DEF Command, AdminRequest, DeleteUserCommand

LEMMA NextCases ==
  ASSUME Invariant, [AccountsNext]_accountVars
  PROVE  \/ Rests \/ \E u \in Ids : DeleteUser(u)
         \/ \E r \in Requests : \/ Takes(r) \/ AccountStep(r) \/ UpdateUser(r)
                                \/ Refuse(r) \/ Stop(r)
<1>1. CASE UNCHANGED accountVars
  BY <1>1 DEF accountVars, Rests
<1>2. ASSUME NEW i \in Invitations, RevokeInvitation(i) PROVE Rests
  BY <1>2 DEF RevokeInvitation, Rests, history
<1> QED  BY <1>1, <1>2, BeginCases DEF AccountsNext

\* No account appears, no role is lost, and who is to get a role still is, or
\* has it, or is known to have failed.
LEMMA RolesStay ==
  ASSUME RoleOrFailure, halfMade \subseteq halfMade',
         \A u \in Ids : Exists(u)' => Exists(u) /\ roles[u] \subseteq roles'[u],
         \A q \in Requests : Going(q, "role") =>
           \/ Going(q, "role")' /\ task'[q].user = task[q].user
           \/ task[q].user \in Ids => roles'[task[q].user] # {} \/ task[q].user \in halfMade'
  PROVE  RoleOrFailure'
<1> SUFFICES ASSUME NEW u \in Ids, Exists(u)', roles'[u] = {}, u \notin halfMade'
             PROVE  \E q \in Requests : Going(q, "role")' /\ task'[q].user = u
  BY DEF RoleOrFailure
<1>1. PICK q \in Requests : Going(q, "role") /\ task[q].user = u
  BY DEF RoleOrFailure
<1> QED  BY <1>1

LEMMA RoleStep ==
  ASSUME Invariant, RoleOrFailure, [AccountsNext]_accountVars
  PROVE  RoleOrFailure'
<1>1. /\ task \in [Requests -> Tasks] /\ users \in [Ids -> Rows \union {None, Gone}]
      /\ roles \in [Ids -> SUBSET Roles]
  BY DEF Invariant, AccountsTypeOK
<1>2. CASE Rests
  BY <1>2, RolesStay DEF Rests, Exists, Going
<1>3. ASSUME NEW u \in Ids, DeleteUser(u) PROVE RoleOrFailure'
  <2>1. /\ users'[u] = Gone /\ \A v \in Ids : v # u => users'[v] = users[v] /\ roles'[v] = roles[v]
        /\ UNCHANGED <<task, halfMade>>
    BY <1>1, <1>3 DEF DeleteUser, history
  <2> QED  BY <2>1, RolesStay DEF Exists, Going
<1>4. ASSUME NEW r \in Requests, Takes(r) PROVE RoleOrFailure'
  BY <1>1, <1>4, RolesStay DEF Takes, Exists, Going
<1>5. ASSUME NEW r \in Requests, Answer(r), UNCHANGED roles, halfMade \subseteq halfMade',
             \A u \in Ids : Exists(u)' => Exists(u),
             Going(r, "role") => task[r].user \in halfMade'
      PROVE  RoleOrFailure'
  BY <1>1, <1>5, RolesStay DEF Answer, Going
<1>6. ASSUME NEW r \in Requests, UpdateUser(r) PROVE RoleOrFailure'
  <2>1. \A u \in Ids : Exists(u)' => Exists(u)
    BY <1>1, <1>6 DEF UpdateUser, Exists
  <2> QED  BY <1>5, <1>6, <2>1 DEF UpdateUser, Going, history
<1>7. ASSUME NEW r \in Requests, Refuse(r) \/ Stop(r) \/ RecordUse(r) \/ AddUserToGroup(r)
      PROVE  RoleOrFailure'
  BY <1>5, <1>7 DEF Refuse, Stop, RecordUse, AddUserToGroup, Unfinished, Going, Exists,
                    tables, history
<1>8. ASSUME NEW r \in Requests, AssignRole(r) PROVE RoleOrFailure'
  <2>1. UNCHANGED users /\ Going(r, "role") /\ task[r].user \in Ids
    BY <1>1, <1>8, TaskShape DEF AssignRole, Going
  <2>2. CASE Answer(r) /\ Unfinished(r) /\ UNCHANGED roles
    BY <1>5, <2>1, <2>2 DEF Unfinished, Exists
  <2>3. CASE /\ task[r].role \in Roles
             /\ roles' = [roles EXCEPT ![task[r].user] = @ \union {task[r].role}]
             /\ task' = [task EXCEPT ![r] = IF task[r].via = None THEN Idle
                                            ELSE [task[r] EXCEPT !.do = "record"]]
             /\ UNCHANGED history
    <3>1. roles'[task[r].user] # {} /\ \A u \in Ids : roles[u] \subseteq roles'[u]
      BY <1>1, <2>1, <2>3
    <3>2. \A q \in Requests : q # r => task'[q] = task[q]
      BY <1>1, <2>3
    <3> QED  BY <2>1, <2>3, <3>1, <3>2, RolesStay DEF Exists, Going, history
  <2> QED  BY <1>8, <2>2, <2>3 DEF AssignRole
<1>9. ASSUME NEW r \in Requests, InsertUser(r) PROVE RoleOrFailure'
  <2>1. UNCHANGED <<roles, halfMade>> /\ Going(r, "insert") /\ task[r] \in Tasks
    BY <1>1, <1>9 DEF InsertUser
  <2>2. CASE Answer(r) /\ UNCHANGED users
    BY <1>5, <2>1, <2>2 DEF Exists, Going
  <2>3. ASSUME NEW u \in Ids, users' = [users EXCEPT ![u] = NewRow(task[r].name)],
               task' = [task EXCEPT ![r].do = "role", ![r].user = u]
        PROVE  RoleOrFailure'
    <3>1. task'[r].do = "role" /\ task'[r].user = u
      BY <1>1, <2>1, <2>3, ZenonT(60) DEF Tasks, Task
    <3>2. \A q \in Requests : q # r => task'[q] = task[q]
      BY <1>1, <2>3
    <3>3. \A v \in Ids : v # u => users'[v] = users[v]
      BY <1>1, <2>3
    <3> SUFFICES ASSUME NEW v \in Ids, Exists(v)', roles'[v] = {}, v \notin halfMade'
                 PROVE  \E q \in Requests : Going(q, "role")' /\ task'[q].user = v
      BY DEF RoleOrFailure
    <3>4. CASE v = u
      BY <3>1, <3>4 DEF Going
    <3>5. CASE v # u
      <4>1. PICK q \in Requests : Going(q, "role") /\ task[q].user = v
        BY <2>1, <3>3, <3>5 DEF RoleOrFailure, Exists
      <4>2. q # r
        BY <2>1, <4>1 DEF Going
      <4> QED  BY <3>2, <4>1, <4>2 DEF Going
    <3> QED  BY <3>4, <3>5
  <2> QED  BY <1>9, <2>2, <2>3 DEF InsertUser
<1> QED  BY <1>2, <1>3, <1>4, <1>6, <1>7, <1>8, <1>9, NextCases DEF AccountStep

\* An account without a role is one whose creation is under way or failed
\* between its two statements (Service.CreateUser).
THEOREM RolesAreGiven == AccountsSpec => []RoleOrFailure
<1>1. AccountsInit => RoleOrFailure
  BY DEF AccountsInit, RoleOrFailure
<1>2. Invariant /\ RoleOrFailure /\ [AccountsNext]_accountVars => RoleOrFailure'
  BY RoleStep
<1> QED  BY <1>1, <1>2, InitStep, NextStep, PTL DEF AccountsSpec

(***************************************************************************)
(***************************** The sign-in *********************************)
(***************************************************************************)

(***************************************************************************)
(* The invariant: what a visit holds, and that a request whose visit has   *)
(* read no row has nothing to do.                                          *)
(***************************************************************************)
DoorsTyped ==
  /\ sessions \in [SessionIds -> SessionRows \union {None, Gone}]
  /\ passkeys \in [PasskeyIds -> Ids \union {None, Gone}]
  /\ tokens \in [TokenIds -> Ids \union {None, Gone}]
  /\ ceremonies \in [CeremonyIds -> CeremonyRows \union {None}]

Unread(v) ==
  \/ v.at \in {"session", "admitted", "admin"}
  \/ v.at \in {"got", "deleted"} /\ (v.purpose = "registration" \/ v.user = None)

VisitOK(v) ==
  /\ v \in Visits
  /\ v.at \notin {"away", "got", "deleted"} => v.user \in Ids
  /\ v.at \in {"session", "admitted", "admin"} => v.session \in SessionIds
  /\ v.at = "validated" => v.ceremony \in CeremonyIds /\ v.purpose = "login"
  /\ v.at \in {"got", "deleted"} => /\ v.ceremony \in CeremonyIds
                                    /\ v.purpose \in {"login", "registration"}
                                    /\ v.purpose = "registration" => v.user \in Ids

VisitsTyped ==
  /\ DOMAIN visit = Requests /\ visit = [r \in Requests |-> visit[r]]
  /\ \A r \in Requests : VisitOK(visit[r]) /\ (Unread(visit[r]) => Going(r, "idle"))

DoorsOwned ==
  /\ \A s \in SessionIds : sessions[s] \notin {None, Gone} => Exists(sessions[s].user)
  /\ \A p \in PasskeyIds : passkeys[p] \notin {None, Gone} => Exists(passkeys[p])
  /\ \A t \in TokenIds : tokens[t] \notin {None, Gone} => Exists(tokens[t])
  /\ \A c \in CeremonyIds :
       ceremonies[c] # None /\ ceremonies[c].there /\ ceremonies[c].user # None
         => Exists(ceremonies[c].user)

SignInInv == Invariant /\ RightsOwned /\ DoorsTyped /\ DoorsOwned /\ VisitsTyped

\* What is shown of each step.
Good == [AccountsNext]_accountVars /\ DoorsTyped' /\ DoorsOwned' /\ VisitsTyped'

(***************************************************************************)
(* One visit moves.                                                        *)
(***************************************************************************)
LEMMA VisitMoves ==
  ASSUME VisitsTyped, NEW r \in Requests, NEW v, visit' = [visit EXCEPT ![r] = v],
         VisitOK(v), \A q \in Requests \ {r} : task'[q] = task[q],
         Unread(v) => Going(r, "idle")'
  PROVE  VisitsTyped'
<1>1. visit'[r] = v /\ \A q \in Requests \ {r} : visit'[q] = visit[q]
  BY DEF VisitsTyped
<1>2. DOMAIN visit' = Requests /\ visit' = [q \in Requests |-> visit'[q]]
  BY DEF VisitsTyped
<1>3. ASSUME NEW q \in Requests
      PROVE  VisitOK(visit'[q]) /\ (Unread(visit'[q]) => Going(q, "idle")')
  <2>1. CASE q = r
    BY <1>1, <2>1
  <2>2. CASE q # r
    BY <1>1, <2>2 DEF VisitsTyped, Going
  <2> QED  BY <2>1, <2>2
<1> QED  BY <1>2, <1>3 DEF VisitsTyped

LEMMA AwayOK == VisitOK(Away) /\ ~Unread(Away)
  BY DEF Away, VisitOK, Visits, Unread

LEMMA VisitLeaves ==
  ASSUME VisitsTyped, NEW r \in Requests, Leaves(r),
         \A q \in Requests \ {r} : task'[q] = task[q]
  PROVE  VisitsTyped'
  BY AwayOK, VisitMoves DEF Leaves

\* A visit that goes on keeps what it holds.
LEMMA VisitGoes ==
  ASSUME VisitsTyped, NEW r \in Requests, NEW where, Goes(r, where),
         \A q \in Requests \ {r} : task'[q] = task[q],
         \/ where \in {"open", "opened"} /\ visit[r].user \in Ids
         \/ where = "admitted" /\ visit[r].at = "session" /\ task'[r] = task[r]
         \/ where = "admin" /\ visit[r].at = "admitted" /\ task'[r] = task[r]
         \/ where = "deleted" /\ visit[r].at = "got" /\ task'[r] = task[r]
  PROVE  VisitsTyped'
<1> DEFINE v == [visit[r] EXCEPT !.at = where]
<1>1. VisitOK(visit[r]) /\ (Unread(visit[r]) => Going(r, "idle"))
  BY DEF VisitsTyped
<1>2. /\ v \in Visits /\ v.at = where /\ v.user = visit[r].user
      /\ v.ceremony = visit[r].ceremony /\ v.purpose = visit[r].purpose
      /\ v.session = visit[r].session
  BY <1>1, ZenonT(60) DEF VisitOK, Visits
<1>3. visit' = [visit EXCEPT ![r] = v]
  BY DEF Goes, VisitsTyped
<1> HIDE DEF v
<1>4. VisitOK(v)
  BY <1>1, <1>2 DEF VisitOK
<1>5. Unread(v) => Going(r, "idle")'
  BY <1>1, <1>2 DEF Unread, Going
<1> QED  BY <1>3, <1>4, <1>5, VisitMoves

(***************************************************************************)
(* What a step does to the tasks and to what hangs from accounts.          *)
(***************************************************************************)
LEMMA OthersAlone ==
  ASSUME NEW r \in Requests, Invariant,
         \/ \E u : Reads(r, u)
         \/ UpdateUser(r) \/ Refuse(r) \/ Stop(r) \/ AccountStep(r) \/ Redeem(r)
         \/ Command(r) \/ (\E a : AdminRequest(r, a))
  PROVE  \A q \in Requests \ {r} : task'[q] = task[q]
<1> USE DEF Invariant, AccountsTypeOK
<1>1. ASSUME NEW u, Reads(r, u)
      PROVE  \A q \in Requests \ {r} : task'[q] = task[q]
  BY <1>1, ZenonT(60) DEF Reads, Read
<1>2. ASSUME NEW n, NEW role, NEW via, Ask(r, n, role, via)
      PROVE  \A q \in Requests \ {r} : task'[q] = task[q]
  BY <1>2 DEF Ask
<1>3. ASSUME NEW u, NEW g, LookUpMember(r, u, g)
      PROVE  \A q \in Requests \ {r} : task'[q] = task[q]
  BY <1>3 DEF LookUpMember
<1>4. ASSUME Answer(r) PROVE \A q \in Requests \ {r} : task'[q] = task[q]
  BY <1>4 DEF Answer
<1>5. ASSUME AccountStep(r) PROVE \A q \in Requests \ {r} : task'[q] = task[q]
  BY <1>5, <1>4 DEF AccountStep, InsertUser, AssignRole, RecordUse, AddUserToGroup
<1>6. ASSUME UNCHANGED task PROVE \A q \in Requests \ {r} : task'[q] = task[q]
  BY <1>6
<1>7. ASSUME Command(r) PROVE \A q \in Requests \ {r} : task'[q] = task[q]
  BY <1>1, <1>2, <1>3, <1>6, <1>7, EditsRead
     DEF Command, CreateUserCommand, AdminCreateCommand, DeleteUserCommand, DeleteUser,
         CreateGroupCommand, CreateGroup, AddMemberCommand, CreateInvitationCommand,
         CreateInvitation, RevokeInvitationCommand, RevokeInvitation
<1>8. ASSUME NEW a, AdminRequest(r, a) PROVE \A q \in Requests \ {r} : task'[q] = task[q]
  BY <1>1, <1>2, <1>3, <1>6, <1>8, EditsRead
     DEF AdminRequest, CreateUserRequest, DeleteUserRequest, DeleteUser,
         CreateGroupRequest, CreateGroup, AddGroupMember, CreateInvitationRequest,
         CreateInvitation, RevokeInvitationRequest, RevokeInvitation
<1>9. Redeem(r) => \A q \in Requests \ {r} : task'[q] = task[q]
  BY <1>2 DEF Redeem
<1> QED
  BY <1>1, <1>4, <1>5, <1>7, <1>8, <1>9 DEF UpdateUser, Refuse, Stop

LEMMA DoorsStand ==
  ASSUME DoorsTyped, DoorsOwned, Kept, UNCHANGED doors
  PROVE  DoorsTyped' /\ DoorsOwned'
<1>1. DoorsTyped'
  BY DEF DoorsTyped, doors
<1>2. /\ \A s \in SessionIds : sessions[s] \notin {None, Gone} => sessions[s].user \in Ids
      /\ \A p \in PasskeyIds : passkeys[p] \notin {None, Gone} => passkeys[p] \in Ids
      /\ \A t \in TokenIds : tokens[t] \notin {None, Gone} => tokens[t] \in Ids
      /\ \A c \in CeremonyIds :
           ceremonies[c] # None /\ ceremonies[c].user # None => ceremonies[c].user \in Ids
  BY DEF DoorsTyped, SessionRows, CeremonyRows
<1>3. DoorsOwned'
  BY <1>2 DEF DoorsOwned, Kept, doors
<1> QED  BY <1>1, <1>3

LEMMA UntouchedKeeps == Untouched => Kept /\ task' = task /\ [AccountsNext]_accountVars
  BY DEF Untouched, accountVars, Kept, Exists

\* A deletion takes what hangs from its account.
LEMMA CascadeKeeps ==
  ASSUME DoorsTyped, DoorsOwned, Fate, Cascade, Invariant
  PROVE  DoorsTyped' /\ DoorsOwned'
<1>1. users \in [Ids -> Rows \union {None, Gone}]
  BY DEF Invariant, AccountsTypeOK
<1> DEFINE Left(u) == Exists(u) /\ users'[u] = Gone
<1>2. \A u \in Ids : Exists(u) /\ ~Left(u) => Exists(u)'
  BY <1>1 DEF Fate, Kept, Exists
<1>3. /\ sessions' = [s \in SessionIds |->
           IF sessions[s] \notin {None, Gone} /\ Left(sessions[s].user) THEN Gone ELSE sessions[s]]
      /\ passkeys' = [p \in PasskeyIds |->
           IF \E u \in Ids : passkeys[p] = u /\ Left(u) THEN Gone ELSE passkeys[p]]
      /\ tokens' = [t \in TokenIds |->
           IF \E u \in Ids : tokens[t] = u /\ Left(u) THEN Gone ELSE tokens[t]]
      /\ ceremonies' = [c \in CeremonyIds |->
           IF ceremonies[c] # None /\ \E u \in Ids : ceremonies[c].user = u /\ Left(u)
           THEN [ceremonies[c] EXCEPT !.there = FALSE] ELSE ceremonies[c]]
  BY DEF Cascade
<1> HIDE DEF Left
<1>4. \A s \in SessionIds :
        /\ sessions'[s] \in SessionRows \union {None, Gone}
        /\ sessions'[s] \notin {None, Gone} => users'[sessions'[s].user] \notin {None, Gone}
  <2> SUFFICES ASSUME NEW s \in SessionIds
      PROVE  /\ sessions'[s] \in SessionRows \union {None, Gone}
             /\ sessions'[s] \notin {None, Gone} => users'[sessions'[s].user] \notin {None, Gone}
    OBVIOUS
  <2>1. CASE sessions[s] \in {None, Gone}
    BY <1>3, <2>1
  <2>2. CASE sessions[s] \notin {None, Gone}
    <3>1. sessions[s] \in SessionRows /\ sessions[s].user \in Ids /\ Exists(sessions[s].user)
      BY <2>2 DEF DoorsTyped, DoorsOwned, SessionRows
    <3>2. CASE Left(sessions[s].user)
      BY <1>3, <2>2, <3>2
    <3>3. CASE ~Left(sessions[s].user)
      BY <1>2, <1>3, <3>1, <3>3 DEF Exists
    <3> QED  BY <3>2, <3>3
  <2> QED  BY <2>1, <2>2
<1>5. ASSUME NEW x \in Ids \union {None, Gone}, NEW y, x \notin {None, Gone} => Exists(x),
             y = IF \E u \in Ids : x = u /\ Left(u) THEN Gone ELSE x
      PROVE  /\ y \in Ids \union {None, Gone}
             /\ y \notin {None, Gone} => users'[y] \notin {None, Gone}
  BY <1>2, <1>5, SignInAssumption DEF Exists
<1>6. \A p \in PasskeyIds :
        /\ passkeys'[p] \in Ids \union {None, Gone}
        /\ passkeys'[p] \notin {None, Gone} => users'[passkeys'[p]] \notin {None, Gone}
  BY <1>3, <1>5 DEF DoorsTyped, DoorsOwned
<1>7. \A t \in TokenIds :
        /\ tokens'[t] \in Ids \union {None, Gone}
        /\ tokens'[t] \notin {None, Gone} => users'[tokens'[t]] \notin {None, Gone}
  BY <1>3, <1>5 DEF DoorsTyped, DoorsOwned
<1>8. \A c \in CeremonyIds :
        /\ ceremonies'[c] \in CeremonyRows \union {None}
        /\ ceremonies'[c] # None /\ ceremonies'[c].there /\ ceremonies'[c].user # None
             => users'[ceremonies'[c].user] \notin {None, Gone}
  <2> SUFFICES ASSUME NEW c \in CeremonyIds, ceremonies[c] # None
      PROVE  /\ ceremonies'[c] \in CeremonyRows
             /\ ceremonies'[c].there /\ ceremonies'[c].user # None
                  => users'[ceremonies'[c].user] \notin {None, Gone}
    BY <1>3
  <2>1. ceremonies[c] \in CeremonyRows
    BY DEF DoorsTyped
  <2>2. CASE \E u \in Ids : ceremonies[c].user = u /\ Left(u)
    <3>1. ceremonies'[c] = [ceremonies[c] EXCEPT !.there = FALSE]
      BY <1>3, <2>2
    <3> QED  BY <2>1, <3>1 DEF CeremonyRows
  <2>3. CASE ~\E u \in Ids : ceremonies[c].user = u /\ Left(u)
    <3>1. ceremonies'[c] = ceremonies[c]
      BY <1>3, <2>3
    <3>2. ceremonies[c].user \in Ids \union {None}
      BY <2>1 DEF CeremonyRows
    <3> QED  BY <1>2, <2>1, <2>3, <3>1, <3>2 DEF DoorsOwned, Exists
  <2> QED  BY <2>2, <2>3
<1>9. DoorsTyped'
  BY <1>3, <1>4, <1>6, <1>7, <1>8 DEF DoorsTyped
<1>10. DoorsOwned'
  BY <1>3, <1>4, <1>6, <1>7, <1>8 DEF DoorsOwned, Exists
<1> QED  BY <1>9, <1>10

(***************************************************************************)
(* What opens and closes a door.                                           *)
(***************************************************************************)
LEMMA RevokeKeepsDoors ==
  ASSUME DoorsTyped, DoorsOwned, UNCHANGED users, NEW s \in SessionIds, NEW u \in Ids,
         RevokeSession(s, u)
  PROVE  DoorsTyped' /\ DoorsOwned'
<1>1. /\ sessions[s] \in SessionRows /\ sessions' = [sessions EXCEPT ![s].open = FALSE]
      /\ UNCHANGED <<passkeys, tokens, ceremonies>>
  BY DEF RevokeSession, IsOpen, DoorsTyped
<1>2. /\ [sessions[s] EXCEPT !.open = FALSE] \in SessionRows
      /\ [sessions[s] EXCEPT !.open = FALSE].user = sessions[s].user
  BY <1>1 DEF SessionRows
<1>3. DoorsTyped'
  BY <1>1, <1>2 DEF DoorsTyped
<1>4. DoorsOwned'
  BY <1>1, <1>2 DEF DoorsTyped, DoorsOwned, Exists, RevokeSession, IsOpen
<1> QED  BY <1>3, <1>4

LEMMA DeleteKeepsDoors ==
  ASSUME DoorsTyped, DoorsOwned, UNCHANGED users, NEW u \in Ids,
         \/ \E p \in PasskeyIds : DeleteCredential(p, u)
         \/ \E t \in TokenIds : RevokeWebDAVToken(t, u)
  PROVE  DoorsTyped' /\ DoorsOwned'
<1>1. ASSUME NEW p \in PasskeyIds, DeleteCredential(p, u)
      PROVE  DoorsTyped' /\ DoorsOwned'
  BY <1>1 DEF DeleteCredential, DoorsTyped, DoorsOwned, Exists
<1>2. ASSUME NEW t \in TokenIds, RevokeWebDAVToken(t, u)
      PROVE  DoorsTyped' /\ DoorsOwned'
  BY <1>2 DEF RevokeWebDAVToken, DoorsTyped, DoorsOwned, Exists
<1> QED  BY <1>1, <1>2

LEMMA TokenKeepsDoors ==
  ASSUME DoorsTyped, DoorsOwned, UNCHANGED users, NEW u \in Ids, CreateWebDAVToken(u)
  PROVE  DoorsTyped' /\ DoorsOwned'
  BY DEF CreateWebDAVToken, DoorsTyped, DoorsOwned, Exists

LEMMA CeremonyKeepsDoors ==
  ASSUME DoorsTyped, DoorsOwned, UNCHANGED users, NEW u \in Ids \union {None},
         u # None => Exists(u), NEW p \in {"login", "registration"}, SaveCeremony(u, p)
  PROVE  DoorsTyped' /\ DoorsOwned'
<1>1. PICK c \in CeremonyIds : ceremonies' =
        [ceremonies EXCEPT ![c] = [user |-> u, purpose |-> p, there |-> TRUE]]
  BY DEF SaveCeremony
<1>2. UNCHANGED <<sessions, passkeys, tokens>>
  BY DEF SaveCeremony
<1>3. [user |-> u, purpose |-> p, there |-> TRUE] \in CeremonyRows
  BY DEF CeremonyRows
<1>4. DoorsTyped'
  BY <1>1, <1>2, <1>3 DEF DoorsTyped
<1>5. DoorsOwned'
  BY <1>1, <1>2 DEF DoorsTyped, DoorsOwned, Exists
<1> QED  BY <1>4, <1>5

LEMMA SessionKeepsDoors ==
  ASSUME DoorsTyped, DoorsOwned, UNCHANGED <<users, passkeys, tokens, ceremonies>>,
         NEW u \in Ids, Exists(u), NEW s \in SessionIds,
         sessions' = [sessions EXCEPT ![s] = [user |-> u, open |-> TRUE]]
  PROVE  DoorsTyped' /\ DoorsOwned'
<1>1. [user |-> u, open |-> TRUE] \in SessionRows
  BY DEF SessionRows
<1>2. DoorsTyped'
  BY <1>1 DEF DoorsTyped
<1>3. DoorsOwned'
  BY DEF DoorsTyped, DoorsOwned, Exists
<1> QED  BY <1>2, <1>3

(***************************************************************************)
(* Passwords.                                                              *)
(***************************************************************************)
LEMMA LastLogin ==
  ASSUME NEW r \in Requests, Going(r, "idle"), NEW u \in Ids, ReadForLogin(r, u),
         Invariant, RightsOwned
  PROVE  Kept /\ [AccountsNext]_accountVars /\ \A q \in Requests \ {r} : task'[q] = task[q]
<1>1. Reads(r, u)
  BY EditsRead
<1>2. Kept
  BY <1>1, StepFate
<1> QED  BY <1>1, <1>2, OthersAlone DEF AccountsNext

LEMMA StoodStill == Still => UNCHANGED doors
  BY DEF Still

LEMMA LoginStep ==
  ASSUME SignInInv, NEW r \in Requests, Going(r, "idle"), Login(r)
  PROVE  Good
<1>1. PICK u \in Ids : /\ ReadForLogin(r, u)
                       /\ Begins(r, [Away EXCEPT !.at = "password", !.user = u]) /\ Still
  BY ZenonT(60) DEF Login
<1> DEFINE v == [Away EXCEPT !.at = "password", !.user = u]
<1>2. VisitOK(v) /\ ~Unread(v)
  BY ZenonT(60) DEF VisitOK, Visits, Unread, Away
<1>3. Kept /\ [AccountsNext]_accountVars /\ \A q \in Requests \ {r} : task'[q] = task[q]
  BY <1>1, LastLogin DEF SignInInv
<1>4. visit' = [visit EXCEPT ![r] = v]
  BY <1>1 DEF Begins
<1> HIDE DEF v
<1>5. VisitsTyped'
  BY <1>2, <1>3, <1>4, VisitMoves DEF SignInInv
<1> QED  BY <1>1, <1>3, <1>5, DoorsStand, StoodStill DEF Good, SignInInv

\* A visit that ends in a refusal.
LEMMA RefuseStep ==
  ASSUME SignInInv, NEW r \in Requests, Leaves(r), Refuse(r) \/ Stop(r), UNCHANGED doors
  PROVE  Good
<1>1. Kept /\ \A q \in Requests \ {r} : task'[q] = task[q]
  BY OthersAlone, StepFate DEF SignInInv
<1>2. VisitsTyped'
  BY <1>1, VisitLeaves DEF SignInInv
<1>3. [AccountsNext]_accountVars
  BY DEF AccountsNext
<1> QED  BY <1>1, <1>2, <1>3, DoorsStand DEF Good, SignInInv

\* A visit that ends, or goes on, while the accounts rest.
LEMMA UntouchedStep ==
  ASSUME SignInInv, NEW r \in Requests, Untouched, UNCHANGED doors,
         \/ Leaves(r)
         \/ \E where \in {"open", "opened"} : Goes(r, where) /\ visit[r].user \in Ids
         \/ Goes(r, "admitted") /\ visit[r].at = "session"
         \/ Goes(r, "admin") /\ visit[r].at = "admitted"
         \/ Goes(r, "deleted") /\ visit[r].at = "got"
  PROVE  Good
<1>1. Kept /\ task' = task /\ [AccountsNext]_accountVars
  BY UntouchedKeeps
<1>2. VisitsTyped'
  BY <1>1, VisitLeaves, VisitGoes DEF SignInInv
<1> QED  BY <1>1, <1>2, DoorsStand DEF Good, SignInInv

LEMMA FactorStep ==
  ASSUME SignInInv, NEW r \in Requests, SecondFactor(r)
  PROVE  Good
<1>1. visit[r].user \in Ids /\ UNCHANGED doors
  BY DEF SecondFactor, At, Still, SignInInv, VisitsTyped, VisitOK
<1>2. CASE Goes(r, "open") /\ Untouched
  BY <1>1, <1>2, UntouchedStep
<1>3. CASE Leaves(r) /\ Refuse(r)
  BY <1>1, <1>3, RefuseStep
<1> QED  BY <1>2, <1>3 DEF SecondFactor

LEMMA SessionStep ==
  ASSUME SignInInv, NEW r \in Requests, CreateSession(r)
  PROVE  Good
<1>1. visit[r].user \in Ids
  BY DEF CreateSession, At, SignInInv, VisitsTyped, VisitOK
<1>2. CASE Leaves(r) /\ Refuse(r) /\ UNCHANGED sessions
  <2>1. UNCHANGED doors
    BY <1>2 DEF CreateSession, doors
  <2> QED  BY <1>2, <2>1, RefuseStep
<1>3. ASSUME NEW s \in SessionIds, Exists(visit[r].user), Goes(r, "opened"), Untouched,
             sessions' = [sessions EXCEPT ![s] = [user |-> visit[r].user, open |-> TRUE]]
      PROVE  Good
  <2>1. Kept /\ task' = task /\ [AccountsNext]_accountVars /\ users' = users
    BY <1>3, UntouchedKeeps DEF Untouched, accountVars
  <2>2. VisitsTyped'
    BY <1>1, <1>3, <2>1, VisitGoes DEF SignInInv
  <2>3. UNCHANGED <<passkeys, tokens, ceremonies>>
    BY DEF CreateSession
  <2>4. DoorsTyped' /\ DoorsOwned'
    BY <1>1, <1>3, <2>1, <2>3, SessionKeepsDoors DEF SignInInv
  <2> QED  BY <2>1, <2>2, <2>4 DEF Good
<1> QED  BY <1>2, <1>3 DEF CreateSession

LEMMA RecordLoginStep ==
  ASSUME SignInInv, NEW r \in Requests, RecordLogin(r)
  PROVE  Good
<1>1. UpdateUser(r) /\ Leaves(r) /\ UNCHANGED doors
  BY DEF RecordLogin, Still
<1>2. Kept /\ \A q \in Requests \ {r} : task'[q] = task[q]
  BY <1>1, OthersAlone, StepFate DEF SignInInv
<1>3. VisitsTyped'
  BY <1>1, <1>2, VisitLeaves DEF SignInInv
<1>4. [AccountsNext]_accountVars
  BY <1>1 DEF AccountsNext
<1> QED  BY <1>1, <1>2, <1>3, <1>4, DoorsStand DEF Good, SignInInv

(***************************************************************************)
(* Passkeys.                                                               *)
(***************************************************************************)
LEMMA BeginStep ==
  ASSUME SignInInv, NEW r \in Requests, BeginWebAuthnLogin(r)
  PROVE  Good
<1>1. Untouched /\ UNCHANGED visit
  BY DEF BeginWebAuthnLogin
<1>2. task' = task /\ [AccountsNext]_accountVars /\ users' = users
  BY <1>1, UntouchedKeeps DEF Untouched, accountVars
<1>3. \E u \in Ids \union {None} : (u # None => Exists(u)) /\ SaveCeremony(u, "login")
  BY DEF BeginWebAuthnLogin, Active
<1>4. DoorsTyped' /\ DoorsOwned'
  BY <1>2, <1>3, CeremonyKeepsDoors DEF SignInInv
<1>5. VisitsTyped'
  BY <1>1, <1>2 DEF SignInInv, VisitsTyped, Going
<1> QED  BY <1>2, <1>4, <1>5 DEF Good

LEMMA GotOK ==
  ASSUME NEW u \in Ids \union {None}, NEW c \in CeremonyIds, NEW p \in {"login", "registration"},
         p = "registration" => u \in Ids
  PROVE  LET v == [Away EXCEPT !.at = "got", !.user = u, !.ceremony = c, !.purpose = p]
         IN  VisitOK(v) /\ (Unread(v) => p = "registration" \/ u = None)
  BY ZenonT(60) DEF VisitOK, Visits, Unread, Away

LEMMA GetStep ==
  ASSUME SignInInv, NEW r \in Requests, Going(r, "idle"), NEW u \in Ids \union {None},
         NEW p \in {"login", "registration"}, GetCeremony(r, u, p), Still,
         p = "registration" => u \in Ids,
         Untouched \/ (p = "login" /\ u \in Ids /\ ReadForLogin(r, u))
  PROVE  Good
<1>1. PICK c \in CeremonyIds : visit' = [visit EXCEPT ![r] =
         [Away EXCEPT !.at = "got", !.user = u, !.ceremony = c, !.purpose = p]]
  BY ZenonT(60) DEF GetCeremony
<1> DEFINE v == [Away EXCEPT !.at = "got", !.user = u, !.ceremony = c, !.purpose = p]
<1>2. VisitOK(v) /\ (Unread(v) => p = "registration" \/ u = None)
  BY GotOK, ZenonT(60)
<1>3. /\ Kept /\ [AccountsNext]_accountVars
      /\ \A q \in Requests \ {r} : task'[q] = task[q]
      /\ Untouched => task' = task
  BY UntouchedKeeps, LastLogin DEF SignInInv
<1>4. Unread(v) => Going(r, "idle")'
  <2>1. CASE Untouched
    BY <1>3, <2>1 DEF Going
  <2>2. CASE p = "login" /\ u \in Ids
    BY <1>2, <2>2, SignInAssumption
  <2> QED  BY <2>1, <2>2
<1>5. visit' = [visit EXCEPT ![r] = v]
  BY <1>1
<1> HIDE DEF v
<1>6. VisitsTyped'
  BY <1>2, <1>3, <1>4, <1>5, VisitMoves DEF SignInInv
<1> QED  BY <1>3, <1>6, DoorsStand, StoodStill DEF Good, SignInInv

LEMMA FinishStep ==
  ASSUME SignInInv, NEW r \in Requests, Going(r, "idle"), FinishWebAuthnLogin(r)
  PROVE  Good
<1>1. \E u \in Ids \union {None} :
        /\ GetCeremony(r, u, "login") /\ Still
        /\ Untouched \/ (u \in Ids /\ ReadForLogin(r, u))
  BY DEF FinishWebAuthnLogin
<1> QED  BY <1>1, GetStep

LEMMA DeleteCeremonyStep ==
  ASSUME SignInInv, NEW r \in Requests, DeleteCeremony(r)
  PROVE  Good
<1> DEFINE c == visit[r].ceremony
<1>1. /\ visit[r].at = "got" /\ Goes(r, "deleted") /\ Untouched
      /\ ceremonies' = [ceremonies EXCEPT ![c] = Dropped(ceremonies[c])]
      /\ UNCHANGED <<sessions, passkeys, tokens>>
  BY DEF DeleteCeremony, At
<1>2. Kept /\ task' = task /\ [AccountsNext]_accountVars /\ users' = users
  BY <1>1, UntouchedKeeps DEF Untouched, accountVars
<1>3. VisitsTyped'
  BY <1>1, <1>2, VisitGoes DEF SignInInv
<1>4. c \in CeremonyIds /\ ceremonies \in [CeremonyIds -> CeremonyRows \union {None}]
  BY <1>1 DEF SignInInv, VisitsTyped, VisitOK, DoorsTyped
<1>5. CASE ceremonies[c] = None
  <2>1. UNCHANGED doors
    BY <1>1, <1>4, <1>5 DEF Dropped, doors
  <2> QED  BY <1>2, <1>3, <2>1, DoorsStand DEF Good, SignInInv
<1>6. CASE ceremonies[c] # None
  <2>1. [ceremonies[c] EXCEPT !.there = FALSE] \in CeremonyRows
    BY <1>4, <1>6 DEF CeremonyRows
  <2>2. ceremonies' = [ceremonies EXCEPT ![c] = [ceremonies[c] EXCEPT !.there = FALSE]]
    BY <1>1, <1>6 DEF Dropped
  <2>3. DoorsTyped'
    BY <1>1, <1>4, <2>1, <2>2 DEF SignInInv, DoorsTyped
  <2>4. DoorsOwned'
    BY <1>1, <1>2, <1>4, <1>6, <2>2 DEF SignInInv, DoorsOwned, Exists, CeremonyRows
  <2> QED  BY <1>2, <1>3, <2>3, <2>4 DEF Good
<1> QED  BY <1>5, <1>6

\* A passkey has answered: the visit knows whose it is.
LEMMA OwnerKnown ==
  ASSUME SignInInv, NEW r \in Requests, NEW u \in Ids, NEW p \in PasskeyIds,
         visit[r].at = "deleted", visit[r].purpose = "login",
         visit' = [visit EXCEPT ![r] = [visit[r] EXCEPT !.at = "validated", !.user = u, !.passkey = p]],
         \A q \in Requests \ {r} : task'[q] = task[q]
  PROVE  VisitsTyped'
<1> DEFINE v == [visit[r] EXCEPT !.at = "validated", !.user = u, !.passkey = p]
<1>1. VisitOK(visit[r])
  BY DEF SignInInv, VisitsTyped
<1>2. VisitOK(v) /\ ~Unread(v)
  BY <1>1, ZenonT(60) DEF VisitOK, Visits, Unread
<1> HIDE DEF v
<1> QED  BY <1>2, VisitMoves DEF SignInInv, v

\* What a passkey that has answered makes of the visit.
Validates(r, u, p) ==
  visit' = [visit EXCEPT ![r] = [visit[r] EXCEPT !.at = "validated", !.user = u, !.passkey = p]]

LEMMA Validated ==
  ASSUME SignInInv, NEW r \in Requests, ValidateLogin(r)
  PROVE  /\ visit[r].at = "deleted" /\ visit[r].purpose = "login"
         /\ visit[r].user \in Ids \union {None} /\ UNCHANGED <<doors, served>>
         /\ \/ /\ Corresponds(r)
               /\ \E u \in Ids, p \in PasskeyIds :
                    /\ Validates(r, u, p) /\ visit[r].user \in {None, u}
                    /\ \/ visit[r].user = u /\ Untouched
                       \/ visit[r].user = None /\ ReadForLogin(r, u)
            \/ Leaves(r) /\ (Untouched \/ Refuse(r))
<1>1. /\ visit[r].at = "deleted" /\ visit[r].purpose = "login" /\ UNCHANGED <<doors, served>>
      /\ visit[r] \in Visits /\ DOMAIN visit = Requests /\ visit = [q \in Requests |-> visit[q]]
  BY ZenonT(60) DEF ValidateLogin, At, Still, SignInInv, VisitsTyped, VisitOK
<1>2. visit[r].user \in Ids \union {None}
  BY <1>1, ZenonT(60) DEF Visits
<1>3. ASSUME NEW p \in PasskeyIds, Corresponds(r), visit[r].user # None, Untouched,
             visit' = [visit EXCEPT ![r].at = "validated", ![r].passkey = p]
      PROVE  Validates(r, visit[r].user, p)
  <2>1. [visit[r] EXCEPT !.at = "validated", !.passkey = p]
          = [visit[r] EXCEPT !.at = "validated", !.user = visit[r].user, !.passkey = p]
    BY <1>1, ZenonT(60) DEF Visits
  <2>2. visit' = [visit EXCEPT ![r] = [visit[r] EXCEPT !.at = "validated", !.passkey = p]]
    BY <1>1, <1>3
  <2> QED  BY <2>1, <2>2 DEF Validates
<1>4. ASSUME NEW u \in Ids, NEW p \in PasskeyIds,
             visit' = [visit EXCEPT ![r].at = "validated", ![r].user = u, ![r].passkey = p]
      PROVE  Validates(r, u, p)
  BY <1>1, <1>4 DEF Validates
<1> QED  BY <1>1, <1>2, <1>3, <1>4, ZenonT(60) DEF ValidateLogin, PasskeysOf

LEMMA ValidateStep ==
  ASSUME SignInInv, NEW r \in Requests, ValidateLogin(r)
  PROVE  Good
<1>1. /\ visit[r].at = "deleted" /\ UNCHANGED doors /\ visit[r].purpose = "login"
  BY Validated
<1>2. ASSUME NEW u \in Ids, NEW p \in PasskeyIds, Validates(r, u, p), Untouched
      PROVE  Good
  <2>1. Kept /\ task' = task /\ [AccountsNext]_accountVars
    BY <1>2, UntouchedKeeps
  <2>2. VisitsTyped'
    BY <1>1, <1>2, <2>1, OwnerKnown, ZenonT(60) DEF Validates
  <2> QED  BY <1>1, <2>1, <2>2, DoorsStand DEF Good, SignInInv
<1>3. ASSUME NEW u \in Ids, NEW p \in PasskeyIds, Validates(r, u, p), visit[r].user = None,
             ReadForLogin(r, u)
      PROVE  Good
  <2>1. Going(r, "idle")
    BY <1>1, <1>3 DEF SignInInv, VisitsTyped, Unread
  <2>2. Kept /\ [AccountsNext]_accountVars /\ \A q \in Requests \ {r} : task'[q] = task[q]
    BY <1>3, <2>1, LastLogin DEF SignInInv
  <2>3. VisitsTyped'
    BY <1>1, <1>3, <2>2, OwnerKnown, ZenonT(60) DEF Validates
  <2> QED  BY <1>1, <2>2, <2>3, DoorsStand DEF Good, SignInInv
<1>4. CASE Leaves(r) /\ (Untouched \/ Refuse(r))
  BY <1>1, <1>4, UntouchedStep, RefuseStep
<1> QED  BY <1>2, <1>3, <1>4, Validated

LEMMA PersistStep ==
  ASSUME SignInInv, NEW r \in Requests, PersistLoginResult(r)
  PROVE  Good
<1>1. visit[r].user \in Ids /\ UNCHANGED doors
  BY DEF PersistLoginResult, At, SignInInv, VisitsTyped, VisitOK
<1>2. CASE Goes(r, "open") /\ Untouched
  BY <1>1, <1>2, UntouchedStep
<1>3. CASE Leaves(r) /\ Refuse(r)
  BY <1>1, <1>3, RefuseStep
<1> QED  BY <1>2, <1>3 DEF PersistLoginResult

LEMMA RegisterStep ==
  ASSUME SignInInv, NEW r \in Requests, FinishRegistration(r)
  PROVE  Good
<1>1. /\ Leaves(r) /\ Untouched /\ UNCHANGED <<sessions, tokens, ceremonies>>
      /\ visit[r].user \in Ids
  BY DEF FinishRegistration, At, SignInInv, VisitsTyped, VisitOK
<1>2. Kept /\ task' = task /\ [AccountsNext]_accountVars /\ users' = users
  BY <1>1, UntouchedKeeps DEF Untouched, accountVars
<1>3. VisitsTyped'
  BY <1>1, <1>2, VisitLeaves DEF SignInInv
<1>4. CASE UNCHANGED passkeys
  BY <1>1, <1>4, UntouchedStep DEF doors
<1>5. ASSUME NEW p \in PasskeyIds, Exists(visit[r].user),
             passkeys' = [passkeys EXCEPT ![p] = visit[r].user]
      PROVE  Good
  <2>1. DoorsTyped'
    BY <1>1, <1>5 DEF SignInInv, DoorsTyped
  <2>2. DoorsOwned'
    BY <1>1, <1>2, <1>5 DEF SignInInv, DoorsTyped, DoorsOwned, Exists
  <2> QED  BY <1>2, <1>3, <2>1, <2>2 DEF Good
<1> QED  BY <1>4, <1>5 DEF FinishRegistration

(***************************************************************************)
(* Requests with a session.                                                *)
(***************************************************************************)
LEMMA TokenStep ==
  ASSUME SignInInv, NEW r \in Requests, Going(r, "idle"), ValidateToken(r)
  PROVE  Good
<1>1. PICK s \in SessionIds : /\ IsOpen(s) /\ Untouched /\ Still
                              /\ Begins(r, [Away EXCEPT !.at = "session",
                                             !.user = sessions[s].user, !.session = s])
  BY ZenonT(60) DEF ValidateToken
<1>2. sessions[s].user \in Ids
  BY <1>1 DEF IsOpen, SignInInv, DoorsTyped, SessionRows
<1> DEFINE v == [Away EXCEPT !.at = "session", !.user = sessions[s].user, !.session = s]
<1>3. VisitOK(v)
  BY <1>2, ZenonT(60) DEF VisitOK, Visits, Away
<1>4. Kept /\ task' = task /\ [AccountsNext]_accountVars
  BY <1>1, UntouchedKeeps
<1>5. visit' = [visit EXCEPT ![r] = v]
  BY <1>1 DEF Begins
<1> HIDE DEF v
<1>6. VisitsTyped'
  BY <1>3, <1>4, <1>5, VisitMoves DEF SignInInv, Going
<1> QED  BY <1>1, <1>4, <1>6, DoorsStand, StoodStill DEF Good, SignInInv

LEMMA LoadStep ==
  ASSUME SignInInv, NEW r \in Requests, LoadUser(r)
  PROVE  Good
<1>1. visit[r].at = "session" /\ visit[r].user \in Ids /\ UNCHANGED doors /\ Going(r, "idle")
  BY DEF LoadUser, At, Still, SignInInv, VisitsTyped, VisitOK, Unread
<1>2. CASE Untouched /\ (Goes(r, "admitted") \/ Leaves(r))
  BY <1>1, <1>2, UntouchedStep
<1>3. CASE Leaves(r) /\ Enrols(r, visit[r].user)
  <2>1. Command(r)
    BY <1>1, <1>3 DEF Command, TotpVerifyCommand
  <2>2. [AccountsNext]_accountVars
    BY <1>1, <2>1 DEF AccountsNext
  <2>3. Kept /\ \A q \in Requests \ {r} : task'[q] = task[q]
    BY <1>1, <1>3, EditsRead, StepFate, OthersAlone DEF SignInInv
  <2>4. VisitsTyped'
    BY <1>3, <2>3, VisitLeaves DEF SignInInv
  <2> QED  BY <1>1, <2>2, <2>3, <2>4, DoorsStand DEF Good, SignInInv
<1> QED  BY <1>2, <1>3 DEF LoadUser

LEMMA OwnStep ==
  ASSUME SignInInv, NEW r \in Requests, Going(r, "idle"), visit[r].at = "admitted",
         OwnRequest(r), Untouched
  PROVE  Good
<1>1. /\ Kept /\ task' = task /\ [AccountsNext]_accountVars /\ users' = users
      /\ visit[r].user \in Ids /\ visit[r].session \in SessionIds
  BY UntouchedKeeps DEF Untouched, accountVars, SignInInv, VisitsTyped, VisitOK
<1>2. CASE GetCeremony(r, visit[r].user, "registration") /\ Still
  BY <1>1, <1>2, GetStep
<1>3. ASSUME Leaves(r),
             \/ Logout(r) \/ RevokeOwnSession(r) \/ BeginRegistration(r)
             \/ RevokeWebAuthn(r) \/ CreateOwnToken(r) \/ RevokeOwnToken(r)
      PROVE  Good
  <2>1. VisitsTyped'
    BY <1>1, <1>3, VisitLeaves DEF SignInInv
  <2>2. ASSUME Logout(r) PROVE DoorsTyped' /\ DoorsOwned'
    BY <1>1, <2>2, RevokeKeepsDoors DEF Logout, SignInInv
  <2>3. ASSUME RevokeOwnSession(r) PROVE DoorsTyped' /\ DoorsOwned'
    BY <1>1, <2>3, RevokeKeepsDoors DEF RevokeOwnSession, SignInInv
  <2>4. ASSUME BeginRegistration(r) PROVE DoorsTyped' /\ DoorsOwned'
    BY <1>1, <2>4, CeremonyKeepsDoors DEF BeginRegistration, SignInInv
  <2>5. ASSUME RevokeWebAuthn(r) \/ RevokeOwnToken(r) PROVE DoorsTyped' /\ DoorsOwned'
    BY <1>1, <2>5, DeleteKeepsDoors DEF RevokeWebAuthn, RevokeOwnToken, SignInInv
  <2>6. ASSUME CreateOwnToken(r) PROVE DoorsTyped' /\ DoorsOwned'
    BY <1>1, <2>6, TokenKeepsDoors DEF CreateOwnToken, SignInInv
  <2> QED  BY <1>1, <1>3, <2>1, <2>2, <2>3, <2>4, <2>5, <2>6 DEF Good
<1> QED  BY <1>2, <1>3 DEF OwnRequest

\* A request whose visit is over may do what it likes with its task.
LEMMA VisitRests ==
  ASSUME VisitsTyped, NEW r \in Requests, At(r, "away"), UNCHANGED visit,
         \A q \in Requests \ {r} : task'[q] = task[q]
  PROVE  VisitsTyped'
BY DEF VisitsTyped, At, Unread, Going

LEMMA CascadeStep ==
  ASSUME SignInInv, NEW r \in Requests, Going(r, "idle"), NEW a,
         Command(r) \/ (a \in Ids /\ AdminRequest(r, a)), Cascade,
         Leaves(r) \/ (At(r, "away") /\ UNCHANGED visit)
  PROVE  Good
<1>1. DoorsTyped' /\ DoorsOwned'
  BY RequestFate, CascadeKeeps DEF SignInInv
<1>2. [AccountsNext]_accountVars
  BY DEF AccountsNext
<1>3. \A q \in Requests \ {r} : task'[q] = task[q]
  BY OthersAlone DEF SignInInv
<1>4. VisitsTyped'
  BY <1>3, VisitLeaves, VisitRests DEF SignInInv
<1> QED  BY <1>1, <1>2, <1>4 DEF Good

LEMMA HandlerStep ==
  ASSUME SignInInv, NEW r \in Requests, Handler(r)
  PROVE  Good
<1>1. visit[r].user \in Ids /\ Going(r, "idle")
  BY DEF Handler, At, SignInInv, VisitsTyped, VisitOK, Unread
<1>2. CASE At(r, "admitted") /\ OwnRequest(r) /\ Untouched
  BY <1>1, <1>2, OwnStep DEF At
<1>3. CASE AdminRequest(r, visit[r].user) /\ Cascade /\ Leaves(r)
  BY <1>1, <1>3, CascadeStep
<1> QED  BY <1>2, <1>3 DEF Handler

LEMMA RequireAdminStep ==
  ASSUME SignInInv, NEW r \in Requests, RequireAdmin(r)
  PROVE  Good
BY UntouchedStep, StoodStill DEF RequireAdmin, At

LEMMA LocalStep ==
  ASSUME SignInInv, NEW r \in Requests, Going(r, "idle"), At(r, "away"), LocalCommand(r)
  PROVE  Good
<1>1. UNCHANGED visit
  BY DEF LocalCommand
<1>2. CASE Command(r) /\ Cascade
  BY <1>1, <1>2, CascadeStep
<1>3. ASSUME Untouched,
             \/ SessionRevokeCommand \/ WebAuthnRevokeCommand
             \/ TokenCreateCommand \/ TokenRevokeCommand
      PROVE  Good
  <2>1. task' = task /\ [AccountsNext]_accountVars /\ users' = users
    BY <1>3, UntouchedKeeps DEF Untouched, accountVars
  <2>2. VisitsTyped'
    BY <1>1, <2>1, VisitRests DEF SignInInv
  <2>3. SessionRevokeCommand => DoorsTyped' /\ DoorsOwned'
    BY <2>1, RevokeKeepsDoors DEF SessionRevokeCommand, SignInInv
  <2>4. WebAuthnRevokeCommand \/ TokenRevokeCommand => DoorsTyped' /\ DoorsOwned'
    BY <2>1, DeleteKeepsDoors DEF WebAuthnRevokeCommand, TokenRevokeCommand, SignInInv
  <2>5. TokenCreateCommand => DoorsTyped' /\ DoorsOwned'
    BY <2>1, TokenKeepsDoors DEF TokenCreateCommand, SignInInv
  <2> QED  BY <1>3, <2>1, <2>2, <2>3, <2>4, <2>5 DEF Good
<1> QED  BY <1>2, <1>3 DEF LocalCommand

\* The statements of a request whose visit is over.
LEMMA AloneStep ==
  ASSUME SignInInv, NEW r \in Requests, At(r, "away"), UNCHANGED visit, Still,
         \/ AccountStep(r) \/ UpdateUser(r) \/ Refuse(r)
         \/ (Going(r, "idle") /\ Redeem(r))
  PROVE  Good
<1>1. Kept /\ \A q \in Requests \ {r} : task'[q] = task[q]
  BY StepFate, OthersAlone DEF SignInInv
<1>2. [AccountsNext]_accountVars
  BY DEF AccountsNext
<1>3. VisitsTyped'
  BY <1>1, VisitRests DEF SignInInv
<1> QED  BY <1>1, <1>2, <1>3, DoorsStand, StoodStill DEF Good, SignInInv

LEMMA BreakStep ==
  ASSUME SignInInv, NEW r \in Requests, Breaks(r)
  PROVE  Good
<1>1. CASE Stop(r)
  BY <1>1, RefuseStep, StoodStill DEF Breaks
<1>2. CASE Untouched
  BY <1>2, UntouchedStep, StoodStill DEF Breaks
<1> QED  BY <1>1, <1>2 DEF Breaks

LEMMA ExpireStep ==
  ASSUME SignInInv, Expire
  PROVE  Good
<1>1. ASSUME NEW s \in SessionIds, NEW u \in Ids, RevokeSession(s, u), Untouched
      PROVE  Good
  <2>1. task' = task /\ [AccountsNext]_accountVars /\ users' = users
    BY <1>1, UntouchedKeeps DEF Untouched, accountVars
  <2>2. VisitsTyped'
    BY <2>1 DEF Expire, SignInInv, VisitsTyped, Going
  <2> QED  BY <1>1, <2>1, <2>2, RevokeKeepsDoors DEF Good, SignInInv
<1>2. ASSUME NEW i \in Invitations, RevokeInvitation(i), Still
      PROVE  Good
  <2>1. Kept /\ task' = task /\ [AccountsNext]_accountVars
    BY <1>2, RevokeKeeps DEF SignInInv, AccountsNext, RevokeInvitation
  <2>2. VisitsTyped'
    BY <2>1 DEF Expire, SignInInv, VisitsTyped, Going
  <2> QED  BY <1>2, <2>1, <2>2, DoorsStand, StoodStill DEF Good, SignInInv
<1> QED  BY <1>1, <1>2 DEF Expire

(***************************************************************************)
(* Every step.                                                             *)
(***************************************************************************)
LEMMA SignInGood == SignInInv /\ [SignInNext]_vars => Good
<1> SUFFICES ASSUME SignInInv, [SignInNext]_vars PROVE Good
  OBVIOUS
<1>1. ASSUME NEW r \in Requests, MayBegin(r), SignInBegin(r)
      PROVE  Good
  <2>1. Going(r, "idle") /\ At(r, "away")
    BY <1>1 DEF MayBegin
  <2> QED
    BY <1>1, <2>1, LoginStep, BeginStep, FinishStep, TokenStep, LocalStep, AloneStep
       DEF SignInBegin
<1>2. ASSUME NEW r \in Requests, SignInStep(r)
      PROVE  Good
  BY <1>2, FactorStep, SessionStep, RecordLoginStep, DeleteCeremonyStep, ValidateStep,
     PersistStep, RegisterStep, LoadStep, RequireAdminStep, HandlerStep, AloneStep, BreakStep DEF SignInStep
<1>3. CASE UNCHANGED vars
  <2>1. Untouched /\ UNCHANGED visit /\ UNCHANGED doors
    BY <1>3 DEF vars, Untouched, accountVars
  <2>2. Kept /\ task' = task /\ [AccountsNext]_accountVars
    BY <2>1, UntouchedKeeps
  <2>3. VisitsTyped'
    BY <2>1, <2>2 DEF SignInInv, VisitsTyped, Going
  <2> QED  BY <2>1, <2>2, <2>3, DoorsStand DEF Good, SignInInv
<1> QED  BY <1>1, <1>2, <1>3, ExpireStep DEF SignInNext

LEMMA SignInInvStep == SignInInv /\ [SignInNext]_vars => SignInInv'
<1> SUFFICES ASSUME SignInInv, [SignInNext]_vars PROVE SignInInv'
  OBVIOUS
<1>1. Good
  BY SignInGood
<1>2. Invariant' /\ RightsOwned'
  BY <1>1, NextStep, RightsStep DEF Good, SignInInv
<1> QED  BY <1>1, <1>2 DEF Good, SignInInv

LEMMA SignInInvInit == SignInInit => SignInInv
<1> SUFFICES ASSUME SignInInit PROVE SignInInv
  OBVIOUS
<1>1. Invariant /\ RightsOwned
  BY InitStep DEF SignInInit, AccountsInit, RightsOwned
<1>2. DoorsTyped
  BY DEF SignInInit, DoorsTyped, SessionRows
<1>3. DoorsOwned
  BY DEF SignInInit, DoorsOwned
<1>4. VisitsTyped
  BY AwayOK DEF SignInInit, VisitsTyped
<1> QED  BY <1>1, <1>2, <1>3, <1>4 DEF SignInInv

(***************************************************************************)
(* What follows.                                                           *)
(***************************************************************************)
\* Logins, ceremonies and sessions do to the accounts what the operations of
\* the accounts do, and nothing else: a login read before a deletion or a
\* change is one of the requests of Accounts (completeLogin, UpdateUser).
THEOREM SignInImplementsAccounts == SignInSpec => AccountsSpec
<1>1. SignInInit => AccountsInit
  BY DEF SignInInit
<1>2. SignInInv /\ [SignInNext]_vars => [AccountsNext]_accountVars
  BY SignInGood DEF Good
<1> QED  BY <1>1, <1>2, SignInInvInit, SignInInvStep, PTL DEF SignInSpec, AccountsSpec

\* No session, passkey, token, ceremony, role, membership or invitation is
\* left of an account that was deleted, or arrives after the deletion, however
\* the requests interleave (the foreign keys, and the order of completeLogin
\* and of FinishRegistration).
THEOREM NothingLeftOver == SignInSpec => []NothingOutlivesItsUser
<1>1. SignInInv => NothingOutlivesItsUser
  BY DEF SignInInv, DoorsOwned, NothingOutlivesItsUser
<1> QED  BY <1>1, SignInInvInit, SignInInvStep, PTL DEF SignInSpec

\* Invitations are counted as in Accounts while people log in, are changed and
\* are deleted (InvitationService.Redeem).
THEOREM InvitationsCountedAtSignIn == SignInSpec => []InvitationUses
<1>1. SignInInv => InvitationUses
  BY DEF SignInInv, Invariant, Uses
<1> QED  BY <1>1, SignInInvInit, SignInInvStep, PTL DEF SignInSpec

(***************************************************************************)
(* Ceremonies.  Whoever is served has read one before it was gone, because *)
(* it is gone before it serves, and because a row that is gone neither     *)
(* comes back nor changes its account or its purpose.                      *)
(***************************************************************************)
Reading(v) == v.at \in {"got", "deleted", "validated"}

\* What a request has read was there, is gone once the request deleted it, and
\* was begun for what and whom it is used for once a passkey has answered.
Knows(v, row) ==
  /\ row # None
  /\ v.at # "got" => ~row.there
  /\ v.at = "validated" => row.purpose = v.purpose /\ row.user \in {None, v.user}

ReadersKnow ==
  \A r \in Requests : Reading(visit[r]) => Knows(visit[r], ceremonies[visit[r].ceremony])

ServedRight ==
  \A c \in CeremonyIds : served[c] # {} =>
    /\ ceremonies[c] # None /\ ~ceremonies[c].there
    /\ \A x \in served[c] :
         x[2] = ceremonies[c].purpose /\ ceremonies[c].user \in {None, x[3]}

ServedTyped == served \in [CeremonyIds -> SUBSET (Requests \X {"login", "registration"} \X Ids)]

CeremonyInv == ReadersKnow /\ ServedRight /\ ServedTyped

\* What no step does to a ceremony.
Lasting ==
  \A c \in CeremonyIds : ceremonies[c] # None =>
    /\ ceremonies'[c] # None
    /\ ceremonies'[c].user = ceremonies[c].user /\ ceremonies'[c].purpose = ceremonies[c].purpose
    /\ ceremonies'[c].there => ceremonies[c].there

LEMMA StandsLasting == UNCHANGED ceremonies => Lasting
  BY DEF Lasting

LEMMA SavedLasts ==
  ASSUME DoorsTyped, NEW u, NEW p, SaveCeremony(u, p)
  PROVE  Lasting
BY DEF DoorsTyped, SaveCeremony, Lasting

LEMMA DeletedLasts ==
  ASSUME DoorsTyped, NEW r \in Requests, DeleteCeremony(r)
  PROVE  Lasting
<1>1. \A c \in CeremonyIds : ceremonies[c] # None => ceremonies[c] \in CeremonyRows
  BY DEF DoorsTyped
<1>2. \A c \in CeremonyIds : \/ ceremonies'[c] = ceremonies[c]
                             \/ ceremonies'[c] = Dropped(ceremonies[c])
  BY DEF DoorsTyped, DeleteCeremony
<1>3. \A row \in CeremonyRows : /\ row # None /\ Dropped(row) \in CeremonyRows
                                /\ Dropped(row).user = row.user /\ ~Dropped(row).there
                                /\ Dropped(row).purpose = row.purpose
  BY SignInAssumption DEF Dropped, CeremonyRows
<1> QED  BY <1>1, <1>2, <1>3 DEF Lasting

LEMMA CascadeLasts ==
  ASSUME DoorsTyped, Cascade
  PROVE  Lasting
<1> SUFFICES ASSUME NEW c \in CeremonyIds, ceremonies[c] # None
             PROVE  /\ ceremonies'[c] # None
                    /\ ceremonies'[c].user = ceremonies[c].user
                    /\ ceremonies'[c].purpose = ceremonies[c].purpose
                    /\ ceremonies'[c].there => ceremonies[c].there
  BY DEF Lasting
<1>1. ceremonies[c] \in CeremonyRows
  BY DEF DoorsTyped
<1>2. ceremonies'[c] = ceremonies[c] \/ ceremonies'[c] = [ceremonies[c] EXCEPT !.there = FALSE]
  BY DEF Cascade
<1>3. /\ [ceremonies[c] EXCEPT !.there = FALSE] \in CeremonyRows
      /\ [ceremonies[c] EXCEPT !.there = FALSE].user = ceremonies[c].user
      /\ [ceremonies[c] EXCEPT !.there = FALSE].purpose = ceremonies[c].purpose
      /\ ~[ceremonies[c] EXCEPT !.there = FALSE].there
  BY <1>1 DEF CeremonyRows
<1> QED  BY <1>1, <1>2, <1>3, SignInAssumption

\* A step that lets nobody in.
LEMMA NobodyServed ==
  ASSUME CeremonyInv, Lasting, UNCHANGED served
  PROVE  ServedRight' /\ ServedTyped'
<1>1. ServedTyped'
  BY DEF CeremonyInv, ServedTyped
<1>2. ServedRight'
  BY DEF CeremonyInv, ServedRight, Lasting
<1> QED  BY <1>1, <1>2

\* One visit moves: what it has read, if anything, is there to be read.
LEMMA ReaderMoves ==
  ASSUME SignInInv, CeremonyInv, Lasting, NEW r \in Requests, NEW v,
         visit' = [visit EXCEPT ![r] = v],
         Reading(v) => Knows(v, ceremonies'[v.ceremony])
  PROVE  ReadersKnow'
<1>1. visit'[r] = v /\ \A q \in Requests \ {r} : visit'[q] = visit[q]
  BY DEF SignInInv, VisitsTyped
<1> SUFFICES ASSUME NEW q \in Requests, NEW w, w = visit'[q], Reading(w)
             PROVE  Knows(w, ceremonies'[w.ceremony])
  BY DEF ReadersKnow, Reading, Knows
<1>2. CASE q = r
  BY <1>1, <1>2
<1>3. CASE q # r
  <2>1. w = visit[q] /\ w.ceremony \in CeremonyIds
    BY <1>1, <1>3 DEF SignInInv, VisitsTyped, VisitOK, Reading
  <2>2. Knows(w, ceremonies[w.ceremony])
    BY <1>3, <2>1 DEF CeremonyInv, ReadersKnow
  <2> QED  BY <2>1, <2>2 DEF Knows, Lasting
<1> QED  BY <1>2, <1>3

LEMMA ReadersStand ==
  ASSUME SignInInv, CeremonyInv, Lasting, UNCHANGED visit
  PROVE  ReadersKnow'
<1> SUFFICES ASSUME NEW q \in Requests, NEW w, w = visit'[q], Reading(w)
             PROVE  Knows(w, ceremonies'[w.ceremony])
  BY DEF ReadersKnow, Reading, Knows
<1>1. w = visit[q] /\ w.ceremony \in CeremonyIds
  BY DEF SignInInv, VisitsTyped, VisitOK, Reading
<1>2. Knows(w, ceremonies[w.ceremony])
  BY <1>1 DEF CeremonyInv, ReadersKnow
<1> QED  BY <1>1, <1>2 DEF Knows, Lasting

LEMMA ReaderLeaves ==
  ASSUME SignInInv, CeremonyInv, Lasting, NEW r \in Requests, Leaves(r)
  PROVE  ReadersKnow'
<1>1. ~Reading(Away)
  BY DEF Away, Reading
<1> QED  BY <1>1, ReaderMoves DEF Leaves

LEMMA ReaderGoes ==
  ASSUME SignInInv, CeremonyInv, Lasting, NEW r \in Requests,
         NEW where \in {"open", "opened", "admitted", "admin"}, Goes(r, where)
  PROVE  ReadersKnow'
<1> DEFINE v == [visit[r] EXCEPT !.at = where]
<1>1. visit' = [visit EXCEPT ![r] = v] /\ v.at = where
  BY ZenonT(60) DEF Goes, SignInInv, VisitsTyped, VisitOK, Visits
<1> HIDE DEF v
<1> QED  BY <1>1, ReaderMoves DEF Reading

\* A step after which nobody more was let in.
LEMMA CalmStep ==
  ASSUME SignInInv, CeremonyInv, Lasting, UNCHANGED served,
         \/ UNCHANGED visit
         \/ \E r \in Requests : Leaves(r) \/ (\E w \in {"open", "opened", "admitted", "admin"} : Goes(r, w))
  PROVE  CeremonyInv'
BY NobodyServed, ReadersStand, ReaderLeaves, ReaderGoes DEF CeremonyInv

\* A request sets out with nothing read.
LEMMA SetsOut ==
  ASSUME SignInInv, CeremonyInv, NEW r \in Requests, Login(r) \/ ValidateToken(r)
  PROVE  CeremonyInv'
<1>1. Still
  BY ZenonT(60) DEF Login, ValidateToken
<1>2. Lasting /\ UNCHANGED served
  BY <1>1, StandsLasting DEF Still, doors
<1>3. \E v : visit' = [visit EXCEPT ![r] = v] /\ v.at \in {"password", "session"}
  <2>1. \A u : [Away EXCEPT !.at = "password", !.user = u].at = "password"
    BY DEF Away
  <2>2. \A u, s : [Away EXCEPT !.at = "session", !.user = u, !.session = s].at = "session"
    BY DEF Away
  <2>3. CASE Login(r)
    BY <2>1, <2>3, ZenonT(60) DEF Login, Begins
  <2>4. CASE ValidateToken(r)
    BY <2>2, <2>4, ZenonT(60) DEF ValidateToken, Begins
  <2> QED  BY <2>3, <2>4
<1>4. ReadersKnow'
  BY <1>2, <1>3, ReaderMoves DEF Reading
<1> QED  BY <1>2, <1>4, NobodyServed DEF CeremonyInv

LEMMA ReadsOne ==
  ASSUME SignInInv, CeremonyInv, NEW r \in Requests, NEW u, NEW p, GetCeremony(r, u, p), Still
  PROVE  CeremonyInv'
<1>1. Lasting /\ UNCHANGED <<served, ceremonies>>
  BY StandsLasting DEF Still, doors
<1>2. PICK c \in CeremonyIds : /\ ceremonies[c] # None
                               /\ visit' = [visit EXCEPT ![r] = [Away EXCEPT !.at = "got",
                                    !.user = u, !.ceremony = c, !.purpose = p]]
  BY ZenonT(60) DEF GetCeremony
<1> DEFINE v == [Away EXCEPT !.at = "got", !.user = u, !.ceremony = c, !.purpose = p]
<1>3. v.at = "got" /\ v.ceremony = c
  BY DEF Away
<1>4. visit' = [visit EXCEPT ![r] = v]
  BY <1>2
<1> HIDE DEF v
<1>5. ReadersKnow'
  BY <1>1, <1>2, <1>3, <1>4, ReaderMoves DEF Knows
<1> QED  BY <1>1, <1>5, NobodyServed DEF CeremonyInv

LEMMA DeletesOne ==
  ASSUME SignInInv, CeremonyInv, NEW r \in Requests, DeleteCeremony(r)
  PROVE  CeremonyInv'
<1>1. Lasting /\ UNCHANGED served
  BY DeletedLasts DEF DeleteCeremony, SignInInv
<1>2. visit[r].at = "got" /\ visit[r].ceremony \in CeremonyIds /\ visit[r] \in Visits
  BY DEF DeleteCeremony, At, SignInInv, VisitsTyped, VisitOK
<1> DEFINE v == [visit[r] EXCEPT !.at = "deleted"]
<1>3. v.at = "deleted" /\ v.ceremony = visit[r].ceremony /\ visit' = [visit EXCEPT ![r] = v]
  BY <1>2, ZenonT(60) DEF DeleteCeremony, Goes, Visits
<1> HIDE DEF v
<1>4. ceremonies[visit[r].ceremony] \in CeremonyRows
  BY <1>2 DEF CeremonyInv, ReadersKnow, Reading, Knows, SignInInv, DoorsTyped
<1>5. /\ ceremonies'[visit[r].ceremony] = Dropped(ceremonies[visit[r].ceremony])
      /\ ceremonies[visit[r].ceremony] # None
  BY <1>2, <1>4, SignInAssumption DEF DeleteCeremony, SignInInv, DoorsTyped
<1>6. ceremonies'[v.ceremony] # None /\ ~ceremonies'[v.ceremony].there
  BY <1>1, <1>2, <1>3, <1>4, <1>5 DEF Dropped, CeremonyRows, Lasting
<1>7. ReadersKnow'
  BY <1>1, <1>3, <1>6, ReaderMoves DEF Knows
<1> QED  BY <1>1, <1>7, NobodyServed DEF CeremonyInv

\* Someone is let in by the ceremony that the request has read and deleted.
LEMMA ServesOne ==
  ASSUME SignInInv, CeremonyInv, NEW r \in Requests,
         visit[r].at = "validated" \/ (visit[r].at = "deleted" /\ Corresponds(r)),
         NEW u \in Ids, Serves(r, u), visit[r].user = u, UNCHANGED ceremonies
  PROVE  ServedRight' /\ ServedTyped'
<1>1. PICK c \in CeremonyIds : c = visit[r].ceremony
  BY DEF SignInInv, VisitsTyped, VisitOK
<1>2. PICK p \in {"login", "registration"} : p = visit[r].purpose
  BY DEF SignInInv, VisitsTyped, VisitOK
<1>3. ceremonies[c] # None /\ ~ceremonies[c].there
  BY <1>1 DEF CeremonyInv, ReadersKnow, Reading, Knows
<1>4. ceremonies[c].purpose = p /\ ceremonies[c].user \in {None, u}
  BY <1>1, <1>2 DEF Corresponds, CeremonyInv, ReadersKnow, Reading, Knows
<1>5. served' = [served EXCEPT ![c] = @ \union {<<r, p, u>>}]
  BY <1>1, <1>2 DEF Serves
<1>6. ServedTyped'
  BY <1>5 DEF CeremonyInv, ServedTyped
<1>7. ASSUME NEW d \in CeremonyIds, served'[d] # {}
      PROVE  /\ ceremonies[d] # None /\ ~ceremonies[d].there
             /\ \A x \in served'[d] :
                  x[2] = ceremonies[d].purpose /\ ceremonies[d].user \in {None, x[3]}
  <2>1. CASE d = c
    <3>1. served'[d] = served[c] \union {<<r, p, u>>}
      BY <1>5, <2>1 DEF CeremonyInv, ServedTyped
    <3>2. \A x \in served[c] :
            x[2] = ceremonies[c].purpose /\ ceremonies[c].user \in {None, x[3]}
      BY DEF CeremonyInv, ServedRight
    <3> QED  BY <1>3, <1>4, <2>1, <3>1, <3>2
  <2>2. CASE d # c
    BY <1>5, <1>7, <2>2 DEF CeremonyInv, ServedRight, ServedTyped
  <2> QED  BY <2>1, <2>2
<1>8. ServedRight'
  BY <1>7 DEF ServedRight
<1> QED  BY <1>6, <1>8

\* A passkey that answers says whose the ceremony is, if it was nobody's.
LEMMA ValidateCalm ==
  ASSUME SignInInv, CeremonyInv, NEW r \in Requests, ValidateLogin(r)
  PROVE  CeremonyInv'
<1>1. /\ visit[r].at = "deleted" /\ visit[r].purpose = "login"
      /\ UNCHANGED <<served, ceremonies>>
  BY Validated DEF doors
<1>2. Lasting
  BY <1>1, StandsLasting
<1>3. ASSUME NEW u \in Ids, NEW p \in PasskeyIds, Corresponds(r), Validates(r, u, p),
             visit[r].user \in {None, u}
      PROVE  CeremonyInv'
  <2> DEFINE v == [visit[r] EXCEPT !.at = "validated", !.user = u, !.passkey = p]
  <2>1. /\ v.at = "validated" /\ v.user = u /\ v.purpose = visit[r].purpose
        /\ v.ceremony = visit[r].ceremony
    BY ZenonT(60) DEF SignInInv, VisitsTyped, VisitOK, Visits
  <2>2. visit' = [visit EXCEPT ![r] = v]
    BY <1>3 DEF Validates
  <2> HIDE DEF v
  <2>3. Knows(v, ceremonies[v.ceremony])
    BY <1>1, <1>3, <2>1 DEF Corresponds, CeremonyInv, ReadersKnow, Reading, Knows
  <2>4. ReadersKnow'
    BY <1>1, <1>2, <2>2, <2>3, ReaderMoves
  <2> QED  BY <1>1, <1>2, <2>4, NobodyServed DEF CeremonyInv
<1>4. CASE Leaves(r)
  BY <1>1, <1>2, <1>4, CalmStep
<1> QED  BY <1>3, <1>4, Validated

LEMMA PersistServes ==
  ASSUME SignInInv, CeremonyInv, NEW r \in Requests, PersistLoginResult(r)
  PROVE  CeremonyInv'
<1>1. /\ Lasting /\ UNCHANGED ceremonies
      /\ visit[r].at = "validated" /\ visit[r].user \in Ids
  BY StandsLasting DEF PersistLoginResult, doors, At, SignInInv, VisitsTyped, VisitOK
<1>2. CASE Serves(r, visit[r].user) /\ Goes(r, "open")
  BY <1>1, <1>2, ServesOne, ReaderGoes DEF CeremonyInv
<1>3. CASE Leaves(r) /\ UNCHANGED served
  BY <1>1, <1>3, CalmStep
<1> QED  BY <1>2, <1>3 DEF PersistLoginResult

LEMMA RegistrationServes ==
  ASSUME SignInInv, CeremonyInv, NEW r \in Requests, FinishRegistration(r)
  PROVE  CeremonyInv'
<1>1. /\ Lasting /\ UNCHANGED ceremonies /\ Leaves(r)
      /\ visit[r].at = "deleted" /\ visit[r].user \in Ids
  BY StandsLasting DEF FinishRegistration, At, SignInInv, VisitsTyped, VisitOK
<1>2. CASE Corresponds(r) /\ Serves(r, visit[r].user)
  BY <1>1, <1>2, ServesOne, ReaderLeaves DEF CeremonyInv
<1>3. CASE UNCHANGED served
  BY <1>1, <1>3, CalmStep
<1> QED  BY <1>2, <1>3 DEF FinishRegistration

LEMMA CeremonyBegins ==
  ASSUME SignInInv, CeremonyInv, NEW r \in Requests, At(r, "away"), SignInBegin(r)
  PROVE  CeremonyInv'
<1>1. ASSUME BeginWebAuthnLogin(r) PROVE CeremonyInv'
  <2>1. PICK u : SaveCeremony(u, "login")
    BY <1>1 DEF BeginWebAuthnLogin
  <2> QED  BY <1>1, <2>1, SavedLasts, CalmStep DEF BeginWebAuthnLogin, SaveCeremony, SignInInv
<1>2. ASSUME LocalCommand(r) PROVE CeremonyInv'
  <2>1. CASE Cascade
    BY <1>2, <2>1, CascadeLasts, CalmStep DEF LocalCommand, Cascade, SignInInv
  <2>2. CASE \/ SessionRevokeCommand \/ WebAuthnRevokeCommand
             \/ TokenCreateCommand \/ TokenRevokeCommand
    <3>1. UNCHANGED <<ceremonies, served>>
      BY <2>2 DEF SessionRevokeCommand, RevokeSession, WebAuthnRevokeCommand, DeleteCredential,
                  TokenCreateCommand, CreateWebDAVToken, TokenRevokeCommand, RevokeWebDAVToken
    <3> QED  BY <1>2, <3>1, StandsLasting, CalmStep DEF LocalCommand
  <2> QED  BY <1>2, <2>1, <2>2 DEF LocalCommand
<1>3. ASSUME FinishWebAuthnLogin(r) PROVE CeremonyInv'
  BY <1>3, ReadsOne DEF FinishWebAuthnLogin
<1>4. CASE UNCHANGED visit /\ Still
  BY <1>4, StandsLasting, CalmStep DEF Still, doors
<1> QED  BY <1>1, <1>2, <1>3, <1>4, SetsOut DEF SignInBegin

LEMMA CeremonyHandled ==
  ASSUME SignInInv, CeremonyInv, NEW r \in Requests, Handler(r)
  PROVE  CeremonyInv'
<1>1. CASE Cascade /\ Leaves(r)
  BY <1>1, CascadeLasts, CalmStep DEF Cascade, SignInInv
<1>2. CASE GetCeremony(r, visit[r].user, "registration") /\ Still
  BY <1>2, ReadsOne
<1>3. CASE Leaves(r) /\ BeginRegistration(r)
  BY <1>3, SavedLasts, CalmStep DEF BeginRegistration, SaveCeremony, SignInInv
<1>4. CASE Leaves(r) /\ (\/ Logout(r) \/ RevokeOwnSession(r)
                         \/ RevokeWebAuthn(r) \/ CreateOwnToken(r) \/ RevokeOwnToken(r))
  <2>1. UNCHANGED <<ceremonies, served>>
    BY <1>4 DEF Logout, RevokeOwnSession, RevokeSession, RevokeWebAuthn, DeleteCredential,
                CreateOwnToken, CreateWebDAVToken, RevokeOwnToken, RevokeWebDAVToken
  <2> QED  BY <1>4, <2>1, StandsLasting, CalmStep
<1> QED  BY <1>1, <1>2, <1>3, <1>4 DEF Handler, OwnRequest

LEMMA CeremonyInvStep == SignInInv /\ CeremonyInv /\ [SignInNext]_vars => CeremonyInv'
<1> SUFFICES ASSUME SignInInv, CeremonyInv, [SignInNext]_vars PROVE CeremonyInv'
  OBVIOUS
<1>1. ASSUME NEW r \in Requests, MayBegin(r), SignInBegin(r) PROVE CeremonyInv'
  BY <1>1, CeremonyBegins DEF MayBegin
<1>2. ASSUME NEW r \in Requests, Still,
             \/ UNCHANGED visit \/ Leaves(r)
             \/ \E w \in {"open", "opened", "admitted", "admin"} : Goes(r, w)
      PROVE  CeremonyInv'
  BY <1>2, StandsLasting, CalmStep DEF Still, doors
<1>3. ASSUME NEW r \in Requests, CreateSession(r) PROVE CeremonyInv'
  <2>1. Lasting /\ UNCHANGED served /\ (Goes(r, "opened") \/ Leaves(r))
    BY <1>3, StandsLasting DEF CreateSession
  <2> QED  BY <2>1, CalmStep
<1>4. ASSUME NEW r \in Requests, SignInStep(r) PROVE CeremonyInv'
  BY <1>2, <1>3, <1>4, DeletesOne, ValidateCalm, PersistServes, RegistrationServes, CeremonyHandled
     DEF SignInStep, SecondFactor, RecordLogin, LoadUser, RequireAdmin, Breaks
<1>5. CASE UNCHANGED vars
  <2>1. UNCHANGED <<visit, ceremonies, served>>
    BY <1>5 DEF vars, doors
  <2> QED  BY <2>1, StandsLasting, CalmStep
<1>6. ASSUME Expire PROVE CeremonyInv'
  <2>1. UNCHANGED <<visit, ceremonies, served>>
    BY <1>6 DEF Expire, RevokeSession, Still, doors
  <2> QED  BY <2>1, StandsLasting, CalmStep
<1> QED  BY <1>1, <1>4, <1>5, <1>6 DEF SignInNext

LEMMA CeremonyInvInit == SignInInit => CeremonyInv
<1> SUFFICES ASSUME SignInInit PROVE CeremonyInv
  OBVIOUS
<1>1. ~Reading(Away)
  BY DEF Away, Reading
<1> QED  BY <1>1 DEF SignInInit, CeremonyInv, ReadersKnow, ServedRight, ServedTyped

\* A ceremony that has served is gone, and served only what and whom it was
\* begun for, even when two requests read it before either deleted it: each
\* compares it after the deletion, and no third request can (loadCeremony).
THEOREM CeremoniesServeTheirOwn == SignInSpec => []CeremonyServesItsOwn
<1>1. CeremonyInv => CeremonyServesItsOwn
  BY DEF CeremonyInv, ServedRight, CeremonyServesItsOwn
<1> QED  BY <1>1, SignInInvInit, SignInInvStep, CeremonyInvInit, CeremonyInvStep, PTL
         DEF SignInSpec

OpsCounted == ops \in 0 .. MaxOps

\* Every variable of a sign-in has its type, those of the accounts included.
THEOREM SignInTypeCorrect == SignInSpec => []TypeOK
<1>1. SignInInv /\ CeremonyInv /\ OpsCounted => TypeOK
  <2>1. SignInInv => visit \in [Requests -> Visits]
    BY DEF SignInInv, VisitsTyped, VisitOK
  <2> QED  BY <2>1 DEF SignInInv, Invariant, DoorsTyped, CeremonyInv, ServedTyped, OpsCounted, TypeOK
<1>2. SignInInit => OpsCounted
  BY SignInAssumption DEF SignInInit, OpsCounted
<1>3. OpsCounted /\ [SignInNext]_vars => OpsCounted'
  BY SignInAssumption DEF OpsCounted, SignInNext, MayBegin, Expire, vars
<1> QED  BY <1>1, <1>2, <1>3, SignInInvInit, SignInInvStep, CeremonyInvInit, CeremonyInvStep, PTL
         DEF SignInSpec

\* While people sign in, accounts have a role or are known not to (RolesAreGiven).
THEOREM RolesAreGivenAtSignIn == SignInSpec => []RoleOrFailure
BY SignInImplementsAccounts, RolesAreGiven, PTL
=============================================================================
