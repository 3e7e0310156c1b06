------------------------------ MODULE MCSignIn ------------------------------
EXTENDS SignIn, TLC

CONSTANTS admin, user, new1, new2, s1, p1, i1, x, y, z, w

\* An administrator with a session, a user with TOTP or with a passkey, and an
\* invitation for one use.
MCInit ==
  /\ users \in {[u \in Ids |-> CASE u = admin -> NewRow(x)
                                 [] u = user -> [NewRow(y) EXCEPT !.totp = b]
                                 [] OTHER -> None] : b \in BOOLEAN}
  /\ roles = [u \in Ids |-> CASE u = admin -> {"super_admin"} [] u = user -> {"user"} [] OTHER -> {}]
  /\ invites = [i \in Invitations |->
       IF i = i1 THEN [by |-> admin, role |-> "user", max |-> 1, used |-> 0, open |-> TRUE] ELSE None]
  /\ sessions = [s \in SessionIds |-> IF s = s1 THEN [user |-> admin, open |-> TRUE] ELSE None]
  /\ passkeys = [p \in PasskeyIds |-> IF p = p1 /\ ~users[user].totp THEN user ELSE None]
  /\ SignInInit

MCSpec == MCInit /\ [][SignInNext]_vars

Symmetry == Permutations({new1, new2}) \union Permutations({z, w}) \union Permutations(Requests)
=============================================================================
