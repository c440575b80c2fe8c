---------------------------- MODULE MemberRegister ----------------------------
(***************************************************************************)
(* What access control promises where one transaction writes at a time, as *)
(* on SQLite: a register of roles in which each change is one step, right  *)
(* for the role the target has at that moment, and leaves one line that    *)
(* says so. Only the authority of the one who makes it may be out of date: *)
(* it is a role they have, or once had. Access implements this.            *)
(***************************************************************************)
EXTENDS Roles, Sequences

CONSTANTS
  Person,   \* those who may have a role
  Nobody,   \* nobody granted it; the bot as the actor of a line
  SuperIds  \* the super admins of the environment

VARIABLES
  roles,    \* users.role
  granter,  \* users.granted_by_id
  history   \* the membership lines of audit_log, per target

register == <<roles, granter, history>>

Register ==
  /\ roles \in [Person -> Role] /\ granter \in [Person -> Person \cup {Nobody}]
  /\ history = [p \in Person |-> <<>>]

\* The roles a person has had: each line tells the one before it.
Had(p) == {roles[p]} \cup {history[p][i].prev : i \in DOMAIN history[p]}

\* A change and its line.
Change(a, p, new) ==
  /\ history' = [history EXCEPT ![p] = Append(@, [actor |-> a, prev |-> roles[p], role |-> new])]
  /\ roles' = [roles EXCEPT ![p] = new]
  /\ granter' = [granter EXCEPT ![p] = a]

\* grant_role: a new member, or another role for one who may be demoted.
Grant(a, p, new) ==
  /\ Change(a, p, new)
  /\ a # p
  /\ \E mine \in Had(a) :
       CanGrant(mine, new) /\ (IsMember(roles[p]) => CanRevoke(mine, roles[p], FALSE))

\* revoke_access.
Revoke(a, p) ==
  /\ Change(a, p, "none")
  /\ \E mine \in Had(a) : CanRevoke(mine, roles[p], a = p)

\* sync_super_admins promotes all that are missing, and leaves their granters.
Seed ==
  LET missing == {p \in SuperIds : roles[p] # "super_admin"} IN
  /\ roles' = [p \in Person |-> IF p \in missing THEN "super_admin" ELSE roles[p]]
  /\ granter' = granter
  /\ history' = [p \in Person |->
       IF p \in missing
         THEN Append(history[p], [actor |-> Nobody, prev |-> roles[p], role |-> "super_admin"])
         ELSE history[p]]

Promise ==
  /\ Register
  /\ [][ \/ \E a, p \in Person, new \in {"user", "admin"} : Grant(a, p, new)
         \/ \E a, p \in Person : Revoke(a, p)
         \/ Seed ]_register

=============================================================================
