-------------------------------- MODULE Roles --------------------------------
(***************************************************************************)
(* The permission rules of core/roles.py: pure predicates over roles, used *)
(* by every component that decides who may do what.                        *)
(***************************************************************************)
EXTENDS Integers

Role == {"none", "user", "admin", "super_admin"}

\* Role.rank orders the four roles; a role outranks the ones below it.
Rank == [r \in Role |-> CASE r = "none"  -> 0
                          [] r = "user"  -> 1
                          [] r = "admin" -> 2
                          [] r = "super_admin" -> 3]

IsMember(role) == role # "none"

IsStaff(role) == Rank[role] >= Rank["admin"]

\* What the bot can hand out, by the giver's role. Nobody mints a super admin.
Grantable == [r \in Role |-> IF r \in {"super_admin", "admin"}
                               THEN {"user", "admin"} ELSE {}]

\* Mutant: the role that is asked for is not looked at.
CanGrantAny(actor, new) == Grantable[actor] # {}

CanGrant(actor, new) == new \in Grantable[actor]

CanRevoke(actor, target, samePerson) ==
  /\ target # "super_admin"
  /\ ~samePerson
  /\ IsMember(target)
  /\ IsStaff(actor)

=============================================================================
