------------------------------- MODULE MCAccess -------------------------------
(***************************************************************************)
(* Small instances of Access for TLC.                                      *)
(***************************************************************************)
EXTENDS Access, TLC

CONSTANTS s, a, b, x

RoleRow(role) == [NewRow EXCEPT !.role = role, !.grantedBy = s]

\* a and b are admins of an earlier life; s is env-listed and not yet in the
\* table; x is a newcomer, known to the bot or not.
McTable ==
  { [p \in Person |-> CASE p = s -> Absent
                        [] p = x -> new
                        [] OTHER -> RoleRow("admin")] : new \in {Absent, NewRow} }

McStranger == {table \in McTable : table[x] = Absent}

Ask(from, op, target, role) ==
  [from |-> from, op |-> op, target |-> target, role |-> role, via |-> "message"]

Button(ask) == [ask EXCEPT !.via = "callback"]

\* Buttons that no screen shows: the role in one comes from the client.
McForged ==
  {Ask(f, "grant", x, "super_admin") : f \in {s, a}}
  \cup {Ask(a, "grant", b, "super_admin"), Ask(a, "grant", b, "none")}

\* Grants and removals between the super admin, the two admins and the newcomer,
\* refused and forged ones among them; and updates that ask for nothing.
McChanges ==
  McForged \cup
  {Ask(f, "grant", t, r) : f \in {s, a}, t \in {b, x}, r \in {"user", "admin"}}
  \cup {Ask(f, "revoke", t, "user") : f \in {a, b}, t \in {a, b, x}}
  \cup {Ask(s, "revoke", a, "user"), Ask(a, "revoke", s, "user"), Ask(a, "grant", s, "user")}
  \cup {Button(Ask(x, "other", x, "user")), Ask(b, "other", b, "user")}

\* Fewer people change fewer roles, while the newcomer knocks twice.
McFewer ==
  {Ask(a, "grant", x, "user"), Ask(a, "grant", b, "user"), Ask(b, "grant", x, "admin"),
   Ask(a, "revoke", b, "user"), Ask(b, "revoke", a, "user"), Ask(a, "revoke", x, "user"),
   Ask(x, "other", x, "user")}

AnyUpdate == Permutations(Update)

=============================================================================
