-------------------------------- MODULE Schema --------------------------------
(***************************************************************************)
(* What the nine revisions of migrations/versions are made of: the tables  *)
(* and columns each brings, the numbers the counters start at, and the     *)
(* history that the last one writes from the rows it finds.                *)
(***************************************************************************)
EXTENDS Roles, FiniteSets

CONSTANTS
  Person,   \* the rows of users
  Nobody,   \* NULL in a reference to users; as an actor, the bot itself
  Padding   \* the digits a code of each type is padded to with zeros

\* The revisions in the order of their down_revision: users, roles, cards, the
\* rework of cards, card_type, power passes, coins, store cards, the audit log.
Latest == 9
Revision == 0 .. Latest

\* What each revision leaves behind that was not there before it.
Brings ==
  <<{"users"}, {"users.role", "users.role_enum"}, {"cards", "cards.user_id"},
    {"cards.created_by_id"}, {"cards.card_type", "cards.card_type_enum"},
    {"power_pass_cards"}, {"coin_cards"}, {"store_cards"}, {"audit_log"}>>

Item == UNION {Brings[r] : r \in 1 .. Latest}

\* The schema of a revision; the rework (4) takes the owner of a card away.
Released(r) == (UNION {Brings[i] : i \in 1 .. r}) \ (IF r >= 4 THEN {"cards.user_id"} ELSE {})

\* The tables of codes, each with its counters, and the revision that creates it.
CodeTable == {"power_pass_cards", "coin_cards", "store_cards"}
Created == [t \in CodeTable |-> CHOOSE r \in 1 .. Latest : t \in Brings[r]]

\* _SEED_NEXT_VALUE of the three revisions: the next number of each type.
SeedRows ==
  [power_pass_cards |-> {<<"join", 101>>, <<"gold_72", 101>>, <<"silver_72", 2>>, <<"gold_48", 1>>,
                         <<"silver_48", 1>>, <<"gold_24", 1>>, <<"silver_24", 1>>},
   coin_cards       |-> {<<"500", 151>>, <<"1000", 1210>>, <<"2000", 801>>, <<"5000", 1551>>,
                         <<"10000", 201>>},
   store_cards      |-> {<<"visit_24", 761>>, <<"visit_48", 301>>, <<"visit_72", 1280>>,
                         <<"transfer_gold", 151>>, <<"transfer_silver", 601>>,
                         <<"join_ranked", 205>>, <<"join_unranked", 2001>>}]

\* The last numbers issued by hand before the bot; 0 where it starts a series.
LastByHand ==
  [power_pass_cards |-> {<<"join", 100>>, <<"gold_72", 100>>, <<"silver_72", 1>>, <<"gold_48", 0>>,
                         <<"silver_48", 0>>, <<"gold_24", 0>>, <<"silver_24", 0>>},
   coin_cards       |-> {<<"500", 150>>, <<"1000", 1209>>, <<"2000", 800>>, <<"5000", 1550>>,
                         <<"10000", 200>>},
   store_cards      |-> {<<"visit_24", 760>>, <<"visit_48", 300>>, <<"visit_72", 1279>>,
                         <<"transfer_gold", 150>>, <<"transfer_silver", 600>>,
                         <<"join_ranked", 204>>, <<"join_unranked", 2000>>}]

Kind == {pair[1] : pair \in UNION {SeedRows[t] : t \in CodeTable}}
TableOf == [k \in Kind |-> CHOOSE t \in CodeTable : \E pair \in SeedRows[t] : pair[1] = k]

Entry(rows, k) == (CHOOSE pair \in rows[TableOf[k]] : pair[1] = k)[2]

\* Mutant: a counter is seeded with the last number used.
SeedLastUsed == [k \in Kind |-> Entry(SeedRows, k) - 1]

Seed   == [k \in Kind |-> Entry(SeedRows, k)]
ByHand == [k \in Kind |-> Entry(LastByHand, k)]

---------------------------------------------------------------------------
(* Rows. A column that does not exist holds its default. *)

NoRole == [role |-> "none", by |-> Nobody, at |-> 0]
NoLog  == [roles |-> {}, cards |-> {}, batches |-> {}]

NoRows == [users    |-> [p \in Person |-> NoRole],  \* role, granted_by_id, role_granted_at
           cards    |-> {},                         \* id, owner (user_id), by (created_by_id), type, at
           counters |-> [k \in Kind |-> 0],         \* 0: no row
           minted   |-> {},                         \* kind, n (of its code), by, at
           log      |-> NoLog]

\* What a card was rendered as before there were designs.
Untyped == "diamond"

\* The line for a person's role, from the row alone.
RoleLine(p, u) ==
  [action |-> CASE u.role = "none" -> "member_removed"
                [] u.role = "super_admin" /\ u.by = Nobody -> "super_admin_seeded"
                [] OTHER -> "member_added",
   actor |-> u.by, target |-> p, role |-> u.role, at |-> u.at]

\* Mutant: only members have a line.
RoleLinesOfMembers(users) ==
  {RoleLine(p, users[p]) : p \in {q \in Person : users[q].at # 0 /\ users[q].role # "none"}}

\* A removal by nobody leaves no line.
RoleLines(users) ==
  {RoleLine(p, users[p]) : p \in {q \in Person :
     users[q].at # 0 /\ (users[q].role = "none" => users[q].by # Nobody)}}

CardLine(c) == [card |-> c.id, actor |-> c.by, type |-> c.type, at |-> c.at]

\* Mutant: grouped by admin and type alone.
TogetherEver(m, n) == m.kind = n.kind /\ m.by = n.by

\* GROUP BY created_by_id, type, created_at.
Together(m, n) == m.kind = n.kind /\ m.by = n.by /\ m.at = n.at

Group(minted, m) == {n \in minted : Together(m, n)}

\* The digits of a number in a code.
Size(kind, n) ==
  CHOOSE l \in Padding[kind] .. Padding[kind] + n :
    n < 10 ^ l /\ \A i \in Padding[kind] .. l - 1 : 10 ^ i <= n

\* The code of m is not after that of n, as text: of codes of different length
\* the digits in common decide, and then the shorter comes first.
Before(kind, m, n) ==
  LET s == Size(kind, m)
      t == Size(kind, n)
  IN IF s = t THEN m <= n
     ELSE IF s < t THEN m * 10 ^ (t - s) <= n
     ELSE m < n * 10 ^ (s - t)

\* COUNT, MIN(code) and MAX(code) of a group.
BatchLine(group) ==
  LET numbers == {m.n : m \in group}
      one == CHOOSE m \in group : TRUE
  IN [kind |-> one.kind, actor |-> one.by, at |-> one.at, count |-> Cardinality(group),
      first |-> CHOOSE n \in numbers : \A i \in numbers : Before(one.kind, n, i),
      last  |-> CHOOSE n \in numbers : \A i \in numbers : Before(one.kind, i, n)]

\* _backfill: the history as far as the rows tell it.
Backfill(rows) ==
  [roles   |-> RoleLines(rows.users),
   cards   |-> {CardLine(c) : c \in rows.cards},
   batches |-> {BatchLine(group) : group \in {Group(rows.minted, m) : m \in rows.minted}}]

\* Mutant: the latest is kept.
Newest(cards) == {c \in cards : \A d \in cards : d.owner = c.owner => c.id >= d.id}

\* Whoever has issued cards keeps the first; DELETE ... NOT IN (SELECT MIN(id) ...).
Earliest(cards) == {c \in cards : \A d \in cards : d.owner = c.owner => c.id <= d.id}

=============================================================================
