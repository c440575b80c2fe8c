--------------------------- MODULE MigrationsProofs ---------------------------
(***************************************************************************)
(* Proofs about Migrations, for any people, batch sizes, designs, revisions *)
(* that commands name, and any number of writes, failures and downgrades.  *)
(*                                                                         *)
(* Each statement of the chain is told by its place: the direction, the    *)
(* revision and the step. Places says what is done where; then             *)
(*   Base   what the command is at, and the types                          *)
(*   Cards  every card is there, in the form its place of the rework asks  *)
(*   Whole  the schema is the one of the place                             *)
(* are shown inductive one on top of the other.                            *)
(***************************************************************************)
EXTENDS Migrations, TLAPS

Busy == doing # "nothing"

Flags == transactional \in BOOLEAN /\ open \in BOOLEAN /\ scratch \in BOOLEAN

\* Where a command is: its revision lies between the committed one and its goal,
\* its step within the script, and what it sees is what is committed as long as
\* no transaction is open.
Control ==
  /\ Flags /\ step \in Nat \ {0}
  /\ doing \in {"nothing", "up", "down"}
  /\ db.revision \in Revision /\ conn.revision \in Revision /\ goal \in Revision
  /\ ~Busy => conn = db /\ ~open /\ step = 1 /\ ~scratch
  /\ ~open => conn = db
  /\ transactional /\ Busy => open
  /\ doing = "up" => db.revision <= conn.revision /\ conn.revision <= goal
  /\ doing = "down" => goal <= conn.revision /\ conn.revision <= db.revision /\ goal < db.revision
  /\ Busy /\ Arrived => step = 1
  /\ Busy /\ ~Arrived => step <= Len(Script) + 1
  /\ scratch => Runs /\ Copies

---------------------------------------------------------------------------
(* The scripts *)

\* One lemma to a script: its length, and its statements one by one.
LEMMA UpScript1 ==
  /\ Len(Up[1]) = 1
  /\ Up[1][1] = Create("users", {})
BY DEF Up

\* The script to revision 2.
LEMMA UpScript2 ==
  /\ Len(Up[2]) = 3
  /\ Up[2][1] = Batch("add", "users", {"users.role"}, {})
  /\ Up[2][2] = Write("fill_role", "users")
  /\ Up[2][3] = Batch("check", "users", {"users.role_enum"}, {})
BY DEF Up

\* The script to revision 3.
LEMMA UpScript3 ==
  /\ Len(Up[3]) = 1
  /\ Up[3][1] = Create("cards", {"cards.user_id"})
BY DEF Up

\* The script to revision 4.
LEMMA UpScript4 ==
  /\ Len(Up[4]) = 3
  /\ Up[4][1] = Batch("add", "cards", {"cards.created_by_id"}, {})
  /\ Up[4][2] = Write("fill_issuer", "cards")
  /\ Up[4][3] = Batch("drop_owner", "cards", {}, {"cards.user_id"})
BY DEF Up, ReworkUp

\* The script to revision 5.
LEMMA UpScript5 ==
  /\ Len(Up[5]) = 2
  /\ Up[5][1] = Add("add_type", "cards", "cards.card_type")
  /\ Up[5][2] = Batch("check", "cards", {"cards.card_type_enum"}, {})
BY DEF Up

\* The script to revision 6.
LEMMA UpScript6 ==
  /\ Len(Up[6]) = 2
  /\ Up[6][1] = Create("power_pass_cards", {})
  /\ Up[6][2] = Write("seed", "power_pass_cards")
BY DEF Up, Codes

\* The script to revision 7.
LEMMA UpScript7 ==
  /\ Len(Up[7]) = 2
  /\ Up[7][1] = Create("coin_cards", {})
  /\ Up[7][2] = Write("seed", "coin_cards")
BY DEF Up, Codes

\* The script to revision 8.
LEMMA UpScript8 ==
  /\ Len(Up[8]) = 2
  /\ Up[8][1] = Create("store_cards", {})
  /\ Up[8][2] = Write("seed", "store_cards")
BY DEF Up, Codes

\* The script to revision 9.
LEMMA UpScript9 ==
  /\ Len(Up[9]) = 2
  /\ Up[9][1] = Create("audit_log", {})
  /\ Up[9][2] = Write("backfill", "audit_log")
BY DEF Up

\* The script back from revision 1.
LEMMA DownScript1 ==
  /\ Len(Down[1]) = 1
  /\ Down[1][1] = Drop("drop_users", "users", {})
BY DEF Down

\* The script back from revision 2.
LEMMA DownScript2 ==
  /\ Len(Down[2]) = 1
  /\ Down[2][1] = Batch("drop_role", "users", {}, {"users.role", "users.role_enum"})
BY DEF Down

\* The script back from revision 3.
LEMMA DownScript3 ==
  /\ Len(Down[3]) = 1
  /\ Down[3][1] = Drop("drop_cards", "cards", {"cards.user_id"})
BY DEF Down

\* The script back from revision 4.
LEMMA DownScript4 ==
  /\ Len(Down[4]) = 5
  /\ Down[4][1] = Add("add", "cards", "cards.user_id")
  /\ Down[4][2] = Write("fill_owner", "cards")
  /\ Down[4][3] = Write("delete_orphans", "cards")
  /\ Down[4][4] = Write("delete_surplus", "cards")
  /\ Down[4][5] = Batch("drop_issuer", "cards", {}, {"cards.created_by_id"})
BY DEF Down, ReworkDown

\* The script back from revision 5.
LEMMA DownScript5 ==
  /\ Len(Down[5]) = 1
  /\ Down[5][1] = Batch("drop_type", "cards", {}, {"cards.card_type", "cards.card_type_enum"})
BY DEF Down

\* The script back from revision 6.
LEMMA DownScript6 ==
  /\ Len(Down[6]) = 1
  /\ Down[6][1] = Drop("drop_codes", "power_pass_cards", {})
BY DEF Down

\* The script back from revision 7.
LEMMA DownScript7 ==
  /\ Len(Down[7]) = 1
  /\ Down[7][1] = Drop("drop_codes", "coin_cards", {})
BY DEF Down

\* The script back from revision 8.
LEMMA DownScript8 ==
  /\ Len(Down[8]) = 1
  /\ Down[8][1] = Drop("drop_codes", "store_cards", {})
BY DEF Down

\* The script back from revision 9.
LEMMA DownScript9 ==
  /\ Len(Down[9]) = 1
  /\ Down[9][1] = Drop("drop_log", "audit_log", {})
BY DEF Down

\* No script is longer than three statements up, or five down.
LEMMA ScriptLengths ==
  /\ \A r \in 0 .. 8 : Len(Up[r + 1]) \in {1, 2, 3}
  /\ \A r \in 1 .. 9 : Len(Down[r]) \in {1, 5}
<1> DEFINE Scripts == {1, 2, 3, 4, 5, 6, 7, 8, 9}
<1>1. \A r \in 0 .. 8 : r + 1 \in Scripts
  OBVIOUS
<1>2. \A r \in 1 .. 9 : r \in Scripts
  OBVIOUS
<1>3. ASSUME NEW n \in Scripts
      PROVE  Len(Up[n]) \in {1, 2, 3}
  <2>1. CASE n = 1
    BY <2>1, UpScript1
  <2>2. CASE n = 2
    BY <2>2, UpScript2
  <2>3. CASE n = 3
    BY <2>3, UpScript3
  <2>4. CASE n = 4
    BY <2>4, UpScript4
  <2>5. CASE n = 5
    BY <2>5, UpScript5
  <2>6. CASE n = 6
    BY <2>6, UpScript6
  <2>7. CASE n = 7
    BY <2>7, UpScript7
  <2>8. CASE n = 8
    BY <2>8, UpScript8
  <2>9. CASE n = 9
    BY <2>9, UpScript9
  <2> QED BY <2>1, <2>2, <2>3, <2>4, <2>5, <2>6, <2>7, <2>8, <2>9
<1>4. ASSUME NEW n \in Scripts
      PROVE  Len(Down[n]) \in {1, 5}
  <2>1. CASE n = 1
    BY <2>1, DownScript1
  <2>2. CASE n = 2
    BY <2>2, DownScript2
  <2>3. CASE n = 3
    BY <2>3, DownScript3
  <2>4. CASE n = 4
    BY <2>4, DownScript4
  <2>5. CASE n = 5
    BY <2>5, DownScript5
  <2>6. CASE n = 6
    BY <2>6, DownScript6
  <2>7. CASE n = 7
    BY <2>7, DownScript7
  <2>8. CASE n = 8
    BY <2>8, DownScript8
  <2>9. CASE n = 9
    BY <2>9, DownScript9
  <2> QED BY <2>1, <2>2, <2>3, <2>4, <2>5, <2>6, <2>7, <2>8, <2>9
<1> QED BY <1>1, <1>2, <1>3, <1>4

\* What each revision brings.
LEMMA BroughtBy ==
  /\ Brings[1] = {"users"} /\ Brings[2] = {"users.role", "users.role_enum"}
  /\ Brings[3] = {"cards", "cards.user_id"} /\ Brings[4] = {"cards.created_by_id"}
  /\ Brings[5] = {"cards.card_type", "cards.card_type_enum"}
  /\ Brings[6] = {"power_pass_cards"} /\ Brings[7] = {"coin_cards"}
  /\ Brings[8] = {"store_cards"} /\ Brings[9] = {"audit_log"}
BY DEF Brings

\* The revision that creates each table of codes.
LEMMA CreatedAt ==
  /\ Created["power_pass_cards"] = 6 /\ Created["coin_cards"] = 7 /\ Created["store_cards"] = 8
  /\ \A t \in CodeTable : Created[t] \in {6, 7, 8}
<1> 1 .. 9 = {1, 2, 3, 4, 5, 6, 7, 8, 9}
  OBVIOUS
<1>1. \A r \in 1 .. 9 : "power_pass_cards" \in Brings[r] <=> r = 6
  BY BroughtBy
<1>2. \A r \in 1 .. 9 : "coin_cards" \in Brings[r] <=> r = 7
  BY BroughtBy
<1>3. \A r \in 1 .. 9 : "store_cards" \in Brings[r] <=> r = 8
  BY BroughtBy
<1> QED BY <1>1, <1>2, <1>3 DEF Created, CodeTable, Latest

\* The revision an item comes with.
Since(x) ==
  CASE x = "users" -> 1
    [] x \in {"users.role", "users.role_enum"} -> 2
    [] x \in {"cards", "cards.user_id"} -> 3
    [] x = "cards.created_by_id" -> 4
    [] x \in {"cards.card_type", "cards.card_type_enum"} -> 5
    [] x = "power_pass_cards" -> 6
    [] x = "coin_cards" -> 7
    [] x = "store_cards" -> 8
    [] x = "audit_log" -> 9

Items ==
  {"users", "users.role", "users.role_enum", "cards", "cards.user_id", "cards.created_by_id",
   "cards.card_type", "cards.card_type_enum", "power_pass_cards", "coin_cards", "store_cards",
   "audit_log"}

\* An item is in the schema of a revision once it has been brought, the owner of
\* a card until the rework.
LEMMA Membership ==
  /\ Item = Items
  /\ \A r \in Revision : \A x :
       x \in Released(r) <=> x \in Items /\ Since(x) <= r /\ (r >= 4 => x # "cards.user_id")
<1> 1 .. 9 = {1, 2, 3, 4, 5, 6, 7, 8, 9}
  OBVIOUS
<1>1. \A i \in 1 .. 9 : \A x : x \in Brings[i] <=> x \in Items /\ Since(x) = i
  BY BroughtBy DEF Items, Since
<1>2. \A x \in Items : Since(x) \in 1 .. 9
  BY DEF Items, Since
<1>3. Item = Items
  BY <1>1, <1>2 DEF Item, Latest
<1>4. ASSUME NEW r \in Revision, NEW x
      PROVE  x \in Released(r) <=> x \in Items /\ Since(x) <= r /\ (r >= 4 => x # "cards.user_id")
  <2>1. r \in 0 .. 9
    BY DEF Revision, Latest
  <2>2. x \in Released(r) <=> (\E i \in 1 .. r : x \in Brings[i]) /\ (r >= 4 => x # "cards.user_id")
    BY DEF Released
  <2>3. (\E i \in 1 .. r : x \in Brings[i]) <=> x \in Items /\ Since(x) <= r
    <3>1. \A i \in 1 .. r : i \in 1 .. 9
      BY <2>1
    <3>2. x \in Items => Since(x) \in 1 .. 9
      BY <1>2
    <3> QED BY <1>1, <2>1, <3>1, <3>2
  <2> QED BY <2>2, <2>3
<1> QED BY <1>3, <1>4

\* The statement s comes next, at this place of the chain.
At(direction, r, i, s) == doing = direction /\ conn.revision = r /\ step = i /\ Current = s

UpStatements ==
  \/ At("up", 0, 1, Create("users", {}))
  \/ At("up", 1, 1, Batch("add", "users", {"users.role"}, {}))
  \/ At("up", 1, 2, Write("fill_role", "users"))
  \/ At("up", 1, 3, Batch("check", "users", {"users.role_enum"}, {}))
  \/ At("up", 2, 1, Create("cards", {"cards.user_id"}))
  \/ At("up", 3, 1, Batch("add", "cards", {"cards.created_by_id"}, {}))
  \/ At("up", 3, 2, Write("fill_issuer", "cards"))
  \/ At("up", 3, 3, Batch("drop_owner", "cards", {}, {"cards.user_id"}))
  \/ At("up", 4, 1, Add("add_type", "cards", "cards.card_type"))
  \/ At("up", 4, 2, Batch("check", "cards", {"cards.card_type_enum"}, {}))
  \/ At("up", 8, 1, Create("audit_log", {}))
  \/ At("up", 8, 2, Write("backfill", "audit_log"))
  \/ \E t \in CodeTable : \/ At("up", Created[t] - 1, 1, Create(t, {}))
                          \/ At("up", Created[t] - 1, 2, Write("seed", t))

DownStatements ==
  \/ At("down", 1, 1, Drop("drop_users", "users", {}))
  \/ At("down", 2, 1, Batch("drop_role", "users", {}, {"users.role", "users.role_enum"}))
  \/ At("down", 3, 1, Drop("drop_cards", "cards", {"cards.user_id"}))
  \/ At("down", 4, 1, Add("add", "cards", "cards.user_id"))
  \/ At("down", 4, 2, Write("fill_owner", "cards"))
  \/ At("down", 4, 3, Write("delete_orphans", "cards"))
  \/ At("down", 4, 4, Write("delete_surplus", "cards"))
  \/ At("down", 4, 5, Batch("drop_issuer", "cards", {}, {"cards.created_by_id"}))
  \/ At("down", 5, 1, Batch("drop_type", "cards", {}, {"cards.card_type", "cards.card_type_enum"}))
  \/ At("down", 9, 1, Drop("drop_log", "audit_log", {}))
  \/ \E t \in CodeTable : At("down", Created[t], 1, Drop("drop_codes", t, {}))

\* A running command is before one of the 32 statements of the chain.
LEMMA Statements ==
  ASSUME Control, Runs
  PROVE  UpStatements \/ DownStatements
<1>0. step \in 1 .. Len(Script) /\ conn.revision # goal
  BY DEF Control, Runs, Arrived
<1>1. CASE doing = "up"
  <2>1. conn.revision \in {0, 1, 2, 3, 4, 5, 6, 7, 8} /\ Script = Up[conn.revision + 1]
    BY <1>0, <1>1 DEF Control, Revision, Latest, Script
  <2>2. CASE conn.revision = 0
    BY <1>0, <1>1, <2>1, <2>2, UpScript1 DEF At, Current, CodeTable, UpStatements
  <2>3. CASE conn.revision = 1
    BY <1>0, <1>1, <2>1, <2>3, UpScript2 DEF At, Current, CodeTable, UpStatements
  <2>4. CASE conn.revision = 2
    BY <1>0, <1>1, <2>1, <2>4, UpScript3 DEF At, Current, CodeTable, UpStatements
  <2>5. CASE conn.revision = 3
    <3>1. Script = Up[4]
      BY <2>1, <2>5
    <3>2. step \in {1, 2, 3}
      BY <1>0, <3>1, UpScript4
    <3> QED BY <1>1, <2>5, <3>1, <3>2, UpScript4 DEF At, Current, CodeTable, UpStatements
  <2>6. CASE conn.revision = 4
    <3>1. Script = Up[5]
      BY <2>1, <2>6
    <3>2. step \in {1, 2}
      BY <1>0, <3>1, UpScript5
    <3> QED BY <1>1, <2>6, <3>1, <3>2, UpScript5 DEF At, Current, CodeTable, UpStatements
  <2>7. CASE conn.revision = 5
    <3>1. Script = Up[6]
      BY <2>1, <2>7
    <3>2. step \in {1, 2}
      BY <1>0, <3>1, UpScript6
    <3> QED BY <1>1, <2>7, <3>1, <3>2, UpScript6, CreatedAt DEF At, Current, CodeTable,
       UpStatements
  <2>8. CASE conn.revision = 6
    <3>1. Script = Up[7]
      BY <2>1, <2>8
    <3>2. step \in {1, 2}
      BY <1>0, <3>1, UpScript7
    <3> QED BY <1>1, <2>8, <3>1, <3>2, UpScript7, CreatedAt DEF At, Current, CodeTable,
       UpStatements
  <2>9. CASE conn.revision = 7
    <3>1. Script = Up[8]
      BY <2>1, <2>9
    <3>2. step \in {1, 2}
      BY <1>0, <3>1, UpScript8
    <3> QED BY <1>1, <2>9, <3>1, <3>2, UpScript8, CreatedAt DEF At, Current, CodeTable,
       UpStatements
  <2>10. CASE conn.revision = 8
    <3>1. Script = Up[9]
      BY <2>1, <2>10
    <3>2. step \in {1, 2}
      BY <1>0, <3>1, UpScript9
    <3> QED BY <1>1, <2>10, <3>1, <3>2, UpScript9 DEF At, Current, CodeTable, UpStatements
  <2> QED BY <2>1, <2>2, <2>3, <2>4, <2>5, <2>6, <2>7, <2>8, <2>9, <2>10
<1>2. CASE doing = "down"
  <2>1. conn.revision \in {1, 2, 3, 4, 5, 6, 7, 8, 9} /\ Script = Down[conn.revision]
    BY <1>0, <1>2 DEF Control, Revision, Latest, Script
  <2>2. CASE conn.revision = 1
    BY <1>0, <1>2, <2>1, <2>2, DownScript1 DEF At, Current, CodeTable, DownStatements
  <2>3. CASE conn.revision = 2
    BY <1>0, <1>2, <2>1, <2>3, DownScript2 DEF At, Current, CodeTable, DownStatements
  <2>4. CASE conn.revision = 3
    BY <1>0, <1>2, <2>1, <2>4, DownScript3 DEF At, Current, CodeTable, DownStatements
  <2>5. CASE conn.revision = 4
    <3>1. Script = Down[4] /\ step \in {1, 2, 3, 4, 5}
      BY <1>0, <2>1, <2>5, DownScript4
    <3> QED BY <1>2, <2>5, <3>1, DownScript4 DEF At, Current, CodeTable, DownStatements
  <2>6. CASE conn.revision = 5
    <3>1. Script = Down[5] /\ step = 1
      BY <1>0, <2>1, <2>6, DownScript5
    <3> QED BY <1>2, <2>6, <3>1, DownScript5 DEF At, Current, CodeTable, DownStatements
  <2>7. CASE conn.revision = 6
    <3>1. Script = Down[6] /\ step = 1
      BY <1>0, <2>1, <2>7, DownScript6
    <3> QED BY <1>2, <2>7, <3>1, DownScript6, CreatedAt DEF At, Current, CodeTable,
       DownStatements
  <2>8. CASE conn.revision = 7
    <3>1. Script = Down[7] /\ step = 1
      BY <1>0, <2>1, <2>8, DownScript7
    <3> QED BY <1>2, <2>8, <3>1, DownScript7, CreatedAt DEF At, Current, CodeTable,
       DownStatements
  <2>9. CASE conn.revision = 8
    <3>1. Script = Down[8] /\ step = 1
      BY <1>0, <2>1, <2>9, DownScript8
    <3> QED BY <1>2, <2>9, <3>1, DownScript8, CreatedAt DEF At, Current, CodeTable,
       DownStatements
  <2>10. CASE conn.revision = 9
    <3>1. Script = Down[9] /\ step = 1
      BY <1>0, <2>1, <2>10, DownScript9
    <3> QED BY <1>2, <2>10, <3>1, DownScript9 DEF At, Current, CodeTable, DownStatements
  <2> QED BY <2>1, <2>2, <2>3, <2>4, <2>5, <2>6, <2>7, <2>8, <2>9, <2>10
<1> QED BY <1>1, <1>2 DEF Control, Runs

---------------------------------------------------------------------------
(* What statements do *)

\* A database has these parts, and these rows.
HasRows(x) ==
  x = [users |-> x.users, cards |-> x.cards, counters |-> x.counters, minted |-> x.minted, log |-> x.log]

HasParts(d) ==
  /\ d = [revision |-> d.revision, schema |-> d.schema, rows |-> d.rows]
  /\ HasRows(d.rows)

HasLog(l) == l = [roles |-> l.roles, cards |-> l.cards, batches |-> l.batches]

Shapes ==
  /\ HasParts(db) /\ HasParts(conn) /\ HasLog(db.rows.log) /\ HasLog(conn.rows.log)
  /\ facts = [roles |-> facts.roles, batches |-> facts.batches, sold |-> facts.sold,
              dropped |-> facts.dropped]
  /\ bounds = [writes |-> bounds.writes, failures |-> bounds.failures, downgrades |-> bounds.downgrades]

\* What a statement does to each table, by its name.
Effects(s, x, y) ==
  /\ HasRows(y)
  /\ y.users = IF s.op = "drop_role" THEN [p \in Person |-> NoRole] ELSE x.users
  /\ y.minted =
       IF s.op = "drop_codes" THEN {m \in x.minted : TableOf[m.kind] # s.table} ELSE x.minted
  /\ y.counters =
       CASE s.op = "seed" -> [k \in Kind |-> IF TableOf[k] = s.table THEN Seed[k] ELSE x.counters[k]]
         [] s.op = "drop_codes" -> [k \in Kind |-> IF TableOf[k] = s.table THEN 0 ELSE x.counters[k]]
         [] OTHER -> x.counters
  /\ y.log =
       CASE s.op = "backfill" -> Backfill(x) [] s.op = "drop_log" -> NoLog [] OTHER -> x.log
  /\ y.cards =
       CASE s.op = "fill_issuer"    -> {[c EXCEPT !.by = c.owner] : c \in x.cards}
         [] s.op = "drop_owner"     -> {[c EXCEPT !.owner = Nobody] : c \in x.cards}
         [] s.op = "add_type"       -> {[c EXCEPT !.type = Untyped] : c \in x.cards}
         [] s.op = "drop_cards"     -> {}
         [] s.op = "fill_owner"     -> {[c EXCEPT !.owner = c.by] : c \in x.cards}
         [] s.op = "delete_orphans" -> {c \in x.cards : c.owner # Nobody}
         [] s.op = "delete_surplus" -> Earliest(x.cards)
         [] s.op = "drop_issuer"    -> {[c EXCEPT !.by = Nobody] : c \in x.cards}
         [] s.op = "drop_type"      -> {[c EXCEPT !.type = "none"] : c \in x.cards}
         [] OTHER                   -> x.cards

\* After does these things to the rows.
LEMMA AfterEffects ==
  ASSUME NEW s, NEW x, HasRows(x)
  PROVE  Effects(s, x, After(s, x))
<1>1. ASSUME s.op = "drop_role" PROVE Effects(s, x, After(s, x))
  <2>1. After(s, x) = [x EXCEPT !.users = [p \in Person |-> NoRole]]
    BY <1>1 DEF After
  <2>2. HasRows(After(s, x)) /\ After(s, x).users = [p \in Person |-> NoRole]
    BY <2>1 DEF HasRows
  <2>3. After(s, x).cards = x.cards /\ After(s, x).counters = x.counters
          /\ After(s, x).minted = x.minted /\ After(s, x).log = x.log
    BY <2>1 DEF HasRows
  <2> QED BY <1>1, <2>2, <2>3 DEF Effects
<1>2. ASSUME s.op = "fill_issuer" PROVE Effects(s, x, After(s, x))
  <2>1. After(s, x) = [x EXCEPT !.cards = {[c EXCEPT !.by = c.owner] : c \in x.cards}]
    BY <1>2 DEF After
  <2>2. HasRows(After(s, x)) /\ After(s, x).cards = {[c EXCEPT !.by = c.owner] : c \in x.cards}
    BY <2>1 DEF HasRows
  <2>3. After(s, x).users = x.users /\ After(s, x).counters = x.counters
          /\ After(s, x).minted = x.minted /\ After(s, x).log = x.log
    BY <2>1 DEF HasRows
  <2> QED BY <1>2, <2>2, <2>3 DEF Effects
<1>3. ASSUME s.op = "drop_owner" PROVE Effects(s, x, After(s, x))
  <2>1. After(s, x) = [x EXCEPT !.cards = {[c EXCEPT !.owner = Nobody] : c \in x.cards}]
    BY <1>3 DEF After
  <2>2. HasRows(After(s, x)) /\ After(s, x).cards = {[c EXCEPT !.owner = Nobody] : c \in x.cards}
    BY <2>1 DEF HasRows
  <2>3. After(s, x).users = x.users /\ After(s, x).counters = x.counters
          /\ After(s, x).minted = x.minted /\ After(s, x).log = x.log
    BY <2>1 DEF HasRows
  <2> QED BY <1>3, <2>2, <2>3 DEF Effects
<1>4. ASSUME s.op = "add_type" PROVE Effects(s, x, After(s, x))
  <2>1. After(s, x) = [x EXCEPT !.cards = {[c EXCEPT !.type = Untyped] : c \in x.cards}]
    BY <1>4 DEF After
  <2>2. HasRows(After(s, x)) /\ After(s, x).cards = {[c EXCEPT !.type = Untyped] : c \in x.cards}
    BY <2>1 DEF HasRows
  <2>3. After(s, x).users = x.users /\ After(s, x).counters = x.counters
          /\ After(s, x).minted = x.minted /\ After(s, x).log = x.log
    BY <2>1 DEF HasRows
  <2> QED BY <1>4, <2>2, <2>3 DEF Effects
<1>5. ASSUME s.op = "seed" PROVE Effects(s, x, After(s, x))
  <2>1. After(s, x) = [x EXCEPT !.counters = [k \in Kind |-> IF TableOf[k] = s.table THEN Seed[k] ELSE x.counters[k]]]
    BY <1>5 DEF After
  <2>2. HasRows(After(s, x)) /\ After(s, x).counters = [k \in Kind |-> IF TableOf[k] = s.table THEN Seed[k] ELSE x.counters[k]]
    BY <2>1 DEF HasRows
  <2>3. After(s, x).users = x.users /\ After(s, x).cards = x.cards
          /\ After(s, x).minted = x.minted /\ After(s, x).log = x.log
    BY <2>1 DEF HasRows
  <2> QED BY <1>5, <2>2, <2>3 DEF Effects
<1>6. ASSUME s.op = "backfill" PROVE Effects(s, x, After(s, x))
  <2>1. After(s, x) = [x EXCEPT !.log = Backfill(x)]
    BY <1>6 DEF After
  <2>2. HasRows(After(s, x)) /\ After(s, x).log = Backfill(x)
    BY <2>1 DEF HasRows
  <2>3. After(s, x).users = x.users /\ After(s, x).cards = x.cards
          /\ After(s, x).counters = x.counters /\ After(s, x).minted = x.minted
    BY <2>1 DEF HasRows
  <2> QED BY <1>6, <2>2, <2>3 DEF Effects
<1>7. ASSUME s.op = "drop_cards" PROVE Effects(s, x, After(s, x))
  <2>1. After(s, x) = [x EXCEPT !.cards = {}]
    BY <1>7 DEF After
  <2>2. HasRows(After(s, x)) /\ After(s, x).cards = {}
    BY <2>1 DEF HasRows
  <2>3. After(s, x).users = x.users /\ After(s, x).counters = x.counters
          /\ After(s, x).minted = x.minted /\ After(s, x).log = x.log
    BY <2>1 DEF HasRows
  <2> QED BY <1>7, <2>2, <2>3 DEF Effects
<1>8. ASSUME s.op = "fill_owner" PROVE Effects(s, x, After(s, x))
  <2>1. After(s, x) = [x EXCEPT !.cards = {[c EXCEPT !.owner = c.by] : c \in x.cards}]
    BY <1>8 DEF After
  <2>2. HasRows(After(s, x)) /\ After(s, x).cards = {[c EXCEPT !.owner = c.by] : c \in x.cards}
    BY <2>1 DEF HasRows
  <2>3. After(s, x).users = x.users /\ After(s, x).counters = x.counters
          /\ After(s, x).minted = x.minted /\ After(s, x).log = x.log
    BY <2>1 DEF HasRows
  <2> QED BY <1>8, <2>2, <2>3 DEF Effects
<1>9. ASSUME s.op = "delete_orphans" PROVE Effects(s, x, After(s, x))
  <2>1. After(s, x) = [x EXCEPT !.cards = {c \in x.cards : c.owner # Nobody}]
    BY <1>9 DEF After
  <2>2. HasRows(After(s, x)) /\ After(s, x).cards = {c \in x.cards : c.owner # Nobody}
    BY <2>1 DEF HasRows
  <2>3. After(s, x).users = x.users /\ After(s, x).counters = x.counters
          /\ After(s, x).minted = x.minted /\ After(s, x).log = x.log
    BY <2>1 DEF HasRows
  <2> QED BY <1>9, <2>2, <2>3 DEF Effects
<1>10. ASSUME s.op = "delete_surplus" PROVE Effects(s, x, After(s, x))
  <2>1. After(s, x) = [x EXCEPT !.cards = Earliest(x.cards)]
    BY <1>10 DEF After
  <2>2. HasRows(After(s, x)) /\ After(s, x).cards = Earliest(x.cards)
    BY <2>1 DEF HasRows
  <2>3. After(s, x).users = x.users /\ After(s, x).counters = x.counters
          /\ After(s, x).minted = x.minted /\ After(s, x).log = x.log
    BY <2>1 DEF HasRows
  <2> QED BY <1>10, <2>2, <2>3 DEF Effects
<1>11. ASSUME s.op = "drop_issuer" PROVE Effects(s, x, After(s, x))
  <2>1. After(s, x) = [x EXCEPT !.cards = {[c EXCEPT !.by = Nobody] : c \in x.cards}]
    BY <1>11 DEF After
  <2>2. HasRows(After(s, x)) /\ After(s, x).cards = {[c EXCEPT !.by = Nobody] : c \in x.cards}
    BY <2>1 DEF HasRows
  <2>3. After(s, x).users = x.users /\ After(s, x).counters = x.counters
          /\ After(s, x).minted = x.minted /\ After(s, x).log = x.log
    BY <2>1 DEF HasRows
  <2> QED BY <1>11, <2>2, <2>3 DEF Effects
<1>12. ASSUME s.op = "drop_type" PROVE Effects(s, x, After(s, x))
  <2>1. After(s, x) = [x EXCEPT !.cards = {[c EXCEPT !.type = "none"] : c \in x.cards}]
    BY <1>12 DEF After
  <2>2. HasRows(After(s, x)) /\ After(s, x).cards = {[c EXCEPT !.type = "none"] : c \in x.cards}
    BY <2>1 DEF HasRows
  <2>3. After(s, x).users = x.users /\ After(s, x).counters = x.counters
          /\ After(s, x).minted = x.minted /\ After(s, x).log = x.log
    BY <2>1 DEF HasRows
  <2> QED BY <1>12, <2>2, <2>3 DEF Effects
<1>13. ASSUME s.op = "drop_log" PROVE Effects(s, x, After(s, x))
  <2>1. After(s, x) = [x EXCEPT !.log = NoLog]
    BY <1>13 DEF After
  <2>2. HasRows(After(s, x)) /\ After(s, x).log = NoLog
    BY <2>1 DEF HasRows
  <2>3. After(s, x).users = x.users /\ After(s, x).cards = x.cards
          /\ After(s, x).counters = x.counters /\ After(s, x).minted = x.minted
    BY <2>1 DEF HasRows
  <2> QED BY <1>13, <2>2, <2>3 DEF Effects
<1>14. ASSUME s.op = "drop_codes" PROVE Effects(s, x, After(s, x))
  <2> DEFINE M == {m \in x.minted : TableOf[m.kind] # s.table}
             C == [k \in Kind |-> IF TableOf[k] = s.table THEN 0 ELSE x.counters[k]]
  <2>1. After(s, x) = [x EXCEPT !.minted = M, !.counters = C]
    BY <1>14 DEF After
  <2> HIDE DEF M, C
  <2>2. HasRows(After(s, x)) /\ After(s, x).minted = M /\ After(s, x).counters = C
    BY <2>1 DEF HasRows
  <2>3. After(s, x).users = x.users /\ After(s, x).cards = x.cards /\ After(s, x).log = x.log
    BY <2>1 DEF HasRows
  <2> QED BY <1>14, <2>2, <2>3 DEF Effects, M, C
<1>15. ASSUME s.op \notin {"drop_role", "fill_issuer", "drop_owner", "add_type", "seed",
                          "backfill", "drop_cards", "fill_owner", "delete_orphans",
                          "delete_surplus", "drop_issuer", "drop_type", "drop_log",
                          "drop_codes"}
      PROVE  Effects(s, x, After(s, x))
  <2>1. After(s, x) = x
    BY <1>15 DEF After
  <2> QED BY <1>15, <2>1 DEF Effects
<1> QED BY <1>1, <1>2, <1>3, <1>4, <1>5, <1>6, <1>7, <1>8, <1>9, <1>10, <1>11, <1>12, <1>13,
   <1>14, <1>15

\* _SEED_NEXT_VALUE begins each series one after the last number used by hand.
LEMMA SeedTables ==
  ASSUME NEW t \in CodeTable
  PROVE  /\ \A p \in SeedRows[t], q \in LastByHand[t] : p[1] = q[1] => p[2] = q[2] + 1
         /\ \A p \in SeedRows[t] : \E q \in LastByHand[t] : p[1] = q[1]
         /\ \A q \in LastByHand[t] : q[2] \in Nat
<1>1. CASE t = "power_pass_cards"
  <2>1. SeedRows[t] = {<<"join", 101>>, <<"gold_72", 101>>, <<"silver_72", 2>>, <<"gold_48", 1>>,
                       <<"silver_48", 1>>, <<"gold_24", 1>>, <<"silver_24", 1>>}
    BY <1>1 DEF SeedRows
  <2>2. LastByHand[t] = {<<"join", 100>>, <<"gold_72", 100>>, <<"silver_72", 1>>, <<"gold_48", 0>>,
                         <<"silver_48", 0>>, <<"gold_24", 0>>, <<"silver_24", 0>>}
    BY <1>1 DEF LastByHand
  <2> QED BY <2>1, <2>2
<1>2. CASE t = "coin_cards"
  <2>1. SeedRows[t] = {<<"500", 151>>, <<"1000", 1210>>, <<"2000", 801>>, <<"5000", 1551>>,
                       <<"10000", 201>>}
    BY <1>2 DEF SeedRows
  <2>2. LastByHand[t] = {<<"500", 150>>, <<"1000", 1209>>, <<"2000", 800>>, <<"5000", 1550>>,
                         <<"10000", 200>>}
    BY <1>2 DEF LastByHand
  <2> QED BY <2>1, <2>2
<1>3. CASE t = "store_cards"
  <2>1. SeedRows[t] = {<<"visit_24", 761>>, <<"visit_48", 301>>, <<"visit_72", 1280>>,
                       <<"transfer_gold", 151>>, <<"transfer_silver", 601>>,
                       <<"join_ranked", 205>>, <<"join_unranked", 2001>>}
    BY <1>3 DEF SeedRows
  <2>2. LastByHand[t] = {<<"visit_24", 760>>, <<"visit_48", 300>>, <<"visit_72", 1279>>,
                         <<"transfer_gold", 150>>, <<"transfer_silver", 600>>,
                         <<"join_ranked", 204>>, <<"join_unranked", 2000>>}
    BY <1>3 DEF LastByHand
  <2> QED BY <2>1, <2>2
<1> QED BY <1>1, <1>2, <1>3 DEF CodeTable

\* So does each counter.
LEMMA Kinds ==
  ASSUME NEW k \in Kind
  PROVE  /\ TableOf[k] \in CodeTable
         /\ ByHand[k] \in Nat /\ Seed[k] = ByHand[k] + 1
<1>1. PICK u \in CodeTable : \E pair \in SeedRows[u] : pair[1] = k
  BY DEF Kind
<1>2. TableOf[k] \in CodeTable /\ \E pair \in SeedRows[TableOf[k]] : pair[1] = k
  BY <1>1 DEF TableOf
<1>3. Entry(SeedRows, k) = Entry(LastByHand, k) + 1 /\ Entry(LastByHand, k) \in Nat
  BY <1>2, SeedTables DEF Entry
<1> QED BY <1>2, <1>3 DEF Seed, ByHand

---------------------------------------------------------------------------
(* Types, and the three steps of a script *)

RoleRow == [role : Role, by : Person \cup {Nobody}, at : Nat]
MintRow == [kind : Kind, n : Nat, by : Person, at : Nat]

\* What the rows and the history are made of.
Types ==
  /\ Database(db) /\ Database(conn)
  /\ db.rows.minted \subseteq MintRow /\ conn.rows.minted \subseteq MintRow
  /\ facts.roles \in [Person -> RoleRow]
  /\ now \in Nat /\ bounds \in [writes : Nat, failures : Nat, downgrades : Nat]

Base == Shapes /\ Control /\ Types

\* The statement that has run, and what the command and the others see of it.
Ran ==
  /\ Runs /\ Possible /\ (Copies => scratch)
  /\ conn'.revision = conn.revision /\ Effects(Current, conn.rows, conn'.rows)
  /\ conn'.schema = ((conn.schema \cup Current.adds) \ Current.drops)
                       \ (IF Copies THEN {Copy(Current.table)} ELSE {})
  /\ \/ open' /\ db' = db
     \/ ~open' /\ db' = conn' /\ ~transactional /\ db = conn /\ ~open /\ ~Copies /\ Current.how # "write"
  /\ HasParts(conn') /\ HasParts(db') /\ db'.revision = db.revision
  /\ step' = step + 1 /\ scratch' = FALSE /\ open' \in BOOLEAN
  /\ facts' = Forgotten
  /\ UNCHANGED <<transactional, doing, goal, bounds, now>>

\* An executed statement is Ran.
LEMMA ExecuteRuns ==
  ASSUME Base, Execute
  PROVE  Ran
<1>1. Runs /\ Possible /\ (Copies => scratch) /\ conn.rows = conn.rows
  BY DEF Execute
<1>2. /\ conn' = [revision |-> conn.revision,
                  schema   |-> ((conn.schema \cup Current.adds) \ Current.drops)
                                 \ (IF Copies THEN {Copy(Current.table)} ELSE {}),
                  rows     |-> After(Current, conn.rows)]
      /\ open' = (open \/ Copies \/ Current.how = "write")
      /\ db' = IF open' THEN db ELSE conn'
  BY DEF Execute
<1>3. Effects(Current, conn.rows, After(Current, conn.rows))
  BY AfterEffects DEF Base, Shapes, HasParts
<1>4. HasRows(After(Current, conn.rows))
  BY <1>3 DEF Effects
<1>5. /\ conn'.revision = conn.revision /\ conn'.rows = After(Current, conn.rows)
      /\ conn'.schema = ((conn.schema \cup Current.adds) \ Current.drops)
                          \ (IF Copies THEN {Copy(Current.table)} ELSE {})
      /\ HasParts(conn')
  BY <1>2, <1>4 DEF HasParts
<1>6. open' \in BOOLEAN /\ (open' <=> open \/ Copies \/ Current.how = "write")
  BY <1>2 DEF Base, Control
<1>7. \/ open' /\ db' = db
      \/ ~open' /\ db' = conn' /\ ~transactional /\ db = conn /\ ~open /\ ~Copies /\ Current.how # "write"
  BY <1>1, <1>2, <1>6 DEF Base, Control, Busy, Runs
<1>8. HasParts(db') /\ db'.revision = db.revision
  BY <1>5, <1>7 DEF Base, Shapes
<1>9. /\ step' = step + 1 /\ scratch' = FALSE /\ facts' = Forgotten
      /\ UNCHANGED <<transactional, doing, goal, bounds, now>>
  BY DEF Execute
<1> QED BY <1>1, <1>3, <1>5, <1>6, <1>7, <1>8, <1>9 DEF Ran

\* Making a copy changes the schema, and nothing else but scratch.
LEMMA Copied ==
  ASSUME Base, CreateCopy
  PROVE  /\ Runs /\ Copies /\ ~scratch /\ CopyPossible /\ scratch' = TRUE
         /\ HasParts(conn') /\ conn'.revision = conn.revision /\ conn'.rows = conn.rows
         /\ conn'.schema = conn.schema \cup {Copy(Current.table)}
         /\ \/ open /\ db' = db
            \/ ~open /\ db' = conn' /\ db = conn
         /\ HasParts(db') /\ db'.revision = db.revision /\ db'.rows = db.rows
         /\ UNCHANGED <<transactional, open, doing, goal, step, bounds, now, facts>>
<1>1. /\ conn' = [conn EXCEPT !.schema = @ \cup {Copy(Current.table)}]
      /\ db' = IF open THEN db ELSE conn'
  BY DEF CreateCopy
<1>2. /\ HasParts(conn') /\ conn'.revision = conn.revision /\ conn'.rows = conn.rows
      /\ conn'.schema = conn.schema \cup {Copy(Current.table)}
  BY <1>1 DEF Base, Shapes, HasParts
<1> QED BY <1>1, <1>2 DEF Base, Shapes, Control, CreateCopy

\* The version row moves by one, towards the goal, and nothing else changes.
LEMMA Recorded ==
  ASSUME Base, Record
  PROVE  /\ Busy /\ ~Arrived /\ step = Len(Script) + 1 /\ ~scratch /\ db' = db
         /\ HasParts(conn') /\ conn'.schema = conn.schema /\ conn'.rows = conn.rows
         /\ doing = "up" => conn'.revision = conn.revision + 1 /\ conn.revision < goal
         /\ doing = "down" => conn'.revision = conn.revision - 1 /\ conn.revision > goal
         /\ open' = TRUE /\ step' = 1
         /\ UNCHANGED <<transactional, db, doing, goal, scratch, bounds, now, facts>>
<1>1. conn' = [conn EXCEPT !.revision = IF doing = "up" THEN @ + 1 ELSE @ - 1]
  BY DEF Record
<1>2. /\ HasParts(conn') /\ conn'.schema = conn.schema /\ conn'.rows = conn.rows
      /\ conn'.revision = IF doing = "up" THEN conn.revision + 1 ELSE conn.revision - 1
  BY <1>1 DEF Base, Shapes, HasParts
<1>3. Busy /\ ~Arrived /\ step > Len(Script)
  BY DEF Record, Busy
<1>4. conn.revision \in Int /\ goal \in Int /\ conn.revision # goal
  BY <1>3 DEF Base, Control, Revision, Arrived
<1>5. Len(Script) \in Nat
  <2>1. conn.revision \in 0 .. 9 /\ goal \in 0 .. 9
    BY DEF Base, Control, Revision, Latest
  <2>2. CASE doing = "up"
    <3>1. conn.revision \in 0 .. 8
      BY <1>4, <2>1, <2>2 DEF Base, Control
    <3> QED BY <2>2, <3>1, ScriptLengths DEF Script
  <2>3. CASE doing = "down"
    <3>1. conn.revision \in 1 .. 9
      BY <1>4, <2>1, <2>3 DEF Base, Control
    <3> QED BY <2>3, <3>1, ScriptLengths DEF Script
  <2> QED BY <1>3, <2>2, <2>3 DEF Base, Control, Busy
<1>6. step = Len(Script) + 1
  BY <1>3, <1>5 DEF Base, Control
<1>7. ~scratch
  BY <1>3, <1>5 DEF Base, Control, Runs
<1>8. open' = TRUE /\ step' = 1
        /\ UNCHANGED <<transactional, db, doing, goal, scratch, bounds, now, facts>>
  BY DEF Record
<1> QED BY <1>2, <1>3, <1>4, <1>6, <1>7, <1>8 DEF Base, Control

---------------------------------------------------------------------------
(* What the bot writes *)

HasFacts(f) == f = [roles |-> f.roles, batches |-> f.batches, sold |-> f.sold, dropped |-> f.dropped]

\* What the bot leaves alone, whatever it writes.
BotKeeps ==
  /\ ~Busy /\ db.schema = Released(db.revision) /\ conn = db
  /\ conn' = db' /\ HasParts(db') /\ db'.revision = db.revision /\ db'.schema = db.schema
  /\ HasLog(db'.rows.log)
  /\ bounds.writes < MaxWrites
  /\ HasParts(db') /\ bounds' = [bounds EXCEPT !.writes = @ + 1]
  /\ now' \in Nat /\ now' >= now /\ (transactional => now' = now + 1)
  /\ UNCHANGED <<transactional, open, doing, goal, step, scratch>>

\* A role written to the row of a person, and what it was by.
RoleWritten(p, row, change) ==
  /\ db.revision >= 2
  /\ row \in RoleRow /\ change \in RoleRow /\ row.role = change.role /\ row.at = now'
  /\ change.at = now'
  /\ row.by = change.by \/ (row.by = db.rows.users[p].by /\ change.by = facts.roles[p].by)
  /\ change.role = "none" => change.by # Nobody
  /\ db'.rows.users = [db.rows.users EXCEPT ![p] = row]
  /\ db'.rows.cards = db.rows.cards /\ db'.rows.minted = db.rows.minted
  /\ db'.rows.counters = db.rows.counters
  /\ db'.rows.log.cards = db.rows.log.cards /\ db'.rows.log.batches = db.rows.log.batches
  /\ HasFacts(facts') /\ facts'.roles = [facts.roles EXCEPT ![p] = change]
  /\ facts'.batches = facts.batches /\ facts'.sold = facts.sold
  /\ facts'.dropped = facts.dropped

\* A card written.
CardWritten(card) ==
  /\ db.revision >= 3
  /\ card \in CardRow /\ card.id = bounds.writes + 1 /\ card.at = now'
  /\ db.revision = 3 => /\ card.owner \in Person /\ card.by = Nobody
                        /\ \A c \in db.rows.cards : c.owner # card.owner
  /\ db.revision > 3 => card.owner = Nobody /\ card.by \in Person
  /\ db.revision < 5 => card.type = "none"
  /\ db'.rows.users = db.rows.users /\ db'.rows.minted = db.rows.minted
  /\ db'.rows.counters = db.rows.counters
  /\ db'.rows.cards = db.rows.cards \cup {card}
  /\ db'.rows.log.cards =
       IF db.revision = Latest THEN db.rows.log.cards \cup {CardLine(card)} ELSE db.rows.log.cards
  /\ db'.rows.log.batches = db.rows.log.batches
  /\ facts' = facts

\* A batch minted.
BatchOf(a, kind, count) ==
  {[kind |-> kind, n |-> n, by |-> a, at |-> now'] :
     n \in db.rows.counters[kind] .. db.rows.counters[kind] + count - 1}

LineFor(a, kind, count) == MintedLine(a, kind, db.rows.counters[kind], count)

BatchWritten(a, kind, count) ==
  /\ db.revision >= Created[TableOf[kind]] /\ kind \in Kind /\ count \in Nat \ {0}
  /\ db.rows.counters[kind] \in Nat
  /\ db'.rows.users = db.rows.users /\ db'.rows.cards = db.rows.cards
  /\ db'.rows.minted = db.rows.minted \cup BatchOf(a, kind, count)
  /\ db'.rows.counters = [db.rows.counters EXCEPT ![kind] = @ + count]
  /\ db'.rows.log.cards = db.rows.log.cards
  /\ db'.rows.log.batches =
       IF db.revision = Latest THEN db.rows.log.batches \cup {LineFor(a, kind, count)}
       ELSE db.rows.log.batches
  /\ HasFacts(facts') /\ facts'.roles = facts.roles /\ facts'.dropped = facts.dropped
  /\ facts'.batches = facts.batches \cup {LineFor(a, kind, count)}
  /\ facts'.sold = facts.sold \cup {<<kind, m.n>> : m \in BatchOf(a, kind, count)}

\* A transaction of the bot writes rows, and a line where there is a history.
LEMMA WriteEffects ==
  ASSUME Base, NEW x, HasRows(x), NEW l, NEW n, HasLog(l), HasLog(x.log), Writes(x, l, n),
         Running(db.revision), Ticks
  PROVE  /\ BotKeeps /\ facts' = n
         /\ db'.rows.users = x.users /\ db'.rows.cards = x.cards /\ db'.rows.minted = x.minted
         /\ db'.rows.counters = x.counters
         /\ db'.rows.log = IF db.revision = Latest THEN l ELSE x.log
<1>1. db' = [db EXCEPT !.rows = [x EXCEPT !.log = IF db.revision = Latest THEN l ELSE @]]
  BY DEF Writes
<1>2. /\ HasParts(db') /\ db'.revision = db.revision /\ db'.schema = db.schema
      /\ db'.rows.users = x.users /\ db'.rows.cards = x.cards /\ db'.rows.minted = x.minted
      /\ db'.rows.counters = x.counters
      /\ db'.rows.log = IF db.revision = Latest THEN l ELSE x.log
  BY <1>1 DEF HasParts, HasRows, Base, Shapes
<1>3. now' \in Nat /\ now' >= now /\ (transactional => now' = now + 1)
  BY DEF Base, Types, Ticks
<1>4. HasLog(db'.rows.log)
  BY <1>2
<1> QED BY <1>2, <1>3, <1>4 DEF Writes, Running, Base, Control, Busy, BotKeeps

\* issue_card writes a card.
LEMMA IssueWrites ==
  ASSUME Base, NEW p \in Person, NEW type \in Design, Issue(p, type)
  PROVE  BotKeeps /\ \E card : CardWritten(card)
<1> DEFINE card == [id |-> bounds.writes + 1, at |-> now',
                    owner |-> IF db.revision = 3 THEN p ELSE Nobody,
                    by    |-> IF db.revision = 3 THEN Nobody ELSE p,
                    type  |-> IF db.revision >= 5 THEN type ELSE "none"]
           x == [db.rows EXCEPT !.cards = @ \cup {card}]
           l == [db.rows.log EXCEPT !.cards = @ \cup {CardLine(card)}]
<1>1. Running(3) /\ Ticks /\ Writes(x, l, facts)
      /\ (db.revision = 3 => \A c \in db.rows.cards : c.owner # p)
  BY DEF Issue
<1>2. Running(db.revision) /\ db.revision >= 3
  BY <1>1 DEF Running, Base, Control, Revision
<1>3. now' \in Nat /\ bounds.writes + 1 \in Nat
  BY <1>1 DEF Base, Types, Ticks
<1>4. card \in CardRow
  BY <1>3 DEF CardRow
<1>5. /\ card.id = bounds.writes + 1 /\ card.at = now'
      /\ card.owner = (IF db.revision = 3 THEN p ELSE Nobody)
      /\ card.by = (IF db.revision = 3 THEN Nobody ELSE p)
      /\ (db.revision < 5 => card.type = "none")
  BY DEF Base, Control, Revision
<1> HIDE DEF card
<1>6. /\ HasRows(x) /\ x.cards = db.rows.cards \cup {card} /\ x.users = db.rows.users
      /\ x.minted = db.rows.minted /\ x.counters = db.rows.counters /\ x.log = db.rows.log
  BY DEF Base, Shapes, HasParts, HasRows
<1>7. /\ HasLog(l) /\ l.cards = db.rows.log.cards \cup {CardLine(card)}
      /\ l.batches = db.rows.log.batches
      /\ HasLog(x.log)
  BY <1>6 DEF Base, Shapes, HasLog
<1> HIDE DEF x, l
<1>8. /\ BotKeeps /\ facts' = facts
      /\ db'.rows.users = x.users /\ db'.rows.cards = x.cards /\ db'.rows.minted = x.minted
      /\ db'.rows.counters = x.counters
      /\ db'.rows.log = IF db.revision = Latest THEN l ELSE x.log
  BY <1>1, <1>2, <1>6, <1>7, WriteEffects
<1>9. db.revision \in Int
  BY DEF Base, Control, Revision
<1>10. /\ db'.rows.log.cards =
            IF db.revision = Latest THEN db.rows.log.cards \cup {CardLine(card)} ELSE db.rows.log.cards
       /\ db'.rows.log.batches = db.rows.log.batches
  BY <1>6, <1>7, <1>8
<1>11. db.revision = 3 => /\ card.owner \in Person /\ card.by = Nobody
                          /\ \A c \in db.rows.cards : c.owner # card.owner
  BY <1>1, <1>5
<1>12. db.revision > 3 => card.owner = Nobody /\ card.by \in Person
  BY <1>5, <1>9
<1>13. CardWritten(card)
  BY <1>2, <1>4, <1>5, <1>6, <1>8, <1>10, <1>11, <1>12 DEF CardWritten
<1> QED BY <1>8, <1>13

\* issue_batch writes a batch.
LEMMA MintWrites ==
  ASSUME Base, NEW a \in Person, NEW kind \in Minted, NEW count \in Count, Mint(a, kind, count)
  PROVE  BotKeeps /\ BatchWritten(a, kind, count)
<1> DEFINE batch == BatchOf(a, kind, count)
           line == LineFor(a, kind, count)
           x == [db.rows EXCEPT !.minted = @ \cup batch, !.counters[kind] = @ + count]
           l == [db.rows.log EXCEPT !.batches = @ \cup {line}]
           n == [facts EXCEPT !.batches = @ \cup {line},
                              !.sold = @ \cup {<<kind, m.n>> : m \in batch}]
<1>1. Running(Created[TableOf[kind]]) /\ Ticks /\ Writes(x, l, n)
  BY DEF Mint, BatchOf, LineFor
<1>2. kind \in Kind /\ count \in Nat \ {0}
  BY MigrationsAssumption
<1>3. Created[TableOf[kind]] \in Int
  BY <1>2, Kinds, CreatedAt
<1>4. Running(db.revision) /\ db.revision >= Created[TableOf[kind]]
  BY <1>1, <1>3 DEF Running, Base, Control, Revision
<1>5. db.rows.counters[kind] \in Nat
  BY <1>2 DEF Base, Types, Database
<1> HIDE DEF batch, line
<1>6. /\ HasRows(x) /\ x.minted = db.rows.minted \cup batch /\ x.users = db.rows.users
      /\ x.cards = db.rows.cards /\ x.log = db.rows.log
      /\ x.counters = [db.rows.counters EXCEPT ![kind] = @ + count]
  <2> DEFINE y == [db.rows EXCEPT !.minted = @ \cup batch]
  <2>1. HasRows(db.rows)
    BY DEF Base, Shapes, HasParts
  <2>2. /\ HasRows(y) /\ y.minted = db.rows.minted \cup batch /\ y.users = db.rows.users
        /\ y.cards = db.rows.cards /\ y.log = db.rows.log /\ y.counters = db.rows.counters
    BY <2>1 DEF HasRows
  <2>3. x = [y EXCEPT !.counters = [y.counters EXCEPT ![kind] = db.rows.counters[kind] + count]]
    OBVIOUS
  <2> HIDE DEF x, y
  <2>4. /\ HasRows(x) /\ x.counters = [y.counters EXCEPT ![kind] = db.rows.counters[kind] + count]
        /\ x.minted = y.minted /\ x.users = y.users /\ x.cards = y.cards /\ x.log = y.log
    BY <2>2, <2>3 DEF HasRows
  <2> QED BY <2>2, <2>4
<1>7. /\ HasLog(l) /\ l.batches = db.rows.log.batches \cup {line}
      /\ l.cards = db.rows.log.cards
      /\ HasLog(x.log)
  BY <1>6 DEF Base, Shapes, HasLog
<1>8. /\ HasFacts(n) /\ n.roles = facts.roles /\ n.dropped = facts.dropped
      /\ n.batches = facts.batches \cup {line}
      /\ n.sold = facts.sold \cup {<<kind, m.n>> : m \in batch}
  <2> DEFINE B == facts.batches \cup {line}
             S == facts.sold \cup {<<kind, m.n>> : m \in batch}
  <2>1. n = [facts EXCEPT !.batches = B, !.sold = S]
    OBVIOUS
  <2> HIDE DEF n, B, S
  <2>2. HasFacts(n) /\ n.roles = facts.roles /\ n.dropped = facts.dropped /\ n.batches = B
          /\ n.sold = S
    BY <2>1 DEF Base, Shapes, HasFacts
  <2> QED BY <2>2 DEF B, S
<1> HIDE DEF x, l, n
<1>9. /\ BotKeeps /\ facts' = n
      /\ db'.rows.users = x.users /\ db'.rows.cards = x.cards /\ db'.rows.minted = x.minted
      /\ db'.rows.counters = x.counters
      /\ db'.rows.log = IF db.revision = Latest THEN l ELSE x.log
  BY <1>1, <1>4, <1>6, <1>7, WriteEffects
<1>10. BatchWritten(a, kind, count)
  BY <1>2, <1>4, <1>5, <1>6, <1>7, <1>8, <1>9 DEF BatchWritten, batch, line
<1> QED BY <1>9, <1>10

\* A change of role is written to the row of its person, and to the history.
LEMMA SetRoleWrites ==
  ASSUME Base, NEW p \in Person, NEW row \in RoleRow, NEW action, NEW actor, NEW change \in RoleRow,
         SetRole(p, row, action, actor, change), Running(2), Ticks,
         row.role = change.role, row.at = now', change.at = now',
         row.by = change.by \/ (row.by = db.rows.users[p].by /\ change.by = facts.roles[p].by),
         change.role = "none" => change.by # Nobody
  PROVE  BotKeeps /\ RoleWritten(p, row, change)
<1> DEFINE x == [db.rows EXCEPT !.users[p] = row]
           l == [db.rows.log EXCEPT !.roles = @ \cup
                   {[action |-> action, actor |-> actor, target |-> p, role |-> row.role, at |-> row.at]}]
           n == [facts EXCEPT !.roles[p] = change]
<1>1. Writes(x, l, n)
  BY DEF SetRole
<1>2. Running(db.revision) /\ db.revision >= 2
  BY DEF Running, Base, Control, Revision
<1>3. /\ HasRows(x) /\ x.minted = db.rows.minted /\ x.users = [db.rows.users EXCEPT ![p] = row]
      /\ x.cards = db.rows.cards /\ x.log = db.rows.log /\ x.counters = db.rows.counters
  BY DEF Base, Shapes, HasParts, HasRows
<1>4. /\ HasLog(l) /\ l.batches = db.rows.log.batches /\ l.cards = db.rows.log.cards
      /\ HasLog(x.log)
  <2> DEFINE S == {[action |-> action, actor |-> actor, target |-> p, role |-> row.role, at |-> row.at]}
  <2>1. HasLog(db.rows.log) /\ l = [db.rows.log EXCEPT !.roles = @ \cup S]
    BY DEF Base, Shapes
  <2> HIDE DEF S, l, x
  <2> QED BY <1>3, <2>1 DEF HasLog
<1>5. /\ HasFacts(n) /\ n.roles = [facts.roles EXCEPT ![p] = change] /\ n.dropped = facts.dropped
      /\ n.batches = facts.batches /\ n.sold = facts.sold
  BY DEF Base, Shapes, HasFacts
<1> HIDE DEF x, l, n
<1>6. /\ BotKeeps /\ facts' = n
      /\ db'.rows.users = x.users /\ db'.rows.cards = x.cards /\ db'.rows.minted = x.minted
      /\ db'.rows.counters = x.counters
      /\ db'.rows.log = IF db.revision = Latest THEN l ELSE x.log
  BY <1>1, <1>2, <1>3, <1>4, WriteEffects
<1>7. RoleWritten(p, row, change)
  BY <1>2, <1>3, <1>4, <1>5, <1>6 DEF RoleWritten
<1> QED BY <1>6, <1>7

\* grant_role, revoke_access and sync_super_admins write a role each.
LEMMA GrantWrites ==
  ASSUME Base, NEW a \in Person, NEW p \in Person, NEW role \in Role, Grant(a, p, role)
  PROVE  BotKeeps /\ \E row, change : RoleWritten(p, row, change)
<1> DEFINE row == [role |-> role, by |-> a, at |-> now']
<1>1. PICK action : SetRole(p, row, action, a, row)
  BY DEF Grant
<1>2. Running(2) /\ Ticks /\ CanGrant(RoleOf(a), role)
  BY DEF Grant
<1>3. RoleOf(a) \in Role
  BY DEF RoleOf, Base, Types, Database
<1>4. role \in {"user", "admin"}
  BY <1>2, <1>3 DEF CanGrant, Grantable
<1>5. now' \in Nat
  BY <1>2 DEF Ticks, Base, Types
<1>6. row \in RoleRow /\ row.role = role /\ row.by = a /\ row.at = now' /\ a # Nobody
  BY <1>5, MigrationsAssumption DEF RoleRow
<1> HIDE DEF row
<1> QED BY <1>1, <1>2, <1>4, <1>6, SetRoleWrites

\* revoke_access.
LEMMA RevokeWrites ==
  ASSUME Base, NEW a \in Person, NEW p \in Person, Revoke(a, p)
  PROVE  BotKeeps /\ \E row, change : RoleWritten(p, row, change)
<1> DEFINE row == [role |-> "none", by |-> a, at |-> now']
<1>1. SetRole(p, row, "member_removed", a, row)
  BY DEF Revoke
<1>2. Running(2) /\ Ticks
  BY DEF Revoke
<1>3. now' \in Nat
  BY <1>2 DEF Ticks, Base, Types
<1>4. row \in RoleRow /\ row.role = "none" /\ row.by = a /\ row.at = now' /\ a # Nobody
  BY <1>3, MigrationsAssumption DEF RoleRow, Role
<1> HIDE DEF row
<1> QED BY <1>1, <1>2, <1>4, SetRoleWrites

\* sync_super_admins, which leaves by whom the role had been granted.
LEMMA PromoteWrites ==
  ASSUME Base, NEW p \in Person, Promote(p)
  PROVE  BotKeeps /\ \E row, change : RoleWritten(p, row, change)
<1> DEFINE change == [role |-> "super_admin", by |-> facts.roles[p].by, at |-> now']
           row == [role |-> "super_admin", by |-> db.rows.users[p].by, at |-> now']
<1>1. SetRole(p, row, "super_admin_seeded", Nobody, change)
  BY DEF Promote
<1>2. Running(2) /\ Ticks
  BY DEF Promote
<1>3. now' \in Nat /\ db.rows.users[p].by \in Person \cup {Nobody}
      /\ facts.roles[p].by \in Person \cup {Nobody}
  BY <1>2 DEF Ticks, Base, Types, Database, RoleRow
<1>4. /\ row \in RoleRow /\ row.role = "super_admin" /\ row.at = now'
      /\ row.by = db.rows.users[p].by
      /\ change \in RoleRow /\ change.role = "super_admin" /\ change.by = facts.roles[p].by
      /\ change.at = now'
  BY <1>3 DEF RoleRow, Role
<1> HIDE DEF row, change
<1> QED BY <1>1, <1>2, <1>4, SetRoleWrites

\* One of three things.
BotWrote ==
  /\ BotKeeps
  /\ \/ \E p \in Person : \E row, change : RoleWritten(p, row, change)
     \/ \E card : CardWritten(card)
     \/ \E a \in Person, kind \in Minted, count \in Count : BatchWritten(a, kind, count)

\* Whatever the bot writes is a role, a card or a batch.
LEMMA BotEffects ==
  ASSUME Base, BotWrites
  PROVE  BotWrote
<1>1. CASE \E a, p \in Person, role \in Role : Grant(a, p, role)
  BY <1>1, GrantWrites DEF BotWrote
<1>2. CASE \E a, p \in Person : Revoke(a, p)
  BY <1>2, RevokeWrites DEF BotWrote
<1>3. CASE \E p \in Person : Promote(p)
  BY <1>3, PromoteWrites DEF BotWrote
<1>4. CASE \E p \in Person, type \in Design : Issue(p, type)
  BY <1>4, IssueWrites DEF BotWrote
<1>5. CASE \E a \in Person, kind \in Minted, count \in Count : Mint(a, kind, count)
  BY <1>5, MintWrites DEF BotWrote
<1> QED BY <1>1, <1>2, <1>3, <1>4, <1>5 DEF BotWrites

\* A command begins.
Began(direction, to) ==
  /\ doing = "nothing" /\ doing' = direction /\ goal' = to /\ open' = transactional
  /\ to \in Revision
  /\ \/ direction = "up" /\ db.revision <= to
     \/ direction = "down" /\ to < db.revision
  /\ bounds'.writes = bounds.writes /\ bounds'.failures = bounds.failures
  /\ UNCHANGED <<transactional, db, conn, step, scratch, now, facts>>

\* A command leaves nothing behind but what is committed already.
Undone ==
  /\ Busy /\ db' = db /\ conn' = db /\ open' = FALSE
  /\ doing' = "nothing" /\ goal' = db.revision /\ step' = 1 /\ scratch' = FALSE
  /\ bounds'.writes = bounds.writes
  /\ bounds'.failures \in {bounds.failures, bounds.failures + 1}
  /\ UNCHANGED <<transactional, now, facts>>

\* What a command has done is there for everyone.
Committed ==
  /\ Busy /\ Arrived /\ db' = conn /\ conn' = conn /\ open' = FALSE
  /\ doing' = "nothing" /\ goal' = conn.revision /\ step' = 1 /\ scratch' = FALSE
  /\ facts' = Forgotten
  /\ UNCHANGED <<transactional, bounds, now>>

BoundsKept ==
  bounds' \in [writes : Nat, failures : Nat, downgrades : Nat] /\
  bounds' = [writes |-> bounds'.writes, failures |-> bounds'.failures, downgrades |-> bounds'.downgrades]

\* Every step is one of these eight.
LEMMA Steps ==
  ASSUME Base, [Next]_vars
  PROVE  /\ BoundsKept
         /\ \/ UNCHANGED vars
            \/ \E direction, to : Began(direction, to)
            \/ CreateCopy
            \/ Execute
            \/ Record
            \/ Committed
            \/ Undone /\ (Raise \/ bounds'.failures = bounds.failures + 1)
            \/ BotWrites
<1>0. /\ bounds = [writes |-> bounds.writes, failures |-> bounds.failures, downgrades |-> bounds.downgrades]
      /\ bounds \in [writes : Nat, failures : Nat, downgrades : Nat]
  BY DEF Base, Shapes, Types
<1>1. CASE UNCHANGED vars
  BY <1>0, <1>1 DEF vars, command, BoundsKept
<1>2. ASSUME NEW to \in Named, Upgrade(to)
      PROVE  Began("up", to) /\ BoundsKept
  <2>1. to \in Revision /\ db.revision <= to
    BY <1>2, MigrationsAssumption DEF Upgrade, Base, Control, Revision, Latest
  <2>2. BoundsKept /\ bounds'.writes = bounds.writes /\ bounds'.failures = bounds.failures
    BY <1>0, <1>2 DEF Upgrade, BoundsKept
  <2> QED BY <1>2, <2>1, <2>2 DEF Upgrade, Start, Began
<1>3. ASSUME NEW to \in Named, Downgrade(to)
      PROVE  Began("down", to) /\ BoundsKept
  <2>1. to \in Revision /\ to < db.revision
    BY <1>3, MigrationsAssumption DEF Downgrade, Base, Control, Revision, Latest
  <2>2. BoundsKept /\ bounds'.writes = bounds.writes /\ bounds'.failures = bounds.failures
    BY <1>0, <1>3 DEF Downgrade, BoundsKept
  <2> QED BY <1>3, <2>1, <2>2 DEF Downgrade, Start, Began
<1>4. CASE CreateCopy \/ Execute \/ Record
  BY <1>0, <1>4 DEF CreateCopy, Execute, Record, BoundsKept
<1>5. CASE Commit
  BY <1>0, <1>5 DEF Commit, Idle, Committed, Busy, BoundsKept
<1>6. CASE Raise
  BY <1>0, <1>6 DEF Raise, Rollback, Idle, Undone, Runs, Busy, BoundsKept
<1>7. CASE Fail
  <2>1. BoundsKept /\ bounds'.writes = bounds.writes /\ bounds'.failures = bounds.failures + 1
    BY <1>0, <1>7 DEF Fail, BoundsKept
  <2> QED BY <1>7, <2>1 DEF Fail, Rollback, Idle, Undone, Busy
<1>8. CASE BotWrites
  <2>1. bounds' = [bounds EXCEPT !.writes = @ + 1]
    BY <1>8, BotEffects DEF BotWrote, BotKeeps
  <2> QED BY <1>0, <1>8, <2>1 DEF BoundsKept
<1> QED BY <1>1, <1>2, <1>3, <1>4, <1>5, <1>6, <1>7, <1>8 DEF Next, Proceed

---------------------------------------------------------------------------
(* Places of the chain *)

\* Where each change of rows is made: at one place of the chain, and nowhere else.
Placed ==
  /\ Current.op = "fill_issuer" <=> doing = "up" /\ conn.revision = 3 /\ step = 2
  /\ Current.op = "drop_owner" <=> doing = "up" /\ conn.revision = 3 /\ step = 3
  /\ Current.op = "add_type" <=> doing = "up" /\ conn.revision = 4 /\ step = 1
  /\ Current.op = "backfill" <=> doing = "up" /\ conn.revision = 8 /\ step = 2
  /\ Current.op = "drop_role" <=> doing = "down" /\ conn.revision = 2 /\ step = 1
  /\ Current.op = "drop_cards" <=> doing = "down" /\ conn.revision = 3 /\ step = 1
  /\ Current.op = "fill_owner" <=> doing = "down" /\ conn.revision = 4 /\ step = 2
  /\ Current.op = "delete_orphans" <=> doing = "down" /\ conn.revision = 4 /\ step = 3
  /\ Current.op = "delete_surplus" <=> doing = "down" /\ conn.revision = 4 /\ step = 4
  /\ Current.op = "drop_issuer" <=> doing = "down" /\ conn.revision = 4 /\ step = 5
  /\ Current.op = "drop_type" <=> doing = "down" /\ conn.revision = 5 /\ step = 1
  /\ Current.op = "drop_log" <=> doing = "down" /\ conn.revision = 9 /\ step = 1
  /\ Current.op = "seed" <=> doing = "up" /\ conn.revision \in {5, 6, 7} /\ step = 2
  /\ Current.op = "seed" =>
       Current.table \in CodeTable /\ Created[Current.table] = conn.revision + 1
  /\ Current.op = "drop_codes" <=> doing = "down" /\ conn.revision \in {6, 7, 8} /\ step = 1
  /\ Current.op = "drop_codes" =>
       /\ Current.table \in CodeTable /\ Created[Current.table] = conn.revision
       /\ Current.table \in Current.drops
  /\ Current.adds \subseteq Items /\ Current.drops \subseteq Items
  /\ doing = "up" => Current.drops \cap CodeTable = {}
  /\ doing = "down" => Current.adds \cap CodeTable = {}
  /\ "users.role" \in Current.drops => Current.op = "drop_role"
  /\ Current.op = "drop_role" => "users.role" \in Current.drops
  /\ "audit_log" \in Current.drops => Current.op = "drop_log"
  /\ doing = "up" /\ conn.revision = 3 => Current.how \in {"batch", "write"}
  /\ doing = "down" /\ conn.revision = 4 /\ step > 1 => Current.how \in {"batch", "write"}
  /\ Current.how = "write" => Current.adds = {} /\ Current.drops = {}
  /\ Current.how = "create" => Current.op = "create"

\* The statements of their scripts that bring an item and take it away.
BroughtIn(x) == CASE x = "users.role_enum" -> 3 [] x = "cards.card_type_enum" -> 2 [] OTHER -> 1
TakenIn(x) == IF x = "cards.created_by_id" THEN 5 ELSE 1

\* What the schema holds at this place of the chain.
Present(x) ==
  /\ x \in Items
  /\ IF x = "cards.user_id"
       THEN \/ conn.revision = 2 /\ doing = "up" /\ step > 1
            \/ conn.revision = 3 /\ ~(doing = "up" /\ step > 3) /\ ~(doing = "down" /\ step > 1)
            \/ conn.revision = 4 /\ doing = "down" /\ step > 1
       ELSE \/ Since(x) < conn.revision
            \/ Since(x) = conn.revision /\ ~(doing = "down" /\ step > TakenIn(x))
            \/ Since(x) = conn.revision + 1 /\ doing = "up" /\ step > BroughtIn(x)

Shifts ==
  /\ \A x \in Items : x \in Current.adds <=>
       IF x = "cards.user_id"
         THEN (doing = "up" /\ conn.revision = 2 /\ step = 1)
                \/ (doing = "down" /\ conn.revision = 4 /\ step = 1)
         ELSE doing = "up" /\ Since(x) = conn.revision + 1 /\ step = BroughtIn(x)
  /\ \A x \in Items : x \in Current.drops <=>
       IF x = "cards.user_id"
         THEN (doing = "up" /\ conn.revision = 3 /\ step = 3)
                \/ (doing = "down" /\ conn.revision = 3 /\ step = 1)
         ELSE doing = "down" /\ Since(x) = conn.revision /\ step = TakenIn(x)
  /\ Current.how # "create" => Present(Current.table)
  /\ Current.how = "batch" => Current.table \in {"users", "cards"} /\ Current.op # "backfill"

\* Each change of rows is made at its place, and each item comes and goes at its own.
LEMMA Places ==
  ASSUME Control, Runs
  PROVE  Placed /\ Shifts
<1>1. ASSUME UpStatements
      PROVE  Placed /\ Shifts
  <2>1. CASE At("up", 0, 1, Create("users", {}))
    <3>1. /\ doing = "up" /\ conn.revision = 0 /\ step = 1 /\ Current.how = "create"
          /\ Current.op = "create"
          /\ Current.table = "users" /\ Current.adds = {"users"} /\ Current.drops = {}
      BY <2>1 DEF At, Create, Statement
    <3>2. Placed
      BY <3>1 DEF Placed, Items, CodeTable
    <3>3. Shifts
      BY <3>1 DEF Shifts, Items, CodeTable, Since, BroughtIn, TakenIn, Present
    <3> QED BY <3>2, <3>3
  <2>2. CASE At("up", 1, 1, Batch("add", "users", {"users.role"}, {}))
    <3>1. /\ doing = "up" /\ conn.revision = 1 /\ step = 1 /\ Current.how = "batch"
          /\ Current.op = "add"
          /\ Current.table = "users" /\ Current.adds = {"users.role"} /\ Current.drops = {}
      BY <2>2 DEF At, Batch, Statement
    <3>2. Placed
      BY <3>1 DEF Placed, Items, CodeTable
    <3>3. Shifts
      BY <3>1 DEF Shifts, Items, CodeTable, Since, BroughtIn, TakenIn, Present
    <3> QED BY <3>2, <3>3
  <2>3. CASE At("up", 1, 2, Write("fill_role", "users"))
    <3>1. /\ doing = "up" /\ conn.revision = 1 /\ step = 2 /\ Current.how = "write"
          /\ Current.op = "fill_role"
          /\ Current.table = "users" /\ Current.adds = {} /\ Current.drops = {}
      BY <2>3 DEF At, Write, Statement
    <3>2. Placed
      BY <3>1 DEF Placed, Items, CodeTable
    <3>3. Shifts
      BY <3>1 DEF Shifts, Items, CodeTable, Since, BroughtIn, TakenIn, Present
    <3> QED BY <3>2, <3>3
  <2>4. CASE At("up", 1, 3, Batch("check", "users", {"users.role_enum"}, {}))
    <3>1. /\ doing = "up" /\ conn.revision = 1 /\ step = 3 /\ Current.how = "batch"
          /\ Current.op = "check"
          /\ Current.table = "users" /\ Current.adds = {"users.role_enum"} /\ Current.drops = {}
      BY <2>4 DEF At, Batch, Statement
    <3>2. Placed
      BY <3>1 DEF Placed, Items, CodeTable
    <3>3. Shifts
      BY <3>1 DEF Shifts, Items, CodeTable, Since, BroughtIn, TakenIn, Present
    <3> QED BY <3>2, <3>3
  <2>5. CASE At("up", 2, 1, Create("cards", {"cards.user_id"}))
    <3>1. /\ doing = "up" /\ conn.revision = 2 /\ step = 1 /\ Current.how = "create"
          /\ Current.op = "create"
          /\ Current.table = "cards" /\ Current.adds = {"cards", "cards.user_id"}
          /\ Current.drops = {}
      BY <2>5 DEF At, Create, Statement
    <3>2. Placed
      BY <3>1 DEF Placed, Items, CodeTable
    <3>3. Shifts
      BY <3>1 DEF Shifts, Items, CodeTable, Since, BroughtIn, TakenIn, Present
    <3> QED BY <3>2, <3>3
  <2>6. CASE At("up", 3, 1, Batch("add", "cards", {"cards.created_by_id"}, {}))
    <3>1. /\ doing = "up" /\ conn.revision = 3 /\ step = 1 /\ Current.how = "batch"
          /\ Current.op = "add"
          /\ Current.table = "cards" /\ Current.adds = {"cards.created_by_id"}
          /\ Current.drops = {}
      BY <2>6 DEF At, Batch, Statement
    <3>2. Placed
      BY <3>1 DEF Placed, Items, CodeTable
    <3>3. Shifts
      BY <3>1 DEF Shifts, Items, CodeTable, Since, BroughtIn, TakenIn, Present
    <3> QED BY <3>2, <3>3
  <2>7. CASE At("up", 3, 2, Write("fill_issuer", "cards"))
    <3>1. /\ doing = "up" /\ conn.revision = 3 /\ step = 2 /\ Current.how = "write"
          /\ Current.op = "fill_issuer"
          /\ Current.table = "cards" /\ Current.adds = {} /\ Current.drops = {}
      BY <2>7 DEF At, Write, Statement
    <3>2. Placed
      BY <3>1 DEF Placed, Items, CodeTable
    <3>3. Shifts
      BY <3>1 DEF Shifts, Items, CodeTable, Since, BroughtIn, TakenIn, Present
    <3> QED BY <3>2, <3>3
  <2>8. CASE At("up", 3, 3, Batch("drop_owner", "cards", {}, {"cards.user_id"}))
    <3>1. /\ doing = "up" /\ conn.revision = 3 /\ step = 3 /\ Current.how = "batch"
          /\ Current.op = "drop_owner"
          /\ Current.table = "cards" /\ Current.adds = {} /\ Current.drops = {"cards.user_id"}
      BY <2>8 DEF At, Batch, Statement
    <3>2. Placed
      BY <3>1 DEF Placed, Items, CodeTable
    <3>3. Shifts
      BY <3>1 DEF Shifts, Items, CodeTable, Since, BroughtIn, TakenIn, Present
    <3> QED BY <3>2, <3>3
  <2>9. CASE At("up", 4, 1, Add("add_type", "cards", "cards.card_type"))
    <3>1. /\ doing = "up" /\ conn.revision = 4 /\ step = 1 /\ Current.how = "alter"
          /\ Current.op = "add_type"
          /\ Current.table = "cards" /\ Current.adds = {"cards.card_type"} /\ Current.drops = {}
      BY <2>9 DEF At, Add, Statement
    <3>2. Placed
      BY <3>1 DEF Placed, Items, CodeTable
    <3>3. Shifts
      BY <3>1 DEF Shifts, Items, CodeTable, Since, BroughtIn, TakenIn, Present
    <3> QED BY <3>2, <3>3
  <2>10. CASE At("up", 4, 2, Batch("check", "cards", {"cards.card_type_enum"}, {}))
    <3>1. /\ doing = "up" /\ conn.revision = 4 /\ step = 2 /\ Current.how = "batch"
          /\ Current.op = "check"
          /\ Current.table = "cards" /\ Current.adds = {"cards.card_type_enum"}
          /\ Current.drops = {}
      BY <2>10 DEF At, Batch, Statement
    <3>2. Placed
      BY <3>1 DEF Placed, Items, CodeTable
    <3>3. Shifts
      BY <3>1 DEF Shifts, Items, CodeTable, Since, BroughtIn, TakenIn, Present
    <3> QED BY <3>2, <3>3
  <2>11. CASE At("up", 8, 1, Create("audit_log", {}))
    <3>1. /\ doing = "up" /\ conn.revision = 8 /\ step = 1 /\ Current.how = "create"
          /\ Current.op = "create"
          /\ Current.table = "audit_log" /\ Current.adds = {"audit_log"} /\ Current.drops = {}
      BY <2>11 DEF At, Create, Statement
    <3>2. Placed
      BY <3>1 DEF Placed, Items, CodeTable
    <3>3. Shifts
      BY <3>1 DEF Shifts, Items, CodeTable, Since, BroughtIn, TakenIn, Present
    <3> QED BY <3>2, <3>3
  <2>12. CASE At("up", 8, 2, Write("backfill", "audit_log"))
    <3>1. /\ doing = "up" /\ conn.revision = 8 /\ step = 2 /\ Current.how = "write"
          /\ Current.op = "backfill"
          /\ Current.table = "audit_log" /\ Current.adds = {} /\ Current.drops = {}
      BY <2>12 DEF At, Write, Statement
    <3>2. Placed
      BY <3>1 DEF Placed, Items, CodeTable
    <3>3. Shifts
      BY <3>1 DEF Shifts, Items, CodeTable, Since, BroughtIn, TakenIn, Present
    <3> QED BY <3>2, <3>3
  <2>13. ASSUME NEW t \in CodeTable, At("up", Created[t] - 1, 1, Create(t, {}))
        PROVE  Placed /\ Shifts
    <3>1. /\ doing = "up" /\ conn.revision = Created[t] - 1 /\ step = 1
          /\ Current.how = "create" /\ Current.op = "create"
          /\ Current.table = t /\ Current.adds = {t} /\ Current.drops = {}
      BY <2>13 DEF At, Create, Statement
    <3>2. Created[t] \in {6, 7, 8}
      BY CreatedAt
    <3>3. Placed
      BY <3>1, <3>2 DEF Placed, Items, CodeTable
    <3>4. Shifts
      BY <3>1, CreatedAt DEF Shifts, Items, CodeTable, Since, BroughtIn, TakenIn, Present
    <3> QED BY <3>3, <3>4
  <2>14. ASSUME NEW t \in CodeTable, At("up", Created[t] - 1, 2, Write("seed", t))
        PROVE  Placed /\ Shifts
    <3>1. /\ doing = "up" /\ conn.revision = Created[t] - 1 /\ step = 2
          /\ Current.how = "write" /\ Current.op = "seed"
          /\ Current.table = t /\ Current.adds = {} /\ Current.drops = {}
      BY <2>14 DEF At, Write, Statement
    <3>2. Created[t] \in {6, 7, 8}
      BY CreatedAt
    <3>3. Placed
      BY <3>1, <3>2 DEF Placed, Items, CodeTable
    <3>4. Shifts
      BY <3>1, CreatedAt DEF Shifts, Items, CodeTable, Since, BroughtIn, TakenIn, Present
    <3> QED BY <3>3, <3>4
  <2> QED BY <1>1, <2>1, <2>2, <2>3, <2>4, <2>5, <2>6, <2>7, <2>8, <2>9, <2>10, <2>11,
     <2>12, <2>13, <2>14 DEF UpStatements
<1>2. ASSUME DownStatements
      PROVE  Placed /\ Shifts
  <2>1. CASE At("down", 1, 1, Drop("drop_users", "users", {}))
    <3>1. /\ doing = "down" /\ conn.revision = 1 /\ step = 1 /\ Current.how = "alter"
          /\ Current.op = "drop_users"
          /\ Current.table = "users" /\ Current.adds = {} /\ Current.drops = {"users"}
      BY <2>1 DEF At, Drop, Statement
    <3>2. Placed
      BY <3>1 DEF Placed, Items, CodeTable
    <3>3. Shifts
      BY <3>1 DEF Shifts, Items, CodeTable, Since, BroughtIn, TakenIn, Present
    <3> QED BY <3>2, <3>3
  <2>2. CASE At("down", 2, 1, Batch("drop_role", "users", {}, {"users.role", "users.role_enum"}))
    <3>1. /\ doing = "down" /\ conn.revision = 2 /\ step = 1 /\ Current.how = "batch"
          /\ Current.op = "drop_role"
          /\ Current.table = "users" /\ Current.adds = {}
          /\ Current.drops = {"users.role", "users.role_enum"}
      BY <2>2 DEF At, Batch, Statement
    <3>2. Placed
      BY <3>1 DEF Placed, Items, CodeTable
    <3>3. Shifts
      BY <3>1 DEF Shifts, Items, CodeTable, Since, BroughtIn, TakenIn, Present
    <3> QED BY <3>2, <3>3
  <2>3. CASE At("down", 3, 1, Drop("drop_cards", "cards", {"cards.user_id"}))
    <3>1. /\ doing = "down" /\ conn.revision = 3 /\ step = 1 /\ Current.how = "alter"
          /\ Current.op = "drop_cards"
          /\ Current.table = "cards" /\ Current.adds = {}
          /\ Current.drops = {"cards", "cards.user_id"}
      BY <2>3 DEF At, Drop, Statement
    <3>2. Placed
      BY <3>1 DEF Placed, Items, CodeTable
    <3>3. Shifts
      BY <3>1 DEF Shifts, Items, CodeTable, Since, BroughtIn, TakenIn, Present
    <3> QED BY <3>2, <3>3
  <2>4. CASE At("down", 4, 1, Add("add", "cards", "cards.user_id"))
    <3>1. /\ doing = "down" /\ conn.revision = 4 /\ step = 1 /\ Current.how = "alter"
          /\ Current.op = "add"
          /\ Current.table = "cards" /\ Current.adds = {"cards.user_id"} /\ Current.drops = {}
      BY <2>4 DEF At, Add, Statement
    <3>2. Placed
      BY <3>1 DEF Placed, Items, CodeTable
    <3>3. Shifts
      BY <3>1 DEF Shifts, Items, CodeTable, Since, BroughtIn, TakenIn, Present
    <3> QED BY <3>2, <3>3
  <2>5. CASE At("down", 4, 2, Write("fill_owner", "cards"))
    <3>1. /\ doing = "down" /\ conn.revision = 4 /\ step = 2 /\ Current.how = "write"
          /\ Current.op = "fill_owner"
          /\ Current.table = "cards" /\ Current.adds = {} /\ Current.drops = {}
      BY <2>5 DEF At, Write, Statement
    <3>2. Placed
      BY <3>1 DEF Placed, Items, CodeTable
    <3>3. Shifts
      BY <3>1 DEF Shifts, Items, CodeTable, Since, BroughtIn, TakenIn, Present
    <3> QED BY <3>2, <3>3
  <2>6. CASE At("down", 4, 3, Write("delete_orphans", "cards"))
    <3>1. /\ doing = "down" /\ conn.revision = 4 /\ step = 3 /\ Current.how = "write"
          /\ Current.op = "delete_orphans"
          /\ Current.table = "cards" /\ Current.adds = {} /\ Current.drops = {}
      BY <2>6 DEF At, Write, Statement
    <3>2. Placed
      BY <3>1 DEF Placed, Items, CodeTable
    <3>3. Shifts
      BY <3>1 DEF Shifts, Items, CodeTable, Since, BroughtIn, TakenIn, Present
    <3> QED BY <3>2, <3>3
  <2>7. CASE At("down", 4, 4, Write("delete_surplus", "cards"))
    <3>1. /\ doing = "down" /\ conn.revision = 4 /\ step = 4 /\ Current.how = "write"
          /\ Current.op = "delete_surplus"
          /\ Current.table = "cards" /\ Current.adds = {} /\ Current.drops = {}
      BY <2>7 DEF At, Write, Statement
    <3>2. Placed
      BY <3>1 DEF Placed, Items, CodeTable
    <3>3. Shifts
      BY <3>1 DEF Shifts, Items, CodeTable, Since, BroughtIn, TakenIn, Present
    <3> QED BY <3>2, <3>3
  <2>8. CASE At("down", 4, 5, Batch("drop_issuer", "cards", {}, {"cards.created_by_id"}))
    <3>1. /\ doing = "down" /\ conn.revision = 4 /\ step = 5 /\ Current.how = "batch"
          /\ Current.op = "drop_issuer"
          /\ Current.table = "cards" /\ Current.adds = {}
          /\ Current.drops = {"cards.created_by_id"}
      BY <2>8 DEF At, Batch, Statement
    <3>2. Placed
      BY <3>1 DEF Placed, Items, CodeTable
    <3>3. Shifts
      BY <3>1 DEF Shifts, Items, CodeTable, Since, BroughtIn, TakenIn, Present
    <3> QED BY <3>2, <3>3
  <2>9. CASE At("down", 5, 1, Batch("drop_type", "cards", {}, {"cards.card_type", "cards.card_type_enum"}))
    <3>1. /\ doing = "down" /\ conn.revision = 5 /\ step = 1 /\ Current.how = "batch"
          /\ Current.op = "drop_type"
          /\ Current.table = "cards" /\ Current.adds = {}
          /\ Current.drops = {"cards.card_type", "cards.card_type_enum"}
      BY <2>9 DEF At, Batch, Statement
    <3>2. Placed
      BY <3>1 DEF Placed, Items, CodeTable
    <3>3. Shifts
      BY <3>1 DEF Shifts, Items, CodeTable, Since, BroughtIn, TakenIn, Present
    <3> QED BY <3>2, <3>3
  <2>10. CASE At("down", 9, 1, Drop("drop_log", "audit_log", {}))
    <3>1. /\ doing = "down" /\ conn.revision = 9 /\ step = 1 /\ Current.how = "alter"
          /\ Current.op = "drop_log"
          /\ Current.table = "audit_log" /\ Current.adds = {} /\ Current.drops = {"audit_log"}
      BY <2>10 DEF At, Drop, Statement
    <3>2. Placed
      BY <3>1 DEF Placed, Items, CodeTable
    <3>3. Shifts
      BY <3>1 DEF Shifts, Items, CodeTable, Since, BroughtIn, TakenIn, Present
    <3> QED BY <3>2, <3>3
  <2>11. ASSUME NEW t \in CodeTable, At("down", Created[t], 1, Drop("drop_codes", t, {}))
        PROVE  Placed /\ Shifts
    <3>1. /\ doing = "down" /\ conn.revision = Created[t] /\ step = 1
          /\ Current.how = "alter" /\ Current.op = "drop_codes"
          /\ Current.table = t /\ Current.adds = {} /\ Current.drops = {t}
      BY <2>11 DEF At, Drop, Statement
    <3>2. Created[t] \in {6, 7, 8}
      BY CreatedAt
    <3>3. Placed
      BY <3>1, <3>2 DEF Placed, Items, CodeTable
    <3>4. Shifts
      BY <3>1, CreatedAt DEF Shifts, Items, CodeTable, Since, BroughtIn, TakenIn, Present
    <3> QED BY <3>3, <3>4
  <2> QED BY <1>2, <2>1, <2>2, <2>3, <2>4, <2>5, <2>6, <2>7, <2>8, <2>9, <2>10, <2>11
     DEF DownStatements
<1> QED BY <1>1, <1>2, Statements

---------------------------------------------------------------------------
(* Base is inductive *)

\* What Forgotten keeps and what it loses, part by part.
LEMMA Forgets ==
  ASSUME Base
  PROVE  /\ HasFacts(Forgotten)
         /\ Forgotten.roles = IF "users.role" \in db'.schema THEN facts.roles ELSE [p \in Person |-> NoRole]
         /\ Forgotten.batches = {b \in facts.batches : TableOf[b.kind] \in db'.schema}
         /\ Forgotten.sold = facts.sold
         /\ Forgotten.dropped = facts.dropped \cup (CodeTable \cap (db.schema \ db'.schema))
<1> DEFINE R == IF "users.role" \in db'.schema THEN facts.roles ELSE [p \in Person |-> NoRole]
           B == {b \in facts.batches : TableOf[b.kind] \in db'.schema}
           D == facts.dropped \cup (CodeTable \cap (db.schema \ db'.schema))
<1>1. Forgotten = [facts EXCEPT !.roles = R, !.batches = B, !.dropped = D]
  BY DEF Forgotten
<1> HIDE DEF R, B, D
<1>2. /\ HasFacts(Forgotten) /\ Forgotten.roles = R /\ Forgotten.batches = B
      /\ Forgotten.sold = facts.sold /\ Forgotten.dropped = D
  BY <1>1 DEF HasFacts, Base, Shapes
<1> QED BY <1>2 DEF R, B, D

\* Base holds at first.
LEMMA BaseInit ==
  ASSUME Init
  PROVE  Base
<1>1. db = [revision |-> 0, schema |-> {}, rows |-> NoRows] /\ conn = db
  BY DEF Init
<1>2. HasParts(db) /\ HasLog(db.rows.log) /\ db.rows = NoRows /\ db.revision = 0
        /\ db.schema = {}
  BY <1>1 DEF HasParts, HasRows, NoRows, HasLog, NoLog
<1>3. Shapes
  BY <1>1, <1>2 DEF Shapes, Init
<1>4. Control
  <2>1. Flags
    BY DEF Init, Flags
  <2> QED BY <1>1, <1>2, <2>1 DEF Control, Init, Busy, Revision, Latest, Runs
<1>5. NoRole \in RoleRow
  BY DEF NoRole, RoleRow, Role
<1>6. db.rows.users \in [Person -> RoleRow] /\ db.rows.cards = {} /\ db.rows.minted = {}
      /\ db.rows.counters \in [Kind -> Nat]
  BY <1>2, <1>5 DEF NoRows
<1>7. Database(db)
  BY <1>2, <1>6 DEF Database, RoleRow, Revision, Latest
<1>8. facts.roles \in [Person -> RoleRow] /\ now \in Nat
      /\ bounds \in [writes : Nat, failures : Nat, downgrades : Nat]
  BY <1>5 DEF Init
<1> QED BY <1>1, <1>3, <1>4, <1>6, <1>7, <1>8 DEF Base, Types

\* Every step keeps the parts of the databases and of the facts.
LEMMA ShapesStep ==
  ASSUME Base, [Next]_vars
  PROVE  Shapes'
<1> USE DEF Shapes
<1>1. bounds' = [writes |-> bounds'.writes, failures |-> bounds'.failures,
                 downgrades |-> bounds'.downgrades]
  BY Steps DEF BoundsKept
<1>2. CASE UNCHANGED vars
  BY <1>2 DEF Base, vars, command, HasParts, HasRows, HasLog
<1>3. ASSUME NEW direction, NEW to, Began(direction, to)
      PROVE  Shapes'
  BY <1>1, <1>3 DEF Base, Began, HasParts, HasRows, HasLog
<1>4. CASE CreateCopy
  BY <1>1, <1>4, Copied DEF Base, HasParts, HasRows, HasLog
<1>5. CASE Execute
  <2>1. Ran
    BY <1>5, ExecuteRuns
  <2>2. facts' = [roles |-> facts'.roles, batches |-> facts'.batches, sold |-> facts'.sold,
                  dropped |-> facts'.dropped]
    BY <2>1, Forgets DEF Ran, HasFacts
  <2>3. HasLog(conn'.rows.log)
    <3>1. conn'.rows.log \in {conn.rows.log, Backfill(conn.rows), NoLog}
      BY <2>1 DEF Ran, Effects
    <3>2. HasLog(Backfill(conn.rows)) /\ HasLog(NoLog)
      BY DEF HasLog, Backfill, NoLog
    <3> QED BY <3>1, <3>2 DEF Base
  <2>4. HasLog(db'.rows.log) /\ HasParts(db') /\ HasParts(conn')
    BY <2>1, <2>3 DEF Ran, Base
  <2> QED BY <1>1, <2>2, <2>3, <2>4 DEF HasParts, HasRows, HasLog
<1>6. CASE Record
  BY <1>1, <1>6, Recorded DEF Base, HasParts, HasRows, HasLog
<1>7. CASE Committed
  <2>1. HasFacts(facts')
    BY <1>7, Forgets DEF Committed
  <2> QED BY <1>1, <1>7, <2>1 DEF Base, Committed, HasParts, HasRows, HasLog, HasFacts
<1>8. CASE Undone
  BY <1>1, <1>8 DEF Base, Undone, HasParts, HasRows, HasLog
<1>9. CASE BotWrites
  <2>1. BotWrote
    BY <1>9, BotEffects
  <2>2. HasFacts(facts')
    BY <2>1 DEF BotWrote, RoleWritten, CardWritten, BatchWritten, HasFacts, Base
  <2> QED BY <1>1, <2>1, <2>2 DEF BotWrote, BotKeeps, HasParts, HasRows, HasLog, HasFacts
<1> QED BY <1>2, <1>3, <1>4, <1>5, <1>6, <1>7, <1>8, <1>9, Steps

\* A script under way has a length.
LEMMA ScriptLong ==
  ASSUME Control, Busy, conn.revision # goal
  PROVE  Len(Script) \in {1, 2, 3, 5}
<1>1. CASE doing = "up"
  <2>1. conn.revision \in 0 .. 8
    BY <1>1 DEF Control, Revision, Latest
  <2> QED BY <1>1, <2>1, ScriptLengths DEF Script
<1>2. CASE doing = "down"
  <2>1. conn.revision \in 1 .. 9
    BY <1>2 DEF Control, Revision, Latest
  <2> QED BY <1>2, <2>1, ScriptLengths DEF Script
<1> QED BY <1>1, <1>2 DEF Control, Busy

\* The step of a command lies within its script or just after it.
Position ==
  /\ Busy /\ Arrived => step = 1
  /\ Busy /\ ~Arrived => step <= Len(Script) + 1
  /\ scratch => Runs /\ Copies

\* All of Control but the first and the last three conjuncts.
Course ==
  /\ step \in Nat \ {0}
  /\ doing \in {"nothing", "up", "down"}
  /\ db.revision \in Revision /\ conn.revision \in Revision /\ goal \in Revision
  /\ ~Busy => conn = db /\ ~open /\ step = 1 /\ ~scratch
  /\ ~open => conn = db
  /\ transactional /\ Busy => open
  /\ doing = "up" => db.revision <= conn.revision /\ conn.revision <= goal
  /\ doing = "down" => goal <= conn.revision /\ conn.revision <= db.revision /\ goal < db.revision

\* Every step keeps the types of the flags.
LEMMA FlagsStep ==
  ASSUME Base, [Next]_vars
  PROVE  Flags'
<1>0. Flags
  BY DEF Base, Control
<1>1. transactional' = transactional
  BY Steps, BotEffects, ExecuteRuns, Copied, Recorded
     DEF vars, Began, Ran, Committed, Undone, BotWrote, BotKeeps
<1>2. open' \in BOOLEAN
  BY <1>0, Steps, BotEffects, ExecuteRuns, Copied, Recorded
     DEF vars, command, Began, Ran, Committed, Undone, BotWrote, BotKeeps, Flags
<1>3. scratch' \in BOOLEAN
  BY <1>0, Steps, BotEffects, ExecuteRuns, Copied, Recorded
     DEF vars, command, Began, Ran, Committed, Undone, BotWrote, BotKeeps, Flags
<1> QED BY <1>0, <1>1, <1>2, <1>3 DEF Flags

\* Every step keeps the command between where it came from and its goal.
LEMMA CourseStep ==
  ASSUME Base, [Next]_vars
  PROVE  Course'
<1> USE DEF Course
<1>0. /\ Course
      /\ db.revision \in 0 .. 9 /\ conn.revision \in 0 .. 9 /\ goal \in 0 .. 9
      /\ Revision = 0 .. 9
  BY DEF Base, Control, Revision, Latest
<1>2. CASE UNCHANGED vars
  BY <1>0, <1>2 DEF vars, command, Busy
<1>3. ASSUME NEW direction, NEW to, Began(direction, to)
      PROVE  Course'
  BY <1>0, <1>3 DEF Began, Busy
<1>4. CASE CreateCopy
  BY <1>0, <1>4, Copied DEF Busy, Runs
<1>5. CASE Execute
  <2>1. Ran
    BY <1>5, ExecuteRuns
  <2> QED BY <1>0, <2>1 DEF Ran, Busy, Runs
<1>6. CASE Record
  BY <1>0, <1>6, Recorded DEF Busy
<1>7. CASE Committed
  BY <1>0, <1>7 DEF Committed, Busy
<1>8. CASE Undone
  BY <1>0, <1>8 DEF Undone, Busy
<1>9. CASE BotWrites
  <2>1. BotKeeps
    BY <1>9, BotEffects DEF BotWrote
  <2> QED BY <1>0, <2>1 DEF BotKeeps, Busy
<1> QED BY <1>2, <1>3, <1>4, <1>5, <1>6, <1>7, <1>8, <1>9, Steps

\* Every step keeps the command within its script.
LEMMA PositionStep ==
  ASSUME Base, [Next]_vars, Course'
  PROVE  Position'
<1>0. Position /\ Control
  BY DEF Base, Control, Position
<1>1. CASE ~Busy' \/ (step' = 1 /\ ~scratch')
  <2>1. Busy' /\ ~Arrived' => (Len(Script))' >= 0
    <3>1. ASSUME Busy', ~Arrived'
          PROVE  (Len(Script))' \in {1, 2, 3, 5}
      <4>1. CASE doing' = "up"
        <5>1. conn'.revision \in 0 .. 8
          BY <3>1, <4>1 DEF Course, Revision, Latest, Arrived
        <5> QED BY <4>1, <5>1, ScriptLengths DEF Script
      <4>2. CASE doing' = "down"
        <5>1. conn'.revision \in 1 .. 9
          BY <3>1, <4>2 DEF Course, Revision, Latest, Arrived
        <5> QED BY <4>2, <5>1, ScriptLengths DEF Script
      <4> QED BY <3>1, <4>1, <4>2 DEF Course, Busy
    <3> QED BY <3>1
  <2> QED BY <1>1, <2>1 DEF Position, Course, Busy
<1>2. CASE UNCHANGED vars
  BY <1>0, <1>2 DEF vars, command, Busy, Position, Arrived, Script, Runs, Copies, Current
<1>3. ASSUME NEW direction, NEW to, Began(direction, to)
      PROVE  Position'
  BY <1>0, <1>1, <1>3 DEF Began, Control, Busy
<1>4. CASE CreateCopy
  <2>1. Runs /\ Copies /\ conn'.revision = conn.revision
        /\ UNCHANGED <<transactional, doing, goal, step>>
    BY <1>4, Copied
  <2>2. Script' = Script /\ Current' = Current /\ Arrived' = Arrived
    BY <2>1 DEF Script, Current, Arrived
  <2> QED BY <1>0, <2>1, <2>2 DEF Position, Runs, Copies, Busy
<1>5. CASE Execute
  <2>1. Ran
    BY <1>5, ExecuteRuns
  <2>2. Script' = Script /\ Arrived' = Arrived /\ Busy' = Busy
    BY <2>1 DEF Ran, Script, Arrived, Busy
  <2>3. Busy /\ ~Arrived /\ step <= Len(Script) /\ step' = step + 1 /\ ~scratch'
    BY <2>1 DEF Ran, Runs, Busy
  <2>4. Len(Script) \in {1, 2, 3, 5} /\ step \in Nat
    BY <1>0, <2>3, ScriptLong DEF Arrived, Control
  <2> QED BY <2>2, <2>3, <2>4 DEF Position
<1>6. CASE Record
  BY <1>1, <1>6, Recorded
<1>7. CASE Committed
  BY <1>1, <1>7 DEF Committed, Busy
<1>8. CASE Undone
  BY <1>1, <1>8 DEF Undone, Busy
<1>9. CASE BotWrites
  BY <1>0, <1>1, <1>9, BotEffects DEF BotWrote, BotKeeps, Busy
<1> QED BY <1>2, <1>3, <1>4, <1>5, <1>6, <1>7, <1>8, <1>9, Steps

\* A statement leaves cards cards.
LEMMA CardsAfter ==
  ASSUME NEW s, NEW x, NEW y, Effects(s, x, y), x.cards \subseteq CardRow
  PROVE  y.cards \subseteq CardRow
<1>1. ASSUME NEW c \in CardRow
      PROVE  /\ [c EXCEPT !.by = c.owner] \in CardRow /\ [c EXCEPT !.owner = Nobody] \in CardRow
             /\ [c EXCEPT !.type = Untyped] \in CardRow /\ [c EXCEPT !.owner = c.by] \in CardRow
             /\ [c EXCEPT !.by = Nobody] \in CardRow /\ [c EXCEPT !.type = "none"] \in CardRow
  BY DEF CardRow
<1>2. \/ y.cards \subseteq x.cards
      \/ y.cards = {[c EXCEPT !.by = c.owner] : c \in x.cards}
      \/ y.cards = {[c EXCEPT !.owner = Nobody] : c \in x.cards}
      \/ y.cards = {[c EXCEPT !.type = Untyped] : c \in x.cards}
      \/ y.cards = {[c EXCEPT !.owner = c.by] : c \in x.cards}
      \/ y.cards = {[c EXCEPT !.by = Nobody] : c \in x.cards}
      \/ y.cards = {[c EXCEPT !.type = "none"] : c \in x.cards}
  BY DEF Effects, Earliest
<1>3. ASSUME NEW f, f \in y.cards
      PROVE  f \in CardRow
  <2>1. \/ f \in CardRow
        \/ \E c \in CardRow : \/ f = [c EXCEPT !.by = c.owner] \/ f = [c EXCEPT !.owner = Nobody]
                              \/ f = [c EXCEPT !.type = Untyped] \/ f = [c EXCEPT !.owner = c.by]
                              \/ f = [c EXCEPT !.by = Nobody] \/ f = [c EXCEPT !.type = "none"]
    BY <1>2, <1>3
  <2> QED BY <1>1, <2>1
<1> QED BY <1>3

\* A statement leaves the other tables of their types.
LEMMA RowsAfter ==
  ASSUME NEW s, NEW x, NEW y, Effects(s, x, y),
         x.users \in [Person -> RoleRow], x.counters \in [Kind -> Nat], x.minted \subseteq MintRow
  PROVE  y.users \in [Person -> RoleRow] /\ y.counters \in [Kind -> Nat] /\ y.minted \subseteq MintRow
<1>1. NoRole \in RoleRow
  BY DEF NoRole, RoleRow, Role
<1>2. y.users \in [Person -> RoleRow]
  BY <1>1 DEF Effects
<1>3. \A k \in Kind : Seed[k] \in Nat
  BY Kinds
<1>4. y.counters \in [Kind -> Nat]
  <2>1. \/ y.counters = x.counters
        \/ y.counters = [k \in Kind |-> IF TableOf[k] = s.table THEN Seed[k] ELSE x.counters[k]]
        \/ y.counters = [k \in Kind |-> IF TableOf[k] = s.table THEN 0 ELSE x.counters[k]]
    BY DEF Effects
  <2> QED BY <1>3, <2>1
<1>5. y.minted \subseteq MintRow
  BY DEF Effects
<1> QED BY <1>2, <1>4, <1>5

CopyNames == {Copy("users"), Copy("cards")}

\* Every step keeps the types of rows and facts.
LEMMA TypesStep ==
  ASSUME Base, [Next]_vars, Course'
  PROVE  Types'
<1>0. Types /\ Control
  BY DEF Base
<1>1. bounds' \in [writes : Nat, failures : Nat, downgrades : Nat]
  BY Steps DEF BoundsKept
<1>2. now' \in Nat
  BY <1>0, Steps, BotEffects, ExecuteRuns, Copied, Recorded
     DEF vars, Began, Ran, Committed, Undone, BotWrote, BotKeeps, Types
<1>3. facts'.roles \in [Person -> RoleRow]
  <2>0. NoRole \in RoleRow
    BY DEF NoRole, RoleRow, Role
  <2>1. CASE facts' = Forgotten
    BY <1>0, <2>0, <2>1, Forgets DEF Types
  <2>2. CASE facts' = facts
    BY <1>0, <2>2 DEF Types
  <2>3. CASE BotWrote
    <3>1. CASE \E p \in Person : \E row, change : RoleWritten(p, row, change)
      BY <1>0, <3>1 DEF Types, RoleWritten
    <3>2. CASE facts'.roles = facts.roles
      BY <1>0, <3>2 DEF Types
    <3> QED BY <2>3, <3>1, <3>2 DEF BotWrote, CardWritten, BatchWritten
  <2> QED BY <2>1, <2>2, <2>3, Steps, BotEffects, ExecuteRuns, Copied, Recorded
             DEF vars, Began, Ran, Committed, Undone
<1>4. CASE db' = db /\ conn' \in {db, conn}
  BY <1>0, <1>1, <1>2, <1>3, <1>4 DEF Types, Database
<1>5. CASE db' = conn /\ conn' = conn
  BY <1>0, <1>1, <1>2, <1>3, <1>5 DEF Types, Database
<1>6. CASE CreateCopy \/ Record
  <2>1. /\ db' \in {db, conn'} /\ conn'.rows = conn.rows
        /\ conn'.schema \subseteq conn.schema \cup CopyNames
    BY <1>6, Copied, Recorded DEF Copy, CopyNames
  <2>2. conn'.revision \in Revision
    BY DEF Course
  <2>3. Database(conn') /\ conn'.rows.minted \subseteq MintRow
    BY <1>0, <2>1, <2>2 DEF Types, Database, CopyNames
  <2>4. Database(db') /\ db'.rows.minted \subseteq MintRow
    BY <1>0, <2>1, <2>3 DEF Types
  <2> QED BY <1>1, <1>2, <1>3, <2>3, <2>4 DEF Types
<1>7. CASE Execute
  <2>1. Ran
    BY <1>7, ExecuteRuns
  <2>2. Current.adds \subseteq Item
    BY <1>0, <2>1, Places, Membership DEF Ran, Placed
  <2>3. conn'.schema \subseteq Item \cup CopyNames
    BY <1>0, <2>1, <2>2 DEF Ran, Types, Database, CopyNames
  <2>4. Database(conn') /\ conn'.rows.minted \subseteq MintRow
    <3>1. Effects(Current, conn.rows, conn'.rows)
      BY <2>1 DEF Ran
    <3>2. conn.rows.users \in [Person -> RoleRow] /\ conn.rows.counters \in [Kind -> Nat]
          /\ conn.rows.minted \subseteq MintRow /\ conn.rows.cards \subseteq CardRow
      BY <1>0 DEF Types, Database, RoleRow
    <3>3. conn'.rows.users \in [Person -> RoleRow] /\ conn'.rows.counters \in [Kind -> Nat]
          /\ conn'.rows.minted \subseteq MintRow
      BY <3>1, <3>2, RowsAfter
    <3>4. conn'.rows.cards \subseteq CardRow
      BY <3>1, <3>2, CardsAfter
    <3>5. conn'.revision \in Revision
      BY DEF Course
    <3> QED BY <2>3, <3>3, <3>4, <3>5 DEF Database, RoleRow, CopyNames
  <2>5. db' \in {db, conn'}
    BY <2>1 DEF Ran
  <2>6. Database(db') /\ db'.rows.minted \subseteq MintRow
    BY <1>0, <2>4, <2>5 DEF Types
  <2> QED BY <1>1, <1>2, <1>3, <2>4, <2>6 DEF Types
<1>8. CASE BotWrites
  <2>1. BotWrote
    BY <1>8, BotEffects
  <2>2. /\ db'.revision = db.revision /\ db'.schema = db.schema /\ conn' = db'
    BY <2>1 DEF BotWrote, BotKeeps
  <2>3. /\ db.rows.users \in [Person -> RoleRow] /\ db.rows.counters \in [Kind -> Nat]
        /\ db.rows.minted \subseteq MintRow /\ db.rows.cards \subseteq CardRow
    BY <1>0 DEF Types, Database, RoleRow
  <2>4. /\ db'.rows.users \in [Person -> RoleRow] /\ db'.rows.counters \in [Kind -> Nat]
        /\ db'.rows.minted \subseteq MintRow /\ db'.rows.cards \subseteq CardRow
    <3>1. ASSUME NEW p \in Person, NEW row, NEW change, RoleWritten(p, row, change)
          PROVE  db'.rows.users \in [Person -> RoleRow] /\ db'.rows.counters \in [Kind -> Nat]
                 /\ db'.rows.minted \subseteq MintRow /\ db'.rows.cards \subseteq CardRow
      BY <2>3, <3>1 DEF RoleWritten
    <3>2. ASSUME NEW card, CardWritten(card)
          PROVE  db'.rows.users \in [Person -> RoleRow] /\ db'.rows.counters \in [Kind -> Nat]
                 /\ db'.rows.minted \subseteq MintRow /\ db'.rows.cards \subseteq CardRow
      BY <2>3, <3>2 DEF CardWritten
    <3>3. ASSUME NEW a \in Person, NEW kind \in Minted, NEW count \in Count,
                 BatchWritten(a, kind, count)
          PROVE  db'.rows.users \in [Person -> RoleRow] /\ db'.rows.counters \in [Kind -> Nat]
                 /\ db'.rows.minted \subseteq MintRow /\ db'.rows.cards \subseteq CardRow
      <4>1. BatchOf(a, kind, count) \subseteq MintRow
        BY <1>2, <3>3 DEF BatchOf, BatchWritten, MintRow
      <4>2. count \in Nat /\ kind \in Kind
        BY <3>3 DEF BatchWritten
      <4> QED BY <2>3, <3>3, <4>1, <4>2 DEF BatchWritten
    <3> QED BY <2>1, <3>1, <3>2, <3>3 DEF BotWrote
  <2>5. Database(db') /\ Database(conn')
    BY <1>0, <2>2, <2>4 DEF Types, Database, RoleRow
  <2> QED BY <1>1, <1>2, <1>3, <2>2, <2>4, <2>5 DEF Types
<1> QED BY <1>4, <1>5, <1>6, <1>7, <1>8, Steps DEF vars, command, Began, Undone, Committed

\* Base is inductive.
LEMMA BaseStep ==
  ASSUME Base, [Next]_vars
  PROVE  Base'
<1>1. Course' /\ Flags' /\ Shapes'
  BY CourseStep, FlagsStep, ShapesStep
<1>2. Position' /\ Types'
  BY <1>1, PositionStep, TypesStep
<1>3. Control'
  BY <1>1, <1>2 DEF Control, Course, Position
<1> QED BY <1>1, <1>2, <1>3 DEF Base

\* Base is an invariant.
LEMMA BaseHolds == Spec => []Base
BY BaseInit, BaseStep, PTL DEF Spec

\* Every variable of Migrations keeps its type, and between two commands nothing is
\* uncommitted: whatever fails, on either database.
THEOREM MigrationsTypes == Spec => []TypeOK
<1>1. Base => TypeOK
  BY DEF Base, Types, TypeOK, Control, Busy
<1> QED BY <1>1, BaseHolds, PTL

---------------------------------------------------------------------------
(* Cards *)

\* What a card names: an owner, an issuer or, while the rework runs, both.
Form(c, how) ==
  CASE how = "owned"  -> c.owner \in Person /\ c.by = Nobody
    [] how = "both"   -> c.owner \in Person /\ c.by = c.owner
    [] how = "issued" -> c.owner = Nobody /\ c.by \in Person

Settled(r) == IF r <= 3 THEN "owned" ELSE "issued"

Stage ==
  IF doing = "up" /\ ~Arrived /\ conn.revision = 3
    THEN IF step <= 2 THEN "owned" ELSE IF step = 3 THEN "both" ELSE "issued"
  ELSE IF doing = "down" /\ ~Arrived /\ conn.revision = 4
    THEN IF step <= 2 THEN "issued" ELSE IF step <= 5 THEN "both" ELSE "owned"
  ELSE Settled(conn.revision)

SameCard(c, d) == c.id = d.id /\ c.at = d.at /\ Holder(c) = Holder(d)
FirstOf(c, cards) == \A d \in cards : Holder(d) = Holder(c) => c.id <= d.id
ById(cards) == \A c, d \in cards : c.id = d.id => c = d
ByOwner(cards) == \A c, d \in cards : c.owner = d.owner => c = d

\* Every card committed is still there in the running command, or was not the
\* first of its holder on the way down.
Carried(from, to) ==
  doing = "up" \/ goal >= 3 =>
    \A c \in from : doing = "up" \/ FirstOf(c, from) => \E d \in to : SameCard(c, d)

Cards ==
  /\ \A c \in db.rows.cards : Form(c, Settled(db.revision)) /\ c.id <= bounds.writes
  /\ \A c \in conn.rows.cards : Form(c, Stage)
  /\ ById(db.rows.cards) /\ ById(conn.rows.cards)
  /\ \A c \in conn.rows.cards : \E d \in db.rows.cards : SameCard(c, d)
  /\ Busy => Carried(db.rows.cards, conn.rows.cards)
  /\ doing = "down" /\ ~Arrived /\ conn.revision = 4 /\ step \in {5, 6} => ByOwner(conn.rows.cards)

\* Every card stays the same card, in the form how.
Becomes(from, to, how) ==
  /\ ById(to)
  /\ \A f \in to : \E c \in from : SameCard(f, c)
  /\ \A c \in from : \E f \in to : SameCard(c, f)
  /\ \A f \in to : Form(f, how)

\* Changed one by one, all cards keep who they are and take the new form.
LEMMA Image ==
  ASSUME NEW S, ById(S), NEW g, NEW how,
         \A c \in S : SameCard(c, g[c]) /\ Form(g[c], how)
  PROVE  Becomes(S, {g[c] : c \in S}, how)
<1> DEFINE T == {g[c] : c \in S}
<1>1. \A f \in T : \E c \in S : f = g[c] /\ SameCard(f, c) /\ f.id = c.id /\ Form(f, how)
  BY DEF SameCard
<1>2. ASSUME NEW f \in T, NEW h \in T, f.id = h.id
      PROVE  f = h
  <2>1. PICK c \in S : f = g[c] /\ f.id = c.id
    BY <1>1
  <2>2. PICK d \in S : h = g[d] /\ h.id = d.id
    BY <1>1
  <2>3. c = d
    BY <1>2, <2>1, <2>2 DEF ById
  <2> QED BY <2>1, <2>2, <2>3
<1>3. \A c \in S : g[c] \in T
  OBVIOUS
<1> HIDE DEF T
<1>4. ById(T)
  BY <1>2 DEF ById
<1>5. \A f \in T : \E c \in S : SameCard(f, c)
  BY <1>1
<1>6. \A c \in S : \E f \in T : SameCard(c, f)
  BY <1>3
<1>7. Becomes(S, T, how)
  BY <1>1, <1>4, <1>5, <1>6 DEF Becomes
<1> QED BY <1>7 DEF T

\* The rework's four changes of all cards, and the two of their types.
LEMMA Reworked ==
  ASSUME NEW S \in SUBSET CardRow, ById(S)
  PROVE  /\ (\A c \in S : Form(c, "owned")) => Becomes(S, {[c EXCEPT !.by = c.owner] : c \in S}, "both")
         /\ (\A c \in S : Form(c, "both")) => Becomes(S, {[c EXCEPT !.owner = Nobody] : c \in S}, "issued")
         /\ (\A c \in S : Form(c, "issued")) => Becomes(S, {[c EXCEPT !.owner = c.by] : c \in S}, "both")
         /\ (\A c \in S : Form(c, "both")) => Becomes(S, {[c EXCEPT !.by = Nobody] : c \in S}, "owned")
         /\ \A how, t : (\A c \in S : Form(c, how)) => Becomes(S, {[c EXCEPT !.type = t] : c \in S}, how)
<1>1. ASSUME NEW c \in S
      PROVE  /\ Form(c, "owned") =>
                  LET f == [c EXCEPT !.by = c.owner] IN SameCard(c, f) /\ Form(f, "both")
             /\ Form(c, "both") =>
                  LET f == [c EXCEPT !.owner = Nobody] IN SameCard(c, f) /\ Form(f, "issued")
             /\ Form(c, "issued") =>
                  LET f == [c EXCEPT !.owner = c.by] IN SameCard(c, f) /\ Form(f, "both")
             /\ Form(c, "both") =>
                  LET f == [c EXCEPT !.by = Nobody] IN SameCard(c, f) /\ Form(f, "owned")
  BY MigrationsAssumption DEF CardRow, SameCard, Holder, Form
<1>2. ASSUME NEW c \in S, NEW how, NEW t, Form(c, how)
      PROVE  SameCard(c, [c EXCEPT !.type = t]) /\ Form([c EXCEPT !.type = t], how)
  BY <1>2 DEF CardRow, SameCard, Holder, Form
<1>3. ASSUME \A c \in S : Form(c, "owned")
      PROVE  Becomes(S, {[c EXCEPT !.by = c.owner] : c \in S}, "both")
  <2> DEFINE g == [c \in S |-> [c EXCEPT !.by = c.owner]]
  <2>1. \A c \in S : SameCard(c, g[c]) /\ Form(g[c], "both")
    BY <1>1, <1>3
  <2>2. {g[c] : c \in S} = {[c EXCEPT !.by = c.owner] : c \in S}
    OBVIOUS
  <2> HIDE DEF g
  <2>3. Becomes(S, {g[c] : c \in S}, "both")
    BY <2>1, Image
  <2> QED BY <2>2, <2>3
<1>4. ASSUME \A c \in S : Form(c, "both")
      PROVE  Becomes(S, {[c EXCEPT !.owner = Nobody] : c \in S}, "issued")
  <2> DEFINE g == [c \in S |-> [c EXCEPT !.owner = Nobody]]
  <2>1. \A c \in S : SameCard(c, g[c]) /\ Form(g[c], "issued")
    BY <1>1, <1>4
  <2>2. {g[c] : c \in S} = {[c EXCEPT !.owner = Nobody] : c \in S}
    OBVIOUS
  <2> HIDE DEF g
  <2>3. Becomes(S, {g[c] : c \in S}, "issued")
    BY <2>1, Image
  <2> QED BY <2>2, <2>3
<1>5. ASSUME \A c \in S : Form(c, "issued")
      PROVE  Becomes(S, {[c EXCEPT !.owner = c.by] : c \in S}, "both")
  <2> DEFINE g == [c \in S |-> [c EXCEPT !.owner = c.by]]
  <2>1. \A c \in S : SameCard(c, g[c]) /\ Form(g[c], "both")
    BY <1>1, <1>5
  <2>2. {g[c] : c \in S} = {[c EXCEPT !.owner = c.by] : c \in S}
    OBVIOUS
  <2> HIDE DEF g
  <2>3. Becomes(S, {g[c] : c \in S}, "both")
    BY <2>1, Image
  <2> QED BY <2>2, <2>3
<1>6. ASSUME \A c \in S : Form(c, "both")
      PROVE  Becomes(S, {[c EXCEPT !.by = Nobody] : c \in S}, "owned")
  <2> DEFINE g == [c \in S |-> [c EXCEPT !.by = Nobody]]
  <2>1. \A c \in S : SameCard(c, g[c]) /\ Form(g[c], "owned")
    BY <1>1, <1>6
  <2>2. {g[c] : c \in S} = {[c EXCEPT !.by = Nobody] : c \in S}
    OBVIOUS
  <2> HIDE DEF g
  <2>3. Becomes(S, {g[c] : c \in S}, "owned")
    BY <2>1, Image
  <2> QED BY <2>2, <2>3
<1>7. ASSUME NEW how, NEW t, \A c \in S : Form(c, how)
      PROVE  Becomes(S, {[c EXCEPT !.type = t] : c \in S}, how)
  <2> DEFINE g == [c \in S |-> [c EXCEPT !.type = t]]
  <2>1. \A c \in S : SameCard(c, g[c]) /\ Form(g[c], how)
    BY <1>2, <1>7
  <2>2. {g[c] : c \in S} = {[c EXCEPT !.type = t] : c \in S}
    OBVIOUS
  <2> HIDE DEF g
  <2>3. Becomes(S, {g[c] : c \in S}, how)
    BY <2>1, Image
  <2> QED BY <2>2, <2>3
<1> QED BY <1>3, <1>4, <1>5, <1>6, <1>7

\* Between the statements of the rework the stage changes, and nowhere else.
LEMMA Stages ==
  ASSUME Base, Ran
  PROVE  /\ Current.op = "fill_issuer" => Stage = "owned" /\ Stage' = "both"
         /\ Current.op = "drop_owner" => Stage = "both" /\ Stage' = "issued"
         /\ Current.op = "fill_owner" => Stage = "issued" /\ Stage' = "both"
         /\ Current.op = "drop_issuer" => Stage = "both" /\ Stage' = "owned"
         /\ Current.op \in {"delete_orphans", "delete_surplus"} => Stage = "both"
         /\ Current.op \notin {"fill_issuer", "drop_owner", "fill_owner", "drop_issuer"} => Stage' = Stage
         /\ ~open' => Stage' = Settled(conn'.revision)
<1>1. Placed /\ Runs
  BY Places DEF Base, Ran
<1>2. /\ Arrived' = Arrived /\ ~Arrived /\ doing' = doing /\ conn'.revision = conn.revision
      /\ step' = step + 1 /\ step \in Nat \ {0}
  BY DEF Ran, Runs, Arrived, Base, Control
<1>3. ~open' => Current.how \notin {"write", "batch"}
  BY DEF Ran, Copies
<1> QED BY <1>1, <1>2, <1>3 DEF Placed, Stage, Settled

\* A statement keeps the cards, in the form of the stage it leads to.
LEMMA CardsRan ==
  ASSUME Base, Cards, Ran
  PROVE  /\ ById(conn'.rows.cards)
         /\ \A f \in conn'.rows.cards : Form(f, Stage') /\ \E c \in conn.rows.cards : SameCard(f, c)
         /\ Carried(db.rows.cards, conn'.rows.cards)
         /\ doing = "down" /\ conn.revision = 4 /\ step' \in {5, 6} => ByOwner(conn'.rows.cards)
<1> DEFINE S == conn.rows.cards
           T == conn'.rows.cards
           s == Current
<1>1. Effects(s, conn.rows, conn'.rows)
  BY DEF Ran
<1>2. S \in SUBSET CardRow /\ ById(S) /\ \A c \in S : Form(c, Stage)
  BY DEF Base, Types, Database, Cards
<1>3. Placed /\ step \in Nat \ {0} /\ step' = step + 1 /\ Busy /\ ~Arrived
  BY Places DEF Base, Ran, Control, Runs, Busy
<1>4. Carried(db.rows.cards, S)
  BY <1>3 DEF Cards
<1>5. ASSUME Becomes(S, T, Stage')
      PROVE  /\ ById(T)
             /\ \A f \in T : Form(f, Stage') /\ \E c \in S : SameCard(f, c)
             /\ Carried(db.rows.cards, T)
  BY <1>4, <1>5 DEF Becomes, Carried, SameCard
<1>6. CASE s.op = "fill_issuer"
  <2>1. T = {[c EXCEPT !.by = c.owner] : c \in S}
    BY <1>1, <1>6 DEF Effects
  <2>2. Becomes(S, T, Stage')
    BY <1>2, <1>6, <2>1, Reworked, Stages
  <2>3. doing = "up"
    BY <1>3, <1>6 DEF Placed
  <2> QED BY <1>5, <2>2, <2>3
<1>7. CASE s.op = "drop_owner"
  <2>1. T = {[c EXCEPT !.owner = Nobody] : c \in S}
    BY <1>1, <1>7 DEF Effects
  <2>2. Becomes(S, T, Stage')
    BY <1>2, <1>7, <2>1, Reworked, Stages
  <2>3. doing = "up"
    BY <1>3, <1>7 DEF Placed
  <2> QED BY <1>5, <2>2, <2>3
<1>8. CASE s.op = "fill_owner"
  <2>1. T = {[c EXCEPT !.owner = c.by] : c \in S}
    BY <1>1, <1>8 DEF Effects
  <2>2. Becomes(S, T, Stage')
    BY <1>2, <1>8, <2>1, Reworked, Stages
  <2>3. step' = 3
    BY <1>3, <1>8 DEF Placed
  <2> QED BY <1>5, <2>2, <2>3
<1>9. CASE s.op = "drop_issuer"
  <2>1. T = {[c EXCEPT !.by = Nobody] : c \in S}
    BY <1>1, <1>9 DEF Effects
  <2>2. Becomes(S, T, Stage')
    BY <1>2, <1>9, <2>1, Reworked, Stages
  <2>3. ByOwner(S)
    BY <1>3, <1>9 DEF Placed, Cards
  <2>4. \A f \in T : \E c \in S : f = [c EXCEPT !.by = Nobody] /\ f.owner = c.owner
    BY <1>2, <2>1 DEF CardRow
  <2>5. ByOwner(T)
    BY <2>3, <2>4 DEF ByOwner
  <2> QED BY <1>5, <2>2, <2>5
<1>10. CASE s.op = "delete_orphans"
  <2>1. T = {c \in S : c.owner # Nobody}
    BY <1>1, <1>10 DEF Effects
  <2>2. \A c \in S : c.owner \in Person
    BY <1>2, <1>10, Stages DEF Form
  <2>3. T = S
    BY <2>1, <2>2, MigrationsAssumption
  <2>4. step' = 4 /\ Stage' = Stage
    BY <1>3, <1>10, Stages DEF Placed
  <2> QED BY <1>2, <1>4, <2>3, <2>4 DEF SameCard
<1>11. CASE s.op = "delete_surplus"
  <2>1. T = Earliest(S)
    BY <1>1, <1>11 DEF Effects
  <2>2. T \subseteq S /\ Stage' = Stage
    BY <1>11, <2>1, Stages DEF Earliest
  <2>3. \A c \in S : Holder(c) = c.owner
    BY <1>2, <1>11, Stages, MigrationsAssumption DEF Form, Holder
  <2>4. ByOwner(T)
    <3>1. ASSUME NEW c \in T, NEW d \in T, c.owner = d.owner
          PROVE  c = d
      <4>1. c.id <= d.id /\ d.id <= c.id
        BY <2>1, <3>1 DEF Earliest
      <4>2. c.id \in Nat /\ d.id \in Nat
        BY <1>2, <2>2 DEF CardRow
      <4> QED BY <1>2, <2>2, <4>1, <4>2 DEF ById
    <3> QED BY <3>1 DEF ByOwner
  <2>5. Carried(db.rows.cards, T)
    <3>1. ASSUME goal >= 3, NEW c \in db.rows.cards, FirstOf(c, db.rows.cards)
          PROVE  \E d \in T : SameCard(c, d)
      <4>1. PICK d \in S : SameCard(c, d)
        BY <1>4, <3>1 DEF Carried
      <4>2. ASSUME NEW e \in S, e.owner = d.owner
            PROVE  d.id <= e.id
        <5>1. PICK f \in db.rows.cards : SameCard(e, f)
          BY DEF Cards
        <5>2. Holder(f) = Holder(c)
          BY <2>3, <4>1, <4>2, <5>1 DEF SameCard
        <5> QED BY <3>1, <4>1, <5>1, <5>2 DEF SameCard, FirstOf
      <4>3. d \in T
        BY <2>1, <4>1, <4>2 DEF Earliest
      <4> QED BY <4>1, <4>3
    <3>2. doing # "up"
      BY <1>3, <1>11 DEF Placed
    <3> QED BY <3>1, <3>2 DEF Carried
  <2> QED BY <1>2, <2>2, <2>4, <2>5 DEF ById, SameCard
<1>12. CASE s.op = "drop_cards"
  <2>1. T = {} /\ doing = "down" /\ conn.revision = 3
    BY <1>1, <1>3, <1>12 DEF Effects, Placed
  <2>2. ~(goal >= 3)
    BY <1>3, <2>1 DEF Base, Control, Revision, Latest, Arrived
  <2> QED BY <2>1, <2>2 DEF ById, Carried
<1>13. CASE s.op \in {"add_type", "drop_type"}
  <2>1. PICK t : T = {[c EXCEPT !.type = t] : c \in S}
    BY <1>1, <1>13 DEF Effects
  <2>2. Becomes(S, T, Stage')
    <3>1. \A how, u : (\A c \in S : Form(c, how)) => Becomes(S, {[c EXCEPT !.type = u] : c \in S}, how)
      BY <1>2, Reworked
    <3>2. Stage' = Stage
      BY <1>13, Stages
    <3>3. Becomes(S, {[c EXCEPT !.type = t] : c \in S}, Stage)
      BY <1>2, <3>1
    <3> QED BY <2>1, <3>2, <3>3
  <2>3. conn.revision # 4 \/ doing = "up"
    BY <1>3, <1>13 DEF Placed
  <2> QED BY <1>5, <2>2, <2>3
<1>14. CASE s.op \notin {"fill_issuer", "drop_owner", "fill_owner", "drop_issuer", "delete_orphans",
                         "delete_surplus", "drop_cards", "add_type", "drop_type"}
  <2>1. T = S
    BY <1>1, <1>14 DEF Effects
  <2>2. Stage' = Stage
    BY <1>14, Stages
  <2>3. ~(doing = "down" /\ conn.revision = 4 /\ step' \in {5, 6})
    BY <1>3, <1>14 DEF Placed
  <2> QED BY <1>2, <1>4, <2>1, <2>2, <2>3 DEF SameCard
<1> QED BY <1>6, <1>7, <1>8, <1>9, <1>10, <1>11, <1>12, <1>13, <1>14

\* Relative to Base, Cards is inductive.
LEMMA CardsStep ==
  ASSUME Base, Cards, [Next]_vars
  PROVE  Cards'
<1> DEFINE D == db.rows.cards
           S == conn.rows.cards
<1>0. /\ Control /\ D \subseteq CardRow /\ S \subseteq CardRow /\ bounds.writes \in Nat
      /\ \A c \in D : c.id \in Nat
  BY DEF Base, Types, Database, CardRow
<1>1. CASE UNCHANGED vars
  BY <1>1 DEF vars, command, Cards, Stage, Arrived, Busy, Carried
<1>2. ASSUME NEW direction, NEW to, Began(direction, to)
      PROVE  Cards'
  <2>1. /\ conn = db /\ db' = db /\ conn' = db /\ step' = 1 /\ bounds'.writes = bounds.writes
    BY <1>0, <1>2 DEF Began, Control, Busy
  <2>2. Stage' = Settled(db.revision)
    BY <2>1 DEF Stage, Settled
  <2>3. Carried(D, D)'
    BY DEF Carried, SameCard
  <2> QED BY <2>1, <2>2, <2>3 DEF Cards, SameCard
<1>3. CASE CreateCopy
  <2>1. /\ db'.rows = db.rows /\ conn'.rows = conn.rows /\ conn'.revision = conn.revision
        /\ db'.revision = db.revision /\ UNCHANGED <<doing, goal, step, bounds>>
    BY <1>3, Copied
  <2> QED BY <2>1 DEF Cards, Stage, Arrived, Busy, Carried
<1>4. CASE Execute
  <2>1. Ran
    BY <1>4, ExecuteRuns
  <2>2. UNCHANGED <<doing, goal, bounds>> /\ conn'.revision = conn.revision
          /\ db'.revision = db.revision
        /\ Arrived' = Arrived
    BY <2>1 DEF Ran, Arrived
  <2>3. /\ ById(S') /\ \A f \in S' : Form(f, Stage') /\ \E c \in S : SameCard(f, c)
        /\ Carried(D, S')
        /\ doing = "down" /\ conn.revision = 4 /\ step' \in {5, 6} => ByOwner(S')
    BY <2>1, CardsRan
  <2>4. CASE db' = db
    <3>1. \A f \in S' : \E d \in D : SameCard(f, d)
      BY <2>3 DEF Cards, SameCard
    <3> QED BY <2>2, <2>3, <2>4, <3>1 DEF Cards, Carried
  <2>5. CASE db' = conn' /\ db = conn /\ ~open'
    <3>1. \A f \in S' : Form(f, Settled(db'.revision))
      BY <2>1, <2>3, <2>5, Stages
    <3>2. \A f \in S' : f.id <= bounds'.writes
      BY <2>2, <2>3, <2>5 DEF Cards, SameCard
    <3>3. (\A c \in S' : \E d \in S' : SameCard(c, d)) /\ Carried(S', S')
      BY DEF Carried, SameCard
    <3>4. Carried(S', S') => Carried(db.rows.cards, conn.rows.cards)'
      BY <2>2, <2>5 DEF Carried
    <3>5. Busy /\ ~Arrived
      BY <2>1 DEF Ran, Runs, Busy
    <3> QED BY <2>2, <2>3, <2>5, <3>1, <3>2, <3>3, <3>4, <3>5 DEF Cards
  <2> QED BY <2>1, <2>4, <2>5 DEF Ran
<1>5. CASE Record
  <2>1. /\ Busy /\ ~Arrived /\ step = Len(Script) + 1 /\ db' = db /\ conn'.rows = conn.rows
        /\ doing = "up" => conn'.revision = conn.revision + 1
        /\ doing = "down" => conn'.revision = conn.revision - 1
        /\ step' = 1 /\ UNCHANGED <<doing, goal, bounds>>
    BY <1>5, Recorded
  <2>2. Stage' = Settled(conn'.revision)
    BY <2>1 DEF Stage, Settled
  <2>3. Stage = Settled(conn'.revision)
    <3>1. conn.revision \in Int
      BY <1>0 DEF Control, Revision
    <3>2. CASE doing = "up" /\ conn.revision = 3
      <4>1. Script = Up[4]
        BY <3>2 DEF Script
      <4>2. Len(Script) = 3
        BY <4>1, UpScript4
      <4> QED BY <2>1, <3>2, <4>2 DEF Stage, Settled
    <3>3. CASE doing = "down" /\ conn.revision = 4
      <4>1. Script = Down[4]
        BY <3>3 DEF Script
      <4>2. Len(Script) = 5
        BY <4>1, DownScript4
      <4> QED BY <2>1, <3>3, <4>2 DEF Stage, Settled
    <3>4. CASE doing = "up" /\ conn.revision # 3
      BY <2>1, <3>1, <3>4 DEF Stage, Settled
    <3>5. CASE doing = "down" /\ conn.revision # 4
      BY <2>1, <3>1, <3>5 DEF Stage, Settled
    <3> QED BY <1>0, <2>1, <3>2, <3>3, <3>4, <3>5 DEF Control, Busy
  <2> QED BY <2>1, <2>2, <2>3 DEF Cards, Carried, Busy
<1>6. CASE Committed
  <2>1. /\ Busy /\ Arrived /\ db' = conn /\ conn' = conn /\ ~Busy' /\ step' = 1
        /\ bounds' = bounds
    BY <1>6 DEF Committed, Busy
  <2>2. Stage = Settled(conn.revision) /\ Stage' = Settled(conn.revision)
    BY <2>1 DEF Stage, Busy
  <2>3. \A c \in S : c.id <= bounds.writes
    BY DEF Cards, SameCard
  <2> QED BY <2>1, <2>2, <2>3 DEF Cards, SameCard, Busy
<1>7. CASE Undone
  <2>1. /\ db' = db /\ conn' = db /\ ~Busy' /\ bounds'.writes = bounds.writes
    BY <1>7 DEF Undone, Busy
  <2>2. Stage' = Settled(db.revision)
    BY <2>1 DEF Stage, Busy
  <2> QED BY <2>1, <2>2 DEF Cards, SameCard, Busy
<1>8. CASE BotWrites
  <2>1. BotWrote
    BY <1>8, BotEffects
  <2>2. /\ ~Busy' /\ conn' = db' /\ db'.revision = db.revision
        /\ bounds'.writes = bounds.writes + 1
    BY <2>1 DEF BotWrote, BotKeeps, Busy, Base, Shapes
  <2>3. Stage' = Settled(db.revision)
    BY <2>2 DEF Stage, Busy
  <2>4. CASE db'.rows.cards = D
    BY <1>0, <2>2, <2>3, <2>4 DEF Cards, SameCard, Busy
  <2>5. ASSUME NEW card, CardWritten(card)
        PROVE  Cards'
    <3>1. /\ db'.rows.cards = D \cup {card} /\ card.id = bounds.writes + 1
          /\ Form(card, Settled(db.revision))
      <4>1. db.revision \in Int
        BY <1>0 DEF Control, Revision
      <4>2. db.revision = 3 \/ db.revision > 3
        BY <2>5, <4>1 DEF CardWritten
      <4>3. db'.rows.cards = D \cup {card} /\ card.id = bounds.writes + 1
        BY <2>5 DEF CardWritten
      <4>4. ASSUME db.revision = 3
            PROVE  Form(card, "owned") /\ Settled(db.revision) = "owned"
        BY <2>5, <4>4 DEF CardWritten, Form, Settled
      <4>5. ASSUME db.revision > 3
            PROVE  Form(card, "issued") /\ Settled(db.revision) = "issued"
        BY <2>5, <4>1, <4>5 DEF CardWritten, Form, Settled
      <4> QED BY <4>2, <4>3, <4>4, <4>5
    <3>2. \A c \in D : c.id <= bounds.writes /\ Form(c, Settled(db.revision))
      BY DEF Cards
    <3>3. ById(db'.rows.cards)
      BY <1>0, <3>1, <3>2 DEF Cards, ById
    <3>4. \A c \in db'.rows.cards : c.id <= bounds'.writes /\ Form(c, Settled(db'.revision))
      BY <1>0, <2>2, <3>1, <3>2
    <3> QED BY <2>2, <2>3, <3>3, <3>4 DEF Cards, SameCard, Busy
  <2> QED BY <2>1, <2>4, <2>5 DEF BotWrote, RoleWritten, BatchWritten
<1> QED BY <1>1, <1>2, <1>3, <1>4, <1>5, <1>6, <1>7, <1>8, Steps

\* There are no cards at first.
LEMMA CardsInit ==
  ASSUME Init
  PROVE  Cards
<1>1. db.rows.cards = {} /\ conn = db /\ ~Busy
  BY DEF Init, NoRows, Busy
<1> QED BY <1>1 DEF Cards, ById, Busy

\* Cards is an invariant.
LEMMA CardsHold == Spec => []Cards
BY CardsInit, CardsStep, BaseHolds, PTL DEF Spec

\* No upgrade loses a card or who it belongs to, also where it fails half-way; a
\* downgrade leaves each holder their first: the rework of cards (revision 4).
THEOREM MigrationsKeepCards == Spec => CardsKeepTheirIssuers
<1>1. ASSUME Base, Cards, [Next]_vars, Busy
      PROVE  Carried(db.rows.cards, db'.rows.cards)
  <2>1. CASE db'.rows = db.rows
    BY <2>1 DEF Carried, SameCard
  <2>2. CASE db' = conn
    BY <1>1, <2>2 DEF Cards
  <2>3. CASE Ran /\ db' = conn'
    BY <1>1, <2>3, CardsRan
  <2> QED BY <1>1, <2>1, <2>2, <2>3, Steps, ExecuteRuns, Copied, Recorded, BotEffects
          DEF vars, Began, Ran, Undone, Committed, BotWrote, BotKeeps, Busy
<1>2. Base /\ Cards /\ [Next]_vars =>
        (doing # "nothing" /\ (doing = "up" \/ goal >= 3) =>
           \A c \in db.rows.cards :
             (doing = "up" \/ \A d \in db.rows.cards : Holder(d) = Holder(c) => c.id <= d.id)
               => \E d \in db'.rows.cards : d.id = c.id /\ d.at = c.at /\ Holder(d) = Holder(c))
  BY <1>1 DEF Carried, FirstOf, SameCard, Busy
<1> QED BY <1>2, BaseHolds, CardsHold, PTL DEF Spec, CardsKeepTheirIssuers

---------------------------------------------------------------------------
(* Whole revisions *)

\* The schema is the one of this place of the chain, apart from batch mode's copy.
Whole ==
  /\ transactional => db.schema = Released(db.revision)
  /\ transactional \/ bounds.failures = 0 =>
       \A x : x \in conn.schema <=> Present(x) \/ (scratch /\ x = Copy(Current.table))

\* What a revision has released, the owner of a card apart.
LEMMA Content ==
  ASSUME NEW r \in Revision, NEW x
  PROVE  x \in Released(r) <=>
           x \in Items /\ IF x = "cards.user_id" THEN r = 3 ELSE Since(x) <= r
<1>1. r \in Int /\ "cards.user_id" \in Items /\ Since("cards.user_id") = 3
  BY DEF Revision, Items, Since
<1>2. x \in Released(r) <=> x \in Items /\ Since(x) <= r /\ (r >= 4 => x # "cards.user_id")
  BY Membership
<1> QED BY <1>1, <1>2

\* Where no script has begun, the place holds what its revision has released.
LEMMA PresentAtStart ==
  ASSUME NEW x
  PROVE  /\ step = 1 /\ conn.revision \in Revision =>
              (Present(x) <=> x \in Released(conn.revision))
         /\ step' = 1 /\ conn'.revision \in Revision =>
              (Present(x)' <=> x \in Released(conn'.revision))
<1>1. x \in Items => Since(x) \in Int /\ BroughtIn(x) \in {1, 2, 3} /\ TakenIn(x) \in {1, 5}
  BY DEF Items, Since, BroughtIn, TakenIn
<1>2. Revision \subseteq Int
  BY DEF Revision
<1>3. ASSUME step = 1, conn.revision \in Revision
      PROVE  Present(x) <=> x \in Released(conn.revision)
  <2>1. x \in Released(conn.revision) <=>
          x \in Items /\ IF x = "cards.user_id" THEN conn.revision = 3 ELSE Since(x) <= conn.revision
    BY <1>3, Content
  <2>2. conn.revision \in Int
    BY <1>2, <1>3
  <2>3. CASE x = "cards.user_id" /\ x \in Items
    BY <1>3, <2>1, <2>2, <2>3 DEF Present
  <2>4. CASE x # "cards.user_id" /\ x \in Items
    <3>1. Present(x) <=> \/ Since(x) < conn.revision
                         \/ Since(x) = conn.revision /\ ~(doing = "down" /\ 1 > TakenIn(x))
                         \/ Since(x) = conn.revision + 1 /\ doing = "up" /\ 1 > BroughtIn(x)
      BY <1>3, <2>4 DEF Present
    <3> QED BY <1>1, <2>1, <2>2, <2>4, <3>1
  <2> QED BY <2>1, <2>3, <2>4 DEF Present
<1>4. ASSUME step' = 1, conn'.revision \in Revision
      PROVE  Present(x)' <=> x \in Released(conn'.revision)
  <2>1. x \in Released(conn'.revision) <=>
          x \in Items /\ IF x = "cards.user_id" THEN conn'.revision = 3 ELSE Since(x) <= conn'.revision
    BY <1>4, Content
  <2>2. conn'.revision \in Int
    BY <1>2, <1>4
  <2>3. CASE x = "cards.user_id" /\ x \in Items
    BY <1>4, <2>1, <2>2, <2>3 DEF Present
  <2>4. CASE x # "cards.user_id" /\ x \in Items
    <3>1. Present(x)' <=> \/ Since(x) < conn'.revision
                          \/ Since(x) = conn'.revision /\ ~(doing' = "down" /\ 1 > TakenIn(x))
                          \/ Since(x) = conn'.revision + 1 /\ doing' = "up" /\ 1 > BroughtIn(x)
      BY <1>4, <2>4 DEF Present
    <3> QED BY <1>1, <2>1, <2>2, <2>4, <3>1
  <2> QED BY <2>1, <2>3, <2>4 DEF Present
<1> QED BY <1>3, <1>4

\* No item has the name of a copy.
LEMMA NoCopies == \A t : Copy(t) \notin Items
BY DEF Copy, Items

\* One statement on, the place and the schema agree again.
LEMMA PresentAfter ==
  ASSUME Base, Ran, NEW x \in Items
  PROVE  Present(x)' <=> (Present(x) \/ x \in Current.adds) /\ x \notin Current.drops
<1>1. Shifts
  BY Places DEF Base, Ran
<1>2. /\ step' = step + 1 /\ doing' = doing /\ conn'.revision = conn.revision
      /\ step \in Nat \ {0} /\ conn.revision \in Int
  BY DEF Ran, Base, Control, Revision
<1>3. BroughtIn(x) \in Int /\ TakenIn(x) \in Int /\ Since(x) \in Int
  BY DEF Items, Since, BroughtIn, TakenIn
<1>4. CASE x = "cards.user_id"
  BY <1>1, <1>2, <1>4 DEF Shifts, Present
<1>5. CASE x # "cards.user_id"
  <2>1. Present(x) <=> \/ Since(x) < conn.revision
                       \/ Since(x) = conn.revision /\ ~(doing = "down" /\ step > TakenIn(x))
                       \/ Since(x) = conn.revision + 1 /\ doing = "up" /\ step > BroughtIn(x)
    BY <1>5 DEF Present
  <2>2. Present(x)' <=> \/ Since(x) < conn.revision
                        \/ Since(x) = conn.revision /\ ~(doing = "down" /\ step + 1 > TakenIn(x))
                        \/ Since(x) = conn.revision + 1 /\ doing = "up" /\ step + 1 > BroughtIn(x)
    BY <1>2, <1>5 DEF Present
  <2>3. /\ x \in Current.adds <=> doing = "up" /\ Since(x) = conn.revision + 1 /\ step = BroughtIn(x)
        /\ x \in Current.drops <=> doing = "down" /\ Since(x) = conn.revision /\ step = TakenIn(x)
    BY <1>1, <1>5 DEF Shifts
  <2> QED BY <1>2, <1>3, <2>1, <2>2, <2>3
<1> QED BY <1>4, <1>5

\* At the end of a script the next place begins.
LEMMA LastStep ==
  ASSUME Base, Record
  PROVE  /\ doing = "up" => /\ step \in {2, 3, 4}
                            /\ conn.revision = 1 \/ conn.revision = 3 => step = 4
                            /\ conn.revision \in {4, 5, 6, 7, 8} => step = 3
         /\ doing = "down" => step \in {2, 6} /\ (conn.revision = 4 => step = 6)
<1>1. /\ step = Len(Script) + 1
      /\ doing = "up" => conn.revision < goal
      /\ doing = "down" => conn.revision > goal
  BY Recorded
<1>2. conn.revision \in 0 .. 9 /\ goal \in 0 .. 9
  BY DEF Base, Control, Revision, Latest
<1>3. PICK n : n = Len(Script)
  OBVIOUS
<1>4. step = n + 1
  BY <1>1, <1>3
<1>5. ASSUME doing = "up"
      PROVE  /\ step \in {2, 3, 4}
             /\ conn.revision = 1 \/ conn.revision = 3 => step = 4
             /\ conn.revision \in {4, 5, 6, 7, 8} => step = 3
  <2>1. Script = Up[conn.revision + 1] /\ conn.revision \in 0 .. 8
    BY <1>1, <1>2, <1>5 DEF Script
  <2>2. n \in {1, 2, 3}
    BY <1>3, <2>1, ScriptLengths
  <2>3. conn.revision = 1 => n = 3
    BY <1>3, <2>1, UpScript2
  <2>4. conn.revision = 3 => n = 3
    BY <1>3, <2>1, UpScript4
  <2>5. conn.revision \in {4, 5, 6, 7, 8} => n = 2
    BY <1>3, <2>1, UpScript5, UpScript6, UpScript7, UpScript8, UpScript9
  <2> QED BY <1>4, <2>2, <2>3, <2>4, <2>5
<1>6. ASSUME doing = "down"
      PROVE  step \in {2, 6} /\ (conn.revision = 4 => step = 6)
  <2>1. Script = Down[conn.revision] /\ conn.revision \in 1 .. 9
    BY <1>1, <1>2, <1>6 DEF Script
  <2>2. n \in {1, 5}
    BY <1>3, <2>1, ScriptLengths
  <2>3. conn.revision = 4 => n = 5
    BY <1>3, <2>1, DownScript4
  <2> QED BY <1>4, <2>2, <2>3
<1> QED BY <1>5, <1>6

\* The end of a script and the start of the next are the same place.
LEMMA PresentRecorded ==
  ASSUME Base, Record, NEW x
  PROVE  Present(x)' <=> Present(x)
<1>1. /\ Busy /\ step' = 1 /\ doing' = doing
      /\ doing = "up" => conn'.revision = conn.revision + 1
      /\ doing = "down" => conn'.revision = conn.revision - 1
      /\ doing \in {"up", "down"}
  BY Recorded DEF Base, Control, Busy
<1>2. conn.revision \in Int
  BY DEF Base, Control, Revision
<1>3. /\ doing = "up" => /\ step \in {2, 3, 4}
                         /\ conn.revision = 1 \/ conn.revision = 3 => step = 4
                         /\ conn.revision = 4 => step = 3
      /\ doing = "down" => step \in {2, 6} /\ (conn.revision = 4 => step = 6)
  BY LastStep
<1>4. ASSUME x \in Items
      PROVE  /\ Since(x) \in 1 .. 9
             /\ BroughtIn(x) = 3 => Since(x) = 2
             /\ BroughtIn(x) = 2 => Since(x) = 5
             /\ BroughtIn(x) \in {1, 2, 3}
             /\ TakenIn(x) = 5 => Since(x) = 4
             /\ TakenIn(x) \in {1, 5}
  BY <1>4 DEF Items, Since, BroughtIn, TakenIn
<1>5. CASE x = "cards.user_id"
  <2>1. CASE doing = "up"
    BY <1>1, <1>2, <1>3, <1>5, <2>1 DEF Present
  <2>2. CASE doing = "down"
    BY <1>1, <1>2, <1>3, <1>5, <2>2 DEF Present
  <2> QED BY <1>1, <2>1, <2>2
<1>6. CASE x # "cards.user_id" /\ x \in Items
  <2>1. Present(x) <=> \/ Since(x) < conn.revision
                       \/ Since(x) = conn.revision /\ ~(doing = "down" /\ step > TakenIn(x))
                       \/ Since(x) = conn.revision + 1 /\ doing = "up" /\ step > BroughtIn(x)
    BY <1>6 DEF Present
  <2>2. Present(x)' <=> \/ Since(x) < conn'.revision
                        \/ Since(x) = conn'.revision /\ ~(doing = "down" /\ 1 > TakenIn(x))
                        \/ Since(x) = conn'.revision + 1 /\ doing = "up" /\ 1 > BroughtIn(x)
    BY <1>1, <1>6 DEF Present
  <2>3. CASE doing = "up"
    <3>1. conn'.revision = conn.revision + 1
      BY <1>1, <2>3
    <3>2. Present(x)' <=> Since(x) <= conn.revision + 1
      BY <1>2, <1>4, <1>6, <2>2, <2>3, <3>1
    <3>3. Since(x) = conn.revision + 1 => step > BroughtIn(x)
      BY <1>2, <1>3, <1>4, <1>6, <2>3
    <3> QED BY <1>2, <1>4, <1>6, <2>1, <2>3, <3>2, <3>3
  <2>4. CASE doing = "down"
    <3>1. conn'.revision = conn.revision - 1
      BY <1>1, <2>4
    <3>2. Present(x)' <=> Since(x) <= conn.revision - 1
      BY <1>2, <1>4, <1>6, <2>2, <2>4, <3>1
    <3>3. Since(x) = conn.revision => step > TakenIn(x)
      BY <1>2, <1>3, <1>4, <1>6, <2>4
    <3> QED BY <1>2, <1>4, <1>6, <2>1, <2>4, <3>2, <3>3
  <2> QED BY <1>1, <2>3, <2>4
<1> QED BY <1>5, <1>6 DEF Present

\* The place of the next statement tells what is there and what is not.
LEMMA Fitting ==
  ASSUME Base, Runs, NEW x
  PROVE  /\ x \in Current.adds => x \in Items /\ ~Present(x)
         /\ x \in Current.drops => Present(x)
         /\ x \in Needs(Current) => Present(x)
<1>1. Placed /\ Shifts
  BY Places DEF Base
<1>2. conn.revision \in Int /\ step \in Int
  BY DEF Base, Control, Revision
<1>3. x \in Items => Since(x) \in Int /\ BroughtIn(x) \in Int /\ TakenIn(x) \in Int
  BY DEF Items, Since, BroughtIn, TakenIn
<1>4. ASSUME x \in Current.adds
      PROVE  x \in Items /\ ~Present(x)
  <2>1. x \in Items
    BY <1>1, <1>4 DEF Placed
  <2>2. CASE x = "cards.user_id"
    BY <1>1, <1>2, <1>4, <2>1, <2>2 DEF Shifts, Present
  <2>3. CASE x # "cards.user_id"
    <3>1. doing = "up" /\ Since(x) = conn.revision + 1 /\ step = BroughtIn(x)
      BY <1>1, <1>4, <2>1, <2>3 DEF Shifts
    <3> QED BY <1>2, <1>3, <2>1, <2>3, <3>1 DEF Present
  <2> QED BY <2>1, <2>2, <2>3
<1>5. ASSUME x \in Current.drops
      PROVE  Present(x)
  <2>1. x \in Items
    BY <1>1, <1>5 DEF Placed
  <2>2. CASE x = "cards.user_id"
    BY <1>1, <1>2, <1>5, <2>1, <2>2 DEF Shifts, Present
  <2>3. CASE x # "cards.user_id"
    <3>1. doing = "down" /\ Since(x) = conn.revision /\ step = TakenIn(x)
      BY <1>1, <1>5, <2>1, <2>3 DEF Shifts
    <3> QED BY <1>2, <1>3, <2>1, <2>3, <3>1 DEF Present
  <2> QED BY <2>2, <2>3
<1>6. ASSUME x \in Needs(Current)
      PROVE  Present(x)
  <2>1. Current.how # "create"
    BY <1>1, <1>6 DEF Needs, Placed
  <2>2. CASE Current.op = "backfill"
    <3>1. x \in CodeTable \cup {"audit_log", "users.role", "cards.created_by_id"}
      BY <1>6, <2>1, <2>2 DEF Needs
    <3>2. doing = "up" /\ conn.revision = 8 /\ step = 2
      BY <1>1, <2>2 DEF Placed
    <3>3. x \in Items /\ x # "cards.user_id" /\ BroughtIn(x) = 1
      BY <3>1 DEF Items, CodeTable, BroughtIn
    <3>4. Since(x) \in {2, 4, 6, 7, 8, 9}
      BY <3>1 DEF CodeTable, Since
    <3> QED BY <3>2, <3>3, <3>4 DEF Present
  <2>3. CASE Current.op # "backfill"
    <3>1. x = Current.table
      BY <1>6, <2>1, <2>3 DEF Needs
    <3> QED BY <1>1, <2>1, <3>1 DEF Shifts
  <2> QED BY <2>2, <2>3
<1> QED BY <1>4, <1>5, <1>6

\* No statement of the chain finds anything missing or in its way, nor a row
\* against it.
LEMMA Goes ==
  ASSUME Base, Cards, Whole, transactional \/ bounds.failures = 0, Runs
  PROVE  IF Copies /\ ~scratch THEN CopyPossible ELSE Possible
<1>1. \A x : x \in conn.schema <=> Present(x) \/ (scratch /\ x = Copy(Current.table))
  BY DEF Whole
<1>2. \A x : Present(x) => x \in Items
  BY DEF Present
<1>3. Needs(Current) \cup Current.drops \subseteq conn.schema
  BY <1>1, Fitting
<1>4. ~scratch => Copy(Current.table) \notin conn.schema
  BY <1>1, <1>2, NoCopies
<1>5. Current.adds \cap conn.schema = {}
  <2>1. ASSUME NEW x \in Current.adds
        PROVE  x \notin conn.schema
    BY <1>1, <2>1, Fitting, NoCopies
  <2> QED BY <2>1
<1>6. Satisfied(Current, conn.rows)
  <2>1. ASSUME Current.op = "drop_issuer"
        PROVE  \A c, d \in conn.rows.cards : c.owner # Nobody /\ (c.owner = d.owner => c = d)
    <3>1. doing = "down" /\ conn.revision = 4 /\ step = 5 /\ ~Arrived
      BY <2>1, Places DEF Base, Placed, Runs
    <3>2. ByOwner(conn.rows.cards) /\ Stage = "both"
      BY <3>1 DEF Cards, Stage
    <3>3. \A c \in conn.rows.cards : c.owner \in Person
      BY <3>2 DEF Cards, Form
    <3> QED BY <3>2, <3>3, MigrationsAssumption DEF ByOwner
  <2> QED BY <2>1 DEF Satisfied
<1> QED BY <1>3, <1>4, <1>5, <1>6 DEF CopyPossible, Possible

\* Relative to Base and Cards, Whole is inductive.
LEMMA WholeStep ==
  ASSUME Base, Cards, Whole, [Next]_vars
  PROVE  Whole'
<1>0. Control /\ conn.schema \subseteq Items \cup CopyNames /\ bounds.failures \in Nat
  BY Membership DEF Base, Types, Database, CopyNames
<1>1. CASE UNCHANGED vars
  BY <1>1 DEF vars, command, Whole, Present, Current, Script
<1>2. ASSUME step' = 1, ~scratch', conn'.revision \in Revision,
             conn'.schema = Released(conn'.revision)
      PROVE  \A x : x \in conn'.schema <=> Present(x)' \/ (scratch' /\ x = Copy((Current)'.table))
  BY <1>2, PresentAtStart
<1>3. ASSUME NEW direction, NEW to, Began(direction, to)
      PROVE  Whole'
  <2>1. /\ conn = db /\ db' = db /\ conn' = db /\ step = 1 /\ step' = 1 /\ ~scratch /\ ~scratch'
        /\ transactional' = transactional /\ bounds'.failures = bounds.failures
    BY <1>0, <1>3 DEF Began, Control, Busy
  <2>2. transactional \/ bounds.failures = 0 => db.schema = Released(db.revision)
    BY <1>0, <2>1, PresentAtStart DEF Whole, Control
  <2> QED BY <1>0, <1>2, <2>1, <2>2 DEF Whole, Control
<1>4. CASE CreateCopy
  <2>1. /\ Runs /\ Copies /\ ~scratch /\ scratch' = TRUE /\ conn'.revision = conn.revision
        /\ conn'.schema = conn.schema \cup {Copy(Current.table)}
        /\ UNCHANGED <<transactional, doing, goal, step, bounds>>
    BY <1>4, Copied
  <2>2. Current' = Current /\ \A x : Present(x)' <=> Present(x)
    BY <2>1 DEF Current, Script, Present
  <2>3. ~transactional
    BY <2>1 DEF Copies
  <2> QED BY <2>1, <2>2, <2>3 DEF Whole
<1>5. CASE Execute
  <2>1. Ran
    BY <1>5, ExecuteRuns
  <2>2. transactional => db' = db
    BY <2>1 DEF Ran
  <2>3. ASSUME transactional \/ bounds.failures = 0, NEW x
        PROVE  x \in conn'.schema <=> Present(x)'
    <3>1. x \in conn.schema <=> Present(x) \/ (scratch /\ x = Copy(Current.table))
      BY <2>3 DEF Whole
    <3>2. x \in conn'.schema <=>
            (x \in conn.schema \/ x \in Current.adds) /\ x \notin Current.drops
              /\ (Copies => x # Copy(Current.table))
      BY <2>1 DEF Ran
    <3>3. (scratch => Copies) /\ (Copies => scratch)
      BY <1>0, <2>1 DEF Control, Ran
    <3>4. CASE x \in Items
      BY <2>1, <3>1, <3>2, <3>4, NoCopies, PresentAfter
    <3>5. CASE x \notin Items
      <4>1. x \notin Current.adds /\ ~Present(x) /\ ~Present(x)'
        BY <2>1, <3>5, Fitting DEF Ran, Present
      <4> QED BY <3>1, <3>2, <3>3, <4>1
    <3> QED BY <3>4, <3>5
  <2> QED BY <2>1, <2>2, <2>3 DEF Whole, Ran
<1>6. CASE Record
  <2>1. /\ ~scratch /\ ~scratch' /\ conn'.schema = conn.schema
        /\ UNCHANGED <<transactional, db, bounds>>
    BY <1>6, Recorded
  <2> QED BY <1>6, <2>1, PresentRecorded DEF Whole
<1>7. CASE Committed
  <2>1. /\ step = 1 /\ ~scratch /\ db' = conn /\ conn' = conn /\ step' = 1 /\ ~scratch'
        /\ UNCHANGED <<transactional, bounds>>
    BY <1>0, <1>7 DEF Committed, Control, Runs
  <2>2. transactional \/ bounds.failures = 0 => conn.schema = Released(conn.revision)
    BY <1>0, <2>1, PresentAtStart DEF Whole, Control
  <2> QED BY <1>0, <1>2, <2>1, <2>2 DEF Whole, Control
<1>8. CASE Undone /\ (Raise \/ bounds'.failures = bounds.failures + 1)
  <2>1. transactional \/ bounds.failures = 0 => ~Raise
    BY Goes DEF Raise
  <2>2. /\ db' = db /\ conn' = db /\ step' = 1 /\ ~scratch' /\ transactional' = transactional
        /\ bounds'.failures \in {bounds.failures, bounds.failures + 1}
    BY <1>8 DEF Undone
  <2>3. transactional \/ bounds'.failures = 0 => transactional
    BY <1>0, <1>8, <2>1, <2>2
  <2> QED BY <1>0, <1>2, <2>2, <2>3 DEF Whole, Control
<1>9. CASE BotWrites
  <2>1. /\ db.schema = Released(db.revision) /\ conn' = db' /\ db'.revision = db.revision
        /\ db'.schema = db.schema /\ step' = 1 /\ ~scratch' /\ transactional' = transactional
    BY <1>0, <1>9, BotEffects DEF BotWrote, BotKeeps, Control
  <2> QED BY <1>0, <1>2, <2>1 DEF Whole, Control
<1> QED BY <1>1, <1>3, <1>4, <1>5, <1>6, <1>7, <1>8, <1>9, Steps

\* There is nothing at first.
LEMMA WholeInit ==
  ASSUME Init
  PROVE  Whole
<1>1. /\ db.revision = 0 /\ db.schema = {} /\ conn = db /\ step = 1 /\ scratch = FALSE
  BY DEF Init
<1>2. 0 \in Revision
  BY DEF Revision, Latest
<1>3. \A x : x \notin Released(0)
  BY <1>2, Content DEF Items, Since
<1>4. \A x : ~Present(x)
  BY <1>1, <1>2, <1>3, PresentAtStart
<1> QED BY <1>1, <1>3, <1>4 DEF Whole

\* Whole is an invariant.
LEMMA WholeHolds == Spec => []Whole
BY WholeInit, WholeStep, BaseHolds, CardsHold, PTL DEF Spec

\* Between two scripts the schema is that of a revision: always with transactional
\* DDL, and until the first failure without.
THEOREM MigrationsWhole == Spec => []WholeRevisions
<1>1. Base /\ Whole => WholeRevisions
  <2> SUFFICES ASSUME Base, Whole, transactional \/ bounds.failures = 0
               PROVE  /\ step = 1 /\ ~scratch => conn.schema = Released(conn.revision)
                      /\ transactional => db.schema = Released(db.revision)
    BY DEF WholeRevisions
  <2>1. ASSUME step = 1, ~scratch
        PROVE  conn.schema = Released(conn.revision)
    BY <2>1, PresentAtStart DEF Whole, Base, Control
  <2> QED BY <2>1 DEF Whole
<1> QED BY <1>1, BaseHolds, WholeHolds, PTL

\* Left alone, no statement of the chain raises: the way up and the way down fit,
\* from wherever to wherever. Only what a failure left half done on SQLite raises.
THEOREM MigrationsFit == Spec => OnlyHalfDoneRaises
<1>1. Base /\ Cards /\ Whole /\ [Next]_vars => [Raise => ~transactional /\ bounds.failures > 0]_vars
  <2> SUFFICES ASSUME Base, Cards, Whole, Raise
               PROVE  ~transactional /\ bounds.failures > 0
    OBVIOUS
  <2>1. bounds.failures \in Nat /\ transactional \in BOOLEAN
    BY DEF Base, Types, Control, Flags
  <2>2. ~(transactional \/ bounds.failures = 0)
    BY Goes DEF Raise
  <2> QED BY <2>1, <2>2
<1> QED BY <1>1, BaseHolds, CardsHold, WholeHolds, PTL DEF Spec, OnlyHalfDoneRaises

=============================================================================
