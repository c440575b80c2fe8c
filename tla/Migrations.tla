------------------------------ MODULE Migrations ------------------------------
(***************************************************************************)
(* The migration chain of src/migrations, run statement by statement by    *)
(* `alembic upgrade` and `downgrade` while the bot is down, and the rows   *)
(* the bot writes in between.                                              *)
(*                                                                         *)
(* One command runs in one transaction (env.py). PostgreSQL keeps DDL in   *)
(* it; on SQLite the driver opens the transaction at the first INSERT,     *)
(* UPDATE or DELETE only, so the DDL before that is there to stay, whether *)
(* the command succeeds or not.                                            *)
(*                                                                         *)
(* The releases that ran on revisions below Latest are not in this         *)
(* repository: their writes are taken to be those of the present services  *)
(* on the columns there are.                                               *)
(***************************************************************************)
EXTENDS Schema, Sequences

CONSTANTS
  Named,          \* the revisions that commands name, the latest among them
  Minted,         \* the types minted
  Count,          \* batch sizes
  Design,         \* card designs chosen
  MaxWrites,      \* bound on what the bot writes
  MaxFailures,    \* bound on commands that fail
  MaxDowngrades   \* bound on downgrades

ASSUME MigrationsAssumption ==
  /\ Nobody \notin Person /\ Latest \in Named /\ Named \subseteq Revision
  /\ Minted \subseteq Kind /\ Count \subseteq Nat \ {0}
  /\ Padding \in [Kind -> Nat \ {0}]
  /\ MaxWrites \in Nat /\ MaxFailures \in Nat /\ MaxDowngrades \in Nat

VARIABLES
  transactional, \* DDL is part of the transaction: PostgreSQL
  db,            \* committed: revision, schema and rows
  conn,          \* the same as the running command sees it
  open,          \* its transaction has begun
  doing,         \* "nothing", "up" or "down"
  goal,          \* the revision it is to end at
  step,          \* the next statement of the script it is in
  scratch,       \* batch mode has made its copy of the table
  bounds,        \* writes, failures and downgrades so far
  now,           \* the clock, in the database's resolution
  facts          \* what happened, for the properties: the last change of each
                 \* role and who last changed it by hand, the batches, the codes
                 \* sold, the tables dropped

command == <<conn, open, doing, goal, step, scratch>>
vars == <<transactional, db, command, bounds, now, facts>>

Statement(how, op, table, adds, drops) ==
  [how |-> how, op |-> op, table |-> table, adds |-> adds, drops |-> drops]

Create(table, columns)        == Statement("create", "create", table, {table} \cup columns, {})
Drop(op, table, columns)      == Statement("alter", op, table, {}, {table} \cup columns)
Add(op, table, column)        == Statement("alter", op, table, {column}, {})
Batch(op, table, adds, drops) == Statement("batch", op, table, adds, drops)
Write(op, table)              == Statement("write", op, table, {}, {})

\* Mutant: the owners go before the issuers are filled in from them.
ReworkUpLate ==
  <<Batch("add", "cards", {"cards.created_by_id"}, {}),
    Batch("drop_owner", "cards", {}, {"cards.user_id"}), Write("fill_issuer", "cards")>>

\* Mutant: the way back forgets to drop the new column.
ReworkDownKeeps ==
  <<Add("add", "cards", "cards.user_id"), Write("fill_owner", "cards"),
    Write("delete_orphans", "cards"), Write("delete_surplus", "cards"),
    Batch("drop_issuer", "cards", {}, {})>>

\* The rework of cards: who the card belonged to is who issued it from now on.
ReworkUp ==
  <<Batch("add", "cards", {"cards.created_by_id"}, {}), Write("fill_issuer", "cards"),
    Batch("drop_owner", "cards", {}, {"cards.user_id"})>>

ReworkDown ==
  <<Add("add", "cards", "cards.user_id"), Write("fill_owner", "cards"),
    Write("delete_orphans", "cards"), Write("delete_surplus", "cards"),
    Batch("drop_issuer", "cards", {}, {"cards.created_by_id"})>>

Codes(table) == <<Create(table, {}), Write("seed", table)>>

\* upgrade() of each revision.
Up ==
  <<<<Create("users", {})>>,
    <<Batch("add", "users", {"users.role"}, {}), Write("fill_role", "users"),
      Batch("check", "users", {"users.role_enum"}, {})>>,
    <<Create("cards", {"cards.user_id"})>>,
    ReworkUp,
    <<Add("add_type", "cards", "cards.card_type"),
      Batch("check", "cards", {"cards.card_type_enum"}, {})>>,
    Codes("power_pass_cards"), Codes("coin_cards"), Codes("store_cards"),
    <<Create("audit_log", {}), Write("backfill", "audit_log")>>>>

\* downgrade() of each revision.
Down ==
  <<<<Drop("drop_users", "users", {})>>,
    <<Batch("drop_role", "users", {}, {"users.role", "users.role_enum"})>>,
    <<Drop("drop_cards", "cards", {"cards.user_id"})>>,
    ReworkDown,
    <<Batch("drop_type", "cards", {}, {"cards.card_type", "cards.card_type_enum"})>>,
    <<Drop("drop_codes", "power_pass_cards", {})>>,
    <<Drop("drop_codes", "coin_cards", {})>>,
    <<Drop("drop_codes", "store_cards", {})>>,
    <<Drop("drop_log", "audit_log", {})>>>>

\* What a statement reads or changes has to be there.
Needs(s) ==
  CASE s.how = "create"    -> {}
    [] s.op = "backfill"   -> CodeTable \cup {"audit_log", "users.role", "cards.created_by_id"}
    [] OTHER               -> {s.table}

\* What a statement does to the rows.
After(s, rows) ==
  LET cards == rows.cards IN
  CASE s.op = "drop_role"      -> [rows EXCEPT !.users = [p \in Person |-> NoRole]]
    [] s.op = "fill_issuer"    -> [rows EXCEPT !.cards = {[c EXCEPT !.by = c.owner] : c \in cards}]
    [] s.op = "drop_owner"     -> [rows EXCEPT !.cards = {[c EXCEPT !.owner = Nobody] : c \in cards}]
    [] s.op = "add_type"       -> [rows EXCEPT !.cards = {[c EXCEPT !.type = Untyped] : c \in cards}]
    [] s.op = "seed"           -> [rows EXCEPT !.counters =
                                     [k \in Kind |-> IF TableOf[k] = s.table THEN Seed[k] ELSE @[k]]]
    [] s.op = "backfill"       -> [rows EXCEPT !.log = Backfill(rows)]
    [] s.op = "drop_cards"     -> [rows EXCEPT !.cards = {}]
    [] s.op = "fill_owner"     -> [rows EXCEPT !.cards = {[c EXCEPT !.owner = c.by] : c \in cards}]
    [] s.op = "delete_orphans" -> [rows EXCEPT !.cards = {c \in cards : c.owner # Nobody}]
    [] s.op = "delete_surplus" -> [rows EXCEPT !.cards = Earliest(cards)]
    [] s.op = "drop_issuer"    -> [rows EXCEPT !.cards = {[c EXCEPT !.by = Nobody] : c \in cards}]
    [] s.op = "drop_type"      -> [rows EXCEPT !.cards = {[c EXCEPT !.type = "none"] : c \in cards}]
    [] s.op = "drop_codes"     -> [rows EXCEPT !.minted = {m \in @ : TableOf[m.kind] # s.table},
                                     !.counters = [k \in Kind |-> IF TableOf[k] = s.table THEN 0 ELSE @[k]]]
    [] s.op = "drop_log"       -> [rows EXCEPT !.log = NoLog]
    [] OTHER                   -> rows

\* NOT NULL and UNIQUE(user_id), put back by the rework's downgrade.
Satisfied(s, rows) ==
  s.op = "drop_issuer" =>
    \A c, d \in rows.cards : c.owner # Nobody /\ (c.owner = d.owner => c = d)

\* Batch mode is used on two tables.
Copy(table) == IF table = "users" THEN "_alembic_tmp_users" ELSE "_alembic_tmp_cards"

Script  == IF doing = "up" THEN Up[conn.revision + 1] ELSE Down[conn.revision]
Arrived == conn.revision = goal
Runs    == doing # "nothing" /\ ~Arrived /\ step <= Len(Script)
Current == Script[step]

---------------------------------------------------------------------------
(* A command *)

\* Mutant: the next command goes on where the failed one was.
IdleStale ==
  /\ conn' = conn /\ open' = FALSE
  /\ doing' = "nothing" /\ goal' = db'.revision /\ step' = 1 /\ scratch' = FALSE

Idle ==
  /\ conn' = db' /\ open' = FALSE
  /\ doing' = "nothing" /\ goal' = db'.revision /\ step' = 1 /\ scratch' = FALSE

Start(direction, to) ==
  /\ doing = "nothing"
  /\ doing' = direction /\ goal' = to /\ open' = transactional
  /\ UNCHANGED <<transactional, db, conn, step, scratch, now, facts>>

\* alembic upgrade; `upgrade head` is run on every deployment, needed or not.
Upgrade(to) ==
  /\ db.revision < to \/ to = Latest
  /\ Start("up", to)
  /\ UNCHANGED bounds

\* alembic downgrade.
Downgrade(to) ==
  /\ bounds.downgrades < MaxDowngrades /\ db.revision > to /\ Start("down", to)
  /\ bounds' = [bounds EXCEPT !.downgrades = @ + 1]

\* Batch mode goes by a copy of the table where ALTER does not do it.
Copies == ~transactional /\ Current.how = "batch"

\* The copy is created, under a name that must be free.
CopyPossible == Needs(Current) \subseteq conn.schema /\ Copy(Current.table) \notin conn.schema

CreateCopy ==
  /\ Runs /\ Copies /\ ~scratch /\ CopyPossible
  /\ scratch' = TRUE
  /\ conn' = [conn EXCEPT !.schema = @ \cup {Copy(Current.table)}]
  /\ db' = IF open THEN db ELSE conn'
  /\ UNCHANGED <<transactional, open, doing, goal, step, bounds, now, facts>>

\* The statement finds what it needs, nothing in its way, and no row against it.
Possible ==
  /\ Current.adds \cap conn.schema = {}
  /\ Needs(Current) \cup Current.drops \subseteq conn.schema
  /\ Satisfied(Current, conn.rows)

\* What has been lost with a table.
Forgotten ==
  [facts EXCEPT
     !.roles   = IF "users.role" \in db'.schema THEN @ ELSE [p \in Person |-> NoRole],
     !.batches = {b \in @ : TableOf[b.kind] \in db'.schema},
     !.dropped = @ \cup (CodeTable \cap (db.schema \ db'.schema))]

\* The next statement of a script. Filling the copy is an INSERT.
Execute ==
  /\ Runs /\ Possible /\ (Copies => scratch)
  /\ open' = (open \/ Copies \/ Current.how = "write")
  /\ conn' = [revision |-> conn.revision,
              schema   |-> ((conn.schema \cup Current.adds) \ Current.drops)
                             \ (IF Copies THEN {Copy(Current.table)} ELSE {}),
              rows     |-> After(Current, conn.rows)]
  /\ db' = IF open' THEN db ELSE conn'
  /\ step' = step + 1 /\ scratch' = FALSE
  /\ facts' = Forgotten
  /\ UNCHANGED <<transactional, doing, goal, bounds, now>>

\* The version row follows the script.
Record ==
  /\ doing # "nothing" /\ ~Arrived /\ step > Len(Script)
  /\ conn' = [conn EXCEPT !.revision = IF doing = "up" THEN @ + 1 ELSE @ - 1]
  /\ open' = TRUE /\ step' = 1
  /\ UNCHANGED <<transactional, db, doing, goal, scratch, bounds, now, facts>>

\* engine.begin() commits when every script has run.
Commit ==
  /\ doing # "nothing" /\ Arrived
  /\ db' = conn /\ Idle
  /\ facts' = Forgotten
  /\ UNCHANGED <<transactional, bounds, now>>

\* Mutant: what a failed command has done stays.
KeepsHalf ==
  /\ db' = [conn EXCEPT !.revision = db.revision] /\ Idle
  /\ UNCHANGED <<transactional, now, facts>>

\* The transaction is rolled back, as far as there is one.
Rollback ==
  /\ db' = db /\ Idle
  /\ UNCHANGED <<transactional, now, facts>>

\* A statement raises: something it creates is there already, something it
\* needs is not, or a row breaks a constraint.
Raise ==
  /\ Runs /\ ~(IF Copies /\ ~scratch THEN CopyPossible ELSE Possible)
  /\ Rollback
  /\ UNCHANGED bounds

\* The connection is lost or the process dies.
Fail ==
  /\ bounds.failures < MaxFailures /\ doing # "nothing"
  /\ Rollback
  /\ bounds' = [bounds EXCEPT !.failures = @ + 1]

---------------------------------------------------------------------------
(* What the bot writes between two commands *)

\* The release that goes with the revision runs.
Running(r) ==
  /\ doing = "nothing" /\ db.revision >= r /\ db.schema = Released(db.revision)
  /\ bounds.writes < MaxWrites

\* One transaction of the bot. On PostgreSQL each has a time of its own.
Writes(rows, log, new) ==
  /\ db' = [db EXCEPT !.rows = [rows EXCEPT !.log = IF db.revision = Latest THEN log ELSE @]]
  /\ conn' = db'
  /\ bounds' = [bounds EXCEPT !.writes = @ + 1]
  /\ facts' = new
  /\ UNCHANGED <<transactional, open, doing, goal, step, scratch>>

Ticks == now' \in (IF transactional THEN {now + 1} ELSE {now, now + 1})

RoleOf(p) == db.rows.users[p].role

SetRole(p, row, action, actor, change) ==
  Writes([db.rows EXCEPT !.users[p] = row],
         [db.rows.log EXCEPT !.roles = @ \cup
            {[action |-> action, actor |-> actor, target |-> p, role |-> row.role, at |-> row.at]}],
         [facts EXCEPT !.roles[p] = change])

\* grant_role.
Grant(a, p, role) ==
  /\ Running(2) /\ a # p /\ CanGrant(RoleOf(a), role)
  /\ IsMember(RoleOf(p)) => CanRevoke(RoleOf(a), RoleOf(p), FALSE)
  /\ Ticks
  /\ LET row == [role |-> role, by |-> a, at |-> now']
     IN SetRole(p, row, IF IsMember(RoleOf(p)) THEN "role_changed" ELSE "member_added", a, row)

\* revoke_access.
Revoke(a, p) ==
  /\ Running(2) /\ CanRevoke(RoleOf(a), RoleOf(p), a = p) /\ Ticks
  /\ LET row == [role |-> "none", by |-> a, at |-> now']
     IN SetRole(p, row, "member_removed", a, row)

\* sync_super_admins, at a start: granted_by_id is left as it was.
Promote(p) ==
  /\ Running(2) /\ RoleOf(p) # "super_admin" /\ Ticks
  /\ LET by(who) == [role |-> "super_admin", by |-> who, at |-> now']
     IN SetRole(p, by(db.rows.users[p].by), "super_admin_seeded", Nobody, by(facts.roles[p].by))

\* issue_card; before the rework a person owned the one card they issued.
Issue(p, type) ==
  /\ Running(3) /\ IsMember(RoleOf(p)) /\ Ticks
  /\ db.revision = 3 => \A c \in db.rows.cards : c.owner # p
  /\ LET card == [id |-> bounds.writes + 1, at |-> now',
                  owner |-> IF db.revision = 3 THEN p ELSE Nobody,
                  by    |-> IF db.revision = 3 THEN Nobody ELSE p,
                  type  |-> IF db.revision >= 5 THEN type ELSE "none"]
     IN Writes([db.rows EXCEPT !.cards = @ \cup {card}],
               [db.rows.log EXCEPT !.cards = @ \cup {CardLine(card)}], facts)

\* record_batch: the code of the first card, and that of the last.
MintedLine(a, kind, from, count) ==
  [kind |-> kind, actor |-> a, at |-> now', count |-> count, first |-> from, last |-> from + count - 1]

\* issue_batch, whole (Minting has it in steps).
Mint(a, kind, count) ==
  /\ Running(Created[TableOf[kind]]) /\ RoleOf(a) = "super_admin" /\ Ticks
  /\ LET from  == db.rows.counters[kind]
         batch == {[kind |-> kind, n |-> n, by |-> a, at |-> now'] : n \in from .. from + count - 1}
     IN Writes([db.rows EXCEPT !.minted = @ \cup batch, !.counters[kind] = @ + count],
               [db.rows.log EXCEPT !.batches = @ \cup {MintedLine(a, kind, from, count)}],
               [facts EXCEPT !.batches = @ \cup {MintedLine(a, kind, from, count)},
                             !.sold = @ \cup {<<kind, m.n>> : m \in batch}])

---------------------------------------------------------------------------

Init ==
  /\ transactional \in BOOLEAN
  /\ db = [revision |-> 0, schema |-> {}, rows |-> NoRows] /\ conn = db
  /\ open = FALSE /\ doing = "nothing" /\ goal = 0 /\ step = 1 /\ scratch = FALSE
  /\ bounds = [writes |-> 0, failures |-> 0, downgrades |-> 0] /\ now = 1
  /\ facts = [roles |-> [p \in Person |-> NoRole], batches |-> {}, sold |-> {}, dropped |-> {}]

Proceed == CreateCopy \/ Execute \/ Record \/ Commit \/ Raise

BotWrites ==
  \/ \E a, p \in Person, role \in Role : Grant(a, p, role)
  \/ \E a, p \in Person : Revoke(a, p)
  \/ \E p \in Person : Promote(p)
  \/ \E p \in Person, type \in Design : Issue(p, type)
  \/ \E a \in Person, kind \in Minted, count \in Count : Mint(a, kind, count)

Next ==
  \/ \E to \in Named : Upgrade(to) \/ Downgrade(to)
  \/ Proceed
  \/ Fail
  \/ BotWrites

Spec == Init /\ [][Next]_vars

\* A command runs to its end, and whoever deploys repeats `make migrate`.
FairSpec == Spec /\ WF_vars(Proceed) /\ WF_vars(Upgrade(Latest))

---------------------------------------------------------------------------
(* Properties *)

CardRow == [id : Nat, owner : Person \cup {Nobody}, by : Person \cup {Nobody},
            type : Design \cup {Untyped, "none"}, at : Nat]

Database(d) ==
  /\ d.revision \in Revision
  /\ d.schema \subseteq Item \cup {Copy("users"), Copy("cards")}
  /\ d.rows.users \in [Person -> [role : Role, by : Person \cup {Nobody}, at : Nat]]
  /\ d.rows.cards \subseteq CardRow
  /\ d.rows.counters \in [Kind -> Nat]

\* Every variable keeps its type.
TypeOK ==
  /\ Database(db) /\ Database(conn)
  /\ doing \in {"nothing", "up", "down"} /\ goal \in Revision
  /\ doing = "nothing" => conn = db

\* Between two scripts the schema is the one of the revision reached, and never
\* half of one: always on PostgreSQL, on SQLite until a command fails between
\* its DDL and the first row it writes.
WholeRevisions ==
  (transactional \/ bounds.failures = 0) =>
    /\ step = 1 /\ ~scratch => conn.schema = Released(conn.revision)
    /\ transactional => db.schema = Released(db.revision)

\* Scripts fit one another, up and down: a statement raises only where a command
\* that failed left part of a script behind, as SQLite does.
OnlyHalfDoneRaises == [][Raise => ~transactional /\ bounds.failures > 0]_vars

Holder(c) == IF c.owner # Nobody THEN c.owner ELSE c.by

\* An upgrade carries every card over with whoever it belongs to, also where it
\* fails half-way; a downgrade to a revision with cards leaves of each person's
\* cards the earliest at least.
CardsKeepTheirIssuers ==
  [][doing # "nothing" /\ (doing = "up" \/ goal >= 3) =>
       \A c \in db.rows.cards :
         (doing = "up" \/ \A d \in db.rows.cards : Holder(d) = Holder(c) => c.id <= d.id)
           => \E d \in db'.rows.cards : d.id = c.id /\ d.at = c.at /\ Holder(d) = Holder(c)]_vars

\* The series go on where they were left by hand, and no number is minted
\* twice, failed and repeated upgrades included; only a downgrade that drops the
\* table forgets what was sold.
NumbersGoOn ==
  [][\A m \in db'.rows.minted \ db.rows.minted :
       /\ m.n > ByHand[m.kind]
       /\ <<m.kind, m.n>> \in facts.sold => TableOf[m.kind] \in facts.dropped]_vars

\* What is said of the history holds where there is one, between two commands.
AtLatest == db.revision = Latest /\ doing = "nothing" /\ "audit_log" \in db.schema

\* The upgrade that brings the history is committed.
HistoryBegins == doing = "up" /\ db.revision < Latest /\ db'.revision = Latest

\* The first look at the history, right after the upgrade, tells of everybody
\* whose role was ever changed the role they have, since when, and who last
\* changed it by hand. For a seeded member that is somebody from before the
\* seeding: see BackfillIsExact.
BackfillTellsLastChange ==
  [][HistoryBegins =>
       \A p \in Person : facts.roles[p].at # 0 =>
         \E l \in db'.rows.log.roles :
           /\ l.target = p /\ l.at = facts.roles[p].at
           /\ l.actor = facts.roles[p].by /\ l.role = facts.roles[p].role]_vars

\* The numbers of a batch are printed with as many digits each.
SameLength(b) == \A n \in b.first .. b.last : Size(b.kind, n) = Size(b.kind, b.first)

\* A line tells a batch: its type, admin, instant and size, and its ends, but
\* where the codes grow longer on the way.
Tells(l, b) ==
  /\ l.kind = b.kind /\ l.actor = b.actor /\ l.at = b.at /\ l.count = b.count
  /\ SameLength(b) => l.first = b.first /\ l.last = b.last

Told(lines, batches) ==
  /\ \A b \in batches : \E l \in lines : Tells(l, b)
  /\ \A l \in lines : \E b \in batches : Tells(l, b)

\* No two batches of one type by one admin fall into the same instant.
Apart(batches) ==
  \A b, c \in batches : b.kind = c.kind /\ b.actor = c.actor /\ b.at = c.at => b = c

\* Written as it happens or recovered later, the history has one line for each
\* card, with its issuer and design, and tells of each batch and of no other,
\* unless two of one type by one admin fall into the same instant.
HistoryAccounts ==
  AtLatest =>
    /\ db.rows.log.cards = {CardLine(c) : c \in db.rows.cards}
    /\ Apart(facts.batches) => Told(db.rows.log.batches, facts.batches)

\* Nobody grants a super admin's role: it is seeded from the environment.
GrantedBy(p) == IF facts.roles[p].role = "super_admin" THEN Nobody ELSE facts.roles[p].by

\* What the docstring of the audit log's revision says of the recovered history:
\* the line of a member tells who granted the current role, which nobody did of
\* a seeded one (db/models/user.py); and "grouping by admin + type + timestamp
\* recovers the batches exactly". The property asks for one of the two only, and
\* one history breaks both: a seeding leaves the granter of the role before, and
\* the ends of a batch are compared as text.
BackfillIsExact ==
  [][HistoryBegins =>
       \/ \A p \in Person : facts.roles[p].at # 0 =>
            \E l \in db'.rows.log.roles : l.target = p /\ l.actor = GrantedBy(p)
       \/ db'.rows.log.batches = facts.batches]_vars

\* On PostgreSQL a failed upgrade can simply be repeated: the database ends at
\* the latest revision.
RetriesReachLatest == transactional => <>[](db.revision = Latest)

Abstract == INSTANCE Releases WITH
  revision <- IF transactional THEN db.revision ELSE 0,
  rows     <- IF transactional THEN db.rows ELSE NoRows

\* Run statement by statement, with failures and retries, the chain does on
\* PostgreSQL what Releases promises of it: whole steps, rows in closed form.
ImplementsReleases == Abstract!Promise

=============================================================================
