------------------------------- MODULE Releases -------------------------------
(***************************************************************************)
(* What a migration promises: the database goes from one revision to       *)
(* another in a single step, with every row carried over in closed form;   *)
(* a migration that fails has not happened. Migrations implements this,    *)
(* script by script, where the database has transactional DDL.             *)
(***************************************************************************)
EXTENDS Schema

VARIABLES
  revision, \* alembic_version
  rows      \* what the tables hold

Fresh == revision = 0 /\ rows = NoRows

\* The revision r lies between the two.
Passes(r, from, to) == from < r /\ r <= to

\* All scripts from one revision to a later one, at once.
Upgraded(old, from, to) ==
  LET carried(c) ==
        [c EXCEPT !.by    = IF Passes(4, from, to) THEN c.owner ELSE @,
                  !.owner = IF Passes(4, from, to) THEN Nobody ELSE @,
                  !.type  = IF Passes(5, from, to) THEN Untyped ELSE @]
      new == [old EXCEPT
                !.cards = {carried(c) : c \in old.cards},
                !.counters = [k \in Kind |-> IF Passes(Created[TableOf[k]], from, to)
                                               THEN Seed[k] ELSE old.counters[k]]]
  IN IF Passes(9, from, to) THEN [new EXCEPT !.log = Backfill(new)] ELSE new

\* And back. Cards survive the rework's downgrade one to a person: the first.
Downgraded(old, from, to) ==
  LET first(c) == \A d \in old.cards : d.by = c.by => c.id <= d.id
      gone(k)  == Passes(Created[TableOf[k]], to, from)
  IN [users    |-> IF Passes(2, to, from) THEN [p \in Person |-> NoRole] ELSE old.users,
      cards    |-> IF Passes(3, to, from) THEN {}
                   ELSE IF Passes(4, to, from)
                     THEN {[c EXCEPT !.owner = c.by, !.by = Nobody, !.type = "none"] :
                             c \in {d \in old.cards : first(d) /\ d.by # Nobody}}
                   ELSE IF Passes(5, to, from)
                     THEN {[c EXCEPT !.type = "none"] : c \in old.cards}
                   ELSE old.cards,
      counters |-> [k \in Kind |-> IF gone(k) THEN 0 ELSE old.counters[k]],
      minted   |-> {m \in old.minted : ~gone(m.kind)},
      log      |-> IF Passes(9, to, from) THEN NoLog ELSE old.log]

Upgrade(to) ==
  /\ revision < to /\ revision' = to
  /\ rows' = Upgraded(rows, revision, to)

Downgrade(to) ==
  /\ revision > to /\ revision' = to
  /\ rows' = Downgraded(rows, revision, to)

\* Between two migrations the bot writes what it likes, and no revision changes.
Promise ==
  /\ Fresh
  /\ [][ \/ UNCHANGED revision
         \/ \E to \in Revision : Upgrade(to) \/ Downgrade(to) ]_<<revision, rows>>

=============================================================================
