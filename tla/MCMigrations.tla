------------------------------ MODULE MCMigrations ------------------------------
(***************************************************************************)
(* Two people, two types of code (one seeded high, one at the start of its *)
(* series) and one design. Codes are padded to one digit, where the bot    *)
(* takes four to six, so that a batch of nine reaches a longer number.     *)
(***************************************************************************)
EXTENDS Migrations, TLC

\* From nothing, or from the first cards, to the last schema without a history,
\* and to the latest; back to where there are no codes.
MCNamed == {0, 3, 5, 8, 9}

\* The last schema without a history, and the latest.
MCLastNamed == {8, 9}
MCPerson == {"p", "q"}
MCMinted == {"silver_72", "visit_24"}
MCCount == {1, 9}
MCPadding == [k \in Kind |-> 1]
MCDesign == {"gold"}

=============================================================================
