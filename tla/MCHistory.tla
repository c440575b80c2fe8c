------------------------------ MODULE MCHistory ------------------------------
(***************************************************************************)
(* Pages of two lines; three lines to begin with, so that there are two    *)
(* pages of everything and, before long, three.                            *)
(***************************************************************************)
EXTENDS History

Entry(i, people) == [at |-> 0, id |-> i, people |-> people]

MCFirstLog == {Entry(1, {"p", "q"}), Entry(2, {"q"}), Entry(3, {"p"})}
MCInvolved == {{"p", "q"}}

=============================================================================
