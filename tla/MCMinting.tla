------------------------------ MODULE MCMinting ------------------------------
(***************************************************************************)
(* Small instances of Minting for TLC. Two types share a stem, like the    *)
(* join cards; a third has its own.                                        *)
(***************************************************************************)
EXTENDS Minting

CONSTANTS ranked, unranked, visit

McStem == [type \in Type |-> IF type = visit THEN "visit" ELSE "central"]

\* Migration 5b8d3e1f7a2c seeds join_ranked at 205 and join_unranked at 2001.
FarApart == [type \in Type |-> IF type = unranked THEN 21 ELSE 2]

\* The same, with the ranked counter one batch below the unranked range.
Near == [type \in Type |-> IF type = unranked THEN 3 ELSE 2]

=============================================================================
