------------------------------- MODULE MCValues -------------------------------
(***************************************************************************)
(* Texts of up to five characters, one or two of each kind; bank numbers   *)
(* of two digits, names of three characters, batches of up to eleven. The  *)
(* boxes have room for all, for some, and for an ellipsis alone.           *)
(***************************************************************************)
EXTENDS Values

MCTyped == {Ascii(0), Ascii(1), [kind |-> "arabic", digit |-> 1], [kind |-> "decimal", digit |-> 0],
            [kind |-> "power", digit |-> 1],
            [kind |-> "letter", digit |-> 0], ASpace}

Box(max, font, min) == [max_width |-> max, font_size |-> font, min_size |-> min, stroke |-> 1]

MCFields == {Box(40, 7, 2), Box(12, 7, 2), Box(7, 7, 2), Box(4, 6, 2)}

\* A letter is twice as wide as any other character.
MCWidth(s, at) == at * (Len(s) + Cardinality({i \in DOMAIN s : s[i].kind = "letter"}))

=============================================================================
