------------------------------- MODULE MCFlows -------------------------------
(***************************************************************************)
(* Small instances of Flows for TLC. p waits for answers, q does not.      *)
(***************************************************************************)
EXTENDS Flows

CONSTANTS p, q, n1, n2

McRole == [x \in Person |-> "super_admin"]

\* Somebody has typed both names of a card, earlier on.
Named ==
  [state |-> [flow |-> "card", at |-> 4], since |-> 0,
   data  |-> [NoData EXCEPT !["card_type"]     = [by |-> 0, value |-> "card"],
                            !["real_name"]     = [by |-> 0, value |-> n1],
                            !["facebook_name"] = [by |-> 0, value |-> n1]]]

\* Somebody has given the number as well.
WithNumber ==
  [Named EXCEPT !.state.at = 5, !.data["bank_number"] = [by |-> 0, value |-> n1]]

\* Somebody has chosen a coin.
Priced == [state |-> [flow |-> "coins", at |-> 2], since |-> 0,
           data |-> [NoData EXCEPT !["coin_type"] = [by |-> 0, value |-> "coins"]]]

\* Somebody has chosen a pass.
Passed == [state |-> [flow |-> "power_pass", at |-> 2], since |-> 0,
           data |-> [NoData EXCEPT !["card_type"] = [by |-> 0, value |-> "power_pass"]]]

\* Somebody is about to look a card up.
Searching == [state |-> [flow |-> "find_card", at |-> 1], since |-> 0, data |-> NoData]

\* Both in the middle of a card; or one about to look one up, or to mint passes, and
\* the other about to mint coins.
McFirst == {[x \in Person |-> IF x = p THEN WithNumber ELSE Named]}
  \cup {[x \in Person |-> IF x = p THEN c ELSE Priced] : c \in {Searching, Passed}}

Say(from, op, flow, value) == [from |-> from, op |-> op, flow |-> flow, value |-> value]

Text(from, value) == Say(from, "text", "card", value)

McRequest ==
  {Say(p, "open", f, Bad) : f \in {"card", "power_pass", "add"}}
  \cup {Say(p, "choose", f, Bad) : f \in {"card", "power_pass", "add"}}
  \cup {Text(x, n1) : x \in Person} \cup {Text(p, Bad)}
  \cup {Say(q, "open", "card", Bad), Say(q, "escape", "card", Bad), Say(p, "lookup", "card", n1)}

=============================================================================
