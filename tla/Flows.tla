-------------------------------- MODULE Flows --------------------------------
(***************************************************************************)
(* Conversations: the guided flows of bot/handlers, the in-memory state    *)
(* they run on, and what a finished one leaves in the database.            *)
(*                                                                         *)
(* The dispatcher reads a chat's state when an update arrives, and the     *)
(* filters go by that reading. The update then waits for its sender's row  *)
(* (record_contact), and its handler reads the flow's data only when it    *)
(* has it. Updates of one chat therefore take turns, but may run on a      *)
(* state that an earlier one has left.                                     *)
(*                                                                         *)
(* Roles do not change here (Access), nor does minting fail halfway        *)
(* (Minting): this module is about which values make one act.              *)
(***************************************************************************)
EXTENDS Roles, Sequences, FiniteSets

CONSTANTS
  Person,      \* the members chatting with the bot
  RoleOf,      \* their roles
  Patient,     \* those who wait for each answer before they go on
  MaxUpdate,   \* bound on the updates sent
  Number,      \* bank numbers
  Bad,         \* a text no validation accepts
  None,        \* no value, no update
  Idle,        \* FSM state None
  Request,     \* what an update may carry
  FirstState,  \* conversations under way at the start
  MaxCrashes   \* bound on crashes

Update == 1 .. MaxUpdate

\* The StatesGroup of each flow, by the key under which a step stores its value;
\* the last step stores none and acts.
Steps ==
  [card           |-> <<"card_type", "real_name", "facebook_name", "bank_number", "username">>,
   power_pass     |-> <<"card_type", "count">>,
   coins          |-> <<"coin_type", "count">>,
   store_cards    |-> <<"store_card_type", "count">>,
   add            |-> <<"telegram_id", "role">>,
   remove         |-> <<"target">>,
   who            |-> <<"target">>,
   employee_cards |-> <<"target">>,
   find_card      |-> <<"query">>,
   history_person |-> <<"target">>]

Flow == DOMAIN Steps
Key  == {"card_type", "real_name", "facebook_name", "bank_number", "username", "count",
         "coin_type", "store_card_type", "telegram_id", "role", "target", "query"}

\* The router filters: who may open a flow and go on with it.
Least == [f \in Flow |-> CASE f = "card" -> "user"
                           [] f \in {"power_pass", "coins", "store_cards", "history_person"} -> "super_admin"
                           [] OTHER -> "admin"]

May(p, flow) == Rank[RoleOf[p]] >= Rank[Least[flow]]

\* Steps answered with a button of their own, which names its flow; the others
\* take any text that is not a command.
Chosen == {"card_type", "coin_type", "store_card_type", "role"}

\* Flows that clear the state before they look at what was typed, and only read.
Queries == {"remove", "who", "employee_cards", "find_card", "history_person"}

State == {s \in [flow : Flow, at : 1 .. 5] : s.at <= Len(Steps[s.flow])}
KeyOf(s) == Steps[s.flow][s.at]

\* Mutant: the last step is taken to be the one after it.
IsPastLast(s) == s.at > Len(Steps[s.flow])

IsLast(s) == s.at = Len(Steps[s.flow])

\* What a step stores: the update that gave it, and the value.
Entry == [by : 0 .. MaxUpdate, value : Number \cup {Bad} \cup Flow]
Data == [Key -> Entry \cup {None}]
NoData == [k \in Key |-> None]

Conversation == [state : State \cup {Idle}, data : Data, since : 0 .. MaxUpdate]

\* The first n values of a flow are there, given since it was opened and in order.
InOrder(flow, n, data, since) ==
  LET At(i) == data[Steps[flow][i]]
  IN /\ \A i \in 1 .. n : At(i) # None /\ At(i).by >= since
     /\ \A i, j \in 1 .. n : i < j /\ At(j).by # 0 => At(i).by < At(j).by

\* A conversation that nobody hurried: the values so far, and a design of this flow.
Steady(c) == c.state # Idle =>
  LET first == Steps[c.state.flow][1]
  IN /\ InOrder(c.state.flow, c.state.at - 1, c.data, c.since)
     /\ c.state.at > 1 /\ first \in Chosen => c.data[first].value = c.state.flow

\* What an act takes from a conversation.
Draft == [flow : Flow, person : Person, since : 0 .. MaxUpdate, data : Data]

ASSUME FlowsAssumption ==
  /\ RoleOf \in [Person -> Role \ {"none"}] /\ Patient \subseteq Person
  /\ MaxUpdate \in Nat /\ MaxCrashes \in Nat
  /\ Bad \notin Number /\ None \notin Entry \cup Request \cup Draft /\ Idle \notin State
  /\ Number \cap Flow = {} /\ Bad \notin Flow
  /\ Request \subseteq [from : Person, op : {"open", "choose", "text", "escape", "lookup"},
                        flow : Flow, value : Number \cup {Bad}]
  /\ FirstState \subseteq [Person -> Conversation]
  /\ \A first \in FirstState, p \in Person :
       /\ first[p].since = 0 /\ (p \in Patient => Steady(first[p]))
       /\ \A k \in Key : first[p].data[k] # None => first[p].data[k].by = 0

VARIABLES
  crashes,  \* how often the process has died
  arrived,  \* the updates so far
  fsm,      \* the FSM storage: each person's state and data; since which update
            \* the conversation has been open, or what had arrived when it ended
            \* (for the properties only)
  pc,       \* how far each update's task has come
  req,      \* the update itself
  raw,      \* the sender's state as the dispatcher read it
  draft,    \* the data a submitted flow has taken from the storage
  acts,     \* committed: cards issued, batches minted, roles granted
  viewed    \* committed: lookups with a "card viewed" line

tasks == <<pc, req, raw, draft>>
base  == <<acts, viewed>>
vars  == <<crashes, arrived, fsm, tasks, base>>

\* A conversation that ends now.
Over == [state |-> Idle, data |-> NoData, since |-> arrived]

\* From here on a task holds its sender's row.
Held == {"insert", "send", "lookup", "reply", "lost"}
Live == Held \cup {"contact"}

From(u) == req[u].from

\* The sender's row is not locked by another update of the same person.
Turn(u) ==
  pc[u] = "contact" /\ \A v \in Update : pc[v] \in Held => From(v) # From(u)

\* Mutant: any flow's button answers.
HandledByAny(u) ==
  /\ raw[u] # Idle /\ May(From(u), raw[u].flow)
  /\ req[u].op = (IF KeyOf(raw[u]) \in Chosen THEN "choose" ELSE "text")

\* The step's handler is the one the router picks.
Handled(u) ==
  /\ raw[u] # Idle /\ May(From(u), raw[u].flow)
  /\ IF KeyOf(raw[u]) \in Chosen THEN req[u].op = "choose" /\ req[u].flow = raw[u].flow
                                 ELSE req[u].op = "text"

Given(u) == [by |-> u, value |-> IF req[u].op = "choose" THEN req[u].flow ELSE req[u].value]

NumberOf(act) == act.data["bank_number"].value
Cards == {act \in acts : act.flow = "card"}
TakenNumbers == {NumberOf(card) : card \in Cards}

\* The clean functions: names and counts by their form, a bank number against
\* the cards committed so far as well. Buttons need no check.
Accepts(u) ==
  \/ KeyOf(raw[u]) \in Chosen
  \/ /\ req[u].value # Bad
     /\ KeyOf(raw[u]) = "bank_number" => req[u].value \notin TakenNumbers

---------------------------------------------------------------------------

\* The dispatcher starts a task for the update and reads the state.
Arrive(u, r) ==
  /\ u = arrived + 1
  /\ r.from \in Patient => \A v \in Update : pc[v] \in Live => From(v) # r.from
  /\ arrived' = u
  /\ pc'  = [pc EXCEPT ![u] = "contact"]
  /\ req' = [req EXCEPT ![u] = r]
  /\ raw' = [raw EXCEPT ![u] = fsm[r.from].state]
  /\ UNCHANGED <<crashes, fsm, draft, base>>

\* The task goes on in phase p, the conversation in c.
Goes(u, p, c) ==
  /\ pc' = [pc EXCEPT ![u] = p]
  /\ fsm' = [fsm EXCEPT ![From(u)] = c]
  /\ UNCHANGED <<crashes, arrived, req, raw, base>>

\* Flows a command without arguments opens; only employee_cards has no button.
Commands == {"add", "remove", "who", "employee_cards", "find_card"}

\* What an abandoned flow has collected stays under a button, and goes with a
\* command.
LeftOver(p, flow) ==
  {d \in {fsm[p].data, NoData} :
     \/ d = fsm[p].data /\ flow # "employee_cards"
     \/ d = NoData /\ flow \in Commands}

\* A menu button or a command opens a flow at its first step.
Open(u) ==
  /\ Turn(u) /\ req[u].op = "open" /\ May(From(u), req[u].flow)
  /\ \E d \in LeftOver(From(u), req[u].flow) :
       Goes(u, "reply", [state |-> [flow |-> req[u].flow, at |-> 1], data |-> d, since |-> u])
  /\ UNCHANGED draft

\* /start, cancel and the panels.
Escape(u) ==
  /\ Turn(u) /\ req[u].op = "escape"
  /\ Goes(u, "reply", Over)
  /\ UNCHANGED draft

\* One step of a flow: the value is stored, the next one asked for.
Collect(u) ==
  /\ Turn(u) /\ Handled(u) /\ ~IsLast(raw[u]) /\ Accepts(u)
  /\ Goes(u, "reply", [fsm[From(u)] EXCEPT !.data[KeyOf(raw[u])] = Given(u),
                                           !.state = [raw[u] EXCEPT !.at = @ + 1]])
  /\ UNCHANGED draft

\* The keys a submitted flow reads, the design of a card apart: it has a default.
Needed(flow) ==
  {Steps[flow][i] : i \in 1 .. Len(Steps[flow]) - 1} \ (IF flow = "card" THEN {"card_type"} ELSE {})

\* No KeyError, and no design of another flow under this one's key.
Whole(flow, data) ==
  /\ \A k \in Needed(flow) : data[k] # None
  /\ LET key == Steps[flow][1]
     IN key \in Chosen /\ data[key] # None => data[key].value = flow

\* Mutant: the state outlives the act.
SubmitKeeps(u) ==
  /\ Turn(u) /\ Handled(u) /\ IsLast(raw[u]) /\ raw[u].flow \notin Queries /\ Accepts(u)
  /\ Goes(u, IF Whole(raw[u].flow, fsm[From(u)].data) THEN "insert" ELSE "lost", fsm[From(u)])
  /\ draft' = [draft EXCEPT ![u] = [flow |-> raw[u].flow, person |-> From(u),
                 since |-> fsm[From(u)].since,
                 data |-> [fsm[From(u)].data EXCEPT ![KeyOf(raw[u])] = Given(u)]]]

\* The last step: data read and storage cleared, in one go; then the act.
Submit(u) ==
  /\ Turn(u) /\ Handled(u) /\ IsLast(raw[u]) /\ raw[u].flow \notin Queries /\ Accepts(u)
  /\ Goes(u, IF Whole(raw[u].flow, fsm[From(u)].data) THEN "insert" ELSE "lost", Over)
  /\ draft' = [draft EXCEPT ![u] = [flow |-> raw[u].flow, person |-> From(u),
                 since |-> fsm[From(u)].since,
                 data |-> [fsm[From(u)].data EXCEPT ![KeyOf(raw[u])] = Given(u)]]]

\* A flow that only asks clears the storage and answers.
Ask(u) ==
  /\ Turn(u) /\ Handled(u) /\ raw[u].flow \in Queries
  /\ Goes(u, IF raw[u].flow = "find_card" THEN "lookup" ELSE "reply", Over)
  /\ UNCHANGED draft

\* /card with an argument. As under the button, the line is added and the card
\* shown, if there is one.
Lookup(u) ==
  /\ Turn(u) /\ req[u].op = "lookup" /\ May(From(u), "find_card")
  /\ Goes(u, "lookup", Over)
  /\ UNCHANGED draft

\* An INSERT of a number another transaction has inserted waits for its end.
NumberFree(u) ==
  \A v \in Update \ {u} :
    pc[v] = "send" /\ draft[v].flow = "card" => NumberOf(draft[v]) # NumberOf(draft[u])

\* Mutant: the number was checked when it was typed, so it is not checked again.
InsertUnchecked(u) ==
  /\ pc[u] = "insert"
  /\ Goes(u, "send", fsm[From(u)])
  /\ UNCHANGED draft

\* issue_card flushes the card under unique(bank_number); a batch is minted, a
\* role granted (Minting, Access).
Insert(u) ==
  /\ pc[u] = "insert"
  /\ draft[u].flow = "card" => NumberFree(u) /\ NumberOf(draft[u]) \notin TakenNumbers
  /\ Goes(u, "send", fsm[From(u)])
  /\ UNCHANGED draft

\* The task is over; nothing of it is kept.
Close(u) ==
  /\ pc' = [pc EXCEPT ![u] = "done"]
  /\ req' = [req EXCEPT ![u] = None] /\ raw' = [raw EXCEPT ![u] = Idle]
  /\ draft' = [draft EXCEPT ![u] = None]

\* The answer has been sent, a card with its image and a card looked up with its
\* details and image, and the transaction commits.
Commit(u) ==
  /\ pc[u] \in {"send", "lookup", "reply"}
  /\ acts' = IF pc[u] = "send" THEN acts \cup {draft[u]} ELSE acts
  /\ viewed' = IF pc[u] = "lookup" THEN viewed \cup {u} ELSE viewed
  /\ Close(u)
  /\ UNCHANGED <<crashes, arrived, fsm>>

---------------------------------------------------------------------------

\* Mutant: the flow is taken up again where it failed.
RollbackRestores(u) ==
  /\ Close(u)
  /\ fsm' = [fsm EXCEPT ![From(u)].state = raw[u]]
  /\ UNCHANGED <<crashes, arrived, base>>

\* The transaction is rolled back. The storage is not part of it.
Rollback(u) == Close(u) /\ UNCHANGED <<crashes, arrived, fsm, base>>

\* No handler matches.
Ignore(u) ==
  /\ Turn(u)
  /\ \/ req[u].op \in {"choose", "text"} /\ ~Handled(u)
     \/ req[u].op = "open" /\ ~May(From(u), req[u].flow)
     \/ req[u].op = "lookup" /\ ~May(From(u), "find_card")
  /\ Rollback(u)

\* A value is refused; the step is asked again.
Reject(u) ==
  Turn(u) /\ Handled(u) /\ raw[u].flow \notin Queries /\ ~Accepts(u) /\ Rollback(u)

\* A key is missing or holds another flow's design: the handler raises.
Lose(u) == pc[u] = "lost" /\ Rollback(u)

\* Another card took the number between its check and this insert.
Collide(u) ==
  /\ pc[u] = "insert" /\ draft[u].flow = "card"
  /\ NumberFree(u) /\ NumberOf(draft[u]) \in TakenNumbers
  /\ Rollback(u)

\* A Telegram, render or database call raises.
Fail(u) == pc[u] \in Live /\ Rollback(u)

\* The storage is in memory, and goes with the process.
Crash ==
  /\ crashes < MaxCrashes /\ crashes' = crashes + 1
  /\ fsm' = [p \in Person |-> Over]
  /\ pc' = [u \in Update |-> IF pc[u] \in Live THEN "done" ELSE pc[u]]
  /\ req' = [u \in Update |-> None] /\ raw' = [u \in Update |-> Idle]
  /\ draft' = [u \in Update |-> None]
  /\ UNCHANGED <<arrived, base>>

Init ==
  /\ crashes = 0 /\ arrived = 0
  /\ fsm \in FirstState
  /\ pc = [u \in Update |-> "unsent"]
  /\ req = [u \in Update |-> None] /\ raw = [u \in Update |-> Idle]
  /\ draft = [u \in Update |-> None]
  /\ acts = {} /\ viewed = {}

Advance(u) ==
  \/ Open(u) \/ Escape(u) \/ Collect(u) \/ Submit(u) \/ Ask(u) \/ Lookup(u)
  \/ Insert(u) \/ Commit(u)
  \/ Ignore(u) \/ Reject(u) \/ Lose(u) \/ Collide(u)

Next ==
  \/ \E u \in Update :
       \/ \E r \in Request : Arrive(u, r)
       \/ Advance(u)
       \/ Fail(u)
  \/ Crash

Spec == Init /\ [][Next]_vars

---------------------------------------------------------------------------
(* Properties *)

\* Every variable keeps its type.
TypeOK ==
  /\ crashes \in Nat /\ arrived \in 0 .. MaxUpdate
  /\ fsm \in [Person -> Conversation]
  /\ pc \in [Update -> Live \cup {"unsent", "done"}]
  /\ req \in [Update -> Request \cup {None}]
  /\ raw \in [Update -> State \cup {Idle}]
  /\ draft \in [Update -> Draft \cup {None}]
  /\ \A u \in Update : pc[u] \in Live => req[u] # None
  /\ \A u \in Update : pc[u] \in {"insert", "send", "lost"} => draft[u] # None
  /\ acts \subseteq Draft /\ viewed \subseteq Update

\* No two cards carry one bank number, although it is checked in one update and
\* used in a later one (services/cards.py).
OneCardPerNumber ==
  \A c, d \in Cards : NumberOf(c) = NumberOf(d) => c = d

\* A value somebody gave goes into one act at most: a last step sent twice, a
\* state read too early or a conversation taken up again never issues, mints or
\* grants again on what was used already.
EachValueUsedOnce ==
  \A a, b \in acts, k \in Key :
    a # b /\ a.person = b.person /\ a.data[k] # None => a.data[k] # b.data[k]

\* When somebody who waits for each answer finishes a flow, it acts, and on
\* values of this conversation alone, one for each step and given in order,
\* whatever they left unfinished before.
SubmitsAreWhole ==
  \A u \in Update : pc[u] \in {"insert", "send", "lost"} /\ From(u) \in Patient =>
    /\ pc[u] # "lost"
    /\ LET d == draft[u] IN InOrder(d.flow, Len(Steps[d.flow]), d.data, d.since)

\* What update u does to the flow of p is that of a handler for somebody whose
\* conversation was over: it opens a flow.
Reopens(p, u) ==
  /\ fsm[p].state = Idle /\ fsm'[p].state # Idle
  /\ pc[u] = "contact" /\ pc'[u] = "reply" /\ From(u) = p

\* A flow that has ended is not taken up again: by no failure, by no crash and by
\* no update that arrives later. Only opening a flow leaves the idle state, or an
\* update that was already on its way when the flow ended (handlers/menu.py,
\* services/users.py: record_contact comes between the filter and the handler).
StaysEscaped ==
  [][ \A p \in Person : fsm[p].state = Idle /\ fsm'[p].state # Idle =>
        \E u \in Update : Reopens(p, u) /\ (req[u].op = "open" \/ u <= fsm[p].since) ]_vars

---------------------------------------------------------------------------
(* What the documentation says and the order of handlers breaks *)

\* "/start always escapes a half-finished flow" (handlers/menu.py): who has
\* escaped is in a flow again when they open one, and not before.
StartEscapes ==
  [][ \A p \in Person : fsm[p].state = Idle /\ fsm'[p].state # Idle =>
        \E u \in Update : Reopens(p, u) /\ req[u].op = "open" ]_vars

=============================================================================
