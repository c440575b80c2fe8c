----------------------------- MODULE FlowsProofs -----------------------------
(***************************************************************************)
(* Proofs about Flows, for any people, requests and number of updates.     *)
(***************************************************************************)
EXTENDS Flows, TLAPS

\* Each flow has between one and five steps, each with its key.
LEMMA StepsShape ==
  ASSUME NEW flow \in Flow
  PROVE  Len(Steps[flow]) \in 1 .. 5 /\ \A i \in 1 .. Len(Steps[flow]) : Steps[flow][i] \in Key
<1>1. Flow = {"card", "power_pass", "coins", "store_cards", "add", "remove", "who",
              "employee_cards", "find_card", "history_person"}
  BY DEF Flow, Steps
<1>2. CASE flow = "card" BY <1>2 DEF Steps, Key
<1>3. CASE flow = "power_pass" BY <1>3 DEF Steps, Key
<1>4. CASE flow = "coins" BY <1>4 DEF Steps, Key
<1>5. CASE flow = "store_cards" BY <1>5 DEF Steps, Key
<1>6. CASE flow = "add" BY <1>6 DEF Steps, Key
<1>7. CASE flow = "remove" BY <1>7 DEF Steps, Key
<1>8. CASE flow = "who" BY <1>8 DEF Steps, Key
<1>9. CASE flow = "employee_cards" BY <1>9 DEF Steps, Key
<1>10. CASE flow = "find_card" BY <1>10 DEF Steps, Key
<1>11. CASE flow = "history_person" BY <1>11 DEF Steps, Key
<1>. QED BY <1>1, <1>2, <1>3, <1>4, <1>5, <1>6, <1>7, <1>8, <1>9, <1>10, <1>11

\* A step has a key, and unless it is the last another one comes after it.
LEMMA StepShape ==
  ASSUME NEW s \in State
  PROVE  /\ KeyOf(s) \in Key
         /\ s.flow \in Flow
         /\ ~IsLast(s) => [s EXCEPT !.at = @ + 1] \in State
         /\ [flow |-> s.flow, at |-> 1] \in State
<1>1. s.flow \in Flow /\ s.at \in 1 .. 5 /\ s.at <= Len(Steps[s.flow]) BY DEF State
<1>2. Len(Steps[s.flow]) \in 1 .. 5 BY <1>1, StepsShape
<1>3. KeyOf(s) \in Key BY <1>1, StepsShape DEF KeyOf
<1>4. ASSUME ~IsLast(s) PROVE [s EXCEPT !.at = @ + 1] \in State
  <2>1. PICK n \in 1 .. 5 : n = Len(Steps[s.flow]) BY <1>2
  <2>2. s.at <= n /\ s.at # n BY <1>1, <1>4, <2>1 DEF IsLast
  <2>3. s.at + 1 \in 1 .. 5 /\ s.at + 1 <= n BY <1>1, <2>2
  <2>. QED BY <1>1, <2>1, <2>3 DEF State
<1>5. [flow |-> s.flow, at |-> 1] \in State BY <1>1, <1>2 DEF State
<1>. QED BY <1>1, <1>3, <1>4, <1>5

\* A conversation over, and one just opened.
LEMMA NewConversations ==
  /\ NoData \in Data
  /\ TypeOK => Over \in Conversation
  /\ \A flow \in Flow : [flow |-> flow, at |-> 1] \in State
<1>1. NoData \in Data BY DEF NoData, Data
<1>2. MaxUpdate \in Nat BY FlowsAssumption
<1>3. TypeOK => Over \in Conversation BY <1>1, <1>2 DEF Over, Conversation, TypeOK
<1>4. ASSUME NEW flow \in Flow PROVE [flow |-> flow, at |-> 1] \in State
  <2>. DEFINE s == [flow |-> flow, at |-> 1]
  <2>1. s.flow = flow /\ s.at = 1 /\ s \in [flow : Flow, at : 1 .. 5] OBVIOUS
  <2>2. 1 <= Len(Steps[flow]) BY StepsShape
  <2>. HIDE DEF s
  <2>3. s \in State BY <2>1, <2>2 DEF State
  <2>. QED BY <2>3 DEF s
<1>. QED BY <1>1, <1>3, <1>4

---------------------------------------------------------------------------

\* What an update gives is an entry.
LEMMA GivenEntry ==
  ASSUME TypeOK, NEW u \in Update, pc[u] \in Live
  PROVE  Given(u) \in Entry /\ From(u) \in Person /\ req[u].flow \in Flow
<1>1. req[u] \in Request BY DEF TypeOK
<1>2. req[u].from \in Person /\ req[u].flow \in Flow /\ req[u].value \in Number \cup {Bad}
  BY <1>1, FlowsAssumption
<1>3. u \in 0 .. MaxUpdate BY FlowsAssumption DEF Update
<1>. QED BY <1>2, <1>3 DEF Given, Entry, From

\* The steps that go on in a conversation keep the types.
LEMMA GoesType ==
  ASSUME TypeOK, NEW u \in Update, pc[u] \in Live, NEW p \in Live, NEW c \in Conversation,
         Goes(u, p, c),
         \/ p \notin {"insert", "send", "lost"} /\ draft' = draft
         \/ draft[u] # None /\ draft' = draft
         \/ \E d \in Draft : draft' = [draft EXCEPT ![u] = d]
  PROVE  TypeOK'
<1>1. From(u) \in Person BY GivenEntry
<1>2. fsm' \in [Person -> Conversation] BY <1>1 DEF TypeOK, Goes
<1>3. pc' = [pc EXCEPT ![u] = p] /\ pc' \in [Update -> Live \cup {"unsent", "done"}]
  BY DEF TypeOK, Goes
<1>4. draft' \in [Update -> Draft \cup {None}] BY DEF TypeOK
<1>5. UNCHANGED <<crashes, arrived, req, raw, acts, viewed>> BY DEF Goes, base
<1>6. \A v \in Update : pc'[v] \in Live => req'[v] # None BY <1>3, <1>5 DEF TypeOK
<1>7. \A v \in Update : pc'[v] \in {"insert", "send", "lost"} => draft'[v] # None
  <2>. SUFFICES ASSUME NEW v \in Update, pc'[v] \in {"insert", "send", "lost"}
                PROVE  draft'[v] # None
    OBVIOUS
  <2>1. CASE v = u
    <3>1. p \in {"insert", "send", "lost"} BY <1>3, <2>1 DEF TypeOK
    <3>. QED BY <2>1, <3>1, FlowsAssumption DEF TypeOK
  <2>2. CASE v # u
    <3>1. pc'[v] = pc[v] /\ draft'[v] = draft[v] BY <1>3, <2>2 DEF TypeOK
    <3>. QED BY <3>1 DEF TypeOK
  <2>. QED BY <2>1, <2>2
<1>. QED BY <1>2, <1>3, <1>4, <1>5, <1>6, <1>7 DEF TypeOK

\* So do the steps that end a task.
LEMMA CloseType ==
  ASSUME TypeOK, NEW u \in Update, Close(u), UNCHANGED <<crashes, arrived, fsm>>,
         acts' \subseteq Draft, viewed' \subseteq Update
  PROVE  TypeOK'
<1>1. /\ pc' = [pc EXCEPT ![u] = "done"] /\ req' = [req EXCEPT ![u] = None]
      /\ raw' = [raw EXCEPT ![u] = Idle] /\ draft' = [draft EXCEPT ![u] = None]
  BY DEF Close
<1>2. /\ pc' \in [Update -> Live \cup {"unsent", "done"}] /\ req' \in [Update -> Request \cup {None}]
      /\ raw' \in [Update -> State \cup {Idle}] /\ draft' \in [Update -> Draft \cup {None}]
  BY <1>1 DEF TypeOK
<1>3. "done" \notin Live BY DEF Live, Held
<1>4. \A v \in Update : pc'[v] \in Live => req'[v] # None
  BY <1>1, <1>3 DEF TypeOK
<1>5. \A v \in Update : pc'[v] \in {"insert", "send", "lost"} => draft'[v] # None
  BY <1>1 DEF TypeOK
<1>. QED BY <1>2, <1>4, <1>5 DEF TypeOK

---------------------------------------------------------------------------

\* The actions keep the types.
LEMMA TypeStep == TypeOK /\ [Next]_vars => TypeOK'
<1>. SUFFICES ASSUME TypeOK, [Next]_vars PROVE TypeOK'
  OBVIOUS
<1>. USE DEF Live, Held
<1>1. ASSUME NEW u \in Update, NEW r \in Request, Arrive(u, r) PROVE TypeOK'
  <2>1. r.from \in Person BY FlowsAssumption
  <2>2. fsm[r.from].state \in State \cup {Idle} BY <2>1 DEF TypeOK, Conversation
  <2>3. r # None BY FlowsAssumption
  <2>4. u \in 0 .. MaxUpdate BY FlowsAssumption DEF Update
  <2>5. /\ pc' = [pc EXCEPT ![u] = "contact"] /\ req' = [req EXCEPT ![u] = r]
        /\ raw' = [raw EXCEPT ![u] = fsm[r.from].state] /\ arrived' = u
        /\ UNCHANGED <<crashes, fsm, draft, acts, viewed>>
    BY <1>1 DEF Arrive, base
  <2>6. \A v \in Update : pc'[v] \in Live => req'[v] # None
    BY <2>3, <2>5 DEF TypeOK
  <2>7. \A v \in Update : pc'[v] \in {"insert", "send", "lost"} => draft'[v] # None
    BY <2>5 DEF TypeOK
  <2>8. /\ pc' \in [Update -> Live \cup {"unsent", "done"}] /\ req' \in [Update -> Request \cup {None}]
        /\ raw' \in [Update -> State \cup {Idle}]
    BY <2>2, <2>5 DEF TypeOK
  <2>. QED BY <2>4, <2>5, <2>6, <2>7, <2>8 DEF TypeOK
<1>2. ASSUME NEW u \in Update, Open(u) PROVE TypeOK'
  <2>1. PICK d \in LeftOver(From(u), req[u].flow) :
          Goes(u, "reply", [state |-> [flow |-> req[u].flow, at |-> 1], data |-> d, since |-> u])
    BY <1>2 DEF Open
  <2>2. pc[u] \in Live BY <1>2 DEF Open, Turn
  <2>3. From(u) \in Person /\ req[u].flow \in Flow BY <2>2, GivenEntry
  <2>4. d \in Data BY <2>3, NewConversations DEF LeftOver, TypeOK, Conversation
  <2>5. u \in 0 .. MaxUpdate BY FlowsAssumption DEF Update
  <2>6. [state |-> [flow |-> req[u].flow, at |-> 1], data |-> d, since |-> u] \in Conversation
    BY <2>3, <2>4, <2>5, NewConversations DEF Conversation
  <2>7. draft' = draft BY <1>2 DEF Open
  <2>. QED BY <2>1, <2>2, <2>6, <2>7, GoesType
<1>3. ASSUME NEW u \in Update, Escape(u) PROVE TypeOK'
  <2>1. pc[u] \in Live /\ Goes(u, "reply", Over) /\ draft' = draft BY <1>3 DEF Escape, Turn
  <2>. QED BY <2>1, NewConversations, GoesType
<1>4. ASSUME NEW u \in Update, Collect(u) PROVE TypeOK'
  <2>. DEFINE c == [fsm[From(u)] EXCEPT !.data[KeyOf(raw[u])] = Given(u),
                                        !.state = [raw[u] EXCEPT !.at = @ + 1]]
  <2>1. pc[u] \in Live /\ raw[u] # Idle /\ ~IsLast(raw[u]) /\ Goes(u, "reply", c) /\ draft' = draft
    BY <1>4 DEF Collect, Turn, Handled
  <2>2. raw[u] \in State BY <2>1 DEF TypeOK
  <2>3. From(u) \in Person /\ Given(u) \in Entry BY <2>1, GivenEntry
  <2>4. fsm[From(u)] \in Conversation BY <2>3 DEF TypeOK
  <2>5. KeyOf(raw[u]) \in Key /\ [raw[u] EXCEPT !.at = @ + 1] \in State BY <2>1, <2>2, StepShape
  <2>6. [fsm[From(u)].data EXCEPT ![KeyOf(raw[u])] = Given(u)] \in Data
    BY <2>3, <2>4, <2>5 DEF Conversation, Data
  <2>7. c \in Conversation BY <2>4, <2>5, <2>6 DEF Conversation
  <2>. QED BY <2>1, <2>7, GoesType
<1>5. ASSUME NEW u \in Update, Submit(u) PROVE TypeOK'
  <2>. DEFINE d == [flow |-> raw[u].flow, person |-> From(u), since |-> fsm[From(u)].since,
                    data |-> [fsm[From(u)].data EXCEPT ![KeyOf(raw[u])] = Given(u)]]
  <2>1. pc[u] \in Live /\ raw[u] # Idle /\ draft' = [draft EXCEPT ![u] = d]
    BY <1>5 DEF Submit, Turn, Handled
  <2>2. raw[u] \in State BY <2>1 DEF TypeOK
  <2>3. From(u) \in Person /\ Given(u) \in Entry BY <2>1, GivenEntry
  <2>4. fsm[From(u)] \in Conversation BY <2>3 DEF TypeOK
  <2>5. KeyOf(raw[u]) \in Key /\ raw[u].flow \in Flow BY <2>2, StepShape
  <2>6. [fsm[From(u)].data EXCEPT ![KeyOf(raw[u])] = Given(u)] \in Data
    BY <2>3, <2>4, <2>5 DEF Conversation, Data
  <2>7. d \in Draft BY <2>3, <2>4, <2>5, <2>6 DEF Conversation, Draft
  <2>8. PICK p \in {"insert", "lost"} : Goes(u, p, Over) BY <1>5 DEF Submit
  <2>. QED BY <2>1, <2>7, <2>8, NewConversations, GoesType
<1>6. ASSUME NEW u \in Update, Ask(u) \/ Lookup(u) PROVE TypeOK'
  <2>1. pc[u] \in Live /\ draft' = draft BY <1>6 DEF Ask, Lookup, Turn
  <2>2. PICK p \in {"lookup", "reply"} : Goes(u, p, Over) BY <1>6 DEF Ask, Lookup
  <2>. QED BY <2>1, <2>2, NewConversations, GoesType
<1>7. ASSUME NEW u \in Update, Insert(u) PROVE TypeOK'
  <2>1. pc[u] = "insert" /\ Goes(u, "send", fsm[From(u)]) /\ draft' = draft BY <1>7 DEF Insert
  <2>2. From(u) \in Person BY <2>1, GivenEntry
  <2>3. fsm[From(u)] \in Conversation BY <2>2 DEF TypeOK
  <2>4. draft[u] # None BY <2>1 DEF TypeOK
  <2>. QED BY <2>1, <2>3, <2>4, GoesType
<1>8. ASSUME NEW u \in Update, Commit(u) PROVE TypeOK'
  <2>1. Close(u) /\ UNCHANGED <<crashes, arrived, fsm>> BY <1>8 DEF Commit
  <2>2. pc[u] = "send" => draft[u] \in Draft BY DEF TypeOK
  <2>3. acts' \subseteq Draft /\ viewed' \subseteq Update BY <1>8, <2>2 DEF Commit, TypeOK
  <2>. QED BY <2>1, <2>3, CloseType
<1>9. ASSUME NEW u \in Update, Rollback(u) PROVE TypeOK'
  <2>1. Close(u) /\ UNCHANGED <<crashes, arrived, fsm, acts, viewed>>
    BY <1>9 DEF Rollback, base
  <2>2. acts' \subseteq Draft /\ viewed' \subseteq Update BY <2>1 DEF TypeOK
  <2>. QED BY <2>1, <2>2, CloseType
<1>10. ASSUME Crash PROVE TypeOK'
  <2>1. /\ crashes' = crashes + 1 /\ fsm' = [p \in Person |-> Over]
        /\ pc' = [u \in Update |-> IF pc[u] \in Live THEN "done" ELSE pc[u]]
        /\ req' = [u \in Update |-> None] /\ raw' = [u \in Update |-> Idle]
        /\ draft' = [u \in Update |-> None]
        /\ UNCHANGED <<arrived, acts, viewed>>
    BY <1>10 DEF Crash, base
  <2>2. \A u \in Update : pc'[u] \in {"unsent", "done"} BY <2>1 DEF TypeOK
  <2>3. fsm' \in [Person -> Conversation] BY <2>1, NewConversations
  <2>. QED BY <2>1, <2>2, <2>3 DEF TypeOK
<1>11. ASSUME UNCHANGED vars PROVE TypeOK'
  BY <1>11 DEF TypeOK, vars, tasks, base
<1>. QED BY <1>1, <1>2, <1>3, <1>4, <1>5, <1>6, <1>7, <1>8, <1>9, <1>10, <1>11
     DEF Next, Advance, Ignore, Reject, Lose, Collide, Fail

\* The bot starts with its types.
LEMMA TypeInit == Init => TypeOK
<1>. SUFFICES ASSUME Init PROVE TypeOK
  OBVIOUS
<1>1. fsm \in [Person -> Conversation] BY FlowsAssumption DEF Init
<1>2. 0 \in 0 .. MaxUpdate BY FlowsAssumption
<1>. QED BY <1>1, <1>2 DEF Init, TypeOK, Live, Held

---------------------------------------------------------------------------

\* Updates are numbered as they arrive.
Sent == \A u \in Update : pc[u] = "unsent" <=> u > arrived

\* The row of a person is held by one update at a time.
Serial ==
  \A u, v \in Update : pc[u] \in Held /\ pc[v] \in Held /\ From(u) = From(v) => u = v

\* A draft is that of an update which is about to act.
Drafts ==
  \A u \in Update : draft[u] # None =>
    pc[u] \in {"insert", "send", "lost"} /\ draft[u].person = From(u)

\* The updates whose handler has run, and the conversations from before them.
Used == {0} \cup {u \in Update : pc[u] \notin {"unsent", "contact"}}

ByUsed(data) == \A k \in Key : data[k] # None => data[k].by \in Used

\* Whatever is stored was given by one of those, in a conversation of before.
Stamps ==
  /\ \A x \in Person : fsm[x].since \in 0 .. arrived /\ ByUsed(fsm[x].data)
  /\ \A u \in Update : draft[u] # None => ByUsed(draft[u].data)
  /\ \A a \in acts : ByUsed(a.data)

\* No value is in a conversation and in an act, or in an act and one to come.
DataApart(d, e) == \A k \in Key : d[k] # None => d[k] # e[k]

Apart ==
  /\ \A a \in acts : DataApart(a.data, fsm[a.person].data)
  /\ \A u \in Update : draft[u] # None =>
       /\ DataApart(draft[u].data, fsm[draft[u].person].data)
       /\ \A a \in acts : a.person = draft[u].person => DataApart(draft[u].data, a.data)

\* A card that is inserted and not committed has its number to itself: the
\* unique index has seen it.
HoldsNumber(u) == pc[u] = "send" /\ draft[u].flow = "card"

Numbered ==
  \A u \in Update : HoldsNumber(u) =>
    /\ NumberOf(draft[u]) \notin TakenNumbers
    /\ \A v \in Update : HoldsNumber(v) /\ NumberOf(draft[v]) = NumberOf(draft[u]) => v = u

\* Patient people have one update under way. Until its handler runs, their
\* conversation is what the dispatcher has read, and older than it.
Earlier(c, u) == c.since < u /\ \A k \in Key : c.data[k] # None => c.data[k].by < u

Alone ==
  \A u \in Update : pc[u] \in Live /\ From(u) \in Patient =>
    /\ \A v \in Update : pc[v] \in Live /\ From(v) = From(u) => v = u
    /\ pc[u] = "contact" =>
         raw[u] = fsm[From(u)].state /\ Earlier(fsm[From(u)], u)

Unhurried == \A x \in Patient : Steady(fsm[x])

\* Who goes by a state that has been left was under way when it was.
Stale ==
  \A u \in Update :
    pc[u] = "contact" /\ raw[u] # Idle /\ fsm[From(u)].state = Idle => u <= fsm[From(u)].since

IInv ==
  /\ TypeOK /\ Sent /\ Serial /\ Drafts /\ Stamps /\ Apart /\ Numbered /\ Alone /\ Unhurried
  /\ Stale /\ OneCardPerNumber /\ EachValueUsedOnce /\ SubmitsAreWhole

---------------------------------------------------------------------------
(* The steps, by what they do to the storage and to the drafts. *)

\* Every value a conversation has was there before or is given by this update.
Inherits(d, e, u) == \A k \in Key : d[k] \in {None, e[k], Given(u)}

\* A handler that only changes the conversation.
Talks(u, p, c) ==
  /\ Turn(u) /\ Goes(u, p, c) /\ draft' = draft
  /\ p \in {"reply", "lookup"} /\ c \in Conversation
  /\ Inherits(c.data, fsm[From(u)].data, u)
  /\ c.since \in {arrived, u, fsm[From(u)].since}
  /\ c.state = Idle => c.since = arrived
  /\ c.state # Idle => p = "reply" /\ (raw[u] # Idle \/ req[u].op = "open")
  /\ raw[u] = fsm[From(u)].state /\ Steady(fsm[From(u)]) /\ Earlier(fsm[From(u)], u) => Steady(c)

\* A draft has a value for each step of its flow, given in order.
Sound(d) == InOrder(d.flow, Len(Steps[d.flow]), d.data, d.since)

\* The handler of a last step.
Submits(u, p, d) ==
  /\ Turn(u) /\ Goes(u, p, Over) /\ draft' = [draft EXCEPT ![u] = d]
  /\ p \in {"insert", "lost"} /\ d \in Draft /\ d.person = From(u)
  /\ Inherits(d.data, fsm[From(u)].data, u)
  /\ raw[u] = fsm[From(u)].state /\ Steady(fsm[From(u)]) /\ Earlier(fsm[From(u)], u) =>
       p # "lost" /\ Sound(d)

\* A flow just opened is steady, and so is no flow at all.
LEMMA OpenSteady ==
  /\ Steady(Over)
  /\ \A flow \in Flow, d \in Data, u \in Update :
       Steady([state |-> [flow |-> flow, at |-> 1], data |-> d, since |-> u])
BY DEF Steady, InOrder, Over

\* No flow asks for the same key twice.
LEMMA KeysDiffer ==
  ASSUME NEW flow \in Flow, NEW i \in 1 .. Len(Steps[flow]), NEW j \in 1 .. Len(Steps[flow]), i # j
  PROVE  Steps[flow][i] # Steps[flow][j]
<1>1. Flow = {"card", "power_pass", "coins", "store_cards", "add", "remove", "who",
              "employee_cards", "find_card", "history_person"}
  BY DEF Flow, Steps
<1>2. CASE flow = "card" BY <1>2 DEF Steps
<1>3. CASE flow = "power_pass" BY <1>3 DEF Steps
<1>4. CASE flow = "coins" BY <1>4 DEF Steps
<1>5. CASE flow = "store_cards" BY <1>5 DEF Steps
<1>6. CASE flow = "add" BY <1>6 DEF Steps
<1>7. CASE flow = "remove" BY <1>7 DEF Steps
<1>8. CASE flow = "who" BY <1>8 DEF Steps
<1>9. CASE flow = "employee_cards" BY <1>9 DEF Steps
<1>10. CASE flow = "find_card" BY <1>10 DEF Steps
<1>11. CASE flow = "history_person" BY <1>11 DEF Steps
<1>. QED BY <1>1, <1>2, <1>3, <1>4, <1>5, <1>6, <1>7, <1>8, <1>9, <1>10, <1>11

\* A value given in turn goes with those before it.
LEMMA GivenInOrder ==
  ASSUME TypeOK, NEW u \in Update, Turn(u), Handled(u),
         raw[u] = fsm[From(u)].state, Steady(fsm[From(u)]), Earlier(fsm[From(u)], u)
  PROVE  LET old == fsm[From(u)]
             s == raw[u]
             first == Steps[s.flow][1]
             new == [old.data EXCEPT ![KeyOf(s)] = Given(u)]
         IN /\ InOrder(s.flow, s.at, new, old.since)
            /\ first \in Chosen => new[first].value = s.flow
            /\ \A i \in 1 .. s.at - 1 : old.data[Steps[s.flow][i]] # None
            /\ s.at > 1 /\ first \in Chosen => old.data[first].value = s.flow
<1>. DEFINE old == fsm[From(u)]
            s == raw[u]
            steps == Steps[s.flow]
            At(i) == old.data[steps[i]]
            new == [old.data EXCEPT ![KeyOf(s)] = Given(u)]
            New(i) == new[steps[i]]
<1>1. s \in State /\ s # Idle BY DEF Handled, TypeOK
<1>2. pc[u] \in Live BY DEF Turn, Live
<1>3. From(u) \in Person /\ Given(u) \in Entry BY <1>2, GivenEntry
<1>4. old \in Conversation BY <1>3 DEF TypeOK
<1>5. /\ old.data \in [Key -> Entry \cup {None}] /\ old.since \in 0 .. MaxUpdate
  BY <1>4 DEF Conversation, Data
<1>6. s.flow \in Flow /\ s.at \in 1 .. 5 /\ s.at <= Len(steps)
  BY <1>1 DEF State
<1>7. Len(steps) \in 1 .. 5 /\ \A i \in 1 .. Len(steps) : steps[i] \in Key BY <1>6, StepsShape
<1>8. \A i \in 1 .. s.at - 1 : New(i) = At(i)
  <2>. SUFFICES ASSUME NEW i \in 1 .. s.at - 1 PROVE New(i) = At(i)
    OBVIOUS
  <2>1. i \in 1 .. Len(steps) /\ s.at \in 1 .. Len(steps) /\ i # s.at BY <1>6, <1>7
  <2>2. steps[i] # steps[s.at] /\ steps[i] \in Key BY <1>6, <1>7, <2>1, KeysDiffer
  <2>. QED BY <1>5, <2>2 DEF KeyOf
<1>9. New(s.at) = Given(u) /\ Given(u) # None /\ Given(u).by = u
  <2>1. KeyOf(s) \in Key BY <1>1, StepShape
  <2>. QED BY <1>3, <1>5, <2>1, FlowsAssumption DEF KeyOf, Given
<1>10. /\ \A i \in 1 .. s.at - 1 : At(i) # None /\ At(i).by >= old.since
       /\ \A i, j \in 1 .. s.at - 1 : i < j /\ At(j).by # 0 => At(i).by < At(j).by
       /\ s.at > 1 /\ steps[1] \in Chosen => At(1).value = s.flow
  <2>1. old.state = s /\ old.state # Idle BY <1>1
  <2>. QED BY <2>1 DEF Steady, InOrder
<1>11. old.since < u /\ \A i \in 1 .. s.at - 1 : At(i).by < u
  <2>. SUFFICES ASSUME NEW i \in 1 .. s.at - 1 PROVE At(i).by < u
    BY DEF Earlier
  <2>1. PICK n \in 1 .. 5 : n = Len(steps) BY <1>7
  <2>2. i \in 1 .. n BY <1>6, <2>1
  <2>3. steps[i] \in Key /\ At(i) # None BY <1>7, <1>10, <2>1, <2>2
  <2>. QED BY <2>3 DEF Earlier
<1>12. \A i \in 1 .. s.at : New(i) # None /\ New(i).by >= old.since
  <2>. SUFFICES ASSUME NEW i \in 1 .. s.at PROVE New(i) # None /\ New(i).by >= old.since
    OBVIOUS
  <2>1. CASE i = s.at
    <3>1. u >= old.since BY <1>5, <1>11, FlowsAssumption DEF Update
    <3>. QED BY <1>9, <2>1, <3>1
  <2>2. CASE i # s.at
    <3>1. i \in 1 .. s.at - 1 BY <1>6, <2>2
    <3>. QED BY <1>8, <1>10, <3>1
  <2>. QED BY <2>1, <2>2
<1>13. \A i, j \in 1 .. s.at : i < j /\ New(j).by # 0 => New(i).by < New(j).by
  <2>. SUFFICES ASSUME NEW i \in 1 .. s.at, NEW j \in 1 .. s.at, i < j, New(j).by # 0
                PROVE  New(i).by < New(j).by
    OBVIOUS
  <2>1. i \in 1 .. s.at - 1 BY <1>6
  <2>2. CASE j = s.at BY <1>8, <1>9, <1>11, <2>1, <2>2
  <2>3. CASE j # s.at
    <3>1. j \in 1 .. s.at - 1 BY <1>6, <2>3
    <3>. QED BY <1>8, <1>10, <2>1, <3>1
  <2>. QED BY <2>2, <2>3
<1>14. steps[1] \in Chosen => New(1).value = s.flow
  <2>. SUFFICES ASSUME steps[1] \in Chosen PROVE New(1).value = s.flow
    OBVIOUS
  <2>1. CASE s.at = 1
    <3>1. req[u].op = "choose" /\ req[u].flow = s.flow BY <1>1, <2>1 DEF Handled, KeyOf
    <3>. QED BY <1>9, <2>1, <3>1 DEF Given
  <2>2. CASE s.at # 1
    <3>1. 1 \in 1 .. s.at - 1 /\ s.at > 1 BY <1>6, <2>2
    <3>. QED BY <1>8, <1>10, <3>1
  <2>. QED BY <2>1, <2>2
<1>15. InOrder(s.flow, s.at, new, old.since) BY <1>12, <1>13 DEF InOrder
<1>. QED BY <1>10, <1>14, <1>15

\* A flow that acts has a step before its last.
LEMMA ActingFlows ==
  ASSUME NEW flow \in Flow, flow \notin Queries
  PROVE  Len(Steps[flow]) > 1
<1>1. flow \in {"card", "power_pass", "coins", "store_cards", "add"}
  BY DEF Flow, Steps, Queries
<1>2. CASE flow = "card" BY <1>2 DEF Steps
<1>3. CASE flow = "power_pass" BY <1>3 DEF Steps
<1>4. CASE flow = "coins" BY <1>4 DEF Steps
<1>5. CASE flow = "store_cards" BY <1>5 DEF Steps
<1>6. CASE flow = "add" BY <1>6 DEF Steps
<1>. QED BY <1>1, <1>2, <1>3, <1>4, <1>5, <1>6

\* What Submit does is a Submits.
LEMMA SubmitSubmits ==
  ASSUME TypeOK, NEW u \in Update, Submit(u)
  PROVE  \E p \in {"insert", "lost"}, d \in Draft : Submits(u, p, d)
<1>. DEFINE d == [flow |-> raw[u].flow, person |-> From(u), since |-> fsm[From(u)].since,
                  data |-> [fsm[From(u)].data EXCEPT ![KeyOf(raw[u])] = Given(u)]]
<1>1. Turn(u) /\ pc[u] \in Live /\ raw[u] # Idle /\ draft' = [draft EXCEPT ![u] = d]
  BY DEF Submit, Turn, Handled, Live
<1>2. raw[u] \in State BY <1>1 DEF TypeOK
<1>3. From(u) \in Person /\ Given(u) \in Entry BY <1>1, GivenEntry
<1>4. fsm[From(u)] \in Conversation BY <1>3 DEF TypeOK
<1>5. KeyOf(raw[u]) \in Key /\ raw[u].flow \in Flow BY <1>2, StepShape
<1>6. fsm[From(u)].data \in [Key -> Entry \cup {None}] BY <1>4 DEF Conversation, Data
<1>7. [fsm[From(u)].data EXCEPT ![KeyOf(raw[u])] = Given(u)] \in Data
  BY <1>3, <1>5, <1>6 DEF Data
<1>8. d \in Draft BY <1>3, <1>4, <1>5, <1>7 DEF Conversation, Draft
<1>9. Inherits(d.data, fsm[From(u)].data, u) BY <1>5, <1>6 DEF Inherits
<1>10. PICK p \in {"insert", "lost"} : Goes(u, p, Over) BY DEF Submit
<1>11. ASSUME raw[u] = fsm[From(u)].state, Steady(fsm[From(u)]), Earlier(fsm[From(u)], u)
       PROVE  p # "lost" /\ Sound(d)
  <2>. DEFINE steps == Steps[raw[u].flow]
              old == fsm[From(u)].data
  <2>1. Handled(u) /\ IsLast(raw[u]) /\ raw[u].flow \notin Queries BY DEF Submit
  <2>2. PICK n \in 1 .. 5 : n = Len(steps) /\ n = raw[u].at BY <1>5, <2>1, StepsShape DEF IsLast
  <2>3. /\ InOrder(raw[u].flow, n, d.data, d.since)
        /\ \A i \in 1 .. n - 1 : old[steps[i]] # None
        /\ n > 1 /\ steps[1] \in Chosen => old[steps[1]].value = raw[u].flow
    BY <1>1, <1>11, <2>1, <2>2, GivenInOrder
  <2>5. n > 1 BY <1>5, <2>1, <2>2, ActingFlows
  <2>6. Whole(raw[u].flow, old)
    <3>1. \A k \in Needed(raw[u].flow) : old[k] # None BY <2>2, <2>3 DEF Needed
    <3>. QED BY <2>3, <2>5, <3>1 DEF Whole
  <2>7. p # "lost"
    <3>1. Goes(u, "insert", Over) BY <2>6 DEF Submit
    <3>. QED BY <1>10, <3>1 DEF Goes, TypeOK
  <2>. HIDE DEF d
  <2>8. d.flow = raw[u].flow BY DEF d
  <2>. QED BY <2>2, <2>3, <2>7, <2>8 DEF Sound
<1>. QED BY <1>1, <1>8, <1>9, <1>10, <1>11 DEF Submits

\* Open, Escape, Collect, Ask and Lookup are Talks.
LEMMA TalkTalks ==
  ASSUME TypeOK, NEW u \in Update,
         Open(u) \/ Escape(u) \/ Collect(u) \/ Ask(u) \/ Lookup(u)
  PROVE  \E p \in {"reply", "lookup"}, c \in Conversation : Talks(u, p, c)
<1>1. Turn(u) /\ pc[u] \in Live /\ draft' = draft
  BY DEF Open, Escape, Collect, Ask, Lookup, Turn, Live
<1>2. From(u) \in Person /\ Given(u) \in Entry /\ req[u].flow \in Flow BY <1>1, GivenEntry
<1>3. fsm[From(u)] \in Conversation BY <1>2 DEF TypeOK
<1>4. fsm[From(u)].data \in [Key -> Entry \cup {None}] BY <1>3 DEF Conversation, Data
<1>5. Inherits(NoData, fsm[From(u)].data, u) /\ Inherits(fsm[From(u)].data, fsm[From(u)].data, u)
  BY DEF Inherits, NoData
<1>6. CASE Open(u)
  <2>1. PICK d \in LeftOver(From(u), req[u].flow) :
          Goes(u, "reply", [state |-> [flow |-> req[u].flow, at |-> 1], data |-> d, since |-> u])
    BY <1>6 DEF Open
  <2>. DEFINE c == [state |-> [flow |-> req[u].flow, at |-> 1], data |-> d, since |-> u]
  <2>2. d \in Data /\ Inherits(d, fsm[From(u)].data, u)
    BY <1>3, <1>5, NewConversations DEF LeftOver, Conversation
  <2>3. u \in 0 .. MaxUpdate BY FlowsAssumption DEF Update
  <2>4. c \in Conversation BY <1>2, <2>2, <2>3, NewConversations DEF Conversation
  <2>5. Steady(c) BY <1>2, <2>2, OpenSteady
  <2>6. c.state # Idle /\ req[u].op = "open"
    BY <1>2, <1>6, NewConversations, FlowsAssumption DEF Open
  <2>. QED BY <1>1, <2>1, <2>2, <2>4, <2>5, <2>6 DEF Talks
<1>7. CASE Escape(u) \/ Ask(u) \/ Lookup(u)
  <2>1. PICK p \in {"reply", "lookup"} : Goes(u, p, Over) BY <1>7 DEF Escape, Ask, Lookup
  <2>2. Over.data = NoData /\ Over.since = arrived /\ Over.state = Idle BY DEF Over
  <2>. QED BY <1>1, <1>5, <2>1, <2>2, NewConversations, OpenSteady DEF Talks
<1>8. CASE Collect(u)
  <2>. DEFINE c == [fsm[From(u)] EXCEPT !.data[KeyOf(raw[u])] = Given(u),
                                        !.state = [raw[u] EXCEPT !.at = @ + 1]]
  <2>1. Handled(u) /\ raw[u] # Idle /\ ~IsLast(raw[u]) /\ Goes(u, "reply", c)
    BY <1>8 DEF Collect, Handled
  <2>2. raw[u] \in State BY <2>1 DEF TypeOK
  <2>3. KeyOf(raw[u]) \in Key /\ [raw[u] EXCEPT !.at = @ + 1] \in State BY <2>1, <2>2, StepShape
  <2>4. /\ c.data = [fsm[From(u)].data EXCEPT ![KeyOf(raw[u])] = Given(u)]
        /\ c.since = fsm[From(u)].since /\ c.state = [raw[u] EXCEPT !.at = @ + 1]
    BY <1>3 DEF Conversation
  <2>5. c.data \in Data /\ Inherits(c.data, fsm[From(u)].data, u)
    BY <1>2, <1>4, <2>3, <2>4 DEF Data, Inherits
  <2>6. c \in Conversation BY <1>3, <2>3, <2>4, <2>5 DEF Conversation
  <2>7. raw[u] = fsm[From(u)].state /\ Steady(fsm[From(u)]) /\ Earlier(fsm[From(u)], u) => Steady(c)
    <3>. SUFFICES ASSUME raw[u] = fsm[From(u)].state, Steady(fsm[From(u)]), Earlier(fsm[From(u)], u)
                  PROVE  Steady(c)
      OBVIOUS
    <3>1. raw[u].at \in 1 .. 5 /\ c.state.at - 1 = raw[u].at /\ c.state.flow = raw[u].flow
      BY <2>2, <2>4 DEF State
    <3>. HIDE DEF c
    <3>2. /\ InOrder(raw[u].flow, raw[u].at, c.data, c.since)
          /\ Steps[raw[u].flow][1] \in Chosen => c.data[Steps[raw[u].flow][1]].value = raw[u].flow
      BY <1>1, <2>1, <2>4, GivenInOrder
    <3>. QED BY <3>1, <3>2 DEF Steady
  <2>8. c.state # Idle BY <2>3, <2>4, FlowsAssumption
  <2>. HIDE DEF c
  <2>. QED BY <1>1, <2>1, <2>4, <2>5, <2>6, <2>7, <2>8 DEF Talks
<1>. QED BY <1>6, <1>7, <1>8

\* Every step is one of these.
LEMMA Kinds ==
  ASSUME TypeOK, [Next]_vars
  PROVE  \/ \E u \in Update, r \in Request : Arrive(u, r)
         \/ \E u \in Update, p \in {"reply", "lookup"}, c \in Conversation : Talks(u, p, c)
         \/ \E u \in Update, p \in {"insert", "lost"}, d \in Draft : Submits(u, p, d)
         \/ \E u \in Update : Insert(u) \/ Commit(u) \/ (pc[u] \in Live /\ Rollback(u))
         \/ Crash
         \/ UNCHANGED vars
<1>1. ASSUME NEW u \in Update,
             Ignore(u) \/ Reject(u) \/ Lose(u) \/ Collide(u) \/ Fail(u)
      PROVE  pc[u] \in Live /\ Rollback(u)
  BY <1>1 DEF Ignore, Reject, Lose, Collide, Fail, Turn, Live, Held
<1>. QED BY <1>1, SubmitSubmits, TalkTalks DEF Next, Advance

---------------------------------------------------------------------------

\* Tasks that are not of this step stay where they are; it moves one task only.
Moves(u, p) ==
  /\ pc' = [pc EXCEPT ![u] = p] /\ arrived' = arrived
  /\ \A v \in Update : v # u => req'[v] = req[v] /\ raw'[v] = raw[v]
  /\ p # "done" => req'[u] = req[u] /\ raw'[u] = raw[u]

\* A step of a task takes it on by one.
LEMMA TaskMoves ==
  ASSUME TypeOK, NEW u \in Update
  PROVE  /\ \A p, c : Talks(u, p, c) => pc[u] = "contact" /\ Moves(u, p)
         /\ \A p, d : Submits(u, p, d) => pc[u] = "contact" /\ Moves(u, p)
         /\ Insert(u) => pc[u] = "insert" /\ Moves(u, "send") /\ UNCHANGED <<draft, acts>>
         /\ Commit(u) => pc[u] \in {"send", "lookup", "reply"} /\ Moves(u, "done") /\ fsm' = fsm
         /\ Rollback(u) => Moves(u, "done") /\ UNCHANGED <<fsm, acts>>
         /\ Commit(u) \/ Rollback(u) => draft' = [draft EXCEPT ![u] = None]
<1>1. \A p, c : Talks(u, p, c) => pc[u] = "contact" /\ Moves(u, p)
  BY DEF Talks, Turn, Goes, Moves
<1>2. \A p, d : Submits(u, p, d) => pc[u] = "contact" /\ Moves(u, p)
  BY DEF Submits, Turn, Goes, Moves
<1>3. Insert(u) => pc[u] = "insert" /\ Moves(u, "send") /\ UNCHANGED <<draft, acts>>
  BY DEF Insert, Goes, Moves, base
<1>4. Commit(u) => pc[u] \in {"send", "lookup", "reply"} /\ Moves(u, "done") /\ fsm' = fsm
  BY DEF Commit, Close, Moves, TypeOK
<1>5. Rollback(u) => Moves(u, "done") /\ UNCHANGED <<fsm, acts>>
  BY DEF Rollback, Close, Moves, TypeOK, base
<1>6. Commit(u) \/ Rollback(u) => draft' = [draft EXCEPT ![u] = None]
  BY DEF Commit, Rollback, Close
<1>. QED BY <1>1, <1>2, <1>3, <1>4, <1>5, <1>6

\* All the steps of tasks, as moves.
LEMMA MoveKinds ==
  ASSUME TypeOK, [Next]_vars
  PROVE  \/ \E u \in Update, r \in Request : Arrive(u, r)
         \/ \E u \in Update, p \in Held \cup {"done"} :
              /\ pc[u] \in Live /\ Moves(u, p)
              /\ pc[u] \in Held \/ p = "done" \/ Turn(u)
         \/ Crash
         \/ UNCHANGED vars
<1>. USE DEF Held, Live
<1>1. ASSUME NEW u \in Update, NEW p \in {"reply", "lookup"}, NEW c \in Conversation, Talks(u, p, c)
      PROVE  pc[u] \in Live /\ Moves(u, p) /\ Turn(u)
  BY <1>1, TaskMoves DEF Talks
<1>2. ASSUME NEW u \in Update, NEW p \in {"insert", "lost"}, NEW d \in Draft, Submits(u, p, d)
      PROVE  pc[u] \in Live /\ Moves(u, p) /\ Turn(u)
  BY <1>2, TaskMoves DEF Submits
<1>3. ASSUME NEW u \in Update, Insert(u) PROVE pc[u] \in Held /\ Moves(u, "send")
  BY <1>3, TaskMoves
<1>4. ASSUME NEW u \in Update, Commit(u) PROVE pc[u] \in Held /\ Moves(u, "done")
  BY <1>4, TaskMoves
<1>5. ASSUME NEW u \in Update, Rollback(u) PROVE Moves(u, "done")
  BY <1>5, TaskMoves
<1>. QED BY <1>1, <1>2, <1>3, <1>4, <1>5, Kinds

\* What Arrive does.
LEMMA ArriveMoves ==
  ASSUME TypeOK, Sent, NEW u \in Update, NEW r \in Request, Arrive(u, r)
  PROVE  /\ pc[u] = "unsent" /\ pc' = [pc EXCEPT ![u] = "contact"] /\ arrived' = u /\ u = arrived + 1
         /\ req' = [req EXCEPT ![u] = r] /\ raw' = [raw EXCEPT ![u] = fsm[r.from].state]
         /\ r.from \in Person /\ UNCHANGED <<fsm, draft, acts>>
<1>1. r.from \in Person BY FlowsAssumption
<1>2. u = arrived + 1 /\ arrived \in Nat BY DEF Arrive, TypeOK
<1>3. pc[u] = "unsent" BY <1>2 DEF Sent
<1>. QED BY <1>1, <1>2, <1>3 DEF Arrive, base

LEMMA SentStep == IInv /\ [Next]_vars => Sent'
<1>. SUFFICES ASSUME IInv, [Next]_vars PROVE Sent'
  OBVIOUS
<1>. USE DEF Live, Held
<1>0. TypeOK /\ Sent /\ \A u \in Update : u \in Nat BY FlowsAssumption DEF IInv, Update
<1>1. ASSUME NEW u \in Update, NEW r \in Request, Arrive(u, r) PROVE Sent'
  <2>1. pc' = [pc EXCEPT ![u] = "contact"] /\ arrived' = u /\ u = arrived + 1 /\ arrived \in Nat
    BY <1>0, <1>1, ArriveMoves DEF TypeOK
  <2>. QED BY <1>0, <2>1 DEF Sent, TypeOK
<1>2. ASSUME NEW u \in Update, NEW p \in Held \cup {"done"}, pc[u] \in Live, Moves(u, p) PROVE Sent'
  BY <1>0, <1>2 DEF Moves, Sent, TypeOK
<1>3. CASE Crash
  <2>1. pc' = [u \in Update |-> IF pc[u] \in Live THEN "done" ELSE pc[u]] /\ arrived' = arrived
    BY <1>3 DEF Crash
  <2>. QED BY <1>0, <2>1 DEF Sent
<1>4. CASE UNCHANGED vars BY <1>0, <1>4 DEF vars, tasks, Sent
<1>. QED BY <1>0, <1>1, <1>2, <1>3, <1>4, MoveKinds

LEMMA SerialStep == IInv /\ [Next]_vars => Serial'
<1>. SUFFICES ASSUME IInv, [Next]_vars PROVE Serial'
  OBVIOUS
<1>0. TypeOK /\ Sent /\ Serial BY DEF IInv
<1>1. ASSUME NEW u \in Update, NEW r \in Request, Arrive(u, r) PROVE Serial'
  <2>1. pc' = [pc EXCEPT ![u] = "contact"] /\ req' = [req EXCEPT ![u] = r]
    BY <1>0, <1>1, ArriveMoves
  <2>2. "contact" \notin Held BY DEF Held
  <2>3. \A v \in Update : pc'[v] \in Held => pc[v] \in Held /\ v # u
    BY <1>0, <2>1, <2>2 DEF TypeOK
  <2>4. \A v \in Update : v # u => From(v)' = From(v) BY <1>0, <2>1 DEF From, TypeOK
  <2>. QED BY <1>0, <2>3, <2>4 DEF Serial
<1>2. ASSUME NEW u \in Update, NEW p \in Held \cup {"done"}, pc[u] \in Live, Moves(u, p),
             pc[u] \in Held \/ p = "done" \/ Turn(u)
      PROVE  Serial'
  <2>1. \A v \in Update : v # u => From(v)' = From(v) /\ pc'[v] = pc[v]
    BY <1>0, <1>2 DEF Moves, From, TypeOK
  <2>2. pc'[u] = p BY <1>0, <1>2 DEF Moves, TypeOK
  <2>3. CASE p = "done"
    <3>1. "done" \notin Held BY DEF Held
    <3>. QED BY <1>0, <2>1, <2>2, <2>3, <3>1 DEF Serial
  <2>4. CASE p # "done"
    <3>1. From(u)' = From(u) BY <1>2, <2>4 DEF Moves, From
    <3>2. CASE pc[u] \in Held BY <1>0, <2>1, <3>1, <3>2 DEF Serial
    <3>3. CASE Turn(u) BY <1>0, <2>1, <3>1, <3>3 DEF Serial, Turn
    <3>. QED BY <1>2, <2>4, <3>2, <3>3
  <2>. QED BY <2>3, <2>4
<1>3. CASE Crash
  <2>1. \A v \in Update : pc'[v] = IF pc[v] \in Live THEN "done" ELSE pc[v] BY <1>3 DEF Crash
  <2>2. \A v \in Update : pc'[v] \notin Held BY <2>1 DEF Live, Held
  <2>. QED BY <2>2 DEF Serial
<1>4. CASE UNCHANGED vars BY <1>0, <1>4 DEF vars, tasks, Serial, From
<1>. QED BY <1>0, <1>1, <1>2, <1>3, <1>4, MoveKinds

\* An update whose handler has run stays one.
LEMMA UsedGrows == IInv /\ [Next]_vars => Used \subseteq Used'
<1>. SUFFICES ASSUME IInv, [Next]_vars PROVE Used \subseteq Used'
  OBVIOUS
<1>0. TypeOK /\ Sent BY DEF IInv
<1>1. ASSUME NEW u \in Update, NEW r \in Request, Arrive(u, r) PROVE Used \subseteq Used'
  BY <1>0, <1>1, ArriveMoves DEF Used, TypeOK
<1>2. ASSUME NEW u \in Update, NEW p \in Held \cup {"done"}, Moves(u, p) PROVE Used \subseteq Used'
  <2>1. p \notin {"unsent", "contact"} BY DEF Held
  <2>. QED BY <1>0, <1>2, <2>1 DEF Moves, Used, TypeOK
<1>3. CASE Crash
  <2>1. \A v \in Update : pc'[v] = IF pc[v] \in Live THEN "done" ELSE pc[v] BY <1>3 DEF Crash
  <2>. QED BY <2>1 DEF Used
<1>4. CASE UNCHANGED vars BY <1>4 DEF vars, tasks, Used
<1>. QED BY <1>0, <1>1, <1>2, <1>3, <1>4, MoveKinds

---------------------------------------------------------------------------

LEMMA DraftsStep == IInv /\ [Next]_vars => Drafts'
<1>. SUFFICES ASSUME IInv, [Next]_vars PROVE Drafts'
  OBVIOUS
<1>0. TypeOK /\ Sent /\ Drafts BY DEF IInv
<1>1. ASSUME NEW u \in Update, NEW r \in Request, Arrive(u, r) PROVE Drafts'
  BY <1>0, <1>1, ArriveMoves DEF Drafts, From, TypeOK
<1>2. ASSUME NEW u \in Update, NEW p \in {"reply", "lookup"}, NEW c \in Conversation, Talks(u, p, c)
      PROVE  Drafts'
  <2>1. pc[u] = "contact" /\ Moves(u, p) /\ draft' = draft BY <1>0, <1>2, TaskMoves DEF Talks
  <2>. QED BY <1>0, <2>1 DEF Moves, Drafts, From, TypeOK
<1>3. ASSUME NEW u \in Update, NEW p \in {"insert", "lost"}, NEW d \in Draft, Submits(u, p, d)
      PROVE  Drafts'
  <2>1. pc[u] = "contact" /\ Moves(u, p) BY <1>0, <1>3, TaskMoves
  <2>2. draft' = [draft EXCEPT ![u] = d] /\ d.person = From(u) BY <1>3 DEF Submits
  <2>. QED BY <1>0, <2>1, <2>2 DEF Moves, Drafts, From, TypeOK
<1>4. ASSUME NEW u \in Update, Insert(u) PROVE Drafts'
  <2>1. pc[u] = "insert" /\ Moves(u, "send") /\ draft' = draft BY <1>0, <1>4, TaskMoves
  <2>. QED BY <1>0, <2>1 DEF Moves, Drafts, From, TypeOK
<1>5. ASSUME NEW u \in Update, Commit(u) \/ Rollback(u) PROVE Drafts'
  <2>1. Moves(u, "done") /\ draft' = [draft EXCEPT ![u] = None] BY <1>0, <1>5, TaskMoves
  <2>. QED BY <1>0, <2>1 DEF Moves, Drafts, From, TypeOK
<1>6. CASE Crash BY <1>6 DEF Crash, Drafts
<1>7. CASE UNCHANGED vars BY <1>0, <1>7 DEF vars, tasks, Drafts, From
<1>. QED BY <1>0, <1>1, <1>2, <1>3, <1>4, <1>5, <1>6, <1>7, Kinds

\* Data that a handler stores or takes was given by an update in Used'.
LEMMA DataUsed ==
  ASSUME IInv, [Next]_vars, NEW u \in Update, pc[u] = "contact", NEW p, Moves(u, p),
         p \notin {"unsent", "contact"},
         NEW d, Inherits(d, fsm[From(u)].data, u)
  PROVE  ByUsed(d)' /\ u \in Used'
<1>1. TypeOK /\ Stamps BY DEF IInv
<1>2. From(u) \in Person BY <1>1, GivenEntry DEF Live
<1>3. u \in Used' BY <1>1 DEF Moves, TypeOK, Used
<1>4. Given(u).by = u BY DEF Given
<1>5. ByUsed(fsm[From(u)].data) BY <1>1, <1>2 DEF Stamps
<1>6. \A k \in Key : d[k] # None => d[k].by \in Used' BY <1>3, <1>4, <1>5, UsedGrows DEF ByUsed, Inherits
<1>. QED BY <1>3, <1>6 DEF ByUsed

\* No update is taken back.
LEMMA ArrivedGrows ==
  ASSUME TypeOK, [Next]_vars
  PROVE  arrived \in Nat /\ arrived' \in Nat /\ arrived <= arrived'
<1>0. arrived \in Nat /\ \A u \in Update : u \in Nat BY FlowsAssumption DEF TypeOK, Update
<1>1. ASSUME NEW u \in Update, NEW r \in Request, Arrive(u, r) PROVE arrived' = u /\ u = arrived + 1
  BY <1>1 DEF Arrive
<1>2. ASSUME NEW u \in Update, NEW p \in Held \cup {"done"}, Moves(u, p) PROVE arrived' = arrived
  BY <1>2 DEF Moves
<1>3. ASSUME Crash \/ UNCHANGED vars PROVE arrived' = arrived BY <1>3 DEF Crash, vars
<1>4. arrived' = arrived \/ arrived' = arrived + 1 BY <1>1, <1>2, <1>3, MoveKinds
<1>5. arrived + 1 \in Nat /\ arrived <= arrived /\ arrived <= arrived + 1 BY <1>0
<1>. QED BY <1>0, <1>4, <1>5

LEMMA StampsStep == IInv /\ [Next]_vars => Stamps'
<1>. SUFFICES ASSUME IInv, [Next]_vars PROVE Stamps'
  OBVIOUS
<1>0. TypeOK /\ Sent /\ Stamps BY DEF IInv
<1>a. Used \subseteq Used' BY UsedGrows
<1>c. arrived \in Nat /\ arrived' \in Nat /\ arrived <= arrived' BY <1>0, ArrivedGrows
<1>b. ASSUME fsm' = fsm, \A v \in Update : draft'[v] = draft[v] \/ draft'[v] = None,
             \A a \in acts' : a \in acts \/ \E v \in Update : draft[v] # None /\ a = draft[v]
      PROVE  Stamps'
  BY <1>0, <1>a, <1>b, <1>c DEF Stamps, ByUsed
<1>1. ASSUME NEW u \in Update, NEW r \in Request, Arrive(u, r) PROVE Stamps'
  BY <1>0, <1>1, <1>b, ArriveMoves
<1>2. ASSUME NEW u \in Update, NEW p \in {"reply", "lookup"}, NEW c \in Conversation, Talks(u, p, c)
      PROVE  Stamps'
  <2>1. pc[u] = "contact" /\ Moves(u, p) BY <1>0, <1>2, TaskMoves
  <2>2. /\ fsm' = [fsm EXCEPT ![From(u)] = c] /\ UNCHANGED <<draft, acts>>
        /\ Inherits(c.data, fsm[From(u)].data, u) /\ c.since \in {arrived, u, fsm[From(u)].since}
    BY <1>2 DEF Talks, Goes, base
  <2>3. From(u) \in Person BY <1>0, <2>1, GivenEntry DEF Live
  <2>4. ByUsed(c.data)' /\ u \in Used' BY <2>1, <2>2, DataUsed
  <2>5. c.since \in 0 .. arrived'
    <3>1. u \in 0 .. arrived BY <1>0, <1>c, <2>1, FlowsAssumption DEF Sent, Update
    <3>2. fsm[From(u)].since \in 0 .. arrived BY <1>0, <2>3 DEF Stamps
    <3>. QED BY <1>c, <2>2, <3>1, <3>2
  <2>6. \A x \in Person : fsm'[x] = IF x = From(u) THEN c ELSE fsm[x] BY <1>0, <2>2 DEF TypeOK
  <2>. QED BY <1>0, <1>a, <1>c, <2>2, <2>4, <2>5, <2>6 DEF Stamps, ByUsed
<1>3. ASSUME NEW u \in Update, NEW p \in {"insert", "lost"}, NEW d \in Draft, Submits(u, p, d)
      PROVE  Stamps'
  <2>1. pc[u] = "contact" /\ Moves(u, p) BY <1>0, <1>3, TaskMoves
  <2>2. /\ fsm' = [fsm EXCEPT ![From(u)] = Over] /\ draft' = [draft EXCEPT ![u] = d] /\ acts' = acts
        /\ Inherits(d.data, fsm[From(u)].data, u)
    BY <1>3 DEF Submits, Goes, base
  <2>3. From(u) \in Person BY <1>0, <2>1, GivenEntry DEF Live
  <2>4. ByUsed(d.data)' BY <2>1, <2>2, DataUsed
  <2>5. /\ \A x \in Person : fsm'[x] = IF x = From(u) THEN Over ELSE fsm[x]
        /\ \A v \in Update : draft'[v] = IF v = u THEN d ELSE draft[v]
    BY <1>0, <2>2 DEF TypeOK
  <2>6. Over.since \in 0 .. arrived' /\ \A k \in Key : Over.data[k] = None
    BY <1>c DEF Over, NoData
  <2>. QED BY <1>0, <1>a, <1>c, <2>2, <2>4, <2>5, <2>6 DEF Stamps, ByUsed
<1>4. ASSUME NEW u \in Update, Insert(u) PROVE Stamps'
  <2>1. From(u) \in Person BY <1>0, <1>4, GivenEntry DEF Insert, Live, Held
  <2>2. fsm' = fsm BY <1>0, <1>4, <2>1 DEF Insert, Goes, TypeOK
  <2>. QED BY <1>0, <1>4, <1>b, <2>2, TaskMoves
<1>5. ASSUME NEW u \in Update, Commit(u) PROVE Stamps'
  <2>1. fsm' = fsm /\ draft' = [draft EXCEPT ![u] = None] BY <1>0, <1>5, TaskMoves
  <2>2. \A v \in Update : draft'[v] = draft[v] \/ draft'[v] = None BY <1>0, <2>1 DEF TypeOK
  <2>3. \A a \in acts' : a \in acts \/ \E v \in Update : draft[v] # None /\ a = draft[v]
    BY <1>0, <1>5 DEF Commit, TypeOK
  <2>. QED BY <1>b, <2>1, <2>2, <2>3
<1>6. ASSUME NEW u \in Update, Rollback(u) PROVE Stamps'
  <2>1. UNCHANGED <<fsm, acts>> /\ draft' = [draft EXCEPT ![u] = None] BY <1>0, <1>6, TaskMoves
  <2>2. \A v \in Update : draft'[v] = draft[v] \/ draft'[v] = None BY <1>0, <2>1 DEF TypeOK
  <2>. QED BY <1>b, <2>1, <2>2
<1>7. CASE Crash
  <2>1. /\ fsm' = [x \in Person |-> Over] /\ draft' = [v \in Update |-> None] /\ acts' = acts
    BY <1>7 DEF Crash, base
  <2>2. Over.since \in 0 .. arrived' /\ \A k \in Key : Over.data[k] = None
    BY <1>c DEF Over, NoData
  <2>. QED BY <1>0, <1>a, <1>c, <2>1, <2>2 DEF Stamps, ByUsed
<1>8. CASE UNCHANGED vars BY <1>b, <1>8 DEF vars, tasks, base
<1>. QED BY <1>0, <1>1, <1>2, <1>3, <1>4, <1>5, <1>6, <1>7, <1>8, Kinds

---------------------------------------------------------------------------

\* An update that has yet to be handled has given nothing that is stored.
LEMMA Ungiven ==
  ASSUME IInv, NEW u \in Update, pc[u] = "contact", NEW d, ByUsed(d), NEW k \in Key, d[k] # None
  PROVE  d[k] # Given(u)
<1>1. u # 0 BY FlowsAssumption DEF Update
<1>2. u \notin Used BY <1>1 DEF Used
<1>. QED BY <1>2 DEF ByUsed, Given

LEMMA ApartStep == IInv /\ [Next]_vars => Apart'
<1>. SUFFICES ASSUME IInv, [Next]_vars PROVE Apart'
  OBVIOUS
<1>0. TypeOK /\ Sent /\ Serial /\ Drafts /\ Stamps /\ Apart BY DEF IInv
<1>a. ASSUME fsm' = fsm, acts' = acts, \A v \in Update : draft'[v] = draft[v] \/ draft'[v] = None
      PROVE  Apart'
  BY <1>0, <1>a DEF Apart, DataApart
<1>b. \A d : DataApart(d, NoData) BY DEF DataApart, NoData
<1>1. ASSUME NEW u \in Update, NEW r \in Request, Arrive(u, r) PROVE Apart'
  BY <1>0, <1>1, <1>a, ArriveMoves
<1>2. ASSUME NEW u \in Update, NEW p \in {"reply", "lookup"}, NEW c \in Conversation, Talks(u, p, c)
      PROVE  Apart'
  <2>1. pc[u] = "contact" BY <1>0, <1>2, TaskMoves
  <2>2. /\ Turn(u) /\ fsm' = [fsm EXCEPT ![From(u)] = c] /\ UNCHANGED <<draft, acts>>
        /\ Inherits(c.data, fsm[From(u)].data, u)
    BY <1>2 DEF Talks, Goes, base
  <2>3. \A x \in Person : fsm'[x] = IF x = From(u) THEN c ELSE fsm[x] BY <1>0, <2>2 DEF TypeOK
  <2>4. \A a \in acts : a.person \in Person BY <1>0 DEF TypeOK, Draft
  <2>5. ASSUME NEW a \in acts, a.person = From(u) PROVE DataApart(a.data, c.data)
    <3>. SUFFICES ASSUME NEW k \in Key, a.data[k] # None PROVE a.data[k] # c.data[k]
      BY DEF DataApart
    <3>1. ByUsed(a.data) /\ DataApart(a.data, fsm[From(u)].data) BY <1>0, <2>5 DEF Stamps, Apart
    <3>2. a.data[k] # Given(u) BY <2>1, <3>1, Ungiven
    <3>. QED BY <2>2, <3>1, <3>2 DEF Inherits, DataApart
  <2>6. \A v \in Update : draft[v] # None => draft[v].person # From(u) /\ draft[v].person \in Person
    BY <1>0, <2>2 DEF Drafts, Turn, Held, TypeOK, Draft
  <2>. QED BY <1>0, <2>2, <2>3, <2>4, <2>5, <2>6 DEF Apart
<1>3. ASSUME NEW u \in Update, NEW p \in {"insert", "lost"}, NEW d \in Draft, Submits(u, p, d)
      PROVE  Apart'
  <2>1. pc[u] = "contact" BY <1>0, <1>3, TaskMoves
  <2>2. /\ fsm' = [fsm EXCEPT ![From(u)] = Over] /\ draft' = [draft EXCEPT ![u] = d] /\ acts' = acts
        /\ d.person = From(u) /\ Inherits(d.data, fsm[From(u)].data, u)
    BY <1>3 DEF Submits, Goes, base
  <2>3. /\ \A x \in Person : fsm'[x] = IF x = From(u) THEN Over ELSE fsm[x]
        /\ \A v \in Update : draft'[v] = IF v = u THEN d ELSE draft[v]
    BY <1>0, <2>2 DEF TypeOK
  <2>4. /\ \A a \in acts : a.person \in Person
        /\ \A v \in Update : draft[v] # None => draft[v].person \in Person
        /\ d.person \in Person
    BY <1>0 DEF TypeOK, Draft
  <2>5. ASSUME NEW a \in acts, a.person = From(u) PROVE DataApart(d.data, a.data)
    <3>. SUFFICES ASSUME NEW k \in Key, d.data[k] # None, d.data[k] = a.data[k] PROVE FALSE
      BY DEF DataApart
    <3>1. ByUsed(a.data) /\ DataApart(a.data, fsm[From(u)].data) BY <1>0, <2>5 DEF Stamps, Apart
    <3>2. a.data[k] # Given(u) BY <2>1, <3>1, Ungiven
    <3>. QED BY <2>2, <3>1, <3>2 DEF Inherits, DataApart
  <2>6. Over.data = NoData BY DEF Over
  <2>7. \A a \in acts' : DataApart(a.data, fsm'[a.person].data)
    BY <1>0, <1>b, <2>2, <2>3, <2>4, <2>6 DEF Apart
  <2>8. ASSUME NEW v \in Update, draft'[v] # None
        PROVE  /\ DataApart(draft'[v].data, fsm'[draft'[v].person].data)
               /\ \A a \in acts' : a.person = draft'[v].person => DataApart(draft'[v].data, a.data)
    BY <1>0, <1>b, <2>2, <2>3, <2>4, <2>5, <2>6, <2>8 DEF Apart
  <2>. QED BY <2>7, <2>8 DEF Apart, DataApart
<1>4. ASSUME NEW u \in Update, Insert(u) PROVE Apart'
  <2>1. From(u) \in Person BY <1>0, <1>4, GivenEntry DEF Insert, Live, Held
  <2>2. fsm' = fsm BY <1>0, <1>4, <2>1 DEF Insert, Goes, TypeOK
  <2>. QED BY <1>0, <1>4, <1>a, <2>2, TaskMoves
<1>5. ASSUME NEW u \in Update, Commit(u) PROVE Apart'
  <2>1. fsm' = fsm /\ draft' = [draft EXCEPT ![u] = None] BY <1>0, <1>5, TaskMoves
  <2>2. \A v \in Update : draft'[v] = IF v = u THEN None ELSE draft[v] BY <1>0, <2>1 DEF TypeOK
  <2>3. CASE acts' = acts BY <1>a, <2>1, <2>2, <2>3
  <2>4. CASE pc[u] = "send" /\ acts' = acts \cup {draft[u]}
    <3>1. draft[u] # None BY <1>0, <2>4 DEF TypeOK
    <3>2. \A v \in Update : v # u /\ draft[v] # None => draft[v].person # draft[u].person
      BY <1>0, <2>4, <3>1 DEF Drafts, Serial, Held
    <3>. QED BY <1>0, <2>1, <2>2, <2>4, <3>1, <3>2 DEF Apart, DataApart
  <2>. QED BY <1>5, <2>3, <2>4 DEF Commit
<1>6. ASSUME NEW u \in Update, Rollback(u) PROVE Apart'
  <2>1. UNCHANGED <<fsm, acts>> /\ draft' = [draft EXCEPT ![u] = None] BY <1>0, <1>6, TaskMoves
  <2>2. \A v \in Update : draft'[v] = draft[v] \/ draft'[v] = None BY <1>0, <2>1 DEF TypeOK
  <2>. QED BY <1>a, <2>1, <2>2
<1>7. CASE Crash
  <2>1. fsm' = [x \in Person |-> Over] /\ draft' = [v \in Update |-> None] /\ acts' = acts
    BY <1>7 DEF Crash, base
  <2>2. \A a \in acts : a.person \in Person BY <1>0 DEF TypeOK, Draft
  <2>3. Over.data = NoData BY DEF Over
  <2>. QED BY <1>b, <2>1, <2>2, <2>3 DEF Apart, DataApart
<1>8. CASE UNCHANGED vars BY <1>a, <1>8 DEF vars, tasks, base
<1>. QED BY <1>0, <1>1, <1>2, <1>3, <1>4, <1>5, <1>6, <1>7, <1>8, Kinds

\* Acts are added by commits, one at a time.
LEMMA ActsGrow ==
  ASSUME TypeOK, [Next]_vars
  PROVE  acts' = acts \/ \E u \in Update : pc[u] = "send" /\ Commit(u) /\ acts' = acts \cup {draft[u]}
<1>1. ASSUME NEW u \in Update, NEW r \in Request, Arrive(u, r) PROVE acts' = acts
  BY <1>1 DEF Arrive, base
<1>2. ASSUME NEW u \in Update, NEW p, NEW c, Talks(u, p, c) \/ Submits(u, p, c) PROVE acts' = acts
  BY <1>2 DEF Talks, Submits, Goes, base
<1>3. ASSUME NEW u \in Update, Insert(u) \/ Rollback(u) PROVE acts' = acts
  BY <1>3, TaskMoves
<1>4. ASSUME NEW u \in Update, Commit(u)
      PROVE  acts' = acts \/ (pc[u] = "send" /\ acts' = acts \cup {draft[u]})
  BY <1>4 DEF Commit
<1>5. CASE Crash \/ UNCHANGED vars BY <1>5 DEF Crash, vars, base
<1>. QED BY <1>1, <1>2, <1>3, <1>4, <1>5, Kinds

LEMMA UsedOnceStep == IInv /\ [Next]_vars => EachValueUsedOnce'
<1>. SUFFICES ASSUME IInv, [Next]_vars PROVE EachValueUsedOnce'
  OBVIOUS
<1>0. TypeOK /\ Sent /\ Apart /\ EachValueUsedOnce BY DEF IInv
<1>1. CASE acts' = acts BY <1>0, <1>1 DEF EachValueUsedOnce
<1>2. ASSUME NEW u \in Update, pc[u] = "send", acts' = acts \cup {draft[u]} PROVE EachValueUsedOnce'
  <2>1. draft[u] # None BY <1>0, <1>2 DEF TypeOK
  <2>2. \A a \in acts, k \in Key :
          a.person = draft[u].person /\ draft[u].data[k] # None => draft[u].data[k] # a.data[k]
    BY <1>0, <2>1 DEF Apart, DataApart
  <2>. QED BY <1>0, <1>2, <2>2 DEF EachValueUsedOnce
<1>. QED BY <1>0, <1>1, <1>2, ActsGrow

---------------------------------------------------------------------------

\* What a task that is not inserting holds, it held before.
LEMMA HoldsBefore ==
  ASSUME TypeOK, Drafts, [Next]_vars, NEW v \in Update, HoldsNumber(v)', ~Insert(v)
  PROVE  HoldsNumber(v) /\ draft'[v] = draft[v] /\ ~Commit(v)
<1>1. ASSUME NEW u \in Update, NEW r \in Request, Arrive(u, r)
      PROVE  HoldsNumber(v) /\ draft'[v] = draft[v]
  BY <1>1 DEF Arrive, HoldsNumber, TypeOK
<1>2. ASSUME NEW u \in Update, NEW p \in {"reply", "lookup"}, NEW c \in Conversation, Talks(u, p, c)
      PROVE  HoldsNumber(v) /\ draft'[v] = draft[v]
  <2>1. Moves(u, p) /\ draft' = draft BY <1>2, TaskMoves DEF Talks
  <2>. QED BY <2>1 DEF Moves, HoldsNumber, TypeOK
<1>3. ASSUME NEW u \in Update, NEW p \in {"insert", "lost"}, NEW d \in Draft, Submits(u, p, d)
      PROVE  HoldsNumber(v) /\ draft'[v] = draft[v]
  <2>1. Moves(u, p) /\ draft' = [draft EXCEPT ![u] = d] BY <1>3, TaskMoves DEF Submits
  <2>. QED BY <2>1 DEF Moves, HoldsNumber, TypeOK
<1>4. ASSUME NEW u \in Update, Insert(u) PROVE HoldsNumber(v) /\ draft'[v] = draft[v]
  <2>1. Moves(u, "send") /\ draft' = draft /\ u # v BY <1>4, TaskMoves
  <2>. QED BY <2>1 DEF Moves, HoldsNumber, TypeOK
<1>5. ASSUME NEW u \in Update, Commit(u) \/ Rollback(u) PROVE HoldsNumber(v) /\ draft'[v] = draft[v]
  <2>1. Moves(u, "done") /\ draft' = [draft EXCEPT ![u] = None] BY <1>5, TaskMoves
  <2>. QED BY <2>1 DEF Moves, HoldsNumber, TypeOK
<1>6. ~Crash
  BY DEF Crash, HoldsNumber, Live, Held
<1>7. ASSUME UNCHANGED vars PROVE HoldsNumber(v) /\ draft'[v] = draft[v]
  BY <1>7 DEF vars, tasks, HoldsNumber
<1>8. ~Commit(v)
  <2>1. ASSUME Commit(v) PROVE pc'[v] = "done" BY <2>1, TaskMoves DEF Moves, TypeOK
  <2>. QED BY <2>1 DEF HoldsNumber
<1>. QED BY <1>1, <1>2, <1>3, <1>4, <1>5, <1>6, <1>7, <1>8, Kinds

LEMMA NumberedStep == IInv /\ [Next]_vars => Numbered'
<1>. SUFFICES ASSUME IInv, [Next]_vars PROVE Numbered'
  OBVIOUS
<1>0. TypeOK /\ Drafts /\ Numbered BY DEF IInv
<1>1. CASE \E u \in Update : Insert(u)
  <2>1. PICK u \in Update : Insert(u) BY <1>1
  <2>2. pc[u] = "insert" /\ Moves(u, "send") /\ UNCHANGED <<draft, acts>> BY <1>0, <2>1, TaskMoves
  <2>3. TakenNumbers' = TakenNumbers BY <2>2 DEF TakenNumbers, Cards, NumberOf
  <2>4. \A v \in Update : v # u /\ HoldsNumber(v)' => HoldsNumber(v)
    BY <1>0, <2>2 DEF Moves, HoldsNumber, TypeOK
  <2>5. HoldsNumber(u)' =>
          /\ NumberOf(draft[u]) \notin TakenNumbers
          /\ \A v \in Update : v # u /\ HoldsNumber(v) => NumberOf(draft[v]) # NumberOf(draft[u])
    BY <2>1, <2>2 DEF Insert, NumberFree, HoldsNumber
  <2>6. \A v \in Update : NumberOf(draft[v])' = NumberOf(draft[v]) BY <2>2 DEF NumberOf
  <2>. QED BY <1>0, <2>3, <2>4, <2>5, <2>6 DEF Numbered
<1>2. CASE ~\E u \in Update : Insert(u)
  <2>1. \A v \in Update : HoldsNumber(v)' => HoldsNumber(v) /\ draft'[v] = draft[v] /\ ~Commit(v)
    BY <1>0, <1>2, HoldsBefore
  <2>2. \A v \in Update : HoldsNumber(v)' => NumberOf(draft[v])' = NumberOf(draft[v])
    BY <2>1 DEF NumberOf
  <2>3. ASSUME NEW v \in Update, HoldsNumber(v)' PROVE NumberOf(draft[v]) \notin TakenNumbers'
    <3>1. CASE acts' = acts
      <4>1. TakenNumbers' = TakenNumbers BY <3>1 DEF TakenNumbers, Cards, NumberOf
      <4>. QED BY <1>0, <2>1, <2>3, <4>1 DEF Numbered
    <3>2. ASSUME NEW u \in Update, pc[u] = "send", Commit(u), acts' = acts \cup {draft[u]}
          PROVE  NumberOf(draft[v]) \notin TakenNumbers'
      <4>1. u # v /\ HoldsNumber(v) BY <2>1, <2>3, <3>2
      <4>2. NumberOf(draft[v]) \notin TakenNumbers BY <1>0, <4>1 DEF Numbered
      <4>3. draft[u].flow = "card" => NumberOf(draft[u]) # NumberOf(draft[v])
        BY <1>0, <3>2, <4>1 DEF Numbered, HoldsNumber
      <4>. QED BY <3>2, <4>2, <4>3 DEF TakenNumbers, Cards, NumberOf
    <3>. QED BY <1>0, <3>1, <3>2, ActsGrow
  <2>. QED BY <1>0, <2>1, <2>2, <2>3 DEF Numbered
<1>. QED BY <1>1, <1>2

LEMMA OneCardStep == IInv /\ [Next]_vars => OneCardPerNumber'
<1>. SUFFICES ASSUME IInv, [Next]_vars PROVE OneCardPerNumber'
  OBVIOUS
<1>0. TypeOK /\ Numbered /\ OneCardPerNumber BY DEF IInv
<1>1. CASE acts' = acts BY <1>0, <1>1 DEF OneCardPerNumber, Cards, NumberOf
<1>2. ASSUME NEW u \in Update, pc[u] = "send", acts' = acts \cup {draft[u]} PROVE OneCardPerNumber'
  <2>1. draft[u].flow = "card" => \A card \in Cards : NumberOf(card) # NumberOf(draft[u])
    BY <1>0, <1>2 DEF Numbered, HoldsNumber, TakenNumbers
  <2>2. \A card \in Cards' : card \in Cards \/ (card = draft[u] /\ draft[u].flow = "card")
    BY <1>2 DEF Cards
  <2>. QED BY <1>0, <2>1, <2>2 DEF OneCardPerNumber, NumberOf
<1>. QED BY <1>0, <1>1, <1>2, ActsGrow

---------------------------------------------------------------------------

\* Other people's conversations are left alone by the step of a task.
LEMMA OthersAlone ==
  ASSUME TypeOK, [Next]_vars, NEW x \in Person, fsm'[x] # fsm[x], ~Crash
  PROVE  \/ \E u \in Update, p \in {"reply", "lookup"}, c \in Conversation :
               Talks(u, p, c) /\ x = From(u) /\ fsm'[x] = c
         \/ \E u \in Update, p \in {"insert", "lost"}, d \in Draft :
               Submits(u, p, d) /\ x = From(u) /\ fsm'[x] = Over
<1>1. ASSUME NEW u \in Update, NEW r \in Request, Arrive(u, r) PROVE FALSE
  BY <1>1 DEF Arrive
<1>2. ASSUME NEW u \in Update, NEW p \in {"reply", "lookup"}, NEW c \in Conversation, Talks(u, p, c)
      PROVE  x = From(u) /\ fsm'[x] = c
  BY <1>2 DEF Talks, Goes, TypeOK
<1>3. ASSUME NEW u \in Update, NEW p \in {"insert", "lost"}, NEW d \in Draft, Submits(u, p, d)
      PROVE  x = From(u) /\ fsm'[x] = Over
  BY <1>3 DEF Submits, Goes, TypeOK
<1>4. ASSUME NEW u \in Update, Insert(u) PROVE FALSE
  BY <1>4 DEF Insert, Goes, TypeOK
<1>5. ASSUME NEW u \in Update, Commit(u) \/ Rollback(u) PROVE FALSE
  BY <1>5, TaskMoves
<1>6. ~UNCHANGED vars BY DEF vars
<1>. QED BY <1>1, <1>2, <1>3, <1>4, <1>5, <1>6, Kinds

LEMMA AloneStep == IInv /\ [Next]_vars => Alone'
<1>. SUFFICES ASSUME IInv, [Next]_vars PROVE Alone'
  OBVIOUS
<1>0. TypeOK /\ Sent /\ Stamps /\ Alone BY DEF IInv
<1>1. ASSUME NEW u \in Update, NEW r \in Request, Arrive(u, r) PROVE Alone'
  <2>1. /\ pc' = [pc EXCEPT ![u] = "contact"] /\ u = arrived + 1 /\ arrived \in Nat
        /\ req' = [req EXCEPT ![u] = r] /\ raw' = [raw EXCEPT ![u] = fsm[r.from].state]
        /\ r.from \in Person /\ fsm' = fsm
    BY <1>0, <1>1, ArriveMoves DEF TypeOK
  <2>2. r.from \in Patient => \A v \in Update : pc[v] \in Live => From(v) # r.from
    BY <1>1 DEF Arrive
  <2>3. /\ From(u)' = r.from /\ raw'[u] = fsm[r.from].state /\ pc'[u] = "contact"
        /\ \A v \in Update : v # u => pc'[v] = pc[v] /\ From(v)' = From(v) /\ raw'[v] = raw[v]
    BY <1>0, <2>1 DEF TypeOK, From
  <2>4. Earlier(fsm[r.from], u)
    <3>1. \A n \in Used : n < u
      BY <1>0, <2>1, FlowsAssumption DEF Used, Sent, Update
    <3>2. fsm[r.from].since < u BY <1>0, <2>1 DEF Stamps
    <3>. QED BY <1>0, <2>1, <3>1, <3>2 DEF Earlier, Stamps, ByUsed
  <2>5. ASSUME NEW v \in Update, pc'[v] \in Live, From(v)' \in Patient
        PROVE  /\ \A w \in Update : pc'[w] \in Live /\ From(w)' = From(v)' => w = v
               /\ pc'[v] = "contact" => raw'[v] = fsm'[From(v)'].state /\ Earlier(fsm'[From(v)'], v)
    <3>1. CASE v = u BY <2>1, <2>2, <2>3, <2>4, <2>5, <3>1
    <3>2. CASE v # u BY <1>0, <2>1, <2>2, <2>3, <2>5, <3>2 DEF Alone
    <3>. QED BY <3>1, <3>2
  <2>. QED BY <2>5 DEF Alone, Earlier
<1>2. ASSUME NEW u \in Update, NEW p \in Held \cup {"done"}, pc[u] \in Live, Moves(u, p), ~Crash
      PROVE  Alone'
  <2>. SUFFICES ASSUME NEW v \in Update, pc'[v] \in Live, From(v)' \in Patient
                PROVE  /\ \A w \in Update : pc'[w] \in Live /\ From(w)' = From(v)' => w = v
                       /\ pc'[v] = "contact" =>
                            raw'[v] = fsm'[From(v)'].state /\ Earlier(fsm'[From(v)'], v)
    BY DEF Alone, Earlier
  <2>0. pc'[u] = p /\ \A w \in Update : w # u => pc'[w] = pc[w] BY <1>0, <1>2 DEF Moves, TypeOK
  <2>1. p \in Live => p # "done" BY DEF Live, Held
  <2>2. \A w \in Update : pc'[w] \in Live =>
          pc[w] \in Live /\ From(w)' = From(w) /\ raw'[w] = raw[w]
    BY <1>2, <2>0, <2>1 DEF Moves, From
  <2>3. /\ pc[v] \in Live /\ From(v) \in Patient
        /\ \A w \in Update : pc[w] \in Live /\ From(w) = From(v) => w = v
    BY <1>0, <2>2 DEF Alone
  <2>4. ASSUME pc'[v] = "contact" PROVE raw'[v] = fsm'[From(v)'].state /\ Earlier(fsm'[From(v)'], v)
    <3>1. v # u BY <2>0, <2>4 DEF Held
    <3>2. From(v) \in Person BY <1>0, <2>3, GivenEntry
    <3>3. \A w \in Update : pc[w] = "contact" /\ pc'[w] # "contact" => w = u BY <2>0
    <3>4. fsm'[From(v)] = fsm[From(v)]
      <4>. SUFFICES ASSUME fsm'[From(v)] # fsm[From(v)] PROVE FALSE
        OBVIOUS
      <4>1. PICK w \in Update, q \in Held, c \in Conversation \cup Draft :
                 (Talks(w, q, c) \/ Submits(w, q, c)) /\ From(v) = From(w)
        BY <1>0, <1>2, <3>2, OthersAlone DEF Held
      <4>2. pc[w] = "contact" /\ Moves(w, q) BY <1>0, <4>1, TaskMoves
      <4>3. pc'[w] # "contact" BY <1>0, <4>2 DEF Moves, Held, TypeOK
      <4>4. w = v BY <2>3, <4>1, <4>2 DEF Live
      <4>. QED BY <3>1, <3>3, <4>2, <4>3, <4>4
    <3>5. pc[v] = "contact" BY <2>0, <2>4, <3>1
    <3>. QED BY <1>0, <2>2, <2>3, <3>4, <3>5 DEF Alone
  <2>. QED BY <2>2, <2>3, <2>4
<1>3. CASE Crash
  <2>1. \A v \in Update : pc'[v] = IF pc[v] \in Live THEN "done" ELSE pc[v] BY <1>3 DEF Crash
  <2>2. \A v \in Update : pc'[v] \notin Live BY <2>1 DEF Live, Held
  <2>. QED BY <2>2 DEF Alone
<1>4. CASE UNCHANGED vars BY <1>0, <1>4 DEF vars, tasks, Alone, From, Earlier
<1>. QED BY <1>0, <1>1, <1>2, <1>3, <1>4, MoveKinds

LEMMA UnhurriedStep == IInv /\ [Next]_vars => Unhurried'
<1>. SUFFICES ASSUME IInv, [Next]_vars, NEW x \in Patient PROVE Steady(fsm'[x])
  BY DEF Unhurried, Steady, InOrder
<1>0. TypeOK /\ Alone /\ Steady(fsm[x]) /\ x \in Person BY FlowsAssumption DEF IInv, Unhurried
<1>1. CASE fsm'[x] = fsm[x] BY <1>0, <1>1
<1>2. ASSUME NEW u \in Update, NEW p \in {"reply", "lookup"}, NEW c \in Conversation,
             Talks(u, p, c), x = From(u), fsm'[x] = c
      PROVE  Steady(fsm'[x])
  <2>1. pc[u] = "contact" BY <1>0, <1>2, TaskMoves
  <2>2. raw[u] = fsm[From(u)].state /\ Earlier(fsm[From(u)], u)
    BY <1>0, <1>2, <2>1 DEF Alone, Live
  <2>. QED BY <1>0, <1>2, <2>2 DEF Talks
<1>3. CASE fsm'[x] = Over BY <1>3, OpenSteady
<1>4. CASE Crash
  <2>1. fsm'[x] = Over BY <1>0, <1>4 DEF Crash
  <2>. QED BY <2>1, OpenSteady
<1>. QED BY <1>0, <1>1, <1>2, <1>3, <1>4, OthersAlone

LEMMA StaleStep == IInv /\ [Next]_vars => Stale'
<1>. SUFFICES ASSUME IInv, [Next]_vars,
                     NEW v \in Update, pc'[v] = "contact", raw'[v] # Idle, fsm'[From(v)'].state = Idle
              PROVE  v <= fsm'[From(v)'].since
  BY DEF Stale
<1>0. TypeOK /\ Sent /\ Stamps BY DEF IInv
<1>1. ASSUME NEW u \in Update, NEW r \in Request, Arrive(u, r) PROVE v <= fsm'[From(v)'].since
  <2>1. /\ pc' = [pc EXCEPT ![u] = "contact"] /\ req' = [req EXCEPT ![u] = r]
        /\ raw' = [raw EXCEPT ![u] = fsm[r.from].state] /\ fsm' = fsm
    BY <1>0, <1>1, ArriveMoves
  <2>2. v # u BY <1>0, <2>1 DEF TypeOK, From
  <2>3. pc[v] = "contact" /\ From(v)' = From(v) /\ raw'[v] = raw[v]
    BY <1>0, <2>1, <2>2 DEF TypeOK, From
  <2>. QED BY <2>1, <2>3 DEF IInv, Stale
<1>2. ASSUME NEW u \in Update, NEW p \in Held \cup {"done"}, pc[u] \in Live, Moves(u, p), ~Crash
      PROVE  v <= fsm'[From(v)'].since
  <2>1. v # u BY <1>0, <1>2 DEF Moves, Held, TypeOK
  <2>2. pc[v] = "contact" /\ From(v)' = From(v) /\ raw'[v] = raw[v]
    BY <1>0, <1>2, <2>1 DEF Moves, TypeOK, From
  <2>3. From(v) \in Person BY <1>0, <2>2, GivenEntry DEF Live
  <2>4. v <= arrived BY <1>0, <2>2, FlowsAssumption DEF Sent, Update, TypeOK
  <2>5. CASE fsm'[From(v)] = fsm[From(v)] BY <2>2, <2>5 DEF IInv, Stale
  <2>6. CASE fsm'[From(v)] # fsm[From(v)]
    <3>1. fsm'[From(v)].since = arrived
      BY <1>0, <1>2, <2>2, <2>3, <2>6, OthersAlone DEF Talks, Over
    <3>. QED BY <2>2, <2>4, <3>1
  <2>. QED BY <2>5, <2>6
<1>3. ~Crash BY DEF Crash, Live
<1>4. CASE UNCHANGED vars BY <1>4 DEF vars, tasks, From, IInv, Stale
<1>. QED BY <1>0, <1>1, <1>2, <1>3, <1>4, MoveKinds

LEMMA WholeStep == IInv /\ [Next]_vars => SubmitsAreWhole'
<1>. SUFFICES ASSUME IInv, [Next]_vars, NEW v \in Update,
                     pc'[v] \in {"insert", "send", "lost"}, From(v)' \in Patient
              PROVE  pc'[v] # "lost" /\ Sound(draft'[v])
  BY DEF SubmitsAreWhole, Sound, InOrder
<1>0. TypeOK /\ Sent /\ Drafts /\ Alone /\ Unhurried BY DEF IInv
<1>a. pc[v] \in {"insert", "send", "lost"} /\ From(v) \in Patient => pc[v] # "lost" /\ Sound(draft[v])
  BY DEF IInv, SubmitsAreWhole, Sound
<1>b. CASE pc[v] \in {"insert", "send", "lost"} /\ From(v)' = From(v) /\ draft'[v] = draft[v]
           /\ (pc'[v] = pc[v] \/ pc'[v] = "send")
  BY <1>a, <1>b
<1>1. ASSUME NEW u \in Update, NEW r \in Request, Arrive(u, r)
      PROVE  pc'[v] # "lost" /\ Sound(draft'[v])
  <2>1. /\ pc' = [pc EXCEPT ![u] = "contact"] /\ req' = [req EXCEPT ![u] = r] /\ draft' = draft
    BY <1>0, <1>1, ArriveMoves
  <2>. QED BY <1>0, <1>b, <2>1 DEF TypeOK, From
<1>2. ASSUME NEW u \in Update, NEW p \in {"reply", "lookup"}, NEW c \in Conversation, Talks(u, p, c)
      PROVE  pc'[v] # "lost" /\ Sound(draft'[v])
  <2>1. Moves(u, p) /\ draft' = draft BY <1>0, <1>2, TaskMoves DEF Talks
  <2>. QED BY <1>0, <1>b, <2>1 DEF Moves, TypeOK, From
<1>3. ASSUME NEW u \in Update, NEW p \in {"insert", "lost"}, NEW d \in Draft, Submits(u, p, d)
      PROVE  pc'[v] # "lost" /\ Sound(draft'[v])
  <2>1. pc[u] = "contact" /\ Moves(u, p) BY <1>0, <1>3, TaskMoves
  <2>2. draft' = [draft EXCEPT ![u] = d] BY <1>3 DEF Submits
  <2>3. CASE v # u BY <1>0, <1>b, <2>1, <2>2, <2>3 DEF Moves, TypeOK, From
  <2>4. CASE v = u
    <3>1. From(u) \in Patient /\ pc'[v] = p /\ draft'[v] = d
      BY <1>0, <2>1, <2>2, <2>4 DEF Moves, TypeOK, From
    <3>2. raw[u] = fsm[From(u)].state /\ Earlier(fsm[From(u)], u) /\ Steady(fsm[From(u)])
      BY <1>0, <2>1, <3>1 DEF Alone, Unhurried, Live
    <3>. QED BY <1>3, <3>1, <3>2 DEF Submits
  <2>. QED BY <2>3, <2>4
<1>4. ASSUME NEW u \in Update, Insert(u) PROVE pc'[v] # "lost" /\ Sound(draft'[v])
  <2>1. pc[u] = "insert" /\ Moves(u, "send") /\ draft' = draft BY <1>0, <1>4, TaskMoves
  <2>. QED BY <1>0, <1>b, <2>1 DEF Moves, TypeOK, From
<1>5. ASSUME NEW u \in Update, Commit(u) \/ Rollback(u) PROVE pc'[v] # "lost" /\ Sound(draft'[v])
  <2>1. Moves(u, "done") /\ draft' = [draft EXCEPT ![u] = None] BY <1>0, <1>5, TaskMoves
  <2>. QED BY <1>0, <1>b, <2>1 DEF Moves, TypeOK, From
<1>6. ~Crash BY DEF Crash, Live, Held
<1>7. ASSUME UNCHANGED vars PROVE pc'[v] # "lost" /\ Sound(draft'[v])
  BY <1>b, <1>7 DEF vars, tasks, From
<1>. QED BY <1>0, <1>1, <1>2, <1>3, <1>4, <1>5, <1>6, <1>7, Kinds

---------------------------------------------------------------------------

LEMMA InvInit == Init => IInv
<1>. SUFFICES ASSUME Init PROVE IInv
  OBVIOUS
<1>1. TypeOK BY TypeInit
<1>2. /\ \A u \in Update : pc[u] = "unsent" /\ draft[u] = None
      /\ arrived = 0 /\ acts = {} /\ fsm \in FirstState
  BY DEF Init
<1>3. \A x \in Person :
        /\ x \in Patient => Steady(fsm[x])
        /\ fsm[x].since = 0
        /\ \A k \in Key : fsm[x].data[k] # None => fsm[x].data[k].by = 0
  BY <1>2, FlowsAssumption
<1>4. "unsent" \notin Live /\ "unsent" \notin Held BY DEF Live, Held
<1>5. Sent BY <1>2, FlowsAssumption DEF Sent, Update
<1>6. Serial /\ Drafts /\ Apart /\ Numbered /\ Alone
  BY <1>2, <1>4 DEF Serial, Drafts, Apart, Numbered, HoldsNumber, Alone
<1>7. Stamps
  <2>1. 0 \in Used BY DEF Used
  <2>2. \A x \in Person : fsm[x].since \in 0 .. arrived /\ ByUsed(fsm[x].data)
    BY <1>2, <1>3, <2>1 DEF ByUsed
  <2>. QED BY <1>2, <2>2 DEF Stamps
<1>8. Unhurried BY <1>3, FlowsAssumption DEF Unhurried
<1>9. OneCardPerNumber /\ EachValueUsedOnce
  BY <1>2 DEF OneCardPerNumber, Cards, EachValueUsedOnce
<1>10. SubmitsAreWhole /\ Stale BY <1>2 DEF SubmitsAreWhole, Stale
<1>. QED BY <1>1, <1>5, <1>6, <1>7, <1>8, <1>9, <1>10 DEF IInv

LEMMA InvStep == IInv /\ [Next]_vars => IInv'
BY TypeStep, SentStep, SerialStep, DraftsStep, StampsStep, ApartStep, NumberedStep, AloneStep,
   UnhurriedStep, StaleStep, OneCardStep, UsedOnceStep, WholeStep DEF IInv

\* The invariant behind the others: who holds a row, which updates the stored
\* values come from, and that no value is both stored and used.
THEOREM Inductive == Spec => []IInv
BY InvInit, InvStep, PTL DEF Spec

\* Every variable of Flows keeps its type.
THEOREM TypeCorrect == Spec => []TypeOK
<1>1. IInv => TypeOK BY DEF IInv
<1>. QED BY <1>1, Inductive, PTL

\* No two cards carry one bank number (services/cards.py, issue_card).
THEOREM Uniqueness == Spec => []OneCardPerNumber
<1>1. IInv => OneCardPerNumber BY DEF IInv
<1>. QED BY <1>1, Inductive, PTL

\* No value makes two acts: not for somebody who sends a last step twice either.
THEOREM UsedOnce == Spec => []EachValueUsedOnce
<1>1. IInv => EachValueUsedOnce BY DEF IInv
<1>. QED BY <1>1, Inductive, PTL

\* A finished flow of somebody who waits for answers acts, on the values of this
\* conversation, whatever earlier ones have left behind.
THEOREM Wholeness == Spec => []SubmitsAreWhole
<1>1. IInv => SubmitsAreWhole BY DEF IInv
<1>. QED BY <1>1, Inductive, PTL

\* Who is in a flow again has opened it, or sent the update before the flow ended.
LEMMA EscapedStep ==
  IInv /\ [Next]_vars =>
    [ \A p \in Person : fsm[p].state = Idle /\ fsm'[p].state # Idle =>
        \E u \in Update : Reopens(p, u) /\ (req[u].op = "open" \/ u <= fsm[p].since) ]_vars
<1>. SUFFICES ASSUME IInv, [Next]_vars, NEW x \in Person, fsm[x].state = Idle, fsm'[x].state # Idle
              PROVE  \E u \in Update : Reopens(x, u) /\ (req[u].op = "open" \/ u <= fsm[x].since)
  OBVIOUS
<1>0. TypeOK /\ Stale BY DEF IInv
<1>1. Over.state = Idle BY DEF Over
<1>2. ~Crash BY <1>1 DEF Crash
<1>3. PICK u \in Update, p \in {"reply", "lookup"}, c \in Conversation :
        Talks(u, p, c) /\ x = From(u) /\ fsm'[x] = c
  BY <1>0, <1>1, <1>2, OthersAlone
<1>4. pc[u] = "contact" /\ Moves(u, p) BY <1>0, <1>3, TaskMoves
<1>5. p = "reply" /\ (raw[u] # Idle \/ req[u].op = "open") BY <1>3 DEF Talks
<1>6. pc'[u] = "reply" BY <1>0, <1>4, <1>5 DEF Moves, TypeOK
<1>7. raw[u] # Idle => u <= fsm[x].since BY <1>0, <1>3, <1>4 DEF Stale
<1>. QED BY <1>3, <1>4, <1>5, <1>6, <1>7 DEF Reopens

\* /start, cancel, every other end of a flow and a restart put nobody back who
\* had no other update on its way (handlers/menu.py).
THEOREM Escaped == Spec => StaysEscaped
BY Inductive, EscapedStep, PTL DEF Spec, StaysEscaped

=============================================================================
