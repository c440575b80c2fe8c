------------------------------- MODULE History -------------------------------
(***************************************************************************)
(* Reading the audit log: pages of it, newest first, turned with buttons   *)
(* that carry a page number, while other transactions go on adding lines.  *)
(*                                                                         *)
(* A page is two queries, a count and a fetch, each seeing what has been   *)
(* committed by then. On PostgreSQL a line's created_at is the time its    *)
(* transaction began, so lines do not appear in the order of that time. On *)
(* SQLite a writer has the database to itself, a reader among them, since  *)
(* every update starts by writing down its sender.                         *)
(***************************************************************************)
EXTENDS Integers, FiniteSets

CONSTANTS
  Person,      \* the people in the lines
  Involved,    \* the sets of people, actor and target, that new lines have
  Searched,    \* the people whose history is asked for
  Everyone,    \* HistoryCb.who = 0: no filter
  Message,     \* messages that show a page; each keeps its buttons
  Writer,      \* transactions that add a line
  FirstLog,    \* the lines there are at the start
  PageSize,    \* PAGE_SIZE
  MaxLines,    \* bound on the lines ever added
  MaxClock,    \* bound on the clock
  MaxPresses   \* bound on the buttons pressed

\* people: the actor and the target, as far as there are any.
Line == [at : Nat, id : Nat, people : SUBSET Person]

ASSUME HistoryAssumption ==
  /\ Everyone \notin Person /\ Involved \subseteq SUBSET Person /\ Searched \subseteq Person
  /\ Message # {} /\ PageSize \in Nat \ {0}
  /\ MaxLines \in Nat /\ MaxClock \in Nat /\ MaxPresses \in Nat
  /\ FirstLog \subseteq Line /\ IsFiniteSet(FirstLog)
  /\ \A x \in FirstLog : x.at = 0 /\ x.id <= Cardinality(FirstLog)
  /\ \A x, y \in FirstLog : x.id = y.id => x = y

VARIABLES
  exclusive,  \* the database is SQLite
  log,      \* the lines committed
  nextId,   \* the sequence of ids; a rolled-back line leaves a hole
  clock,    \* the database's clock
  writing,  \* each writer's transaction, with the line it is to add
  pressed,  \* buttons pressed and not yet handled
  presses,  \* how many were
  handling, \* the update being handled, between its two queries
  screen,   \* what each message shows
  since,    \* the lines there were when a message first showed a history
  seen      \* the lines it has shown

store == <<log, nextId, clock, writing, exclusive>>
vars == <<store, pressed, presses, handling, screen, since, seen>>

Who == Searched \cup {Everyone}

Involves(x, who) == who = Everyone \/ who \in x.people

Matching(lines, who) == {x \in lines : Involves(x, who)}

\* Mutant: ORDER BY without desc().
BelowInstead(x, y) == x.at < y.at \/ (x.at = y.at /\ x.id < y.id)

\* ORDER BY created_at DESC, id DESC.
Above(x, y) == x.at > y.at \/ (x.at = y.at /\ x.id > y.id)

Position(x, lines) == Cardinality({y \in lines : Above(y, x)})

\* OFFSET page * PAGE_SIZE LIMIT PAGE_SIZE.
Page(lines, page) ==
  {x \in lines : page * PageSize <= Position(x, lines) /\ Position(x, lines) < (page + 1) * PageSize}

\* Mutant: the last page is only there when it is full.
FullPages(total) == IF total < PageSize THEN 1 ELSE total \div PageSize

Pages(total) == IF total = 0 THEN 1 ELSE (total + PageSize - 1) \div PageSize

Clamp(page, pages) == IF page < 0 THEN 0 ELSE IF page < pages THEN page ELSE pages - 1

NoScreen == [who |-> Everyone, page |-> 0, pages |-> 0, total |-> 0, lines |-> {}, slipped |-> 0]

\* Mutant: an older page is offered at the last one.
OfferedPastTheEnd(s) ==
  {p \in {s.page - 1, s.page + 1} : s.pages > 0 /\ p >= 0 /\ p <= s.pages}

\* Mutant: a newer page is offered at the first one.
OfferedBelowZero(s) == {p \in {s.page - 1, s.page + 1} : p < s.pages}

\* The paging buttons of history_nav.
Offered(s) == {p \in {s.page - 1, s.page + 1} : p >= 0 /\ p < s.pages}

NoUpdate == [message |-> CHOOSE m \in Message : TRUE, who |-> Everyone, asked |-> 0,
             page |-> 0, total |-> 0, slipped |-> 0, busy |-> FALSE]

Rest == [state |-> "idle", at |-> 0, id |-> 0, people |-> {}, met |-> 0]

LineOf(w) == [at |-> writing[w].at, id |-> writing[w].id, people |-> writing[w].people]

\* Nobody holds SQLite's lock.
Free == ~handling.busy /\ \A w \in Writer : writing[w].state = "idle"

Init ==
  /\ exclusive \in BOOLEAN /\ log = FirstLog /\ nextId = Cardinality(FirstLog) + 1 /\ clock = 0
  /\ writing = [w \in Writer |-> Rest]
  /\ pressed = {} /\ presses = 0 /\ handling = NoUpdate
  /\ screen = [m \in Message |-> NoScreen]
  /\ since = [m \in Message |-> [w \in Who |-> {}]]
  /\ seen = since

---------------------------------------------------------------------------
(* Writing a line *)

reading == <<pressed, presses, screen, since, seen, exclusive>>

\* The time the database gives to now() in a transaction.
Begin(w, people) ==
  /\ writing[w].state = "idle" /\ (exclusive => Free)
  /\ writing' = [writing EXCEPT ![w] = [state |-> "begun", at |-> clock, id |-> 0,
                                        people |-> people, met |-> 0]]
  /\ UNCHANGED <<log, nextId, clock, handling, reading>>

\* The flush takes an id; SQLite's CURRENT_TIMESTAMP is the time of the INSERT.
Add(w) ==
  /\ writing[w].state = "begun" /\ nextId <= Cardinality(FirstLog) + MaxLines
  /\ writing' = [writing EXCEPT ![w].state = "added", ![w].id = nextId,
                                ![w].at = IF exclusive THEN clock ELSE @]
  /\ nextId' = nextId + 1
  /\ UNCHANGED <<log, clock, handling, reading>>

\* The line is there for every query from now on. (met and slipped count what
\* is committed meanwhile, for the properties.)
Commit(w) ==
  /\ writing[w].state = "added"
  /\ log' = log \cup {LineOf(w)}
  /\ writing' = [v \in Writer |-> IF v = w THEN Rest ELSE
                   IF writing[v].state = "idle" THEN writing[v]
                   ELSE [writing[v] EXCEPT !.met = @ + 1]]
  /\ handling' = IF handling.busy THEN [handling EXCEPT !.slipped = @ + 1] ELSE handling
  /\ UNCHANGED <<nextId, clock, reading>>

Rollback(w) ==
  /\ writing[w].state # "idle"
  /\ writing' = [writing EXCEPT ![w] = Rest]
  /\ UNCHANGED <<log, nextId, clock, handling, reading>>

Tick ==
  /\ clock < MaxClock /\ clock' = clock + 1
  /\ UNCHANGED <<log, nextId, writing, handling, reading>>

---------------------------------------------------------------------------
(* Reading *)

Request(m, who, page) ==
  /\ presses < MaxPresses /\ presses' = presses + 1
  /\ pressed' = pressed \cup {[message |-> m, who |-> who, page |-> page]}
  /\ UNCHANGED <<store, handling, screen, since, seen>>

\* open_history, or person_got_target's answer: the first page.
Open(m, who) == Request(m, who, 0)

\* A paging button, which stays until the message is edited.
Turn(m) == \E page \in Offered(screen[m]) : Request(m, screen[m].who, page)

\* audit.history: the count. One reader's updates wait for each other, as each
\* holds the reader's row, and come in no particular order.
Count(r) ==
  /\ r \in pressed /\ ~handling.busy /\ (exclusive => Free)
  /\ pressed' = pressed \ {r}
  /\ LET total == Cardinality(Matching(log, r.who))
     IN handling' = [message |-> r.message, who |-> r.who, asked |-> r.page,
                     page |-> Clamp(r.page, Pages(total)), total |-> total,
                     slipped |-> 0, busy |-> TRUE]
  /\ UNCHANGED <<store, presses, screen, since, seen>>

\* And the page, which _page_screen shows with the buttons of the count.
Fetch ==
  LET m     == handling.message
      lines == Matching(log, handling.who)
      found == Page(lines, handling.page)
      first == handling.page = 0 /\ seen[m][handling.who] = {}
  IN /\ handling.busy /\ handling' = NoUpdate
     /\ screen' = [screen EXCEPT ![m] =
          [who |-> handling.who, page |-> handling.page, pages |-> Pages(handling.total),
           total |-> handling.total, lines |-> found, slipped |-> handling.slipped]]
     /\ since' = IF first THEN [since EXCEPT ![m][handling.who] = lines] ELSE since
     /\ seen' = [seen EXCEPT ![m][handling.who] = @ \cup found]
     /\ UNCHANGED <<store, pressed, presses>>

\* The edit does not get through, or the update fails in another way.
Lose ==
  /\ handling.busy /\ handling' = NoUpdate
  /\ UNCHANGED <<store, pressed, presses, screen, since, seen>>

Next ==
  \/ \E w \in Writer, people \in Involved : Begin(w, people)
  \/ \E w \in Writer : Add(w) \/ Commit(w) \/ Rollback(w)
  \/ Tick
  \/ \E m \in Message, who \in Who : Open(m, who)
  \/ \E m \in Message : Turn(m)
  \/ \E r \in pressed : Count(r)
  \/ Fetch
  \/ Lose

Spec == Init /\ [][Next]_vars

---------------------------------------------------------------------------
(* Properties *)

Ids == Cardinality(FirstLog) + MaxLines

\* Every variable keeps its type.
TypeOK ==
  /\ exclusive \in BOOLEAN /\ log \subseteq Line /\ nextId \in 1 .. Ids + 1 /\ clock \in 0 .. MaxClock
  /\ writing \in [Writer -> [state : {"idle", "begun", "added"}, at : Nat, id : Nat,
                             people : SUBSET Person, met : Nat]]
  /\ pressed \subseteq [message : Message, who : Who, page : Nat]
  /\ handling \in [message : Message, who : Who, asked : Nat, page : Nat, total : Nat,
                   slipped : Nat, busy : BOOLEAN]
  /\ screen \in [Message -> [who : Who, page : Nat, pages : Nat, total : Nat,
                             lines : SUBSET Line, slipped : Nat]]
  /\ presses \in 0 .. MaxPresses
  /\ since \in [Message -> [Who -> SUBSET Line]] /\ seen \in [Message -> [Who -> SUBSET Line]]

\* Somebody who opens the history and presses "older" until there is no such
\* button has been shown every line there was when they began, whatever was
\* added at the top or in the middle, however often buttons were pressed and in
\* whatever order they were handled. Missing are at most as many lines as were
\* committed between the count and the fetch of the last page.
ReadThrough ==
  \A m \in Message :
    LET s == screen[m] IN
    s.pages > 0 /\ s.page + 1 >= s.pages =>
      Cardinality(since[m][s.who] \ seen[m][s.who]) <= s.slipped

\* A page shows at least the lines its count promised, so the text for an empty
\* history never stands under a total; and the page shown is the one the button
\* named, at whatever time it was pressed.
PageAsCounted ==
  /\ handling.busy => handling.page = handling.asked
  /\ \A m \in Message :
       LET s == screen[m]
           left == s.total - s.page * PageSize
       IN Cardinality(s.lines) >= (IF left < PageSize THEN left ELSE PageSize)

\* A new line appears above all others on SQLite; on PostgreSQL it appears below
\* no more lines than were committed while its own transaction ran.
NewLinesNearTop ==
  [][\A x \in log' \ log : \A w \in Writer : x = LineOf(w) =>
       Position(x, log') <= IF exclusive THEN 0 ELSE writing[w].met]_vars

=============================================================================
