---------------------------- MODULE HistoryProofs ----------------------------
(***************************************************************************)
(* That paging through the audit log shows it whole, for every page size,  *)
(* any number of lines, writers and messages.                              *)
(***************************************************************************)
EXTENDS History, TLAPS, FiniteSetTheorems

---------------------------------------------------------------------------
(* Lines in order *)

\* A set of lines is ordered by Above when it is finite and no two have an id
\* in common.
Ordered(lines) ==
  /\ lines \subseteq Line /\ IsFiniteSet(lines)
  /\ \A x, y \in lines : x.id = y.id => x = y

Before(x, lines) == {y \in lines : Above(y, x)}

LEMMA OrderedSubset ==
  ASSUME NEW lines, Ordered(lines), NEW part \in SUBSET lines
  PROVE  Ordered(part) /\ Cardinality(part) \in Nat /\ Cardinality(part) <= Cardinality(lines)
BY FS_Subset, FS_CardinalityType DEF Ordered

LEMMA AboveIsTotal ==
  ASSUME NEW lines, Ordered(lines)
  PROVE  /\ \A x, y \in lines : x = y \/ Above(x, y) \/ Above(y, x)
         /\ \A x \in lines : ~Above(x, x)
         /\ \A x, y, z \in lines : Above(x, y) /\ Above(y, z) => Above(x, z)
BY DEF Ordered, Above, Line

\* A position is a natural number below the number of lines.
LEMMA PositionType ==
  ASSUME NEW lines, Ordered(lines), NEW x
  PROVE  /\ Position(x, lines) \in Nat
         /\ x \in lines => Position(x, lines) < Cardinality(lines)
<1>1. Before(x, lines) \in SUBSET lines
  BY DEF Before
<1>2. Position(x, lines) = Cardinality(Before(x, lines))
  BY DEF Position, Before
<1>3. Position(x, lines) \in Nat /\ Position(x, lines) <= Cardinality(lines)
  BY <1>1, <1>2, OrderedSubset
<1>4. ASSUME x \in lines PROVE Position(x, lines) # Cardinality(lines)
  <2>1. Before(x, lines) # lines
    BY <1>4, AboveIsTotal DEF Before
  <2> QED BY <1>1, <1>2, <2>1, FS_Subset DEF Ordered
<1>5. Cardinality(lines) \in Nat
  BY FS_CardinalityType DEF Ordered
<1> QED BY <1>3, <1>4, <1>5

\* Of two lines the upper one has the smaller position.
LEMMA PositionGrows ==
  ASSUME NEW lines, Ordered(lines), NEW x \in lines, NEW y \in lines, Above(x, y)
  PROVE  Position(x, lines) < Position(y, lines)
<1>1. Before(x, lines) \subseteq Before(y, lines) /\ x \in Before(y, lines) /\ x \notin Before(x, lines)
  BY AboveIsTotal DEF Before
<1>2. IsFiniteSet(Before(y, lines))
  BY FS_Subset DEF Before, Ordered
<1>3. Cardinality(Before(x, lines)) <= Cardinality(Before(y, lines))
      /\ Cardinality(Before(x, lines)) # Cardinality(Before(y, lines))
  BY <1>1, <1>2, FS_Subset
<1>4. /\ Position(x, lines) = Cardinality(Before(x, lines))
      /\ Position(y, lines) = Cardinality(Before(y, lines))
  BY DEF Position, Before
<1> QED BY <1>3, <1>4, PositionType

Places(lines) == [x \in lines |-> Position(x, lines)]

\* Every place from the first to the last is taken by exactly one line.
LEMMA PlacesAreTaken ==
  ASSUME NEW lines, Ordered(lines)
  PROVE  Places(lines) \in Bijection(lines, 0 .. Cardinality(lines) - 1)
<1> DEFINE n == Cardinality(lines)
<1>1. n \in Nat /\ IsFiniteSet(0 .. n - 1) /\ Cardinality(0 .. n - 1) = n
  <2>1. n \in Nat
    BY FS_CardinalityType DEF Ordered
  <2> HIDE DEF n
  <2> QED BY <2>1, FS_Interval
<1>2. Places(lines) \in [lines -> 0 .. n - 1]
  BY <1>1, PositionType DEF Places
<1>3. \A x, y \in lines : Places(lines)[x] = Places(lines)[y] => x = y
  BY AboveIsTotal, PositionGrows, PositionType DEF Places
<1>4. Places(lines) \in Injection(lines, 0 .. n - 1)
  BY <1>2, <1>3 DEF Injection, IsInjective
<1>5. Places(lines) \in Surjection(lines, 0 .. n - 1)
  BY <1>1, <1>4, FS_Injection
<1> QED BY <1>4, <1>5 DEF Bijection

\* As many lines as places, in any interval of places.
LEMMA LinesBetween ==
  ASSUME NEW lines, Ordered(lines), NEW i \in Int, NEW j \in Int, 0 <= i, j <= Cardinality(lines)
  PROVE  Cardinality({x \in lines : i <= Position(x, lines) /\ Position(x, lines) < j})
           = IF i >= j THEN 0 ELSE j - i
<1> DEFINE part == {x \in lines : i <= Position(x, lines) /\ Position(x, lines) < j}
           places == i .. j - 1
           f == [x \in part |-> Position(x, lines)]
<1>0. Cardinality(lines) \in Nat
  BY FS_CardinalityType DEF Ordered
<1>1. IsFiniteSet(part)
  BY FS_Subset DEF Ordered
<1>2. f \in [part -> places]
  BY PositionType
<1>3. \A x, y \in part : f[x] = f[y] => x = y
  BY AboveIsTotal, PositionGrows, PositionType
<1>4. \A k \in places : \E x \in part : f[x] = k
  <2> TAKE k \in places
  <2>1. k \in 0 .. Cardinality(lines) - 1
    BY <1>0
  <2>2. PICK x \in lines : Position(x, lines) = k
    BY <2>1, PlacesAreTaken DEF Bijection, Surjection, Places
  <2> QED BY <2>2
<1>5. f \in Bijection(part, places)
  BY <1>2, <1>3, <1>4 DEF Bijection, Injection, Surjection, IsInjective
<1>6. ExistsBijection(part, places)
  BY <1>5 DEF ExistsBijection
<1>7. Cardinality(part) = Cardinality(places)
  BY <1>1, <1>6, FS_Bijection
<1>8. Cardinality(places) = IF i > j - 1 THEN 0 ELSE j - 1 - i + 1
  BY FS_Interval
<1> QED BY <1>7, <1>8

---------------------------------------------------------------------------
(* Pages *)

LEMMA TimesPageSize ==
  ASSUME NEW i \in Int, NEW j \in Int, i <= j
  PROVE  i * PageSize \in Int /\ j * PageSize \in Int /\ i * PageSize <= j * PageSize
<1>1. PageSize \in Int /\ PageSize >= 0
  BY HistoryAssumption
<1>2. PICK d \in Nat : j = i + d
  <2>1. j - i \in Nat /\ j = i + (j - i)
    OBVIOUS
  <2> QED BY <2>1
<1>3. j * PageSize = i * PageSize + d * PageSize /\ d * PageSize >= 0
  BY <1>1, <1>2
<1> QED BY <1>1, <1>3

\* There is a first page; a page is there when a line belongs on it; the last
\* page takes the last line.
LEMMA PagesBounds ==
  ASSUME NEW total \in Nat
  PROVE  /\ Pages(total) \in Nat \ {0}
         /\ \A p \in Nat : p < Pages(total) => p = 0 \/ p * PageSize < total
         /\ \A p \in Nat : p + 1 >= Pages(total) => total <= (p + 1) * PageSize
<1>1. PageSize \in Nat \ {0}
  BY HistoryAssumption
<1>2. CASE total = 0
  <2>1. Pages(total) = 1
    BY <1>2 DEF Pages
  <2>2. \A p \in Nat : 0 <= (p + 1) * PageSize
    BY <1>1
  <2> QED BY <1>2, <2>1, <2>2
<1>3. CASE total # 0
  <2> DEFINE q == (total + PageSize - 1) \div PageSize
             r == (total + PageSize - 1) % PageSize
  <2>1. Pages(total) = q
    BY <1>3 DEF Pages
  <2>2. /\ q \in Int /\ r \in Int /\ 0 <= r /\ r < PageSize
        /\ total + PageSize - 1 = PageSize * q + r
    BY <1>1
  <2> HIDE DEF q, r
  <2>3. q * PageSize >= total /\ q * PageSize < total + PageSize
    BY <1>1, <2>2
  <2>4. q > 0
    <3>1. CASE q <= 0
      BY <1>1, <1>3, <2>2, <2>3, <3>1, TimesPageSize
    <3> QED BY <2>2, <3>1
  <2>5. ASSUME NEW p \in Nat, p < q PROVE p * PageSize < total
    <3>1. p * PageSize <= (q - 1) * PageSize
      BY <2>2, <2>5, TimesPageSize
    <3>2. (q - 1) * PageSize = q * PageSize - PageSize
      BY <1>1, <2>2
    <3> QED BY <1>1, <2>2, <2>3, <3>1, <3>2
  <2>6. ASSUME NEW p \in Nat, p + 1 >= q PROVE total <= (p + 1) * PageSize
    BY <1>1, <2>2, <2>3, <2>6, TimesPageSize
  <2> QED BY <2>1, <2>2, <2>4, <2>5, <2>6
<1> QED BY <1>2, <1>3

LEMMA PagesGrow ==
  ASSUME NEW i \in Nat, NEW j \in Nat, i <= j
  PROVE  Pages(i) <= Pages(j)
<1>1. CASE Pages(i) > Pages(j)
  <2>1. Pages(i) \in Nat \ {0} /\ Pages(j) \in Nat \ {0}
    BY PagesBounds
  <2> DEFINE p == Pages(i) - 1
  <2>2. p \in Nat /\ p < Pages(i) /\ p # 0 /\ p - 1 \in Nat /\ p - 1 + 1 >= Pages(j)
    BY <1>1, <2>1
  <2> HIDE DEF p
  <2>3. p * PageSize < i
    BY <2>2, PagesBounds
  <2>4. j <= (p - 1 + 1) * PageSize
    BY <2>2, PagesBounds
  <2>5. p - 1 + 1 = p
    BY <2>2
  <2>6. p * PageSize \in Int
    BY <2>2, HistoryAssumption
  <2> QED BY <2>3, <2>4, <2>5, <2>6
<1> QED BY <1>1, PagesBounds

---------------------------------------------------------------------------
(* Writing *)

StoreTypes ==
  /\ exclusive \in BOOLEAN /\ log \subseteq Line /\ nextId \in 1 .. Ids + 1 /\ clock \in 0 .. MaxClock
  /\ writing \in [Writer -> [state : {"idle", "begun", "added"}, at : Nat, id : Nat,
                             people : SUBSET Person, met : Nat]]

\* Ids are given once, in their order, and no line is ahead of the clock.
Stamped ==
  /\ Ordered(log)
  /\ \A x \in log : x.id < nextId /\ x.at <= clock
  /\ \A w \in Writer :
       /\ writing[w].at <= clock
       /\ writing[w].state # "added" => writing[w].id = 0
       /\ writing[w].state = "added" =>
            /\ writing[w].id \in 1 .. nextId - 1
            /\ \A x \in log : x.id # writing[w].id
            /\ \A v \in Writer : writing[v].id = writing[w].id => v = w

\* The line a writer is to add, under the id it has or would get now.
Due(w) ==
  [at |-> writing[w].at, people |-> writing[w].people,
   id |-> IF writing[w].state = "added" THEN writing[w].id ELSE nextId]

\* What would stand above it: nothing on SQLite, where it writes alone; on
\* PostgreSQL only what has been committed since its transaction began.
NearTop ==
  /\ exclusive =>
       /\ \A w, v \in Writer : writing[w].state # "idle" /\ writing[v].state # "idle" => v = w
       /\ \A w \in Writer : writing[w].state = "added" => Before(Due(w), log) = {}
  /\ ~exclusive =>
       \A w \in Writer : writing[w].state # "idle" => Cardinality(Before(Due(w), log)) <= writing[w].met

StoreInv == StoreTypes /\ Stamped /\ NearTop

LEMMA FirstIds == Cardinality(FirstLog) \in Nat /\ Ids \in Nat
BY HistoryAssumption, FS_CardinalityType DEF Ids

LEMMA StoreInit == Init => StoreInv
<1> SUFFICES ASSUME Init PROVE StoreInv
  OBVIOUS
<1>1. StoreTypes
  <2>1. nextId \in 1 .. Ids + 1
    BY FirstIds, HistoryAssumption DEF Init, Ids
  <2>2. clock \in 0 .. MaxClock /\ exclusive \in BOOLEAN /\ log \subseteq Line
    BY HistoryAssumption DEF Init
  <2>3. writing \in [Writer -> [state : {"idle", "begun", "added"}, at : Nat, id : Nat,
                               people : SUBSET Person, met : Nat]]
    BY DEF Init, Rest
  <2> QED BY <2>1, <2>2, <2>3 DEF StoreTypes
<1>2. Stamped
  BY FirstIds, HistoryAssumption DEF Init, Stamped, Ordered, Rest, Line
<1>3. NearTop
  BY DEF Init, NearTop, Rest
<1> QED BY <1>1, <1>2, <1>3 DEF StoreInv

\* A transaction begins: all lines are as old as it, or older.
LEMMA BeginStore ==
  ASSUME StoreInv, NEW w \in Writer, NEW people \in Involved, Begin(w, people)
  PROVE  StoreInv' /\ log' = log
<1>1. /\ log' = log /\ nextId' = nextId /\ clock' = clock /\ exclusive' = exclusive
      /\ writing[w].state = "idle" /\ (exclusive => Free)
      /\ writing' = [writing EXCEPT ![w] = [state |-> "begun", at |-> clock, id |-> 0,
                                            people |-> people, met |-> 0]]
  BY DEF Begin, reading
<1>2. StoreTypes'
  BY <1>1, HistoryAssumption DEF StoreInv, StoreTypes
<1>3. Stamped'
  BY <1>1, <1>2 DEF StoreInv, StoreTypes, Stamped
<1>4. \A v \in Writer : v # w => writing'[v] = writing[v] /\ Due(v)' = Due(v)
  BY <1>1 DEF StoreInv, StoreTypes, Due
<1>5. /\ writing'[w].state = "begun" /\ writing'[w].met = 0
      /\ Due(w)' = [at |-> clock, people |-> people, id |-> nextId]
  BY <1>1 DEF StoreInv, StoreTypes, Due
<1>6. Before(Due(w)', log) = {}
  BY <1>5 DEF StoreInv, StoreTypes, Stamped, Before, Above, Line
<1>7. NearTop'
  <2>1. \A v \in Writer : Before(Due(v), log)' = IF v = w THEN {} ELSE Before(Due(v), log)
    BY <1>1, <1>4, <1>6 DEF Before
  <2>2. ASSUME exclusive PROVE \A v \in Writer : v # w => writing'[v].state = "idle"
    BY <1>1, <1>4, <2>2 DEF Free
  <2>3. ASSUME exclusive', NEW v \in Writer, writing'[v].state = "added"
        PROVE  Before(Due(v), log)' = {}
    BY <1>1, <1>5, <2>1, <2>2, <2>3
  <2>4. ASSUME ~exclusive', NEW v \in Writer, writing'[v].state # "idle"
        PROVE  Cardinality(Before(Due(v), log)') <= writing'[v].met
    <3>1. CASE v = w
      BY <1>5, <2>1, <3>1, FS_EmptySet
    <3>2. CASE v # w
      BY <1>1, <1>4, <2>1, <2>4, <3>2 DEF StoreInv, NearTop
    <3> QED BY <3>1, <3>2
  <2> QED BY <1>1, <2>2, <2>3, <2>4 DEF NearTop
<1> QED BY <1>1, <1>2, <1>3, <1>7 DEF StoreInv

\* An id is taken: it is above all that are in the log.
LEMMA AddStore ==
  ASSUME StoreInv, NEW w \in Writer, Add(w)
  PROVE  StoreInv' /\ log' = log
<1>1. /\ log' = log /\ nextId' = nextId + 1 /\ clock' = clock /\ exclusive' = exclusive
      /\ writing[w].state = "begun" /\ nextId <= Ids
      /\ writing' = [writing EXCEPT ![w].state = "added", ![w].id = nextId,
                                    ![w].at = IF exclusive THEN clock ELSE @]
  BY DEF Add, reading, Ids
<1>2. nextId \in Nat \ {0} /\ clock \in Nat /\ exclusive \in BOOLEAN /\ log \subseteq Line
      /\ writing[w].at \in Nat /\ Ids \in Nat
  BY HistoryAssumption, FirstIds DEF StoreInv, StoreTypes
<1>3. /\ writing'[w].state = "added" /\ writing'[w].id = nextId /\ writing'[w].met = writing[w].met
      /\ writing'[w].at = (IF exclusive THEN clock ELSE writing[w].at)
      /\ writing'[w].people = writing[w].people
  BY <1>1 DEF StoreInv, StoreTypes
<1>4. \A v \in Writer : v # w => writing'[v] = writing[v]
  BY <1>1 DEF StoreInv, StoreTypes
<1>5. StoreTypes'
  <2>1. nextId' \in 1 .. Ids + 1
    BY <1>1, <1>2
  <2>2. writing' \in [Writer -> [state : {"idle", "begun", "added"}, at : Nat, id : Nat,
                                 people : SUBSET Person, met : Nat]]
    <3>1. writing[w] \in [state : {"idle", "begun", "added"}, at : Nat, id : Nat,
                          people : SUBSET Person, met : Nat]
      BY DEF StoreInv, StoreTypes
    <3>2. writing'[w] \in [state : {"idle", "begun", "added"}, at : Nat, id : Nat,
                           people : SUBSET Person, met : Nat]
      <4>1. writing'[w] = [[[writing[w] EXCEPT !.state = "added"] EXCEPT !.id = nextId]
                             EXCEPT !.at = IF exclusive THEN clock ELSE @]
        BY <1>1 DEF StoreInv, StoreTypes
      <4> QED BY <1>2, <3>1, <4>1
    <3>3. writing' = [v \in Writer |-> IF v = w THEN writing'[w] ELSE writing[v]]
      BY <1>1 DEF StoreInv, StoreTypes
    <3> QED BY <3>2, <3>3 DEF StoreInv, StoreTypes
  <2> QED BY <1>1, <2>1, <2>2 DEF StoreInv, StoreTypes
<1>6. Stamped'
  <2>1. Ordered(log)' /\ \A x \in log' : x.id < nextId' /\ x.at <= clock'
    BY <1>1, <1>2 DEF StoreInv, Stamped, Ordered, Line
  <2>2. ASSUME NEW v \in Writer
        PROVE  /\ writing'[v].at <= clock'
               /\ writing'[v].state # "added" => writing'[v].id = 0
               /\ writing'[v].state = "added" =>
                    /\ writing'[v].id \in 1 .. nextId' - 1
                    /\ \A x \in log' : x.id # writing'[v].id
                    /\ \A u \in Writer : writing'[u].id = writing'[v].id => u = v
    <3>1. CASE v = w
      <4>1. \A u \in Writer : u # w => writing[u].id # nextId
        BY <1>2 DEF StoreInv, Stamped
      <4>2. \A x \in log : x.id # nextId
        BY <1>2 DEF StoreInv, Stamped, Line
      <4>3. writing'[w].at <= clock
        BY <1>2, <1>3 DEF StoreInv, Stamped
      <4>4. \A u \in Writer : writing'[u].id = nextId => u = w
        BY <1>4, <4>1
      <4>5. nextId \in 1 .. nextId' - 1
        BY <1>1, <1>2
      <4> QED BY <1>1, <1>3, <3>1, <4>2, <4>3, <4>4, <4>5
    <3>2. CASE v # w
      <4>1. writing[v].state = "added" => writing[v].id # nextId /\ writing[v].id \in 1 .. nextId
        BY <1>2 DEF StoreInv, Stamped
      <4>2. writing'[v] = writing[v] /\ writing[v].at <= clock
        BY <1>4, <3>2 DEF StoreInv, Stamped
      <4>3. writing[v].state # "added" => writing[v].id = 0
        BY DEF StoreInv, Stamped
      <4>4. ASSUME writing[v].state = "added"
            PROVE  /\ writing[v].id \in 1 .. nextId' - 1
                   /\ \A x \in log : x.id # writing[v].id
                   /\ \A u \in Writer : writing'[u].id = writing[v].id => u = v
        <5>1. writing[v].id \in 1 .. nextId' - 1
          BY <1>1, <1>2, <4>1, <4>4
        <5>2. \A x \in log : x.id # writing[v].id
          BY <4>4 DEF StoreInv, Stamped
        <5>3. \A u \in Writer : writing'[u].id = writing[v].id => u = v
          BY <1>3, <1>4, <4>1, <4>4 DEF StoreInv, Stamped
        <5> QED BY <5>1, <5>2, <5>3
      <4> QED BY <1>1, <4>2, <4>3, <4>4
    <3> QED BY <3>1, <3>2
  <2> QED BY <2>1, <2>2 DEF Stamped
<1>7. NearTop'
  <2>1. ASSUME NEW v \in Writer, v # w PROVE Before(Due(v), log)' = Before(Due(v), log)
    <3>1. /\ Due(v)'.at = Due(v).at
          /\ Due(v)'.id = Due(v).id \/ (Due(v)'.id = nextId + 1 /\ Due(v).id = nextId)
      <4>1. writing'[v] = writing[v]
        BY <1>4, <2>1
      <4>2. CASE writing[v].state = "added"
        BY <4>1, <4>2 DEF Due
      <4>3. CASE writing[v].state # "added"
        <5>1. Due(v).at = writing[v].at /\ Due(v).id = nextId
          BY <4>3 DEF Due
        <5>2. Due(v)'.at = writing'[v].at /\ Due(v)'.id = nextId'
          BY <4>1, <4>3 DEF Due
        <5> QED BY <1>1, <4>1, <5>1, <5>2
      <4> QED BY <4>2, <4>3
    <3>2. \A y \in log : Above(y, Due(v)') <=> Above(y, Due(v))
      BY <1>2, <3>1 DEF StoreInv, Stamped, Above, Line
    <3> QED BY <1>1, <3>2 DEF Before
  <2>2. exclusive => Before(Due(w), log)' = {}
    BY <1>1, <1>2, <1>3 DEF StoreInv, Stamped, Before, Above, Due, Line
  <2>3. ~exclusive => Before(Due(w), log)' = Before(Due(w), log)
    <3>1. ~exclusive => Due(w)' = Due(w)
      BY <1>1, <1>3 DEF Due
    <3> QED BY <1>1, <3>1 DEF Before
  <2>4. exclusive' => \A v, u \in Writer : writing'[v].state # "idle" /\ writing'[u].state # "idle" => u = v
    BY <1>1, <1>3, <1>4 DEF StoreInv, NearTop
  <2>5. ASSUME exclusive', NEW v \in Writer, writing'[v].state = "added"
        PROVE  Before(Due(v), log)' = {}
    BY <1>1, <1>4, <2>1, <2>2, <2>5 DEF StoreInv, NearTop
  <2>6. ASSUME ~exclusive', NEW v \in Writer, writing'[v].state # "idle"
        PROVE  Cardinality(Before(Due(v), log)') <= writing'[v].met
    BY <1>1, <1>3, <1>4, <2>1, <2>3, <2>6 DEF StoreInv, NearTop
  <2> QED BY <2>4, <2>5, <2>6 DEF NearTop
<1> QED BY <1>1, <1>5, <1>6, <1>7 DEF StoreInv

\* A line is committed: the other transactions have met one more.
LEMMA CommitStore ==
  ASSUME StoreInv, NEW w \in Writer, Commit(w)
  PROVE  StoreInv' /\ log' = log \cup {LineOf(w)} /\ LineOf(w) \notin log
<1>1. /\ log' = log \cup {LineOf(w)} /\ nextId' = nextId /\ clock' = clock /\ exclusive' = exclusive
      /\ writing[w].state = "added"
      /\ writing' = [v \in Writer |-> IF v = w THEN Rest ELSE
                      IF writing[v].state = "idle" THEN writing[v]
                      ELSE [writing[v] EXCEPT !.met = @ + 1]]
  BY DEF Commit, reading
<1>2. LineOf(w) \in Line /\ LineOf(w).id = writing[w].id /\ LineOf(w).at = writing[w].at
      /\ LineOf(w) = Due(w)
  BY <1>1 DEF StoreInv, StoreTypes, LineOf, Due, Line
<1>3. LineOf(w) \notin log /\ LineOf(w).id \in 1 .. nextId - 1 /\ LineOf(w).at <= clock
      /\ \A x \in log : x.id # LineOf(w).id
  BY <1>1, <1>2 DEF StoreInv, Stamped
<1>4. writing'[w] = Rest
  BY <1>1
<1>5. \A v \in Writer : v # w =>
        /\ writing'[v].state = writing[v].state /\ writing'[v].at = writing[v].at
        /\ writing'[v].id = writing[v].id /\ writing'[v].people = writing[v].people
        /\ writing'[v].met = IF writing[v].state = "idle" THEN writing[v].met ELSE writing[v].met + 1
  BY <1>1 DEF StoreInv, StoreTypes
<1>6. StoreTypes'
  <2>1. writing' \in [Writer -> [state : {"idle", "begun", "added"}, at : Nat, id : Nat,
                                 people : SUBSET Person, met : Nat]]
    BY <1>1 DEF StoreInv, StoreTypes, Rest
  <2> QED BY <1>1, <1>2, <2>1 DEF StoreInv, StoreTypes
<1>7. Stamped'
  <2>1. Ordered(log')
    BY <1>1, <1>2, <1>3, FS_AddElement DEF StoreInv, Stamped, Ordered
  <2>2. \A x \in log' : x.id < nextId' /\ x.at <= clock'
    BY <1>1, <1>2, <1>3 DEF StoreInv, StoreTypes, Stamped
  <2>3. ASSUME NEW v \in Writer
        PROVE  /\ writing'[v].at <= clock'
               /\ writing'[v].state # "added" => writing'[v].id = 0
               /\ writing'[v].state = "added" =>
                    /\ writing'[v].id \in 1 .. nextId' - 1
                    /\ \A x \in log' : x.id # writing'[v].id
                    /\ \A u \in Writer : writing'[u].id = writing'[v].id => u = v
    <3>1. CASE v = w
      BY <1>1, <1>4, <3>1 DEF StoreInv, StoreTypes, Rest
    <3>2. CASE v # w
      <4>1. writing[v].state = "added" => writing[v].id # LineOf(w).id
        BY <1>2, <3>2 DEF StoreInv, Stamped
      <4>2. \A u \in Writer : writing'[u].id = writing[u].id \/ (u = w /\ writing'[u].id = 0)
        BY <1>4, <1>5 DEF Rest
      <4> QED BY <1>1, <1>5, <3>2, <4>1, <4>2 DEF StoreInv, Stamped
    <3> QED BY <3>1, <3>2
  <2> QED BY <2>1, <2>2, <2>3 DEF Stamped
<1>8. NearTop'
  <2>1. \A v \in Writer : v # w => Due(v)' = Due(v)
    BY <1>1, <1>5 DEF Due
  <2>2. ASSUME exclusive', NEW v \in Writer PROVE writing'[v].state = "idle"
    BY <1>1, <1>4, <1>5, <2>2 DEF StoreInv, NearTop, Rest
  <2>3. ASSUME ~exclusive', NEW v \in Writer, writing'[v].state # "idle"
        PROVE  Cardinality(Before(Due(v), log)') <= writing'[v].met
    <3>1. v # w /\ writing[v].state # "idle" /\ writing'[v].met = writing[v].met + 1
      BY <1>4, <1>5, <2>3 DEF Rest
    <3>2. Cardinality(Before(Due(v), log)) <= writing[v].met
      BY <1>1, <2>3, <3>1 DEF StoreInv, NearTop
    <3>3. IsFiniteSet(Before(Due(v), log))
      BY FS_Subset DEF Before, StoreInv, Stamped, Ordered
    <3>4. /\ Before(Due(v), log) \cup {LineOf(w)} \in SUBSET (Before(Due(v), log) \cup {LineOf(w)})
          /\ IsFiniteSet(Before(Due(v), log) \cup {LineOf(w)})
          /\ Cardinality(Before(Due(v), log) \cup {LineOf(w)}) <= Cardinality(Before(Due(v), log)) + 1
      BY <3>3, FS_AddElement, FS_CardinalityType
    <3>5. Before(Due(v), log)' \in SUBSET (Before(Due(v), log) \cup {LineOf(w)})
      BY <1>1, <2>1, <3>1 DEF Before
    <3>6. Cardinality(Before(Due(v), log)') <= Cardinality(Before(Due(v), log) \cup {LineOf(w)})
          /\ Cardinality(Before(Due(v), log)') \in Nat
      BY <3>4, <3>5, FS_Subset, FS_CardinalityType
    <3>7. /\ Cardinality(Before(Due(v), log)) \in Nat /\ writing[v].met \in Nat
          /\ Cardinality(Before(Due(v), log) \cup {LineOf(w)}) \in Nat
      BY <3>3, <3>4, FS_CardinalityType DEF StoreInv, StoreTypes
    <3> QED BY <3>1, <3>2, <3>4, <3>6, <3>7
  <2> QED BY <2>2, <2>3 DEF NearTop
<1> QED BY <1>1, <1>3, <1>6, <1>7, <1>8 DEF StoreInv

LEMMA RollbackStore ==
  ASSUME StoreInv, NEW w \in Writer, Rollback(w)
  PROVE  StoreInv' /\ log' = log
<1>1. /\ log' = log /\ nextId' = nextId /\ clock' = clock /\ exclusive' = exclusive
      /\ writing' = [writing EXCEPT ![w] = Rest]
  BY DEF Rollback, reading
<1>2. writing'[w] = Rest /\ \A v \in Writer : v # w => writing'[v] = writing[v] /\ Due(v)' = Due(v)
  BY <1>1 DEF StoreInv, StoreTypes, Due
<1>3. StoreTypes'
  BY <1>1 DEF StoreInv, StoreTypes, Rest
<1>4. Stamped'
  BY <1>1, <1>2 DEF StoreInv, StoreTypes, Stamped, Rest
<1>5. NearTop'
  <2>1. \A v \in Writer : v # w => Before(Due(v), log)' = Before(Due(v), log)
    BY <1>1, <1>2 DEF Before
  <2>2. writing'[w].state = "idle"
    BY <1>2 DEF Rest
  <2>3. exclusive' =>
          /\ \A u, v \in Writer : writing'[u].state # "idle" /\ writing'[v].state # "idle" => v = u
          /\ \A v \in Writer : writing'[v].state = "added" => Before(Due(v), log)' = {}
    BY <1>1, <1>2, <2>1, <2>2 DEF StoreInv, NearTop
  <2>4. ~exclusive' => \A v \in Writer : writing'[v].state # "idle" =>
          Cardinality(Before(Due(v), log)') <= writing'[v].met
    BY <1>1, <1>2, <2>1, <2>2 DEF StoreInv, NearTop
  <2> QED BY <2>3, <2>4 DEF NearTop
<1> QED BY <1>1, <1>3, <1>4, <1>5 DEF StoreInv

LEMMA TickStore ==
  ASSUME StoreInv, Tick
  PROVE  StoreInv' /\ log' = log
<1>1. /\ log' = log /\ nextId' = nextId /\ writing' = writing /\ exclusive' = exclusive
      /\ clock' = clock + 1 /\ clock < MaxClock
  BY DEF Tick, reading
<1>2. StoreTypes'
  BY <1>1, HistoryAssumption DEF StoreInv, StoreTypes
<1>3. Stamped'
  <2>1. clock \in Nat /\ \A x \in log : x.at \in Nat
    BY HistoryAssumption DEF StoreInv, StoreTypes, Line
  <2>2. \A v \in Writer : writing[v].at \in Nat
    BY DEF StoreInv, StoreTypes
  <2> QED BY <1>1, <2>1, <2>2 DEF StoreInv, Stamped
<1>4. NearTop'
  BY <1>1 DEF StoreInv, NearTop, Before, Due
<1> QED BY <1>1, <1>2, <1>3, <1>4 DEF StoreInv

\* Reading leaves the log and those who write alone.
LEMMA SameStore ==
  ASSUME StoreInv, UNCHANGED store
  PROVE  StoreInv' /\ log' = log
<1>1. log' = log /\ nextId' = nextId /\ writing' = writing /\ exclusive' = exclusive /\ clock' = clock
  BY DEF store
<1>2. StoreTypes' /\ Stamped'
  BY <1>1 DEF StoreInv, StoreTypes, Stamped
<1>3. NearTop'
  BY <1>1 DEF StoreInv, NearTop, Before, Due
<1> QED BY <1>1, <1>2, <1>3 DEF StoreInv

LEMMA StoreStep ==
  ASSUME StoreInv, [Next]_vars
  PROVE  StoreInv' /\ log \subseteq log'
<1>1. CASE UNCHANGED store
  BY <1>1, SameStore
<1>2. ASSUME NEW w \in Writer, (\E people \in Involved : Begin(w, people)) \/ Add(w) \/ Commit(w) \/ Rollback(w)
      PROVE  StoreInv' /\ log \subseteq log'
  BY <1>2, BeginStore, AddStore, CommitStore, RollbackStore
<1>3. CASE Tick
  BY <1>3, TickStore
<1>4. ASSUME UNCHANGED vars \/ (\E m \in Message, who \in Who : Open(m, who))
               \/ (\E m \in Message : Turn(m)) \/ (\E r \in pressed : Count(r)) \/ Fetch \/ Lose
      PROVE  UNCHANGED store
  BY <1>4 DEF vars, Open, Turn, Request, Count, Fetch, Lose
<1> QED BY <1>1, <1>2, <1>3, <1>4 DEF Next

\* A new line appears above all others on SQLite, and on PostgreSQL below no
\* more than were committed while its transaction ran (ORDER BY created_at, id),
\* whatever the number of writers.
THEOREM LinesAppearNearTop == Spec => NewLinesNearTop
<1> DEFINE Appears ==
      \A x \in log' \ log : \A w \in Writer : x = LineOf(w) =>
        Position(x, log') <= IF exclusive THEN 0 ELSE writing[w].met
<1>1. ASSUME StoreInv, [Next]_vars PROVE Appears
  <2>1. ASSUME NEW v \in Writer, Commit(v) PROVE Appears
    <3> SUFFICES ASSUME NEW w \in Writer, LineOf(v) = LineOf(w)
                 PROVE  Position(LineOf(v), log') <= IF exclusive THEN 0 ELSE writing[w].met
      BY <1>1, <2>1, CommitStore
    <3>1. /\ log' = log \cup {LineOf(v)} /\ writing[v].state = "added"
          /\ LineOf(v) = Due(v) /\ LineOf(v).id = writing[v].id /\ LineOf(w).id = writing[w].id
      BY <2>1 DEF Commit, LineOf, Due
    <3>2. w = v
      BY <1>1, <3>1 DEF StoreInv, Stamped
    <3>3. ~Above(LineOf(v), LineOf(v))
      BY <1>1 DEF Above, LineOf, StoreInv, StoreTypes
    <3>4. Position(LineOf(v), log') = Cardinality(Before(Due(v), log))
      <4>1. {y \in log' : Above(y, LineOf(v))} = {y \in log : Above(y, LineOf(v))}
        BY <3>1, <3>3
      <4>2. {y \in log : Above(y, LineOf(v))} = Before(Due(v), log)
        BY <3>1 DEF Before
      <4> QED BY <4>1, <4>2 DEF Position
    <3>5. exclusive => Cardinality(Before(Due(v), log)) = 0
      BY <1>1, <3>1, FS_EmptySet DEF StoreInv, NearTop
    <3>6. ~exclusive => Cardinality(Before(Due(v), log)) <= writing[v].met
      BY <1>1, <3>1 DEF StoreInv, NearTop
    <3> QED BY <3>2, <3>4, <3>5, <3>6
  <2>2. ASSUME ~\E v \in Writer : Commit(v) PROVE log' = log
    BY <1>1, <2>2 DEF Next, vars, store, Begin, Add, Rollback, Tick, Open, Turn, Request, Count, Fetch, Lose
  <2> QED BY <2>1, <2>2
<1>2. StoreInv /\ [Next]_vars => StoreInv'
  BY StoreStep
<1>3. [Next]_vars /\ StoreInv => [Appears]_vars
  BY <1>1
<1> HIDE DEF Appears
<1>4. Spec => [][Appears]_vars
  BY <1>2, <1>3, StoreInit, PTL DEF Spec
<1> QED BY <1>4 DEF Appears, NewLinesNearTop

---------------------------------------------------------------------------
(* Reading *)

Number(who) == Cardinality(Matching(log, who))

ReadTypes ==
  /\ pressed \subseteq [message : Message, who : Who, page : Nat]
  /\ handling \in [message : Message, who : Who, asked : Nat, page : Nat, total : Nat,
                   slipped : Nat, busy : BOOLEAN]
  /\ screen \in [Message -> [who : Who, page : Nat, pages : Nat, total : Nat,
                             lines : SUBSET Line, slipped : Nat]]
  /\ presses \in 0 .. MaxPresses
  /\ since \in [Message -> [Who -> SUBSET Line]] /\ seen \in [Message -> [Who -> SUBSET Line]]

\* The first k pages, as they are now, hold no line that was there at the
\* beginning and has not been shown.
ShownTo(m, who, k) ==
  \A x \in since[m][who] : Position(x, Matching(log, who)) < k * PageSize => x \in seen[m][who]

\* A page may be asked for: it is there, and the pages above it have been shown.
Turnable(m, who, page) ==
  /\ page < Pages(Number(who)) /\ ShownTo(m, who, page)
  /\ page > 0 => seen[m][who] # {}

Counted ==
  handling.busy =>
    /\ handling.page = handling.asked /\ handling.page < Pages(handling.total)
    /\ handling.total <= Number(handling.who)
    /\ Number(handling.who) <= handling.total + handling.slipped
    /\ ShownTo(handling.message, handling.who, handling.page)
    /\ handling.page > 0 => seen[handling.message][handling.who] # {}

\* A screen that shows a page, with what it says about the others.
Shows(m) ==
  LET s == screen[m] IN
  /\ s.pages = Pages(s.total) /\ s.page < s.pages /\ s.total <= Number(s.who)
  /\ ShownTo(m, s.who, s.page + 1)
  /\ s.pages > 1 => seen[m][s.who] # {}

FullAsCounted(m) ==
  LET s == screen[m]
      left == s.total - s.page * PageSize
  IN Cardinality(s.lines) >= (IF left < PageSize THEN left ELSE PageSize)

ThroughTo(m) ==
  LET s == screen[m] IN
  s.pages > 0 /\ s.page + 1 >= s.pages =>
    Cardinality(since[m][s.who] \ seen[m][s.who]) <= s.slipped

ReadInv ==
  /\ ReadTypes /\ Counted
  /\ \A m \in Message, who \in Who : since[m][who] \subseteq Matching(log, who)
  /\ \A r \in pressed : Turnable(r.message, r.who, r.page)
  /\ \A m \in Message : screen[m].pages > 0 => Shows(m)
  /\ \A m \in Message : FullAsCounted(m) /\ ThroughTo(m)

\* Every set of matching lines is ordered.
LEMMA MatchingOrdered ==
  ASSUME StoreInv, NEW who
  PROVE  Ordered(Matching(log, who)) /\ Number(who) \in Nat
<1>1. Matching(log, who) \in SUBSET log
  BY DEF Matching
<1> QED BY <1>1, OrderedSubset DEF StoreInv, Stamped, Number

\* As the log grows, lines move down, and pages become more.
LEMMA LogGrows ==
  ASSUME StoreInv, StoreInv', log \subseteq log', NEW who
  PROVE  /\ Matching(log, who) \subseteq Matching(log', who)
         /\ Number(who) <= Number(who)'
         /\ \A x : Position(x, Matching(log, who)) <= Position(x, Matching(log', who))
<1>1. Matching(log, who) \subseteq Matching(log', who)
  BY DEF Matching
<1>2. Ordered(Matching(log', who)) /\ Number(who)' = Cardinality(Matching(log', who))
  <2>1. Matching(log', who) \in SUBSET log'
    BY DEF Matching
  <2> QED BY <2>1, OrderedSubset DEF StoreInv, Stamped, Number
<1>3. Number(who) <= Number(who)'
  BY <1>1, <1>2, OrderedSubset DEF Number
<1>4. ASSUME NEW x PROVE Position(x, Matching(log, who)) <= Position(x, Matching(log', who))
  <2>1. Before(x, Matching(log, who)) \subseteq Before(x, Matching(log', who))
    BY <1>1 DEF Before
  <2>2. Before(x, Matching(log', who)) \subseteq Matching(log', who)
    BY DEF Before
  <2>3. Cardinality(Before(x, Matching(log, who))) <= Cardinality(Before(x, Matching(log', who)))
    BY <1>2, <2>1, <2>2, OrderedSubset
  <2> QED BY <2>3 DEF Before, Position
<1> QED BY <1>1, <1>3, <1>4

\* What has been shown stays shown.
LEMMA StillShown ==
  ASSUME StoreInv, StoreInv', log \subseteq log', NEW m, NEW who, NEW k \in Nat,
         ShownTo(m, who, k), since'[m][who] = since[m][who], seen[m][who] \subseteq seen'[m][who],
         since[m][who] \subseteq Matching(log, who)
  PROVE  ShownTo(m, who, k)'
<1> SUFFICES ASSUME NEW x \in since'[m][who], Position(x, Matching(log', who)) < k * PageSize
             PROVE  x \in seen'[m][who]
  BY DEF ShownTo
<1>1. Position(x, Matching(log, who)) <= Position(x, Matching(log', who))
  BY LogGrows
<1>2. Position(x, Matching(log, who)) \in Nat /\ Position(x, Matching(log', who)) \in Nat
  <2>1. Matching(log, who) \in SUBSET log /\ Matching(log', who) \in SUBSET log'
    BY DEF Matching
  <2>2. Ordered(Matching(log, who)) /\ Ordered(Matching(log', who))
    BY <2>1, OrderedSubset DEF StoreInv, Stamped
  <2> QED BY <2>2, PositionType
<1>3. k * PageSize \in Nat
  BY HistoryAssumption
<1>4. Position(x, Matching(log, who)) < k * PageSize
  BY <1>1, <1>2, <1>3
<1> QED BY <1>4 DEF ShownTo

LEMMA ReadInit == Init => ReadInv
<1> SUFFICES ASSUME Init PROVE ReadInv
  OBVIOUS
<1>1. ReadTypes
  BY HistoryAssumption DEF Init, ReadTypes, NoUpdate, NoScreen, Who
<1>2. Counted
  BY DEF Init, Counted, NoUpdate
<1>3. \A m \in Message, who \in Who : since[m][who] \subseteq Matching(log, who)
  BY DEF Init
<1>4. \A m \in Message : screen[m] = NoScreen
  BY DEF Init
<1>5. ASSUME NEW m \in Message PROVE FullAsCounted(m) /\ ThroughTo(m)
  <2>1. screen[m].total - screen[m].page * PageSize = 0 /\ Cardinality(screen[m].lines) = 0
    <3>1. screen[m].total = 0 /\ screen[m].page = 0 /\ screen[m].lines = {}
      BY <1>4 DEF NoScreen
    <3>2. 0 - 0 * PageSize = 0
      BY HistoryAssumption
    <3> QED BY <3>1, <3>2, FS_EmptySet
  <2>2. screen[m].pages = 0
    BY <1>4 DEF NoScreen
  <2> QED BY <2>1, <2>2, HistoryAssumption DEF FullAsCounted, ThroughTo
<1> QED BY <1>1, <1>2, <1>3, <1>4, <1>5 DEF Init, ReadInv, NoScreen

\* The log grows, and an update that is between its queries knows by how much.
LEMMA WritingRead ==
  ASSUME StoreInv, StoreInv', log \subseteq log', ReadInv,
         UNCHANGED <<pressed, presses, screen, since, seen>>,
         \/ handling' = handling
         \/ handling' = [handling EXCEPT !.slipped = @ + 1],
         handling.busy =>
           Number(handling.who)' - Number(handling.who) <= handling'.slipped - handling.slipped
  PROVE  ReadInv'
<1>1. ReadTypes'
  <2>1. handling' \in [message : Message, who : Who, asked : Nat, page : Nat, total : Nat,
                       slipped : Nat, busy : BOOLEAN]
    BY DEF ReadInv, ReadTypes
  <2> QED BY <2>1 DEF ReadInv, ReadTypes
<1>2. \A m \in Message, who \in Who : since'[m][who] \subseteq Matching(log', who)
  BY LogGrows DEF ReadInv
<1>3. \A m \in Message, who \in Who, k \in Nat : ShownTo(m, who, k) => ShownTo(m, who, k)'
  BY StillShown DEF ReadInv
<1>4. \A who : /\ Number(who) \in Nat /\ Number(who)' \in Nat /\ Number(who) <= Number(who)'
               /\ Pages(Number(who)) <= Pages(Number(who)')
               /\ Pages(Number(who)) \in Nat /\ Pages(Number(who)') \in Nat
  <2> TAKE who
  <2>1. Matching(log', who) \in SUBSET log'
    BY DEF Matching
  <2>2. Number(who)' \in Nat
    BY <2>1, OrderedSubset DEF StoreInv, Stamped, Number
  <2> QED BY <2>2, MatchingOrdered, LogGrows, PagesGrow, PagesBounds
<1>5. Counted'
  <2> SUFFICES ASSUME handling'.busy PROVE Counted'
    BY DEF Counted
  <2>1. /\ handling.busy /\ handling'.message = handling.message /\ handling'.who = handling.who
        /\ handling'.asked = handling.asked /\ handling'.page = handling.page
        /\ handling'.total = handling.total
    BY DEF ReadInv, ReadTypes
  <2>2. /\ handling.message \in Message /\ handling.who \in Who /\ handling.page \in Nat
        /\ handling.total \in Nat /\ handling.slipped \in Nat /\ handling'.slipped \in Nat
    BY DEF ReadInv, ReadTypes
  <2>3. ShownTo(handling.message, handling.who, handling.page)'
    BY <1>3, <2>1, <2>2 DEF ReadInv, Counted, ShownTo
  <2>4. /\ handling.total <= Number(handling.who)'
        /\ Number(handling.who)' <= handling.total + handling'.slipped
    BY <1>4, <2>1, <2>2 DEF ReadInv, Counted
  <2> QED BY <2>1, <2>3, <2>4 DEF ReadInv, Counted, Number
<1>6. \A r \in pressed' : Turnable(r.message, r.who, r.page)'
  BY <1>3, <1>4 DEF ReadInv, ReadTypes, Turnable
<1>7. ASSUME NEW m \in Message, screen'[m].pages > 0 PROVE Shows(m)'
  <2>1. Shows(m) /\ screen'[m] = screen[m] /\ screen[m].page + 1 \in Nat /\ screen[m].who \in Who
        /\ screen[m].total \in Nat
    BY <1>7 DEF ReadInv, ReadTypes
  <2>2. ShownTo(m, screen[m].who, screen[m].page + 1)'
    BY <1>3, <2>1 DEF Shows, ShownTo
  <2>3. screen[m].total <= Number(screen[m].who)'
    BY <1>4, <2>1 DEF Shows, Number
  <2> QED BY <2>1, <2>2, <2>3 DEF Shows, Number
<1>8. \A m \in Message : FullAsCounted(m)' /\ ThroughTo(m)'
  BY DEF ReadInv, FullAsCounted, ThroughTo
<1> QED BY <1>1, <1>2, <1>5, <1>6, <1>7, <1>8 DEF ReadInv

\* A button is pressed.
LEMMA RequestRead ==
  ASSUME StoreInv, ReadInv, NEW m \in Message, NEW who \in Who, NEW page \in Nat,
         Request(m, who, page), Turnable(m, who, page)
  PROVE  ReadInv'
<1>1. /\ UNCHANGED <<log, handling, screen, since, seen>>
      /\ presses < MaxPresses /\ presses' = presses + 1
      /\ pressed' = pressed \cup {[message |-> m, who |-> who, page |-> page]}
  BY DEF Request, store
<1>2. ReadTypes'
  BY <1>1, HistoryAssumption DEF ReadInv, ReadTypes
<1>3. Counted'
  BY <1>1 DEF ReadInv, Counted, ShownTo, Number
<1>4. \A r \in pressed' : Turnable(r.message, r.who, r.page)'
  BY <1>1 DEF ReadInv, Turnable, ShownTo, Number
<1>5. \A n \in Message : /\ screen'[n].pages > 0 => Shows(n)'
                         /\ FullAsCounted(n)' /\ ThroughTo(n)'
  BY <1>1 DEF ReadInv, Shows, ShownTo, Number, FullAsCounted, ThroughTo
<1> QED BY <1>1, <1>2, <1>3, <1>4, <1>5 DEF ReadInv

LEMMA OpenRead ==
  ASSUME StoreInv, ReadInv, NEW m \in Message, NEW who \in Who, Open(m, who)
  PROVE  ReadInv'
<1>1. Pages(Number(who)) \in Nat \ {0}
  BY MatchingOrdered, PagesBounds
<1>2. 0 * PageSize = 0
  BY HistoryAssumption
<1>3. ShownTo(m, who, 0)
  BY <1>2, MatchingOrdered, PositionType DEF ShownTo
<1>4. Turnable(m, who, 0)
  BY <1>1, <1>3 DEF Turnable
<1> QED BY <1>4, RequestRead DEF Open

LEMMA TurnRead ==
  ASSUME StoreInv, ReadInv, NEW m \in Message, Turn(m)
  PROVE  ReadInv'
<1> DEFINE s == screen[m]
<1>1. PICK page \in Offered(s) : Request(m, s.who, page)
  BY DEF Turn
<1>2. /\ s.page \in Nat /\ s.pages \in Nat /\ s.total \in Nat /\ s.who \in Who
      /\ page \in Nat /\ page < s.pages /\ page <= s.page + 1 /\ s.pages > 0
  BY <1>1 DEF ReadInv, ReadTypes, Offered
<1>3. Shows(m) /\ Number(s.who) \in Nat /\ Pages(Number(s.who)) \in Nat
  BY <1>2, MatchingOrdered, PagesBounds DEF ReadInv
<1>4. page < Pages(Number(s.who))
  BY <1>2, <1>3, PagesGrow DEF Shows
<1>5. ShownTo(m, s.who, page)
  <2>1. page * PageSize \in Int /\ (s.page + 1) * PageSize \in Int
        /\ page * PageSize <= (s.page + 1) * PageSize
    BY <1>2, TimesPageSize
  <2>2. \A x : Position(x, Matching(log, s.who)) \in Nat
    BY MatchingOrdered, PositionType
  <2> QED BY <1>3, <2>1, <2>2 DEF Shows, ShownTo
<1>6. page > 0 => seen[m][s.who] # {}
  BY <1>2, <1>3 DEF Shows
<1> QED BY <1>1, <1>2, <1>4, <1>5, <1>6, RequestRead DEF Turnable

\* The first query finds the page there, so the page stays the one asked for.
LEMMA CountRead ==
  ASSUME StoreInv, ReadInv, NEW r \in pressed, Count(r)
  PROVE  ReadInv'
<1> DEFINE n == Number(r.who)
<1>1. /\ UNCHANGED <<log, presses, screen, since, seen>> /\ pressed' = pressed \ {r}
      /\ handling' = [message |-> r.message, who |-> r.who, asked |-> r.page,
                      page |-> Clamp(r.page, Pages(n)), total |-> n, slipped |-> 0, busy |-> TRUE]
  BY DEF Count, store, Number
<1>2. r.message \in Message /\ r.who \in Who /\ r.page \in Nat /\ Turnable(r.message, r.who, r.page)
  BY DEF ReadInv, ReadTypes
<1>3. n \in Nat
  BY MatchingOrdered
<1>4. Clamp(r.page, Pages(n)) = r.page
  BY <1>2 DEF Clamp, Turnable
<1>5. ReadTypes'
  <2>1. handling' \in [message : Message, who : Who, asked : Nat, page : Nat, total : Nat,
                       slipped : Nat, busy : BOOLEAN]
    BY <1>1, <1>2, <1>3, <1>4
  <2>2. pressed' \subseteq [message : Message, who : Who, page : Nat]
    BY <1>1 DEF ReadInv, ReadTypes
  <2> QED BY <1>1, <2>1, <2>2 DEF ReadInv, ReadTypes
<1>6. Counted'
  <2>1. Turnable(r.message, r.who, r.page)' /\ Number(r.who)' = n
    BY <1>1, <1>2 DEF Turnable, ShownTo, Number
  <2>2. /\ handling'.message = r.message /\ handling'.who = r.who /\ handling'.asked = r.page
        /\ handling'.page = r.page /\ handling'.total = n /\ handling'.slipped = 0
    BY <1>1, <1>4
  <2> HIDE DEF n
  <2> QED BY <1>3, <2>1, <2>2 DEF Counted, Turnable, ShownTo, Number
<1>7. \A q \in pressed' : Turnable(q.message, q.who, q.page)'
  BY <1>1 DEF ReadInv, Turnable, ShownTo, Number
<1>8. \A m \in Message : /\ screen'[m].pages > 0 => Shows(m)'
                         /\ FullAsCounted(m)' /\ ThroughTo(m)'
  BY <1>1 DEF ReadInv, Shows, ShownTo, Number, FullAsCounted, ThroughTo
<1> QED BY <1>1, <1>5, <1>6, <1>7, <1>8 DEF ReadInv

LEMMA LoseRead ==
  ASSUME StoreInv, ReadInv, Lose
  PROVE  ReadInv'
<1>1. UNCHANGED <<log, pressed, presses, screen, since, seen>> /\ handling' = NoUpdate
  BY DEF Lose, store
<1>2. ReadTypes'
  BY <1>1, HistoryAssumption DEF ReadInv, ReadTypes, NoUpdate, Who
<1>3. Counted'
  BY <1>1 DEF Counted, NoUpdate
<1>4. \A q \in pressed' : Turnable(q.message, q.who, q.page)'
  BY <1>1 DEF ReadInv, Turnable, ShownTo, Number
<1>5. \A m \in Message : /\ screen'[m].pages > 0 => Shows(m)'
                         /\ FullAsCounted(m)' /\ ThroughTo(m)'
  BY <1>1 DEF ReadInv, Shows, ShownTo, Number, FullAsCounted, ThroughTo
<1> QED BY <1>1, <1>2, <1>3, <1>4, <1>5 DEF ReadInv

\* What the second query finds, of the page p out of total lines counted.
LEMMA PageHolds ==
  ASSUME NEW lines, Ordered(lines), NEW p \in Nat, NEW total \in Nat,
         p < Pages(total), total <= Cardinality(lines)
  PROVE  /\ Cardinality(Page(lines, p)) \in Nat
         /\ Cardinality(Page(lines, p)) >= IF total - p * PageSize < PageSize
                                             THEN total - p * PageSize ELSE PageSize
         /\ total > 0 => Page(lines, p) # {}
<1> DEFINE n == Cardinality(lines)
           top == p * PageSize
           end == IF top + PageSize <= n THEN top + PageSize ELSE n
<1>1. n \in Nat /\ PageSize \in Nat \ {0}
  BY HistoryAssumption, FS_CardinalityType DEF Ordered
<1>2. top \in Nat /\ (p + 1) * PageSize = top + PageSize
  BY <1>1
<1>3. top = 0 \/ top < total
  <2>1. p = 0 => top = 0
    BY <1>1
  <2> QED BY <2>1, PagesBounds
<1>4. \A x \in lines : Position(x, lines) \in Nat /\ Position(x, lines) < n
  BY PositionType
<1> HIDE DEF n, top
<1>5. Page(lines, p) = {x \in lines : top <= Position(x, lines) /\ Position(x, lines) < end}
  <2>1. Page(lines, p) = {x \in lines : top <= Position(x, lines) /\ Position(x, lines) < top + PageSize}
    BY <1>2 DEF Page, top
  <2> QED BY <1>1, <1>2, <1>4, <2>1
<1>6. end \in Int /\ end <= n /\ 0 <= top
  BY <1>1, <1>2
<1> HIDE DEF end
<1>7. Cardinality(Page(lines, p)) = IF top >= end THEN 0 ELSE end - top
  BY <1>2, <1>5, <1>6, LinesBetween DEF n
<1>8. total <= n
  BY DEF n
<1>9. /\ Cardinality(Page(lines, p)) \in Nat
      /\ Cardinality(Page(lines, p)) >= IF total - top < PageSize THEN total - top ELSE PageSize
      /\ total > 0 => Cardinality(Page(lines, p)) > 0
  BY <1>1, <1>2, <1>3, <1>6, <1>7, <1>8 DEF end
<1>10. total > 0 => Page(lines, p) # {}
  BY <1>9, FS_EmptySet
<1> QED BY <1>9, <1>10 DEF top

\* Below the last page counted are no more lines than came meanwhile.
LEMMA FewBelow ==
  ASSUME NEW lines, Ordered(lines), NEW p \in Nat, NEW total \in Nat, NEW slipped \in Nat,
         p + 1 >= Pages(total), Cardinality(lines) <= total + slipped,
         NEW missing \in SUBSET lines,
         \A x \in missing : (p + 1) * PageSize <= Position(x, lines)
  PROVE  Cardinality(missing) <= slipped
<1> DEFINE n == Cardinality(lines)
           from == (p + 1) * PageSize
           below == {x \in lines : from <= Position(x, lines) /\ Position(x, lines) < n}
<1>1. n \in Nat /\ from \in Nat /\ total <= from
  BY HistoryAssumption, PagesBounds, FS_CardinalityType DEF Ordered
<1>2. missing \subseteq below
  BY PositionType
<1>3. IsFiniteSet(below)
  BY FS_Subset DEF Ordered
<1>4. Cardinality(missing) <= Cardinality(below) /\ Cardinality(missing) \in Nat
  BY <1>2, <1>3, FS_Subset, FS_CardinalityType
<1> HIDE DEF from
<1>5. Cardinality(below) = IF from >= n THEN 0 ELSE n - from
  BY <1>1, LinesBetween
<1> HIDE DEF below
<1>6. n <= total + slipped
  OBVIOUS
<1> HIDE DEF n
<1> QED BY <1>1, <1>4, <1>5, <1>6

\* The second query, and the screen it fills.
LEMMA FetchRead ==
  ASSUME StoreInv, ReadInv, Fetch
  PROVE  ReadInv'
<1>0. PICK m \in Message, w \in Who, p \in Nat, total \in Nat, slipped \in Nat :
        /\ handling.message = m /\ handling.who = w /\ handling.page = p
        /\ handling.total = total /\ handling.slipped = slipped
  BY DEF ReadInv, ReadTypes
<1> DEFINE lines == Matching(log, w)
           found == Page(lines, p)
           first == p = 0 /\ seen[m][w] = {}
<1>1. /\ handling.busy /\ handling' = NoUpdate /\ UNCHANGED <<log, pressed, presses>>
      /\ screen' = [screen EXCEPT ![m] =
           [who |-> w, page |-> p, pages |-> Pages(total), total |-> total,
            lines |-> found, slipped |-> slipped]]
      /\ since' = IF first THEN [since EXCEPT ![m][w] = lines] ELSE since
      /\ seen' = [seen EXCEPT ![m][w] = @ \cup found]
  BY <1>0 DEF Fetch, store
<1>2. /\ m \in Message /\ w \in Who /\ p \in Nat /\ total \in Nat /\ slipped \in Nat
  OBVIOUS
<1>3. /\ p < Pages(total) /\ total <= Number(w)
      /\ Number(w) <= total + slipped
      /\ ShownTo(m, w, p) /\ (p > 0 => seen[m][w] # {})
  BY <1>0, <1>1 DEF ReadInv, Counted
<1>4. Ordered(lines) /\ Number(w) \in Nat /\ lines \subseteq Line /\ found \subseteq lines
      /\ Number(w) = Cardinality(lines)
  <2>1. Ordered(lines) /\ Number(w) \in Nat
    BY MatchingOrdered
  <2> QED BY <2>1 DEF Ordered, Page, Number
<1>5. \A n \in Message, who \in Who :
        /\ since'[n][who] = IF n = m /\ who = w /\ first THEN lines ELSE since[n][who]
        /\ seen'[n][who] = IF n = m /\ who = w THEN seen[n][who] \cup found ELSE seen[n][who]
  <2> HIDE DEF lines, found, first
  <2> QED BY <1>1, <1>2 DEF ReadInv, ReadTypes
<1>6. Pages(total) \in Nat \ {0}
  BY <1>2, PagesBounds
<1>7. /\ screen'[m] = [who |-> w, page |-> p, pages |-> Pages(total),
                       total |-> total, lines |-> found, slipped |-> slipped]
      /\ \A n \in Message : n # m => screen'[n] = screen[n]
  BY <1>1, <1>2 DEF ReadInv, ReadTypes
<1>8. ReadTypes'
  <2>1. handling' \in [message : Message, who : Who, asked : Nat, page : Nat, total : Nat,
                       slipped : Nat, busy : BOOLEAN]
    BY <1>1, HistoryAssumption DEF NoUpdate, Who
  <2>2. screen' \in [Message -> [who : Who, page : Nat, pages : Nat, total : Nat,
                                 lines : SUBSET Line, slipped : Nat]]
    <3> HIDE DEF found, lines
    <3> QED BY <1>1, <1>2, <1>4, <1>6 DEF ReadInv, ReadTypes
  <2>3. since' \in [Message -> [Who -> SUBSET Line]] /\ seen' \in [Message -> [Who -> SUBSET Line]]
    <3> HIDE DEF found, lines, first
    <3> QED BY <1>1, <1>2, <1>4 DEF ReadInv, ReadTypes
  <2> QED BY <1>1, <2>1, <2>2, <2>3 DEF ReadInv, ReadTypes
<1>9. Counted'
  BY <1>1 DEF Counted, NoUpdate
<1>10. \A n \in Message, who \in Who : since'[n][who] \subseteq Matching(log', who)
  BY <1>1, <1>5 DEF ReadInv
<1>11. /\ \A x \in lines : Position(x, lines) \in Nat
       /\ p * PageSize \in Nat /\ (p + 1) * PageSize \in Nat /\ 0 * PageSize = 0
  BY <1>2, <1>4, PositionType, HistoryAssumption
<1>12. ASSUME NEW n \in Message, NEW who \in Who, NEW k \in Nat, ShownTo(n, who, k),
              k > 0 => seen[n][who] # {} \/ who # w \/ n # m
       PROVE  ShownTo(n, who, k)'
  <2>1. CASE n = m /\ who = w /\ first
    <3>1. k = 0
      BY <1>12, <2>1
    <3>2. Matching(log', who) = lines /\ since'[n][who] = lines
      BY <1>1, <1>5, <2>1
    <3>3. \A x \in lines : ~(Position(x, lines) < k * PageSize)
      BY <1>11, <3>1
    <3> QED BY <3>2, <3>3 DEF ShownTo
  <2>2. CASE ~(n = m /\ who = w /\ first)
    <3>1. since'[n][who] = since[n][who] /\ seen[n][who] \subseteq seen'[n][who]
      BY <1>5, <2>2
    <3>2. Matching(log', who) = Matching(log, who)
      BY <1>1
    <3> QED BY <1>12, <3>1, <3>2 DEF ShownTo
  <2> QED BY <2>1, <2>2
<1>13. ASSUME NEW r \in pressed' PROVE Turnable(r.message, r.who, r.page)'
  <2>1. /\ r.message \in Message /\ r.who \in Who /\ r.page \in Nat
        /\ Turnable(r.message, r.who, r.page)
    BY <1>1 DEF ReadInv, ReadTypes
  <2>2. ShownTo(r.message, r.who, r.page)'
    BY <1>1, <1>12, <2>1 DEF Turnable, ShownTo
  <2>3. r.page > 0 => seen'[r.message][r.who] # {}
    BY <1>5, <2>1 DEF Turnable
  <2>4. r.page < Pages(Number(r.who)')
    BY <1>1, <2>1 DEF Turnable, Number
  <2> QED BY <2>2, <2>3, <2>4 DEF Turnable, Number
<1>14. \A x \in since'[m][w] : Position(x, lines) < (p + 1) * PageSize => x \in seen'[m][w]
  <2> SUFFICES ASSUME NEW x \in since'[m][w], Position(x, lines) < (p + 1) * PageSize
               PROVE  x \in seen'[m][w]
    OBVIOUS
  <2>1. x \in lines
    BY <1>2, <1>5 DEF ReadInv
  <2>2. CASE p * PageSize <= Position(x, lines)
    BY <1>2, <1>5, <2>1, <2>2 DEF Page
  <2>3. CASE Position(x, lines) < p * PageSize
    <3>1. ~first
      BY <1>11, <2>1, <2>3
    <3>2. x \in since[m][w] /\ seen'[m][w] = seen[m][w] \cup found
      BY <1>5, <3>1
    <3> QED BY <1>3, <2>3, <3>2 DEF ShownTo
  <2> QED BY <1>11, <2>1, <2>2, <2>3
<1>15. /\ Cardinality(found) >= IF total - p * PageSize < PageSize
                                  THEN total - p * PageSize ELSE PageSize
       /\ total > 0 => found # {}
  BY <1>2, <1>3, <1>4, PageHolds
<1>16. Shows(m)'
  <2>1. ShownTo(m, w, p + 1)'
    BY <1>1, <1>14 DEF ShownTo
  <2>2. total <= Number(w)'
    BY <1>1, <1>3 DEF Number
  <2>3. Pages(total) > 1 => seen'[m][w] # {}
    <3>1. Pages(total) > 1 => total > 0
      BY <1>2 DEF Pages
    <3>2. seen'[m][w] = seen[m][w] \cup found
      BY <1>5
    <3> QED BY <1>15, <3>1, <3>2
  <2> QED BY <1>3, <1>7, <2>1, <2>2, <2>3 DEF Shows, ShownTo, Number
<1>17. FullAsCounted(m)'
  BY <1>7, <1>15 DEF FullAsCounted
<1>18. ThroughTo(m)'
  <2> SUFFICES ASSUME p + 1 >= Pages(total)
               PROVE  Cardinality(since'[m][w] \ seen'[m][w]) <= slipped
    BY <1>7 DEF ThroughTo
  <2>1. since'[m][w] \ seen'[m][w] \in SUBSET lines
    BY <1>2, <1>5 DEF ReadInv
  <2>2. \A x \in since'[m][w] \ seen'[m][w] : (p + 1) * PageSize <= Position(x, lines)
    BY <1>11, <1>14, <2>1
  <2> QED BY <1>2, <1>3, <1>4, <2>1, <2>2, FewBelow
<1>19. ASSUME NEW n \in Message, n # m
       PROVE  /\ screen'[n].pages > 0 => Shows(n)'
              /\ FullAsCounted(n)' /\ ThroughTo(n)'
  <2>1. screen'[n] = screen[n] /\ screen[n].who \in Who
        /\ since'[n][screen[n].who] = since[n][screen[n].who]
        /\ seen'[n][screen[n].who] = seen[n][screen[n].who]
    BY <1>5, <1>7, <1>19 DEF ReadInv, ReadTypes
  <2> QED BY <1>1, <2>1 DEF ReadInv, Shows, ShownTo, Number, FullAsCounted, ThroughTo
<1> QED BY <1>8, <1>9, <1>10, <1>13, <1>16, <1>17, <1>18, <1>19 DEF ReadInv

---------------------------------------------------------------------------
(* The theorems *)

IInv == StoreInv /\ ReadInv

LEMMA Inductive == Spec => []IInv
<1>1. Init => IInv
  BY StoreInit, ReadInit DEF IInv
<1>2. ASSUME IInv, [Next]_vars PROVE IInv'
  <2>1. StoreInv' /\ log \subseteq log' /\ StoreInv /\ ReadInv
    BY <1>2, StoreStep DEF IInv
  <2>2. ASSUME NEW w \in Writer, (\E people \in Involved : Begin(w, people)) \/ Add(w) \/ Rollback(w)
        PROVE  ReadInv'
    <3>1. UNCHANGED <<log, handling, pressed, presses, screen, since, seen>>
      BY <2>2 DEF Begin, Add, Rollback, reading
    <3>2. Number(handling.who)' = Number(handling.who) /\ Number(handling.who) \in Nat
          /\ handling.slipped \in Nat
      BY <2>1, <3>1, MatchingOrdered DEF Number, ReadInv, ReadTypes
    <3> QED BY <2>1, <3>1, <3>2, WritingRead
  <2>3. ASSUME NEW w \in Writer, Commit(w) PROVE ReadInv'
    <3>1. /\ log' = log \cup {LineOf(w)} /\ UNCHANGED <<pressed, presses, screen, since, seen>>
          /\ handling' = IF handling.busy THEN [handling EXCEPT !.slipped = @ + 1] ELSE handling
      BY <2>3 DEF Commit, reading
    <3>2. /\ handling.slipped \in Nat
          /\ handling.busy => handling'.who = handling.who /\ handling'.slipped = handling.slipped + 1
      BY <2>1, <3>1 DEF ReadInv, ReadTypes
    <3>3. IsFiniteSet(Matching(log, handling.who)) /\ Number(handling.who) \in Nat
      BY <2>1, MatchingOrdered DEF Ordered
    <3>4. /\ IsFiniteSet(Matching(log, handling.who) \cup {LineOf(w)})
          /\ Cardinality(Matching(log, handling.who) \cup {LineOf(w)}) <= Number(handling.who) + 1
      <4> DEFINE lines == Matching(log, handling.who)
      <4>1. IsFiniteSet(lines) /\ Cardinality(lines) \in Nat /\ Cardinality(lines) = Number(handling.who)
        BY <3>3 DEF Number
      <4> HIDE DEF lines
      <4>2. /\ IsFiniteSet(lines \cup {LineOf(w)})
            /\ Cardinality(lines \cup {LineOf(w)}) =
                 IF LineOf(w) \in lines THEN Cardinality(lines) ELSE Cardinality(lines) + 1
        BY <4>1, FS_AddElement
      <4> QED BY <4>1, <4>2 DEF lines
    <3>5. Matching(log', handling.who) \in SUBSET (Matching(log, handling.who) \cup {LineOf(w)})
      BY <3>1 DEF Matching
    <3>6. /\ Cardinality(Matching(log', handling.who))
               <= Cardinality(Matching(log, handling.who) \cup {LineOf(w)})
          /\ Cardinality(Matching(log', handling.who)) \in Nat
          /\ Cardinality(Matching(log, handling.who) \cup {LineOf(w)}) \in Nat
      BY <3>4, <3>5, FS_Subset, FS_CardinalityType
    <3>7. handling.busy => Number(handling.who)' - Number(handling.who) <= handling'.slipped - handling.slipped
      BY <3>2, <3>3, <3>4, <3>6 DEF Number
    <3> QED BY <2>1, <3>1, <3>7, WritingRead
  <2>4. ASSUME Tick \/ UNCHANGED vars PROVE ReadInv'
    <3>1. UNCHANGED <<log, handling, pressed, presses, screen, since, seen>>
      BY <2>4 DEF Tick, vars, reading, store
    <3>2. Number(handling.who)' = Number(handling.who) /\ Number(handling.who) \in Nat
          /\ handling.slipped \in Nat
      BY <2>1, <3>1, MatchingOrdered DEF Number, ReadInv, ReadTypes
    <3> QED BY <2>1, <3>1, <3>2, WritingRead
  <2> QED BY <1>2, <2>1, <2>2, <2>3, <2>4, OpenRead, TurnRead, CountRead, FetchRead, LoseRead
          DEF Next, IInv
<1> QED BY <1>1, <1>2, PTL DEF Spec

\* Every variable keeps its type.
THEOREM TypeCorrect == Spec => []TypeOK
<1>1. IInv => TypeOK
  BY DEF IInv, StoreInv, StoreTypes, ReadInv, ReadTypes, TypeOK
<1> QED BY <1>1, Inductive, PTL

\* Whoever turns the pages of a history to the last has been shown every line
\* there was when they began, up to the ones committed between the two queries
\* of the last page, for any pace, any number of readers' buttons and writers.
THEOREM ReadsThrough == Spec => []ReadThrough
<1>1. IInv => ReadThrough
  BY DEF IInv, ReadInv, ThroughTo, ReadThrough
<1> QED BY <1>1, Inductive, PTL

\* The page shown is the one the button named, and holds the lines its count
\* promised (the clamp of services/audit.py never has to move a reader).
THEOREM PagesAsCounted == Spec => []PageAsCounted
<1>1. IInv => PageAsCounted
  BY DEF IInv, ReadInv, Counted, FullAsCounted, PageAsCounted
<1> QED BY <1>1, Inductive, PTL

=============================================================================
