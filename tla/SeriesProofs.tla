---------------------------- MODULE SeriesProofs ----------------------------
(***************************************************************************)
(* Proofs about the rows that Migrations carries along: the series of the  *)
(* codes, and the history recovered from the rows. On top of Base,         *)
(*   Numbers  counters lie beyond what was used by hand and what was sold  *)
(*   Changes  rows and history tell the last change of each role           *)
(*   Tables   the codes are those of the batches minted                    *)
(*   Logs     the history has a line for each card and each batch          *)
(*   CarriedOver  a command sees the committed rows as the statements it   *)
(*            has run leave them                                           *)
(* are inductive; the last gives that the scripts implement Releases.      *)
(***************************************************************************)
EXTENDS MigrationsProofs, FiniteSetTheorems

---------------------------------------------------------------------------
(* Numbers *)

\* The counters of a table are seeded before its revision is recorded, and go
\* with it; while they are there, every number sold lies below them.
AfterByHand(d) ==
  \A k \in Kind : TableOf[k] \in d.schema /\ d.revision >= Created[TableOf[k]]
                    => d.rows.counters[k] > ByHand[k]

Below(d, k, n) == d.revision >= Created[TableOf[k]] /\ n < d.rows.counters[k]

Sold(k, n) ==
  <<k, n>> \in facts.sold /\ TableOf[k] \notin facts.dropped =>
    /\ TableOf[k] \in db.schema /\ Below(db, k, n)
    /\ TableOf[k] \in conn.schema => Below(conn, k, n)

Numbers ==
  /\ conn.rows.minted \subseteq db.rows.minted
  /\ AfterByHand(db) /\ AfterByHand(conn)
  /\ \A k \in Kind : doing = "up" /\ step = 3 /\ conn.revision = Created[TableOf[k]] - 1
       => conn.rows.counters[k] > ByHand[k]
  /\ \A t \in CodeTable : doing = "down" /\ step > 1 /\ conn.revision = Created[t] => t \notin conn.schema
  /\ \A k \in Kind, n \in Nat : Sold(k, n)

\* A table of codes is an item, brought and taken by the first statements.
LEMMA CodeTables ==
  ASSUME NEW t \in CodeTable
  PROVE  t \in Items /\ Since(t) = Created[t] /\ BroughtIn(t) = 1 /\ TakenIn(t) = 1
         /\ t # "cards.user_id" /\ Created[t] \in {6, 7, 8} /\ \A u : t # Copy(u)
BY CreatedAt DEF CodeTable, Items, Since, BroughtIn, TakenIn, Copy

\* Where the tables of codes come and go.
LEMMA CodeSteps ==
  ASSUME Base, Runs, NEW t \in CodeTable
  PROVE  /\ t \in Current.adds <=> doing = "up" /\ conn.revision = Created[t] - 1 /\ step = 1
         /\ t \in Current.drops <=> doing = "down" /\ conn.revision = Created[t] /\ step = 1
         /\ Current.op = "drop_codes" /\ Current.table = t <=> t \in Current.drops
         /\ Current.op = "seed" /\ Current.table = t
              <=> doing = "up" /\ conn.revision = Created[t] - 1 /\ step = 2
<1>1. Placed /\ Shifts
  BY Places DEF Base
<1>2. conn.revision \in Int
  BY DEF Base, Control, Revision
<1>3. /\ t \in Current.adds <=> doing = "up" /\ conn.revision = Created[t] - 1 /\ step = 1
      /\ t \in Current.drops <=> doing = "down" /\ conn.revision = Created[t] /\ step = 1
  BY <1>1, <1>2, CodeTables DEF Shifts
<1>4. \A u \in CodeTable : Created[u] = Created[t] => u = t
  BY CreatedAt DEF CodeTable
<1>5. Current.op = "drop_codes" /\ Current.table = t <=> t \in Current.drops
  BY <1>1, <1>3, <1>4, CreatedAt DEF Placed
<1>6. Current.op = "seed" /\ Current.table = t
        <=> doing = "up" /\ conn.revision = Created[t] - 1 /\ step = 2
  BY <1>1, <1>2, <1>4, CreatedAt DEF Placed
<1> QED BY <1>3, <1>5, <1>6

\* What one statement does to the tables of codes.
LEMMA CodesRan ==
  ASSUME Base, Ran, NEW k \in Kind
  PROVE  LET t == TableOf[k] IN
         /\ t \in conn'.schema <=> (t \in conn.schema \/ t \in Current.adds) /\ t \notin Current.drops
         /\ t \in Current.adds => t \notin conn.schema
         /\ conn'.rows.counters[k] =
              IF Current.op = "seed" /\ Current.table = t THEN Seed[k]
              ELSE IF Current.op = "drop_codes" /\ Current.table = t THEN 0
              ELSE conn.rows.counters[k]
         /\ conn'.rows.minted \subseteq conn.rows.minted
<1>1. TableOf[k] \in CodeTable /\ \A u : TableOf[k] # Copy(u)
  BY Kinds, CodeTables
<1>2. TableOf[k] \in conn'.schema
        <=> (TableOf[k] \in conn.schema \/ TableOf[k] \in Current.adds) /\ TableOf[k] \notin Current.drops
  BY <1>1 DEF Ran
<1>3. TableOf[k] \in Current.adds => TableOf[k] \notin conn.schema
  BY DEF Ran, Possible
<1>4. Effects(Current, conn.rows, conn'.rows)
  BY DEF Ran
<1>5. conn'.rows.counters[k] =
        IF Current.op = "seed" /\ Current.table = TableOf[k] THEN Seed[k]
        ELSE IF Current.op = "drop_codes" /\ Current.table = TableOf[k] THEN 0
        ELSE conn.rows.counters[k]
  BY <1>4 DEF Effects
<1>6. conn'.rows.minted \subseteq conn.rows.minted
  BY <1>4 DEF Effects
<1> QED BY <1>2, <1>3, <1>5, <1>6

\* A table of codes that is not dropped stays.
LEMMA DroppedRan ==
  ASSUME Base, facts' = Forgotten, NEW t \in CodeTable, t \notin facts'.dropped
  PROVE  t \notin facts.dropped /\ (t \in db.schema => t \in db'.schema)
BY Forgets

\* A statement leaves each counter beyond the last number used by hand.
LEMMA NumbersRan ==
  ASSUME Base, Numbers, Ran, NEW k \in Kind
  PROVE  LET t == TableOf[k] IN
         /\ t \in conn'.schema /\ conn'.revision >= Created[t] => conn'.rows.counters[k] > ByHand[k]
         /\ t \in db'.schema /\ db'.revision >= Created[t] => db'.rows.counters[k] > ByHand[k]
         /\ doing' = "up" /\ step' = 3 /\ conn'.revision = Created[t] - 1 => conn'.rows.counters[k] > ByHand[k]
<1> DEFINE t == TableOf[k]
<1>0. /\ t \in CodeTable /\ Created[t] \in {6, 7, 8} /\ conn.revision \in Int /\ step \in Int
      /\ ByHand[k] \in Nat /\ Seed[k] = ByHand[k] + 1
  BY Kinds, CodeTables DEF Base, Control, Revision
<1>1. /\ t \in conn'.schema <=> (t \in conn.schema \/ t \in Current.adds) /\ t \notin Current.drops
      /\ conn'.rows.counters[k] =
           IF Current.op = "seed" /\ Current.table = t THEN Seed[k]
           ELSE IF Current.op = "drop_codes" /\ Current.table = t THEN 0
           ELSE conn.rows.counters[k]
  BY CodesRan
<1>2. /\ t \in Current.adds <=> doing = "up" /\ conn.revision = Created[t] - 1 /\ step = 1
      /\ t \in Current.drops <=> doing = "down" /\ conn.revision = Created[t] /\ step = 1
      /\ Current.op = "drop_codes" /\ Current.table = t <=> t \in Current.drops
      /\ Current.op = "seed" /\ Current.table = t
           <=> doing = "up" /\ conn.revision = Created[t] - 1 /\ step = 2
  BY <1>0, CodeSteps DEF Ran
<1>3. /\ step' = step + 1 /\ doing' = doing /\ conn'.revision = conn.revision
      /\ db' = db \/ db' = conn'
  BY DEF Ran
<1>4. /\ t \in conn.schema /\ conn.revision >= Created[t] => conn.rows.counters[k] > ByHand[k]
      /\ t \in db.schema /\ db.revision >= Created[t] => db.rows.counters[k] > ByHand[k]
  BY DEF Numbers, AfterByHand
<1> HIDE DEF t
<1>5. t \in conn'.schema /\ conn'.revision >= Created[t] => conn'.rows.counters[k] > ByHand[k]
  BY <1>0, <1>1, <1>2, <1>3, <1>4
<1>6. t \in db'.schema /\ db'.revision >= Created[t] => db'.rows.counters[k] > ByHand[k]
  BY <1>3, <1>4, <1>5
<1>7. doing' = "up" /\ step' = 3 /\ conn'.revision = Created[t] - 1 => conn'.rows.counters[k] > ByHand[k]
  BY <1>0, <1>1, <1>2, <1>3
<1> QED BY <1>5, <1>6, <1>7 DEF t

\* A statement leaves each counter beyond what was sold.
LEMMA SoldRan ==
  ASSUME Base, Numbers, Ran, NEW k \in Kind, NEW n \in Nat
  PROVE  Sold(k, n)'
<1> DEFINE t == TableOf[k]
<1>0. /\ t \in CodeTable /\ Created[t] \in {6, 7, 8} /\ conn.revision \in Int
      /\ db.revision \in Int
  BY Kinds, CodeTables DEF Base, Control, Revision
<1>1. /\ t \in conn'.schema <=> (t \in conn.schema \/ t \in Current.adds) /\ t \notin Current.drops
      /\ conn'.rows.counters[k] =
           IF Current.op = "seed" /\ Current.table = t THEN Seed[k]
           ELSE IF Current.op = "drop_codes" /\ Current.table = t THEN 0
           ELSE conn.rows.counters[k]
  BY CodesRan
<1>2. /\ t \in Current.adds <=> doing = "up" /\ conn.revision = Created[t] - 1 /\ step = 1
      /\ t \in Current.drops <=> doing = "down" /\ conn.revision = Created[t] /\ step = 1
      /\ Current.op = "drop_codes" /\ Current.table = t <=> t \in Current.drops
      /\ Current.op = "seed" /\ Current.table = t
           <=> doing = "up" /\ conn.revision = Created[t] - 1 /\ step = 2
  BY <1>0, CodeSteps DEF Ran
<1>3. /\ conn'.revision = conn.revision /\ db'.revision = db.revision
      /\ db' = db \/ (db' = conn' /\ db = conn)
      /\ facts' = Forgotten
  BY DEF Ran
<1>4. facts'.sold = facts.sold
  BY <1>3, Forgets
<1> SUFFICES ASSUME <<k, n>> \in facts.sold, t \notin facts'.dropped
             PROVE  /\ t \in db'.schema /\ Below(db, k, n)'
                    /\ t \in conn'.schema => Below(conn, k, n)'
  BY <1>4 DEF Sold
<1>5. t \notin facts.dropped /\ (t \in db.schema => t \in db'.schema)
  BY <1>0, <1>3, DroppedRan
<1>6. t \in db.schema /\ Below(db, k, n) /\ (t \in conn.schema => Below(conn, k, n))
  BY <1>5 DEF Numbers, Sold
<1>7. doing = "up" => db.revision <= conn.revision
  BY DEF Base, Control
<1>8. t \notin Current.adds
  BY <1>0, <1>2, <1>6, <1>7 DEF Below
<1>9. ASSUME t \in conn'.schema
      PROVE  Below(conn, k, n)'
  <2>1. t \in conn.schema /\ t \notin Current.drops
    BY <1>1, <1>8, <1>9
  <2>2. Below(conn, k, n)
    BY <1>6, <2>1
  <2>3. ~(Current.op = "seed" /\ Current.table = t)
    BY <1>0, <1>2, <2>2 DEF Below
  <2> QED BY <1>1, <1>2, <1>3, <2>1, <2>2, <2>3 DEF Below
<1>10. Below(db, k, n)'
  BY <1>3, <1>5, <1>6, <1>9 DEF Below
<1> QED BY <1>5, <1>6, <1>9, <1>10

\* So does the recording of a revision, which follows the seeding.
LEMMA NumbersRecorded ==
  ASSUME Base, Numbers, Record
  PROVE  Numbers'
<1>1. /\ db' = db /\ conn'.schema = conn.schema /\ conn'.rows = conn.rows /\ step' = 1
      /\ doing' = doing
      /\ facts' = facts
      /\ doing = "up" => conn'.revision = conn.revision + 1
      /\ doing = "down" => conn'.revision = conn.revision - 1
      /\ doing \in {"up", "down"}
  BY Recorded DEF Base, Control, Busy
<1>2. conn.revision \in Int /\ \A t \in CodeTable : Created[t] \in {6, 7, 8}
  BY CreatedAt DEF Base, Control, Revision
<1>3. /\ doing = "up" /\ conn.revision \in {5, 6, 7} => step = 3
      /\ doing = "down" => step > 1
  BY LastStep
<1>4. ASSUME NEW k \in Kind, TableOf[k] \in conn.schema, conn'.revision >= Created[TableOf[k]]
      PROVE  conn.rows.counters[k] > ByHand[k]
  <2>1. TableOf[k] \in CodeTable
    BY Kinds
  <2>2. CASE doing = "up" /\ conn.revision = Created[TableOf[k]] - 1
    BY <1>2, <1>3, <2>1, <2>2 DEF Numbers
  <2>3. CASE conn.revision >= Created[TableOf[k]]
    BY <1>4, <2>3 DEF Numbers, AfterByHand
  <2>4. conn.revision >= Created[TableOf[k]]
          \/ (doing = "up" /\ conn.revision = Created[TableOf[k]] - 1)
    BY <1>1, <1>2, <1>4, <2>1
  <2> QED BY <2>2, <2>3, <2>4
<1>5. ASSUME NEW k \in Kind, NEW n \in Nat
      PROVE  Sold(k, n)'
  <2>1. TableOf[k] \in CodeTable
    BY Kinds
  <2>2. ASSUME TableOf[k] \in conn.schema, Below(conn, k, n)
        PROVE  Below(conn, k, n)'
    <3>1. doing = "down" => conn.revision # Created[TableOf[k]]
      BY <1>3, <2>1, <2>2 DEF Numbers
    <3> QED BY <1>1, <1>2, <2>1, <2>2, <3>1 DEF Below
  <2>3. Sold(k, n)
    BY DEF Numbers
  <2> QED BY <1>1, <2>2, <2>3 DEF Sold, Below
<1>6. AfterByHand(conn)'
  BY <1>1, <1>4 DEF AfterByHand
<1> QED BY <1>1, <1>5, <1>6 DEF Numbers, AfterByHand

\* So does the bot, which moves the counter by what it mints.
LEMMA NumbersMinted ==
  ASSUME Base, Numbers, BotWrites
  PROVE  Numbers'
<1>1. BotWrote
  BY BotEffects
<1>2. /\ conn' = db' /\ db'.revision = db.revision /\ db'.schema = db.schema /\ ~Busy'
      /\ db.schema = Released(db.revision)
  BY <1>1 DEF BotWrote, BotKeeps, Busy
<1>3. CASE db'.rows.counters = db.rows.counters /\ facts'.sold = facts.sold /\ facts'.dropped = facts.dropped
  <2>1. \A k \in Kind, n \in Nat : Sold(k, n)'
    BY <1>2, <1>3 DEF Numbers, Sold, Below
  <2>2. AfterByHand(db)' /\ AfterByHand(conn)'
    BY <1>2, <1>3 DEF Numbers, AfterByHand
  <2> QED BY <1>2, <2>1, <2>2 DEF Numbers, Busy
<1>4. ASSUME NEW a \in Person, NEW kind \in Minted, NEW count \in Count, BatchWritten(a, kind, count)
      PROVE  Numbers'
  <2>1. /\ kind \in Kind /\ count \in Nat \ {0} /\ db.revision >= Created[TableOf[kind]]
        /\ db.rows.counters \in [Kind -> Nat] /\ db.revision \in Revision
        /\ db'.rows.counters = [db.rows.counters EXCEPT ![kind] = @ + count]
        /\ facts'.dropped = facts.dropped
        /\ facts'.sold = facts.sold \cup {<<kind, m.n>> : m \in BatchOf(a, kind, count)}
    BY <1>4 DEF BatchWritten, Base, Types, Database
  <2>2. \A k \in Kind : ByHand[k] \in Nat
    BY Kinds
  <2>3. \A k \in Kind : db.rows.counters[k] \in Nat /\ db'.rows.counters[k] \in Nat
                        /\ db'.rows.counters[k] >= db.rows.counters[k]
    BY <2>1
  <2>4. AfterByHand(db)'
    BY <1>2, <2>2, <2>3 DEF Numbers, AfterByHand
  <2>5. TableOf[kind] \in db.schema
    BY <1>2, <2>1, Kinds, CodeTables, Content
  <2>6. ASSUME NEW k \in Kind, NEW n \in Nat
        PROVE  Sold(k, n)'
    <3>1. CASE <<k, n>> \in facts.sold
      <4>1. Sold(k, n)
        BY DEF Numbers
      <4> QED BY <1>2, <2>1, <2>3, <3>1, <4>1 DEF Sold, Below
    <3>2. CASE \E m \in BatchOf(a, kind, count) : <<k, n>> = <<kind, m.n>>
      <4>1. k = kind /\ n <= db.rows.counters[kind] + count - 1
        BY <3>2 DEF BatchOf
      <4>2. n < db'.rows.counters[k]
        BY <2>1, <2>3, <4>1
      <4> QED BY <1>2, <2>1, <2>5, <4>1, <4>2 DEF Sold, Below
    <3> QED BY <2>1, <3>1, <3>2 DEF Sold
  <2> QED BY <1>2, <2>4, <2>6 DEF Numbers, AfterByHand, Busy
<1> QED BY <1>1, <1>3, <1>4 DEF BotWrote, RoleWritten, CardWritten

\* Relative to Base, Numbers is inductive.
LEMMA NumbersStep ==
  ASSUME Base, Numbers, [Next]_vars
  PROVE  Numbers'
<1>0. /\ Control /\ \A k \in Kind : TableOf[k] \in CodeTable
  BY Kinds DEF Base
<1>1. CASE UNCHANGED vars
  BY <1>1 DEF vars, command, Numbers, AfterByHand, Sold, Below
<1>2. ASSUME NEW direction, NEW to, Began(direction, to)
      PROVE  Numbers'
  <2>1. conn = db /\ db' = db /\ conn' = db /\ facts' = facts /\ step' = 1
    BY <1>0, <1>2 DEF Began, Control, Busy
  <2> QED BY <2>1 DEF Numbers, AfterByHand, Sold, Below
<1>3. CASE CreateCopy
  <2>1. /\ conn'.schema = conn.schema \cup {Copy(Current.table)}
        /\ conn'.rows = conn.rows /\ conn'.revision = conn.revision
        /\ db'.rows = db.rows /\ db'.revision = db.revision
        /\ db'.schema = db.schema \/ (db'.schema = conn'.schema /\ db = conn)
    BY <1>3, Copied
  <2>2. UNCHANGED <<doing, step, facts>>
    BY <1>3, Copied
  <2>3. \A t \in CodeTable : t # Copy(Current.table)
    BY CodeTables
  <2>4. \A t \in CodeTable : (t \in conn'.schema <=> t \in conn.schema) /\ (t \in db'.schema <=> t \in db.schema)
    BY <2>1, <2>3
  <2>5. \A k \in Kind, n \in Nat : Sold(k, n)'
    BY <1>0, <2>1, <2>2, <2>4 DEF Numbers, Sold, Below
  <2>6. AfterByHand(db)' /\ AfterByHand(conn)'
    BY <1>0, <2>1, <2>4 DEF Numbers, AfterByHand
  <2> QED BY <1>0, <2>1, <2>2, <2>4, <2>5, <2>6 DEF Numbers
<1>4. CASE Execute
  <2>1. Ran
    BY <1>4, ExecuteRuns
  <2>2. conn'.rows.minted \subseteq conn.rows.minted
    BY <2>1 DEF Ran, Effects
  <2>3. conn'.rows.minted \subseteq db'.rows.minted
    BY <2>1, <2>2 DEF Ran, Numbers
  <2>4. AfterByHand(db)' /\ AfterByHand(conn)'
    BY <2>1, NumbersRan DEF AfterByHand
  <2>5. \A k \in Kind : (doing = "up" /\ step = 3 /\ conn.revision = Created[TableOf[k]] - 1
                           => conn.rows.counters[k] > ByHand[k])'
    BY <2>1, NumbersRan
  <2>6. \A k \in Kind, n \in Nat : Sold(k, n)'
    BY <2>1, SoldRan
  <2>7. ASSUME NEW t \in CodeTable, doing' = "down", step' > 1, conn'.revision = Created[t]
        PROVE  t \notin conn'.schema
    <3>1. doing = "down" /\ step' = step + 1 /\ step \in Nat \ {0} /\ conn.revision = Created[t]
      BY <1>0, <2>1, <2>7 DEF Ran, Control
    <3>2. CASE step = 1
      <4>1. t \in Current.drops
        BY <2>1, <3>1, <3>2, CodeSteps DEF Ran
      <4> QED BY <2>1, <4>1 DEF Ran
    <3>3. CASE step > 1
      <4>1. t \notin conn.schema
        BY <3>1, <3>3 DEF Numbers
      <4>2. t \notin Current.adds
        BY <2>1, <3>1, CodeSteps DEF Ran
      <4> QED BY <2>1, <4>1, <4>2 DEF Ran
    <3> QED BY <3>1, <3>2, <3>3
  <2> QED BY <2>3, <2>4, <2>5, <2>6, <2>7 DEF Numbers
<1>5. CASE Record
  BY <1>5, NumbersRecorded
<1>6. CASE Committed
  <2>1. db' = conn /\ conn' = conn /\ step' = 1 /\ facts' = Forgotten
    BY <1>6 DEF Committed
  <2>2. facts'.sold = facts.sold
    BY <2>1, Forgets
  <2>3. ASSUME NEW k \in Kind, NEW n \in Nat, <<k, n>> \in facts'.sold, TableOf[k] \notin facts'.dropped
        PROVE  TableOf[k] \in conn.schema /\ Below(conn, k, n)
    <3>1. TableOf[k] \notin facts.dropped /\ (TableOf[k] \in db.schema => TableOf[k] \in db'.schema)
      BY <1>0, <2>1, <2>3, DroppedRan
    <3>2. Sold(k, n)
      BY DEF Numbers
    <3> QED BY <2>1, <2>2, <2>3, <3>1, <3>2 DEF Sold
  <2>4. \A k \in Kind, n \in Nat : Sold(k, n)'
    BY <2>1, <2>3 DEF Sold, Below
  <2> QED BY <2>1, <2>4 DEF Numbers, AfterByHand
<1>7. CASE Undone
  <2>1. conn' = db /\ db' = db /\ facts' = facts /\ step' = 1
    BY <1>7 DEF Undone
  <2> QED BY <2>1 DEF Numbers, AfterByHand, Sold, Below
<1>8. CASE BotWrites
  BY <1>8, NumbersMinted
<1> QED BY <1>1, <1>2, <1>3, <1>4, <1>5, <1>6, <1>7, <1>8, Steps

\* Nothing is sold at first.
LEMMA NumbersInit ==
  ASSUME Init
  PROVE  Numbers
<1>1. conn = db /\ db.rows.minted = {} /\ db.schema = {} /\ step = 1 /\ facts.sold = {}
  BY DEF Init, NoRows
<1> QED BY <1>1 DEF Numbers, AfterByHand, Sold

\* Numbers is an invariant.
LEMMA NumbersHold == Spec => []Numbers
BY NumbersInit, NumbersStep, BaseHolds, PTL DEF Spec

\* The series of all codes go on after the last number used by hand, and no number
\* is minted twice unless its table was dropped meanwhile.
THEOREM MigrationsNumbersGoOn == Spec => NumbersGoOn
<1>1. ASSUME Base, Numbers, [Next]_vars, NEW m \in db'.rows.minted \ db.rows.minted
      PROVE  /\ m.n > ByHand[m.kind]
             /\ <<m.kind, m.n>> \in facts.sold => TableOf[m.kind] \in facts.dropped
  <2>1. \E a \in Person, kind \in Minted, count \in Count : BatchWritten(a, kind, count) /\ BotKeeps
    <3>1. conn.rows.minted \subseteq db.rows.minted
      BY <1>1 DEF Numbers
    <3>2. ASSUME Ran
          PROVE  db'.rows.minted \subseteq db.rows.minted
      <4>1. conn'.rows.minted \subseteq conn.rows.minted
        BY <3>2 DEF Ran, Effects
      <4> QED BY <3>1, <3>2, <4>1 DEF Ran
    <3>3. db'.rows.minted \subseteq db.rows.minted \/ BotWrites
      BY <1>1, <3>1, <3>2, Steps, ExecuteRuns, Copied, Recorded
         DEF vars, Began, Undone, Committed
    <3> QED BY <1>1, <3>3, BotEffects DEF BotWrote, RoleWritten, CardWritten
  <2>2. PICK a \in Person, kind \in Minted, count \in Count : BatchWritten(a, kind, count)
          /\ BotKeeps
    BY <2>1
  <2>3. m \in BatchOf(a, kind, count) /\ kind \in Kind /\ db.rows.counters[kind] \in Nat
        /\ db.revision >= Created[TableOf[kind]] /\ db.schema = Released(db.revision)
    BY <1>1, <2>2 DEF BatchWritten, BotKeeps
  <2>4. m.kind = kind /\ m.n \in Nat /\ m.n >= db.rows.counters[kind]
    BY <2>2, <2>3 DEF BatchOf, BatchWritten
  <2>5. TableOf[kind] \in db.schema
    BY <1>1, <2>3, Kinds, CodeTables, Content DEF Base, Control
  <2>6. db.rows.counters[kind] > ByHand[kind] /\ ByHand[kind] \in Nat
    BY <1>1, <2>3, <2>5, Kinds DEF Numbers, AfterByHand
  <2>7. Sold(kind, m.n)
    BY <1>1, <2>3, <2>4 DEF Numbers
  <2> QED BY <2>3, <2>4, <2>6, <2>7 DEF Sold, Below
<1>2. Base /\ Numbers /\ [Next]_vars =>
        \A m \in db'.rows.minted \ db.rows.minted :
          /\ m.n > ByHand[m.kind]
          /\ <<m.kind, m.n>> \in facts.sold => TableOf[m.kind] \in facts.dropped
  BY <1>1
<1> QED BY <1>2, BaseHolds, NumbersHold, PTL DEF Spec, NumbersGoOn

---------------------------------------------------------------------------
(* The last change of each role *)

\* The running upgrade has written the history.
Recovered ==
  /\ doing = "up" /\ db.revision < Latest
  /\ conn.revision = Latest \/ (conn.revision = 8 /\ step > 2)

\* The row of a person names who last changed their role by hand, and says the
\* same as its last change.
SameChange(u, f) ==
  /\ u.by = f.by
  /\ f.at # 0 => u.role = f.role /\ u.at = f.at /\ (f.role = "none" => f.by # Nobody)

\* Without the column nobody has a role.
Roleless(d) == "users.role" \notin d.schema => d.rows.users = [p \in Person |-> NoRole]

Changes ==
  /\ Roleless(db) /\ Roleless(conn)
  /\ conn.rows.users = db.rows.users \/ (doing = "down" /\ "users.role" \notin conn.schema)
  /\ \A p \in Person : SameChange(db.rows.users[p], facts.roles[p])
  /\ Recovered => conn.rows.log = Backfill(conn.rows)

\* The history is written and taken away by the last statements of all, and
\* nothing runs after the first of them.
LEMMA LastScript ==
  ASSUME Base, Ran
  PROVE  /\ ~Recovered
         /\ Recovered' <=> Current.op = "backfill"
         /\ conn.revision = Latest => Current.op = "drop_log" /\ "audit_log" \in Current.drops
<1>1. Placed /\ Shifts
  BY Places DEF Base, Ran
<1>2. /\ conn.revision \in 0 .. 9 /\ goal \in 0 .. 9 /\ db.revision \in 0 .. 9
      /\ step \in Nat \ {0}
      /\ conn.revision # goal /\ step <= Len(Script) /\ doing \in {"up", "down"}
      /\ doing = "up" => db.revision <= conn.revision /\ conn.revision <= goal
      /\ doing = "down" => goal <= conn.revision
  BY DEF Base, Control, Ran, Runs, Revision, Latest, Arrived
<1>3. doing = "up" => conn.revision < 9 /\ (conn.revision = 8 => step \in {1, 2})
  <2>1. ASSUME doing = "up", conn.revision = 8
        PROVE  step \in {1, 2}
    <3>1. Script = Up[9]
      BY <2>1 DEF Script
    <3>2. Len(Script) = 2
      BY <3>1, UpScript9
    <3> QED BY <1>2, <3>2
  <2> QED BY <1>2, <2>1
<1>4. conn.revision = 9 => doing = "down" /\ step = 1
  <2>1. ASSUME conn.revision = 9
        PROVE  doing = "down" /\ step = 1
    <3>1. doing = "down"
      BY <1>2, <1>3, <2>1
    <3>2. Script = Down[9]
      BY <2>1, <3>1 DEF Script
    <3>3. Len(Script) = 1
      BY <3>2, DownScript9
    <3> QED BY <1>2, <3>1, <3>3
  <2> QED BY <2>1
<1>5. ~Recovered
  BY <1>2, <1>3, <1>4 DEF Recovered, Latest
<1>6. Recovered' <=> Current.op = "backfill"
  <2>1. /\ doing' = doing /\ conn'.revision = conn.revision /\ step' = step + 1
        /\ db'.revision = db.revision
    BY DEF Ran
  <2>2. Current.op = "backfill" <=> doing = "up" /\ conn.revision = 8 /\ step = 2
    BY <1>1 DEF Placed
  <2> QED BY <1>2, <1>3, <1>4, <2>1, <2>2 DEF Recovered, Latest
<1>7. ASSUME conn.revision = 9
      PROVE  Current.op = "drop_log" /\ "audit_log" \in Current.drops
  <2>1. "audit_log" \in Items /\ Since("audit_log") = 9 /\ TakenIn("audit_log") = 1
    BY DEF Items, Since, TakenIn
  <2> QED BY <1>1, <1>4, <1>7, <2>1 DEF Placed, Shifts
<1> QED BY <1>5, <1>6, <1>7 DEF Latest

\* A revision recorded after the backfill is the latest.
LEMMA RecordsHistory ==
  ASSUME Base, Record, Recovered'
  PROVE  Recovered
<1>1. /\ step' = 1 /\ doing' = doing /\ db' = db /\ step = Len(Script) + 1
      /\ doing = "up" => conn'.revision = conn.revision + 1
  BY Recorded
<1>2. conn.revision \in Int
  BY DEF Base, Control, Revision
<1>3. conn.revision = 8 /\ doing = "up"
  BY <1>1, <1>2 DEF Recovered, Latest
<1>4. Script = Up[9]
  BY <1>3 DEF Script
<1>5. step = 3
  <2>1. Len(Script) = 2
    BY <1>4, UpScript9
  <2> QED BY <1>1, <2>1
<1> QED BY <1>1, <1>3, <1>5 DEF Recovered

\* Relative to Base, Changes is inductive.
LEMMA ChangesStep ==
  ASSUME Base, Changes, [Next]_vars
  PROVE  Changes'
<1>0. Control /\ db.revision \in 0 .. 9
  BY DEF Base, Control, Revision, Latest
<1>1. CASE UNCHANGED vars
  BY <1>1 DEF vars, command, Changes, Recovered, Roleless
<1>2. ASSUME NEW direction, NEW to, Began(direction, to)
      PROVE  Changes'
  <2>1. conn = db /\ db' = db /\ conn' = db /\ facts' = facts /\ step' = 1
    BY <1>0, <1>2 DEF Began, Control, Busy
  <2>2. ~Recovered'
    BY <1>0, <2>1 DEF Recovered, Latest
  <2> QED BY <2>1, <2>2 DEF Changes, Roleless
<1>3. CASE CreateCopy
  <2>1. /\ conn'.schema = conn.schema \cup {Copy(Current.table)}
        /\ conn'.rows = conn.rows /\ db'.rows = db.rows
        /\ conn'.revision = conn.revision /\ db'.revision = db.revision
        /\ UNCHANGED <<doing, step, facts>>
    BY <1>3, Copied
  <2>2. "users.role" # Copy(Current.table)
    BY DEF Copy
  <2>3. "users.role" \in db'.schema <=> "users.role" \in db.schema
    BY <1>3, <2>2, Copied
  <2> QED BY <2>1, <2>2, <2>3 DEF Changes, Recovered, Roleless
<1>4. CASE Execute
  <2>1. Ran
    BY <1>4, ExecuteRuns
  <2>2. Placed /\ Shifts
    BY <2>1, Places DEF Base, Ran
  <2>3. Effects(Current, conn.rows, conn'.rows) /\ doing' = doing /\ facts' = Forgotten
    BY <2>1 DEF Ran
  <2>4. conn'.rows.users = IF Current.op = "drop_role" THEN [p \in Person |-> NoRole] ELSE conn.rows.users
    BY <2>3 DEF Effects
  <2>5. "users.role" \in conn'.schema =>
          Current.op # "drop_role" /\ ("users.role" \in conn.schema \/ doing = "up")
    <3>1. "users.role" \in Current.adds => doing = "up"
      BY <2>2 DEF Shifts, Items
    <3>2. Current.op = "drop_role" => "users.role" \in Current.drops
      BY <2>2 DEF Placed
    <3> QED BY <2>1, <3>1, <3>2 DEF Ran
  <2>6. Current.op = "drop_role" => doing = "down" /\ "users.role" \notin conn'.schema
    BY <2>2, <2>5 DEF Placed
  <2>7. /\ facts'.roles = IF "users.role" \in db'.schema THEN facts.roles ELSE [p \in Person |-> NoRole]
    BY <2>3, Forgets
  <2>8. Recovered' => conn'.rows.log = Backfill(conn'.rows)
    <3>1. ASSUME Current.op = "backfill"
          PROVE  conn'.rows.log = Backfill(conn'.rows)
      <4>1. conn'.rows.log = Backfill(conn.rows)
        BY <2>3, <3>1 DEF Effects
      <4>2. conn'.rows.users = conn.rows.users /\ conn'.rows.cards = conn.rows.cards
            /\ conn'.rows.minted = conn.rows.minted
        BY <2>3, <3>1 DEF Effects
      <4> QED BY <4>1, <4>2 DEF Backfill
    <3> QED BY <2>1, <3>1, LastScript
  <2>9. conn'.rows.users = conn.rows.users \/ (doing = "down" /\ "users.role" \notin conn'.schema)
    BY <2>4, <2>6
  <2>12. Roleless(conn)'
    <3>1. "users.role" \notin conn'.schema => "users.role" \notin conn.schema \/ "users.role" \in Current.drops
      BY <2>1 DEF Ran, Copy
    <3>2. "users.role" \in Current.drops => Current.op = "drop_role"
      BY <2>2 DEF Placed
    <3> QED BY <2>4, <3>1, <3>2 DEF Changes, Roleless
  <2>10. CASE db' = db
    <3>1. conn'.rows.users = db'.rows.users \/ (doing' = "down" /\ "users.role" \notin conn'.schema)
      BY <2>3, <2>5, <2>9, <2>10 DEF Changes
    <3>2. \A p \in Person : SameChange(db'.rows.users[p], facts'.roles[p])
      BY <2>7, <2>10 DEF Changes, SameChange, NoRole, Roleless
    <3>3. Roleless(db)'
      BY <2>10 DEF Changes, Roleless
    <3> QED BY <2>8, <2>12, <3>1, <3>2, <3>3 DEF Changes
  <2>11. CASE db' = conn' /\ db = conn
    <3>1. \A p \in Person : SameChange(db'.rows.users[p], facts'.roles[p])
      <4>1. CASE "users.role" \in db'.schema
        <5>1. facts'.roles = facts.roles /\ db'.rows.users = db.rows.users
          BY <2>4, <2>5, <2>7, <2>11, <4>1
        <5> QED BY <5>1 DEF Changes
      <4>2. CASE "users.role" \notin db'.schema
        BY <2>7, <2>11, <2>12, <4>2 DEF SameChange, NoRole, Roleless
      <4> QED BY <4>1, <4>2
    <3>2. Roleless(db)'
      BY <2>11, <2>12 DEF Roleless
    <3> QED BY <2>8, <2>11, <2>12, <3>1, <3>2 DEF Changes
  <2> QED BY <2>1, <2>10, <2>11 DEF Ran
<1>5. CASE Record
  <2>1. /\ db' = db /\ conn'.rows = conn.rows /\ conn'.schema = conn.schema
        /\ UNCHANGED <<doing, facts>>
    BY <1>5, Recorded
  <2> QED BY <1>5, <2>1, RecordsHistory DEF Changes, Roleless
<1>6. CASE Committed
  <2>1. db' = conn /\ conn' = conn /\ doing' = "nothing" /\ facts' = Forgotten
    BY <1>6 DEF Committed
  <2>2. /\ facts'.roles = IF "users.role" \in db'.schema THEN facts.roles ELSE [p \in Person |-> NoRole]
    BY <2>1, Forgets
  <2>3. \A p \in Person : SameChange(db'.rows.users[p], facts'.roles[p])
    <3>1. CASE "users.role" \in db'.schema
      BY <2>1, <2>2, <3>1 DEF Changes
    <3>2. CASE "users.role" \notin db'.schema
      BY <2>1, <2>2, <3>2 DEF Changes, SameChange, NoRole, Roleless
    <3> QED BY <3>1, <3>2
  <2>4. Roleless(db)' /\ Roleless(conn)'
    BY <2>1 DEF Changes, Roleless
  <2> QED BY <2>1, <2>3, <2>4 DEF Changes, Recovered
<1>7. CASE Undone
  <2>1. conn' = db /\ db' = db /\ facts' = facts /\ doing' = "nothing"
    BY <1>7 DEF Undone
  <2> QED BY <2>1 DEF Changes, Recovered, Roleless
<1>8. CASE BotWrites
  <2>1. BotWrote
    BY <1>8, BotEffects
  <2>2. conn' = db' /\ ~Busy'
    BY <2>1 DEF BotWrote, BotKeeps, Busy
  <2>3. \A p \in Person : SameChange(db'.rows.users[p], facts'.roles[p])
    <3>1. ASSUME NEW p \in Person, NEW row, NEW change, RoleWritten(p, row, change), NEW q \in Person
          PROVE  SameChange(db'.rows.users[q], facts'.roles[q])
      <4>1. /\ db.rows.users \in [Person -> RoleRow] /\ facts.roles \in [Person -> RoleRow]
        BY DEF Base, Types, Database, RoleRow
      <4>2. /\ db'.rows.users = [db.rows.users EXCEPT ![p] = row]
            /\ facts'.roles = [facts.roles EXCEPT ![p] = change]
        BY <3>1 DEF RoleWritten
      <4>3. SameChange(row, change)
        BY <3>1 DEF RoleWritten, Changes, SameChange
      <4> QED BY <4>1, <4>2, <4>3 DEF Changes
    <3>2. CASE db'.rows.users = db.rows.users /\ facts'.roles = facts.roles
      BY <3>2 DEF Changes
    <3> QED BY <2>1, <3>1, <3>2 DEF BotWrote, CardWritten, BatchWritten
  <2>4. Roleless(db)'
    <3>1. ASSUME NEW p \in Person, NEW row, NEW change, RoleWritten(p, row, change)
          PROVE  "users.role" \in db'.schema
      <4>1. db.revision >= 2 /\ db'.schema = Released(db.revision) /\ db.revision \in Revision
        BY <2>1, <3>1 DEF RoleWritten, BotWrote, BotKeeps, Base, Control
      <4>2. "users.role" \in Items /\ Since("users.role") = 2 /\ "users.role" # "cards.user_id"
        BY DEF Items, Since
      <4> QED BY <4>1, <4>2, Content
    <3>2. CASE db'.rows.users = db.rows.users
      BY <2>1, <3>2 DEF Changes, Roleless, BotWrote, BotKeeps
    <3> QED BY <2>1, <3>1, <3>2 DEF BotWrote, CardWritten, BatchWritten, Roleless
  <2>5. Roleless(conn)'
    BY <2>2, <2>4 DEF Roleless
  <2> QED BY <2>2, <2>3, <2>4, <2>5 DEF Changes, Recovered, Busy
<1> QED BY <1>1, <1>2, <1>3, <1>4, <1>5, <1>6, <1>7, <1>8, Steps

\* No role has changed at first.
LEMMA ChangesInit ==
  ASSUME Init
  PROVE  Changes
<1>1. /\ conn = db /\ facts.roles = [p \in Person |-> NoRole] /\ doing = "nothing"
      /\ db.rows.users = [p \in Person |-> NoRole]
  BY DEF Init, NoRows
<1> QED BY <1>1 DEF Changes, SameChange, NoRole, Recovered, Roleless

\* Changes is an invariant.
LEMMA ChangesHold == Spec => []Changes
BY ChangesInit, ChangesStep, BaseHolds, PTL DEF Spec

\* The committed revision moves at a commit only.
LEMMA OnlyCommits ==
  ASSUME Base, [Next]_vars, db'.revision # db.revision
  PROVE  Committed
<1>1. ~UNCHANGED vars
  BY DEF vars
<1>2. ~(\E direction, to : Began(direction, to))
  BY DEF Began
<1>3. ~CreateCopy
  BY Copied
<1>4. ~Execute
  BY ExecuteRuns DEF Ran
<1>5. ~Record
  BY Recorded
<1>6. ~Undone
  BY DEF Undone
<1>7. ~BotWrites
  BY BotEffects DEF BotWrote, BotKeeps
<1> QED BY <1>1, <1>2, <1>3, <1>4, <1>5, <1>6, <1>7, Steps

\* The backfill of the audit log tells of the last change of every role.
THEOREM MigrationsRecoverRoles == Spec => BackfillTellsLastChange
<1>1. ASSUME Base, Changes, [Next]_vars, doing = "up", db.revision < Latest, db'.revision = Latest,
             NEW p \in Person, facts.roles[p].at # 0
      PROVE  \E l \in db'.rows.log.roles :
               /\ l.target = p /\ l.at = facts.roles[p].at
               /\ l.actor = facts.roles[p].by /\ l.role = facts.roles[p].role
  <2>1. Committed
    BY <1>1, OnlyCommits DEF Latest
  <2>2. db' = conn /\ Recovered
    BY <1>1, <2>1 DEF Committed, Recovered
  <2>3. db'.rows.log.roles = RoleLines(conn.rows.users) /\ conn.rows.users = db.rows.users
    BY <1>1, <2>2 DEF Changes, Backfill
  <2> DEFINE u == db.rows.users[p]
             f == facts.roles[p]
  <2>4. SameChange(u, f)
    BY <1>1 DEF Changes
  <2>5. u.at # 0 /\ (u.role = "none" => u.by # Nobody) /\ u.by = f.by /\ u.role = f.role /\ u.at = f.at
    BY <1>1, <2>4 DEF SameChange
  <2>6. RoleLine(p, u) \in db'.rows.log.roles
    BY <2>3, <2>5 DEF RoleLines
  <2>7. RoleLine(p, u).target = p /\ RoleLine(p, u).at = u.at /\ RoleLine(p, u).actor = u.by
        /\ RoleLine(p, u).role = u.role
    BY DEF RoleLine
  <2> QED BY <2>5, <2>6, <2>7
<1>2. Base /\ Changes /\ [Next]_vars =>
        (HistoryBegins =>
           \A p \in Person : facts.roles[p].at # 0 =>
             \E l \in db'.rows.log.roles :
               /\ l.target = p /\ l.at = facts.roles[p].at
               /\ l.actor = facts.roles[p].by /\ l.role = facts.roles[p].role)
  BY <1>1 DEF HistoryBegins
<1> QED BY <1>2, BaseHolds, ChangesHold, PTL DEF Spec, BackfillTellsLastChange

---------------------------------------------------------------------------
(* Codes and batches *)

\* The codes of a batch, by its line.
Cells(b) == {[kind |-> b.kind, n |-> n, by |-> b.actor, at |-> b.at] : n \in b.first .. b.last}

BatchRow == [kind : Kind, actor : Person, at : Nat, count : Nat, first : Nat, last : Nat]

Ranged(b) == b \in BatchRow /\ b.first <= b.last /\ b.count = b.last - b.first + 1

\* Recovered from its codes, the line of a batch tells the batch: how many, by
\* whom and when, and from where to where if they have as many digits each.
LEMMA LineOfCells ==
  ASSUME NEW b, Ranged(b)
  PROVE  Tells(BatchLine(Cells(b)), b)
<1> DEFINE C == Cells(b)
           I == b.first .. b.last
           code(n) == [kind |-> b.kind, n |-> n, by |-> b.actor, at |-> b.at]
           numbers == {m.n : m \in C}
           one == CHOOSE m \in C : TRUE
           low == CHOOSE n \in numbers : \A i \in numbers : Before(one.kind, n, i)
           high == CHOOSE n \in numbers : \A i \in numbers : Before(one.kind, i, n)
<1>0. /\ b.first \in Nat /\ b.last \in Nat /\ b.first <= b.last
      /\ b.count = b.last - b.first + 1
      /\ b = [kind |-> b.kind, actor |-> b.actor, at |-> b.at, count |-> b.count,
              first |-> b.first, last |-> b.last]
  BY DEF Ranged, BatchRow
<1>1. C = {code(n) : n \in I}
  BY DEF Cells
<1>2. Cardinality(C) = b.count
  <2> DEFINE f == [n \in I |-> code(n)]
  <2>1. f \in Surjection(I, C)
    BY <1>1 DEF Surjection
  <2>2. f \in Injection(I, C)
    <3>1. \A x, y \in I : f[x] = f[y] => x = y
      <4>1. \A x \in I : f[x].n = x
        OBVIOUS
      <4> QED BY <4>1
    <3>2. f \in [I -> C]
      BY <1>1
    <3> QED BY <3>1, <3>2 DEF Injection, IsInjective
  <2>3. IsFiniteSet(I) /\ Cardinality(I) = b.count
    BY <1>0, FS_Interval
  <2> HIDE DEF f, C, I
  <2> QED BY <2>1, <2>2, <2>3, FS_Surjection
<1>3. numbers = I
  <2>1. \A n \in I : code(n).n = n
    OBVIOUS
  <2>2. \A n \in I : code(n) \in C
    BY <1>1
  <2>3. \A m \in C : \E n \in I : m = code(n)
    BY <1>1
  <2> HIDE DEF C, I, code
  <2>4. \A n \in I : n \in numbers
    BY <2>1, <2>2
  <2>5. \A n \in numbers : n \in I
    BY <2>1, <2>3
  <2> QED BY <2>4, <2>5
<1>4. one \in C
  <2>1. code(b.first) \in C
    BY <1>0, <1>1
  <2> HIDE DEF C, code
  <2>2. (CHOOSE m \in C : TRUE) \in C
    BY <2>1, Zenon
  <2> QED BY <2>2
<1>5. one.kind = b.kind /\ one.by = b.actor /\ one.at = b.at
  <2>1. \A m \in C : m.kind = b.kind /\ m.by = b.actor /\ m.at = b.at
    BY <1>1
  <2> HIDE DEF one, C
  <2> QED BY <1>4, <2>1
<1>6. ASSUME SameLength(b)
      PROVE  low = b.first /\ high = b.last
  <2>1. ASSUME NEW m \in I, NEW n \in I
        PROVE  Before(b.kind, m, n) <=> m <= n
    <3>1. Size(b.kind, m) = Size(b.kind, n)
      BY <1>6 DEF SameLength
    <3> QED BY <3>1, Zenon DEF Before
  <2>2. one.kind = b.kind
    BY <1>5
  <2> HIDE DEF one, numbers
  <2>3. low = CHOOSE n \in I : \A i \in I : Before(b.kind, n, i)
    BY <1>3, <2>2
  <2>4. high = CHOOSE n \in I : \A i \in I : Before(b.kind, i, n)
    BY <1>3, <2>2
  <2> HIDE DEF low, high
  <2>5. low = b.first
    BY <1>0, <2>1, <2>3
  <2>6. high = b.last
    BY <1>0, <2>1, <2>4
  <2> QED BY <2>5, <2>6
<1>7. BatchLine(C) = [kind |-> one.kind, actor |-> one.by, at |-> one.at, count |-> Cardinality(C),
                      first |-> low, last |-> high]
  BY DEF BatchLine
<1> HIDE DEF one, low, high, C
<1>8. Tells(BatchLine(C), b)
  BY <1>2, <1>5, <1>6, <1>7 DEF Tells
<1> QED BY <1>8 DEF C

\* What is sold in a batch is what its line tells.
LEMMA BatchCells ==
  ASSUME Base, NEW a \in Person, NEW kind \in Kind, NEW count \in Nat \ {0}, now' \in Nat,
         db.rows.counters[kind] \in Nat
  PROVE  LET b == LineFor(a, kind, count) IN
         /\ Ranged(b) /\ Cells(b) = BatchOf(a, kind, count)
         /\ b.kind = kind /\ b.actor = a /\ b.at = now'
<1> DEFINE from == db.rows.counters[kind]
           b == [kind |-> kind, actor |-> a, at |-> now', count |-> count,
                 first |-> from, last |-> from + count - 1]
<1>1. Ranged(b)
  BY DEF Ranged, BatchRow
<1>2. Cells(b) = BatchOf(a, kind, count)
  BY DEF Cells, BatchOf
<1>3. b.kind = kind /\ b.actor = a /\ b.at = now'
  OBVIOUS
<1>4. b = LineFor(a, kind, count)
  BY DEF LineFor, MintedLine
<1> HIDE DEF b
<1> QED BY <1>1, <1>2, <1>3, <1>4

\* The codes there are, are those of the batches; the running command sees those
\* of the tables it has left, and an upgrade takes none away.
Tables ==
  /\ doing = "up" => \A t \in CodeTable : t \in db.schema => t \in conn.schema
  /\ \A m : m \in conn.rows.minted <=> m \in db.rows.minted /\ TableOf[m.kind] \in conn.schema
  /\ \A m : m \in db.rows.minted <=> \E b \in facts.batches : m \in Cells(b)
  /\ \A b \in facts.batches : Ranged(b) /\ TableOf[b.kind] \in db.schema

\* A code of a batch has its type, its admin and its instant.
LEMMA CellKind ==
  ASSUME NEW b, NEW m \in Cells(b)
  PROVE  m.kind = b.kind /\ m.by = b.actor /\ m.at = b.at
BY DEF Cells

\* A statement drops the codes of a table with it, or none.
LEMMA TablesRan ==
  ASSUME Base, Tables, Ran
  PROVE  Tables'
<1>0. /\ facts' = Forgotten /\ doing' = doing
      /\ db' = db \/ (db' = conn' /\ db = conn)
  BY DEF Ran
<1>1. facts'.batches = {b \in facts.batches : TableOf[b.kind] \in db'.schema}
  BY <1>0, Forgets
<1>2. ASSUME NEW t \in CodeTable
      PROVE  /\ t \in conn'.schema <=> (t \in conn.schema \/ t \in Current.adds) /\ t \notin Current.drops
             /\ t \in Current.adds => t \notin conn.schema /\ doing = "up"
             /\ t \in Current.drops => doing = "down"
  <2>1. t \in Current.adds => t \notin conn.schema
    BY DEF Ran, Possible
  <2>2. t \in conn'.schema <=> (t \in conn.schema \/ t \in Current.adds) /\ t \notin Current.drops
    BY CodeTables DEF Ran
  <2> QED BY <2>1, <2>2, CodeSteps DEF Ran
<1>3. ASSUME NEW m
      PROVE  m \in conn'.rows.minted <=> m \in db.rows.minted /\ TableOf[m.kind] \in conn'.schema
  <2>1. m \in conn'.rows.minted
          <=> m \in conn.rows.minted /\ ~(Current.op = "drop_codes" /\ Current.table = TableOf[m.kind])
    BY DEF Ran, Effects
  <2>2. m \in db.rows.minted => m.kind \in Kind
    BY DEF Base, Types, MintRow
  <2>3. m \in db.rows.minted =>
          /\ TableOf[m.kind] \in CodeTable /\ TableOf[m.kind] \in db.schema
          /\ Current.op = "drop_codes" /\ Current.table = TableOf[m.kind]
               <=> TableOf[m.kind] \in Current.drops
    BY <2>2, Kinds, CodeSteps, CellKind DEF Tables, Ran
  <2> QED BY <1>2, <2>1, <2>3 DEF Tables
<1>4. CASE db' = db
  <2>1. facts'.batches = facts.batches
    BY <1>1, <1>4 DEF Tables
  <2>2. doing' = "up" => \A t \in CodeTable : t \in db'.schema => t \in conn'.schema
    BY <1>0, <1>2, <1>4 DEF Tables
  <2> QED BY <1>3, <1>4, <2>1, <2>2 DEF Tables
<1>5. CASE db' = conn' /\ db = conn
  <2>1. \A m : m \in db'.rows.minted <=> \E b \in facts'.batches : m \in Cells(b)
    BY <1>1, <1>3, <1>5, CellKind DEF Tables
  <2>2. \A m : m \in db'.rows.minted => TableOf[m.kind] \in db'.schema
    BY <1>3, <1>5
  <2> QED BY <1>1, <1>5, <2>1, <2>2 DEF Tables
<1> QED BY <1>0, <1>4, <1>5

\* The bot adds a batch and its codes.
LEMMA TablesMinted ==
  ASSUME Base, Tables, BotWrites
  PROVE  Tables'
<1>1. BotWrote
  BY BotEffects
<1>2. /\ conn' = db' /\ conn = db /\ db'.schema = db.schema /\ doing' = doing
      /\ db.schema = Released(db.revision) /\ now' \in Nat
  BY <1>1 DEF BotWrote, BotKeeps
<1>3. CASE db'.rows.minted = db.rows.minted /\ facts'.batches = facts.batches
  BY <1>2, <1>3 DEF Tables
<1>4. ASSUME NEW a \in Person, NEW kind \in Minted, NEW count \in Count, BatchWritten(a, kind, count)
      PROVE  Tables'
  <2> DEFINE b == LineFor(a, kind, count)
  <2>1. /\ kind \in Kind /\ count \in Nat \ {0} /\ db.revision >= Created[TableOf[kind]]
        /\ db.rows.counters[kind] \in Nat
        /\ db'.rows.minted = db.rows.minted \cup BatchOf(a, kind, count)
        /\ facts'.batches = facts.batches \cup {b}
    BY <1>4 DEF BatchWritten
  <2>2. Ranged(b) /\ Cells(b) = BatchOf(a, kind, count) /\ b.kind = kind
    BY <1>2, <2>1, BatchCells
  <2>3. TableOf[kind] \in db.schema
    BY <1>2, <2>1, Kinds, CodeTables, Content DEF Base, Control
  <2> HIDE DEF b
  <2>4. \A m : m \in db'.rows.minted <=> \E c \in facts'.batches : m \in Cells(c)
    BY <2>1, <2>2 DEF Tables
  <2>5. \A c \in facts'.batches : Ranged(c) /\ TableOf[c.kind] \in db'.schema
    BY <1>2, <2>1, <2>2, <2>3 DEF Tables
  <2>6. \A m \in db'.rows.minted : TableOf[m.kind] \in conn'.schema
    BY <1>2, <2>4, <2>5, CellKind
  <2> QED BY <1>2, <2>4, <2>5, <2>6 DEF Tables
<1> QED BY <1>1, <1>3, <1>4 DEF BotWrote, RoleWritten, CardWritten

\* Relative to Base, Tables is inductive.
LEMMA TablesStep ==
  ASSUME Base, Tables, [Next]_vars
  PROVE  Tables'
<1>0. Control
  BY DEF Base
<1>1. CASE UNCHANGED vars
  BY <1>1 DEF vars, command, Tables
<1>2. \A m \in db.rows.minted : TableOf[m.kind] \in db.schema
  BY CellKind DEF Tables
<1>3. CASE conn' = db /\ db' = db /\ facts' = facts
  BY <1>2, <1>3 DEF Tables
<1>4. ASSUME NEW direction, NEW to, Began(direction, to)
      PROVE  conn' = db /\ db' = db /\ facts' = facts
  BY <1>0, <1>4 DEF Began, Control, Busy
<1>5. CASE CreateCopy
  <2>1. /\ conn'.schema = conn.schema \cup {Copy(Current.table)} /\ conn'.rows = conn.rows
        /\ db'.rows = db.rows /\ UNCHANGED <<doing, facts>>
        /\ db'.schema = db.schema \/ (db'.schema = conn'.schema /\ db = conn)
    BY <1>5, Copied
  <2>2. \A k \in Kind : TableOf[k] \in CodeTable
    BY Kinds
  <2>3. \A t \in CodeTable : (t \in conn'.schema <=> t \in conn.schema) /\ (t \in db'.schema <=> t \in db.schema)
    BY <2>1, CodeTables
  <2>4. (\A m \in db.rows.minted : m.kind \in Kind) /\ \A b \in facts.batches : b.kind \in Kind
    BY DEF Tables, Ranged, BatchRow, Base, Types, MintRow
  <2> QED BY <2>1, <2>2, <2>3, <2>4 DEF Tables
<1>6. CASE Record
  <2>1. db' = db /\ conn'.rows = conn.rows /\ conn'.schema = conn.schema
          /\ UNCHANGED <<doing, facts>>
    BY <1>6, Recorded
  <2> QED BY <2>1 DEF Tables
<1>7. CASE Committed
  <2>1. db' = conn /\ conn' = conn /\ facts' = Forgotten
    BY <1>7 DEF Committed
  <2>2. facts'.batches = {b \in facts.batches : TableOf[b.kind] \in db'.schema}
    BY <2>1, Forgets
  <2> QED BY <2>1, <2>2, CellKind DEF Tables
<1>8. Undone => conn' = db /\ db' = db /\ facts' = facts
  BY DEF Undone
<1> QED BY <1>1, <1>3, <1>4, <1>5, <1>6, <1>7, <1>8, TablesRan, TablesMinted, Steps, ExecuteRuns

\* There are no codes at first.
LEMMA TablesInit ==
  ASSUME Init
  PROVE  Tables
<1>1. conn = db /\ db.rows.minted = {} /\ facts.batches = {} /\ doing = "nothing"
  BY DEF Init, NoRows
<1> QED BY <1>1 DEF Tables

\* Tables is an invariant.
LEMMA TablesHold == Spec => []Tables
BY TablesInit, TablesStep, BaseHolds, PTL DEF Spec

---------------------------------------------------------------------------
(* The history *)

\* The history has one line for each card, and tells of the batches minted.
Accounted(d) ==
  /\ d.rows.log.cards = {CardLine(c) : c \in d.rows.cards}
  /\ Apart(facts.batches) => Told(d.rows.log.batches, facts.batches)

Written(d) == d.revision = Latest /\ "audit_log" \in d.schema

Logs ==
  /\ Written(db) => Accounted(db)
  /\ Written(conn) \/ Recovered => Accounted(conn)

\* Grouped by type, admin and instant, the codes tell of the batches.
LEMMA Regrouped ==
  ASSUME NEW M, NEW B, Apart(B),
         \A m : m \in M <=> \E b \in B : m \in Cells(b),
         \A b \in B : Ranged(b)
  PROVE  Told({BatchLine(group) : group \in {Group(M, m) : m \in M}}, B)
<1>1. ASSUME NEW b \in B, NEW m \in Cells(b)
      PROVE  Group(M, m) = Cells(b)
  <2>1. ASSUME NEW n \in Group(M, m)
        PROVE  n \in Cells(b)
    <3>1. n \in M /\ m.kind = n.kind /\ m.by = n.by /\ m.at = n.at
      BY <2>1 DEF Group, Together
    <3>2. PICK c \in B : n \in Cells(c)
      BY <3>1
    <3>3. c = b
      BY <3>1, <3>2, CellKind DEF Apart
    <3> QED BY <3>2, <3>3
  <2>2. ASSUME NEW n \in Cells(b)
        PROVE  n \in Group(M, m)
    BY <2>2, CellKind DEF Group, Together
  <2> QED BY <2>1, <2>2
<1>2. ASSUME NEW b \in B
      PROVE  \E m \in M : m \in Cells(b)
  <2>1. b.first \in Nat /\ b.last \in Nat /\ b.first <= b.last
    BY DEF Ranged, BatchRow
  <2>2. [kind |-> b.kind, n |-> b.first, by |-> b.actor, at |-> b.at] \in Cells(b)
    BY <2>1 DEF Cells
  <2> QED BY <2>2
<1>3. ASSUME NEW b \in B, NEW m \in Cells(b)
      PROVE  Tells(BatchLine(Group(M, m)), b)
  BY <1>1, LineOfCells
<1>4. \A m \in M : \E b \in B : Tells(BatchLine(Group(M, m)), b)
  BY <1>3
<1>5. \A b \in B : \E m \in M : Tells(BatchLine(Group(M, m)), b)
  BY <1>2, <1>3
<1> QED BY <1>4, <1>5 DEF Told

\* The backfill accounts for the cards and the batches.
LEMMA BackfillAccounts ==
  ASSUME Base, Tables, Ran, Current.op = "backfill"
  PROVE  Accounted(conn)'
<1>1. Tables'
  BY TablesRan
<1>2. /\ conn'.rows.log = Backfill(conn.rows) /\ conn'.rows.cards = conn.rows.cards
      /\ conn'.rows.minted = conn.rows.minted
  BY DEF Ran, Effects
<1>3. \A t \in CodeTable : t \in conn'.schema
  <2>1. Current.how # "create" /\ doing = "up"
    BY Places DEF Base, Ran, Placed
  <2>2. CodeTable \subseteq conn.schema
    BY <2>1 DEF Ran, Possible, Needs
  <2>3. ASSUME NEW t \in CodeTable
        PROVE  t \in conn'.schema
    <3>1. t \notin Current.drops
      BY <2>1, CodeSteps DEF Ran
    <3> QED BY <2>2, <3>1, CodeTables DEF Ran
  <2> QED BY <2>3
<1>4. \A m \in db'.rows.minted : TableOf[m.kind] \in CodeTable
  <2>1. \A m \in db'.rows.minted : m.kind \in Kind
    BY <1>1, CellKind DEF Tables, Ranged, BatchRow
  <2> QED BY <2>1, Kinds
<1>5. \A m : m \in conn'.rows.minted <=> \E b \in facts'.batches : m \in Cells(b)
  BY <1>1, <1>3, <1>4 DEF Tables
<1>6. \A b \in facts'.batches : Ranged(b)
  BY <1>1 DEF Tables
<1> DEFINE lines == {BatchLine(group) : group \in {Group(conn'.rows.minted, m) : m \in conn'.rows.minted}}
<1>7. Apart(facts'.batches) => Told(lines, facts'.batches)
  BY <1>5, <1>6, Regrouped
<1>8. /\ conn'.rows.log.cards = {CardLine(c) : c \in conn'.rows.cards}
      /\ conn'.rows.log.batches = lines
  BY <1>2 DEF Backfill
<1> HIDE DEF lines
<1> QED BY <1>7, <1>8 DEF Accounted

\* The bot writes a line with each card and each batch.
LEMMA LogsWritten ==
  ASSUME Base, Logs, BotWrites
  PROVE  Logs'
<1>1. BotWrote
  BY BotEffects
<1>2. /\ conn' = db' /\ conn = db /\ db'.schema = db.schema /\ db'.revision = db.revision
      /\ ~Busy'
  BY <1>1 DEF BotWrote, BotKeeps, Busy
<1>3. ~Recovered' /\ (Written(db)' <=> Written(db)) /\ (Written(conn)' <=> Written(db))
  BY <1>2 DEF Recovered, Written, Busy
<1>4. ASSUME Written(db)
      PROVE  Accounted(db)'
  <2>1. /\ db.rows.log.cards = {CardLine(c) : c \in db.rows.cards}
        /\ Apart(facts.batches) => Told(db.rows.log.batches, facts.batches)
        /\ db.revision = Latest
    BY <1>4 DEF Logs, Accounted, Written
  <2>2. ASSUME NEW card, CardWritten(card)
        PROVE  Accounted(db)'
    <3>1. /\ db'.rows.cards = db.rows.cards \cup {card}
          /\ db'.rows.log.cards = db.rows.log.cards \cup {CardLine(card)}
          /\ db'.rows.log.batches = db.rows.log.batches /\ facts' = facts
      BY <2>1, <2>2 DEF CardWritten
    <3>2. db'.rows.log.cards = {CardLine(c) : c \in db'.rows.cards}
      BY <2>1, <3>1
    <3> QED BY <2>1, <3>1, <3>2 DEF Accounted
  <2>3. ASSUME NEW a \in Person, NEW kind \in Minted, NEW count \in Count, BatchWritten(a, kind, count)
        PROVE  Accounted(db)'
    <3>1. /\ db'.rows.cards = db.rows.cards /\ db'.rows.log.cards = db.rows.log.cards
          /\ db'.rows.log.batches = db.rows.log.batches \cup {LineFor(a, kind, count)}
          /\ facts'.batches = facts.batches \cup {LineFor(a, kind, count)}
      BY <2>1, <2>3 DEF BatchWritten
    <3>2. Apart(facts'.batches) => Apart(facts.batches)
      BY <3>1 DEF Apart
    <3>3. Tells(LineFor(a, kind, count), LineFor(a, kind, count))
      BY DEF Tells
    <3>4. Apart(facts.batches) => Told(db'.rows.log.batches, facts'.batches)
      BY <2>1, <3>1, <3>3 DEF Told
    <3> QED BY <2>1, <3>1, <3>2, <3>4 DEF Accounted
  <2>4. ASSUME NEW p \in Person, NEW row, NEW change, RoleWritten(p, row, change)
        PROVE  Accounted(db)'
    BY <2>1, <2>4 DEF RoleWritten, Accounted
  <2> QED BY <1>1, <2>2, <2>3, <2>4 DEF BotWrote
<1>5. Written(db)' => Accounted(db)'
  BY <1>3, <1>4
<1>6. Written(conn)' \/ Recovered' => Accounted(conn)'
  BY <1>2, <1>3, <1>4 DEF Accounted
<1> QED BY <1>5, <1>6 DEF Logs

\* Relative to Base and Tables, Logs is inductive.
LEMMA LogsStep ==
  ASSUME Base, Tables, Logs, [Next]_vars
  PROVE  Logs'
<1>0. Control /\ db.revision \in 0 .. 9 /\ conn.revision \in 0 .. 9 /\ goal \in 0 .. 9
  BY DEF Base, Control, Revision, Latest
<1>1. CASE UNCHANGED vars
  BY <1>1 DEF vars, command, Logs, Accounted, Written, Recovered
<1>2. CASE conn' = db /\ db' = db /\ facts' = facts /\ step' = 1
  <2>1. ~Recovered'
    BY <1>0, <1>2 DEF Recovered, Latest
  <2> QED BY <1>2, <2>1 DEF Logs, Accounted, Written
<1>3. ASSUME NEW direction, NEW to, Began(direction, to)
      PROVE  conn' = db /\ db' = db /\ facts' = facts /\ step' = 1
  BY <1>0, <1>3 DEF Began, Control, Busy
<1>4. CASE CreateCopy
  <2>1. /\ conn'.schema = conn.schema \cup {Copy(Current.table)} /\ conn'.rows = conn.rows
        /\ conn'.revision = conn.revision /\ db'.revision = db.revision
        /\ db'.rows = db.rows /\ UNCHANGED <<doing, step, facts>>
        /\ db'.schema = db.schema \/ (db'.schema = conn'.schema /\ db = conn)
    BY <1>4, Copied
  <2>2. "audit_log" # Copy(Current.table)
    BY DEF Copy
  <2>3. ("audit_log" \in conn'.schema <=> "audit_log" \in conn.schema)
          /\ ("audit_log" \in db'.schema <=> "audit_log" \in db.schema)
    BY <2>1, <2>2
  <2> QED BY <2>1, <2>3 DEF Logs, Accounted, Written, Recovered
<1>5. CASE Execute
  <2>1. Ran
    BY <1>5, ExecuteRuns
  <2>2. conn'.revision = conn.revision /\ facts' = Forgotten /\ (db' = db \/ (db' = conn' /\ db = conn))
    BY <2>1 DEF Ran
  <2>3. ~Written(conn)'
    BY <2>1, <2>2, LastScript DEF Written, Ran
  <2>4. Recovered' => Accounted(conn)'
    BY <2>1, LastScript, BackfillAccounts
  <2>5. CASE db' = db
    <3>1. facts'.batches = facts.batches
      BY <2>2, <2>5, Forgets DEF Tables
    <3>2. Written(db)' => Accounted(db)'
      BY <2>5, <3>1 DEF Logs, Accounted, Written
    <3> QED BY <2>3, <2>4, <3>2 DEF Logs
  <2>6. CASE db' = conn'
    BY <2>3, <2>4, <2>6 DEF Logs, Written
  <2> QED BY <2>2, <2>5, <2>6
<1>6. CASE Record
  <2>1. /\ db' = db /\ conn'.rows = conn.rows /\ conn'.schema = conn.schema
        /\ UNCHANGED <<doing, facts>>
        /\ doing = "up" => conn'.revision = conn.revision + 1
        /\ doing = "down" => conn'.revision = conn.revision - 1
        /\ doing \in {"up", "down"}
    BY <1>6, Recorded DEF Base, Control, Busy
  <2>2. Written(conn)' => Recovered'
    <3>1. ASSUME conn'.revision = 9
          PROVE  doing = "up" /\ conn.revision = 8
      BY <1>0, <2>1, <3>1
    <3>2. doing = "up" => db.revision <= conn.revision
      BY <1>0 DEF Control
    <3> QED BY <1>0, <2>1, <3>1, <3>2 DEF Written, Recovered, Latest
  <2>3. Recovered' => Accounted(conn)'
    BY <1>6, <2>1, RecordsHistory DEF Logs, Accounted
  <2> QED BY <2>1, <2>2, <2>3 DEF Logs, Written, Accounted
<1>7. CASE Committed
  <2>1. /\ db' = conn /\ conn' = conn /\ facts' = Forgotten /\ doing' = "nothing" /\ Busy
        /\ conn.revision = goal
    BY <1>7 DEF Committed, Arrived
  <2>2. facts'.batches = {b \in facts.batches : TableOf[b.kind] \in db'.schema}
    BY <2>1, Forgets
  <2>3. ~Recovered'
    BY <2>1 DEF Recovered
  <2>4. ASSUME Written(conn)
        PROVE  Accounted(conn)'
    <3>1. doing = "up"
      BY <1>0, <2>1, <2>4 DEF Control, Written, Latest, Busy
    <3>2. \A b \in facts.batches : TableOf[b.kind] \in CodeTable
      BY Kinds DEF Tables, Ranged, BatchRow
    <3>3. facts'.batches = facts.batches
      BY <2>1, <2>2, <3>1, <3>2 DEF Tables
    <3> QED BY <2>1, <2>4, <3>3 DEF Logs, Accounted
  <2>5. Written(conn)' => Accounted(conn)'
    BY <2>1, <2>4 DEF Written
  <2>6. Written(db)' => Accounted(db)'
    BY <2>1, <2>5 DEF Written, Accounted
  <2> QED BY <2>3, <2>5, <2>6 DEF Logs
<1>8. Undone => conn' = db /\ db' = db /\ facts' = facts /\ step' = 1
  BY DEF Undone
<1> QED BY <1>1, <1>2, <1>3, <1>4, <1>5, <1>6, <1>7, <1>8, LogsWritten, Steps

\* There is no history at first.
LEMMA LogsInit ==
  ASSUME Init
  PROVE  Logs
<1>1. conn = db /\ db.revision = 0 /\ doing = "nothing"
  BY DEF Init
<1> QED BY <1>1 DEF Logs, Written, Recovered, Latest

\* Logs is an invariant.
LEMMA LogsHold == Spec => []Logs
BY LogsInit, LogsStep, BaseHolds, TablesHold, PTL DEF Spec

\* The history accounts for every card and every batch, recovered or written,
\* in the order of the codes as text.
THEOREM MigrationsAccount == Spec => []HistoryAccounts
<1>1. Logs => HistoryAccounts
  BY DEF Logs, HistoryAccounts, AtLatest, Written, Accounted
<1> QED BY <1>1, LogsHold, PTL

---------------------------------------------------------------------------
(* What the running command has run *)

\* The running command has run statement k of the script to r, or back from r.
Did(r, k) ==
  /\ doing = "up" /\ db.revision < r
  /\ r <= conn.revision \/ (r = conn.revision + 1 /\ step > k)
Undid(r, k) ==
  /\ doing = "down" /\ r <= db.revision
  /\ r > conn.revision \/ (r = conn.revision /\ step > k)

\* What of the chain's changes of rows the running command has made, by name;
\* and the tables of codes it has seeded or dropped.
DoneUp ==
  {o \in {"fill_issuer", "drop_owner", "add_type"} :
     CASE o = "fill_issuer" -> Did(4, 2) [] o = "drop_owner" -> Did(4, 3) [] OTHER -> Did(5, 1)}
DoneDown ==
  {o \in {"drop_role", "drop_cards", "fill_owner", "delete_orphans", "delete_surplus",
          "drop_issuer", "drop_type", "drop_log"} :
     CASE o = "drop_role" -> Undid(2, 1) [] o = "drop_cards" -> Undid(3, 1)
       [] o = "fill_owner" -> Undid(4, 2) [] o = "delete_orphans" -> Undid(4, 3)
       [] o = "delete_surplus" -> Undid(4, 4) [] o = "drop_issuer" -> Undid(4, 5)
       [] o = "drop_type" -> Undid(5, 1) [] OTHER -> Undid(9, 1)}
Done == DoneUp \cup DoneDown
Seeded == {t \in CodeTable : Did(Created[t], 2)}
Dropped == {t \in CodeTable : Undid(Created[t], 1)}

\* A statement that runs is then the only one more that has run.
LEMMA DidRan ==
  ASSUME Base, Ran, NEW r \in 1 .. 9, NEW k \in 1 .. 5
  PROVE  /\ Did(r, k)' <=> Did(r, k) \/ (doing = "up" /\ conn.revision = r - 1 /\ step = k)
         /\ Undid(r, k)' <=> Undid(r, k) \/ (doing = "down" /\ conn.revision = r /\ step = k)
<1>1. /\ conn.revision \in 0 .. 9 /\ db.revision \in 0 .. 9 /\ step \in Nat
      /\ doing = "up" => db.revision <= conn.revision
      /\ doing = "down" => conn.revision <= db.revision
  BY DEF Base, Control, Revision, Latest
<1>2. /\ conn'.revision = conn.revision /\ db'.revision = db.revision /\ step' = step + 1
      /\ doing' = doing
  BY DEF Ran
<1>3. Did(r, k)' <=> Did(r, k) \/ (doing = "up" /\ conn.revision = r - 1 /\ step = k)
  <2>1. CASE doing = "up"
    BY <1>1, <1>2, <2>1 DEF Did
  <2> QED BY <1>2, <2>1 DEF Did
<1>4. Undid(r, k)' <=> Undid(r, k) \/ (doing = "down" /\ conn.revision = r /\ step = k)
  <2>1. CASE doing = "down"
    BY <1>1, <1>2, <2>1 DEF Undid
  <2> QED BY <1>2, <2>1 DEF Undid
<1> QED BY <1>3, <1>4

\* Recording the revision after the last statement changes nothing of it.
LEMMA DidRecorded ==
  ASSUME Base, Record, NEW r \in 1 .. 9, NEW k \in 1 .. 5
  PROVE  /\ doing = "up" /\ (conn.revision + 1 = r => step > k) => (Did(r, k)' <=> Did(r, k))
         /\ doing = "down" /\ (conn.revision = r => step > k) => (Undid(r, k)' <=> Undid(r, k))
<1>1. /\ conn.revision \in 0 .. 9 /\ db.revision \in 0 .. 9 /\ step \in Nat
      /\ doing = "up" => db.revision <= conn.revision
      /\ doing = "down" => conn.revision <= db.revision
  BY DEF Base, Control, Revision, Latest
<1>2. /\ db' = db /\ step' = 1 /\ doing' = doing
      /\ doing = "up" => conn'.revision = conn.revision + 1
      /\ doing = "down" => conn'.revision = conn.revision - 1
  BY Recorded
<1>3. ASSUME doing = "up", conn.revision + 1 = r => step > k
      PROVE  Did(r, k)' <=> Did(r, k)
  BY <1>1, <1>2, <1>3 DEF Did
<1>4. ASSUME doing = "down", conn.revision = r => step > k
      PROVE  Undid(r, k)' <=> Undid(r, k)
  BY <1>1, <1>2, <1>4 DEF Undid
<1> QED BY <1>3, <1>4

\* The changes of rows other than those of the tables of codes and the history.
Changing ==
  {"fill_issuer", "drop_owner", "add_type", "drop_role", "drop_cards", "fill_owner",
   "delete_orphans", "delete_surplus", "drop_issuer", "drop_type", "drop_log"}

\* Where each change of rows has its place.
LEMMA DoneIn ==
  \A o : o \in Done <=>
    \/ o = "fill_issuer" /\ Did(4, 2)
    \/ o = "drop_owner" /\ Did(4, 3)
    \/ o = "add_type" /\ Did(5, 1)
    \/ o = "drop_role" /\ Undid(2, 1)
    \/ o = "drop_cards" /\ Undid(3, 1)
    \/ o = "fill_owner" /\ Undid(4, 2)
    \/ o = "delete_orphans" /\ Undid(4, 3)
    \/ o = "delete_surplus" /\ Undid(4, 4)
    \/ o = "drop_issuer" /\ Undid(4, 5)
    \/ o = "drop_type" /\ Undid(5, 1)
    \/ o = "drop_log" /\ Undid(9, 1)
BY DEF Done, DoneUp, DoneDown

\* The statement that runs is done, if it is one of them.
LEMMA DoneRan ==
  ASSUME Base, Ran
  PROVE  Done' = Done \cup ({Current.op} \cap Changing)
<1>1. Placed
  BY Places DEF Base, Ran
<1>2. /\ Did(4, 2)' <=> Did(4, 2) \/ Current.op = "fill_issuer"
      /\ Did(4, 3)' <=> Did(4, 3) \/ Current.op = "drop_owner"
      /\ Did(5, 1)' <=> Did(5, 1) \/ Current.op = "add_type"
  BY <1>1, DidRan DEF Placed
<1>3. /\ Undid(2, 1)' <=> Undid(2, 1) \/ Current.op = "drop_role"
      /\ Undid(3, 1)' <=> Undid(3, 1) \/ Current.op = "drop_cards"
      /\ Undid(4, 2)' <=> Undid(4, 2) \/ Current.op = "fill_owner"
      /\ Undid(4, 3)' <=> Undid(4, 3) \/ Current.op = "delete_orphans"
      /\ Undid(4, 4)' <=> Undid(4, 4) \/ Current.op = "delete_surplus"
      /\ Undid(4, 5)' <=> Undid(4, 5) \/ Current.op = "drop_issuer"
      /\ Undid(5, 1)' <=> Undid(5, 1) \/ Current.op = "drop_type"
      /\ Undid(9, 1)' <=> Undid(9, 1) \/ Current.op = "drop_log"
  BY <1>1, DidRan DEF Placed
<1>4. \A o : o \in Done' <=>
        \/ o = "fill_issuer" /\ Did(4, 2)'
        \/ o = "drop_owner" /\ Did(4, 3)'
        \/ o = "add_type" /\ Did(5, 1)'
        \/ o = "drop_role" /\ Undid(2, 1)'
        \/ o = "drop_cards" /\ Undid(3, 1)'
        \/ o = "fill_owner" /\ Undid(4, 2)'
        \/ o = "delete_orphans" /\ Undid(4, 3)'
        \/ o = "delete_surplus" /\ Undid(4, 4)'
        \/ o = "drop_issuer" /\ Undid(4, 5)'
        \/ o = "drop_type" /\ Undid(5, 1)'
        \/ o = "drop_log" /\ Undid(9, 1)'
  BY DEF Done, DoneUp, DoneDown
<1>5. \A o : o \in Done' <=> o \in Done \/ (o = Current.op /\ o \in Changing)
  BY <1>2, <1>3, <1>4, DoneIn DEF Changing
<1> QED BY <1>5

\* Recording a revision adds nothing.
LEMMA DoneRecorded ==
  ASSUME Base, Record
  PROVE  Done' = Done
<1>1. /\ conn.revision \in 0 .. 9 /\ doing \in {"up", "down"} /\ doing' = doing /\ step \in Nat
  BY Recorded DEF Base, Control, Busy, Revision, Latest
<1>2. CASE doing = "up"
  <2>1. step > 1 /\ (conn.revision = 3 => step = 4)
    BY <1>2, LastStep
  <2>2. /\ Did(4, 2)' <=> Did(4, 2)
        /\ Did(4, 3)' <=> Did(4, 3)
        /\ Did(5, 1)' <=> Did(5, 1)
    BY <1>1, <1>2, <2>1, DidRecorded
  <2>3. DoneUp' = DoneUp
    BY <2>2 DEF DoneUp
  <2>4. DoneDown' = {} /\ DoneDown = {}
    BY <1>1, <1>2 DEF DoneDown, Undid
  <2> QED BY <2>3, <2>4 DEF Done
<1>3. CASE doing = "down"
  <2>1. step > 1 /\ (conn.revision = 4 => step = 6)
    BY <1>3, LastStep
  <2>2. /\ Undid(2, 1)' <=> Undid(2, 1)
        /\ Undid(3, 1)' <=> Undid(3, 1)
        /\ Undid(5, 1)' <=> Undid(5, 1)
        /\ Undid(9, 1)' <=> Undid(9, 1)
    BY <1>1, <1>3, <2>1, DidRecorded
  <2>3. /\ Undid(4, 2)' <=> Undid(4, 2)
        /\ Undid(4, 3)' <=> Undid(4, 3)
        /\ Undid(4, 4)' <=> Undid(4, 4)
        /\ Undid(4, 5)' <=> Undid(4, 5)
    BY <1>1, <1>3, <2>1, DidRecorded
  <2>4. DoneDown' = DoneDown
    BY <2>2, <2>3 DEF DoneDown
  <2>5. DoneUp' = {} /\ DoneUp = {}
    BY <1>1, <1>3 DEF DoneUp, Did
  <2> QED BY <2>4, <2>5 DEF Done
<1> QED BY <1>1, <1>2, <1>3

\* The same of the tables of codes.
LEMMA CodesDone ==
  ASSUME Base
  PROVE  /\ Ran => \A t \in CodeTable :
              /\ t \in Seeded' <=> t \in Seeded \/ (Current.op = "seed" /\ Current.table = t)
              /\ t \in Dropped' <=> t \in Dropped \/ (Current.op = "drop_codes" /\ Current.table = t)
         /\ Record => Seeded' = Seeded /\ Dropped' = Dropped
<1>1. ASSUME Ran, NEW t \in CodeTable
      PROVE  /\ t \in Seeded' <=> t \in Seeded \/ (Current.op = "seed" /\ Current.table = t)
             /\ t \in Dropped' <=> t \in Dropped \/ (Current.op = "drop_codes" /\ Current.table = t)
  <2>1. Created[t] \in 1 .. 9 /\ Runs
    BY <1>1, CodeTables DEF Ran
  <2>2. Current.op = "seed" /\ Current.table = t
          <=> doing = "up" /\ conn.revision = Created[t] - 1 /\ step = 2
    BY <2>1, CodeSteps
  <2>3. Current.op = "drop_codes" /\ Current.table = t
          <=> doing = "down" /\ conn.revision = Created[t] /\ step = 1
    BY <2>1, CodeSteps
  <2>4. /\ Did(Created[t], 2)' <=> Did(Created[t], 2) \/ (Current.op = "seed" /\ Current.table = t)
        /\ Undid(Created[t], 1)' <=> Undid(Created[t], 1) \/ (Current.op = "drop_codes" /\ Current.table = t)
    BY <1>1, <2>1, <2>2, <2>3, DidRan
  <2> QED BY <2>4 DEF Seeded, Dropped
<1>2. ASSUME Record
      PROVE  Seeded' = Seeded /\ Dropped' = Dropped
  <2>1. /\ conn.revision \in 0 .. 9 /\ doing \in {"up", "down"} /\ doing' = doing
    BY <1>2, Recorded DEF Base, Control, Busy, Revision, Latest
  <2>2. /\ doing = "up" => (conn.revision \in {4, 5, 6, 7, 8} => step = 3)
        /\ doing = "down" => step \in {2, 6}
    BY <1>2, LastStep
  <2>3. ASSUME NEW t \in CodeTable
        PROVE  (Did(Created[t], 2)' <=> Did(Created[t], 2)) /\ (Undid(Created[t], 1)' <=> Undid(Created[t], 1))
    <3>1. Created[t] \in {6, 7, 8} /\ Created[t] \in 1 .. 9
      BY CodeTables
    <3>2. CASE doing = "up"
      <4>1. Did(Created[t], 2)' <=> Did(Created[t], 2)
        BY <1>2, <2>1, <2>2, <3>1, <3>2, DidRecorded
      <4> QED BY <2>1, <3>2, <4>1 DEF Undid
    <3>3. CASE doing = "down"
      <4>1. Undid(Created[t], 1)' <=> Undid(Created[t], 1)
        BY <1>2, <2>1, <2>2, <3>1, <3>3, DidRecorded
      <4> QED BY <2>1, <3>3, <4>1 DEF Did
    <3> QED BY <2>1, <3>2, <3>3
  <2> QED BY <2>3 DEF Seeded, Dropped
<1> QED BY <1>1, <1>2

---------------------------------------------------------------------------
(* Cards, statement by statement *)

\* What has become of the cards S once these statements have run.
CardBy(done, c) ==
  [id |-> c.id,
   owner |-> IF "drop_owner" \in done THEN Nobody
             ELSE IF "fill_owner" \in done THEN c.by ELSE c.owner,
   by |-> IF "fill_issuer" \in done THEN c.owner
          ELSE IF "drop_issuer" \in done THEN Nobody ELSE c.by,
   type |-> IF "add_type" \in done THEN Untyped
            ELSE IF "drop_type" \in done THEN "none" ELSE c.type,
   at |-> c.at]
FirstBy(S, c) == \A d \in S : d.by = c.by => c.id <= d.id
KeptBy(done, S) ==
  {c \in S : /\ "delete_orphans" \in done => c.by # Nobody
             /\ "delete_surplus" \in done => FirstBy(S, c)}
CardsBy(done, S) ==
  IF "drop_cards" \in done THEN {} ELSE {CardBy(done, c) : c \in KeptBy(done, S)}

\* Before any statement the cards are the committed ones.
LEMMA NothingDone ==
  ASSUME NEW S \in SUBSET CardRow
  PROVE  CardsBy({}, S) = S
<1>1. \A c \in S : CardBy({}, c) = c
  BY DEF CardRow, CardBy
<1>2. KeptBy({}, S) = S
  BY DEF KeptBy
<1> QED BY <1>1, <1>2 DEF CardsBy

\* Each change of cards adds itself to those done before it.
LEMMA FillsIssuer ==
  ASSUME NEW S \in SUBSET CardRow, NEW done,
         done \cap {"drop_owner", "fill_owner", "drop_issuer"} = {}
  PROVE  CardsBy(done \cup {"fill_issuer"}, S) = {[c EXCEPT !.by = c.owner] : c \in CardsBy(done, S)}
<1> DEFINE more == done \cup {"fill_issuer"}
<1>1. \A c \in S : [CardBy(done, c) EXCEPT !.by = CardBy(done, c).owner] = CardBy(more, c)
  BY DEF CardBy, CardRow
<1>2. KeptBy(more, S) = KeptBy(done, S) /\ ("drop_cards" \in more <=> "drop_cards" \in done)
  BY DEF KeptBy
<1>3. KeptBy(done, S) \subseteq S
  BY DEF KeptBy
<1> DEFINE K == KeptBy(done, S)
<1>4. {[d EXCEPT !.by = d.owner] : d \in {CardBy(done, c) : c \in K}}
       = {[CardBy(done, c) EXCEPT !.by = CardBy(done, c).owner] : c \in K}
  OBVIOUS
<1>5. {[CardBy(done, c) EXCEPT !.by = CardBy(done, c).owner] : c \in K} = {CardBy(more, c) : c \in K}
  BY <1>1, <1>3
<1> QED BY <1>2, <1>4, <1>5 DEF CardsBy

\* drop_owner.
LEMMA DropsOwner ==
  ASSUME NEW S \in SUBSET CardRow, NEW done
  PROVE  CardsBy(done \cup {"drop_owner"}, S) = {[c EXCEPT !.owner = Nobody] : c \in CardsBy(done, S)}
<1> DEFINE more == done \cup {"drop_owner"}
<1>1. \A c \in S : [CardBy(done, c) EXCEPT !.owner = Nobody] = CardBy(more, c)
  BY DEF CardBy, CardRow
<1>2. KeptBy(more, S) = KeptBy(done, S) /\ ("drop_cards" \in more <=> "drop_cards" \in done)
  BY DEF KeptBy
<1>3. KeptBy(done, S) \subseteq S
  BY DEF KeptBy
<1> DEFINE K == KeptBy(done, S)
<1>4. {[d EXCEPT !.owner = Nobody] : d \in {CardBy(done, c) : c \in K}}
       = {[CardBy(done, c) EXCEPT !.owner = Nobody] : c \in K}
  OBVIOUS
<1>5. {[CardBy(done, c) EXCEPT !.owner = Nobody] : c \in K} = {CardBy(more, c) : c \in K}
  BY <1>1, <1>3
<1> QED BY <1>2, <1>4, <1>5 DEF CardsBy

\* add_type.
LEMMA AddsType ==
  ASSUME NEW S \in SUBSET CardRow, NEW done
  PROVE  CardsBy(done \cup {"add_type"}, S) = {[c EXCEPT !.type = Untyped] : c \in CardsBy(done, S)}
<1> DEFINE more == done \cup {"add_type"}
<1>1. \A c \in S : [CardBy(done, c) EXCEPT !.type = Untyped] = CardBy(more, c)
  BY DEF CardBy, CardRow
<1>2. KeptBy(more, S) = KeptBy(done, S) /\ ("drop_cards" \in more <=> "drop_cards" \in done)
  BY DEF KeptBy
<1>3. KeptBy(done, S) \subseteq S
  BY DEF KeptBy
<1> DEFINE K == KeptBy(done, S)
<1>4. {[d EXCEPT !.type = Untyped] : d \in {CardBy(done, c) : c \in K}}
       = {[CardBy(done, c) EXCEPT !.type = Untyped] : c \in K}
  OBVIOUS
<1>5. {[CardBy(done, c) EXCEPT !.type = Untyped] : c \in K} = {CardBy(more, c) : c \in K}
  BY <1>1, <1>3
<1> QED BY <1>2, <1>4, <1>5 DEF CardsBy

\* fill_owner.
LEMMA FillsOwner ==
  ASSUME NEW S \in SUBSET CardRow, NEW done,
         done \cap {"drop_owner", "fill_issuer", "drop_issuer"} = {}
  PROVE  CardsBy(done \cup {"fill_owner"}, S) = {[c EXCEPT !.owner = c.by] : c \in CardsBy(done, S)}
<1> DEFINE more == done \cup {"fill_owner"}
<1>1. \A c \in S : [CardBy(done, c) EXCEPT !.owner = CardBy(done, c).by] = CardBy(more, c)
  BY DEF CardBy, CardRow
<1>2. KeptBy(more, S) = KeptBy(done, S) /\ ("drop_cards" \in more <=> "drop_cards" \in done)
  BY DEF KeptBy
<1>3. KeptBy(done, S) \subseteq S
  BY DEF KeptBy
<1> DEFINE K == KeptBy(done, S)
<1>4. {[d EXCEPT !.owner = d.by] : d \in {CardBy(done, c) : c \in K}}
       = {[CardBy(done, c) EXCEPT !.owner = CardBy(done, c).by] : c \in K}
  OBVIOUS
<1>5. {[CardBy(done, c) EXCEPT !.owner = CardBy(done, c).by] : c \in K} = {CardBy(more, c) : c \in K}
  BY <1>1, <1>3
<1> QED BY <1>2, <1>4, <1>5 DEF CardsBy

\* drop_issuer.
LEMMA DropsIssuer ==
  ASSUME NEW S \in SUBSET CardRow, NEW done,
         done \cap {"fill_issuer"} = {}
  PROVE  CardsBy(done \cup {"drop_issuer"}, S) = {[c EXCEPT !.by = Nobody] : c \in CardsBy(done, S)}
<1> DEFINE more == done \cup {"drop_issuer"}
<1>1. \A c \in S : [CardBy(done, c) EXCEPT !.by = Nobody] = CardBy(more, c)
  BY DEF CardBy, CardRow
<1>2. KeptBy(more, S) = KeptBy(done, S) /\ ("drop_cards" \in more <=> "drop_cards" \in done)
  BY DEF KeptBy
<1>3. KeptBy(done, S) \subseteq S
  BY DEF KeptBy
<1> DEFINE K == KeptBy(done, S)
<1>4. {[d EXCEPT !.by = Nobody] : d \in {CardBy(done, c) : c \in K}}
       = {[CardBy(done, c) EXCEPT !.by = Nobody] : c \in K}
  OBVIOUS
<1>5. {[CardBy(done, c) EXCEPT !.by = Nobody] : c \in K} = {CardBy(more, c) : c \in K}
  BY <1>1, <1>3
<1> QED BY <1>2, <1>4, <1>5 DEF CardsBy

\* drop_type.
LEMMA DropsType ==
  ASSUME NEW S \in SUBSET CardRow, NEW done,
         done \cap {"add_type"} = {}
  PROVE  CardsBy(done \cup {"drop_type"}, S) = {[c EXCEPT !.type = "none"] : c \in CardsBy(done, S)}
<1> DEFINE more == done \cup {"drop_type"}
<1>1. \A c \in S : [CardBy(done, c) EXCEPT !.type = "none"] = CardBy(more, c)
  BY DEF CardBy, CardRow
<1>2. KeptBy(more, S) = KeptBy(done, S) /\ ("drop_cards" \in more <=> "drop_cards" \in done)
  BY DEF KeptBy
<1>3. KeptBy(done, S) \subseteq S
  BY DEF KeptBy
<1> DEFINE K == KeptBy(done, S)
<1>4. {[d EXCEPT !.type = "none"] : d \in {CardBy(done, c) : c \in K}}
       = {[CardBy(done, c) EXCEPT !.type = "none"] : c \in K}
  OBVIOUS
<1>5. {[CardBy(done, c) EXCEPT !.type = "none"] : c \in K} = {CardBy(more, c) : c \in K}
  BY <1>1, <1>3
<1> QED BY <1>2, <1>4, <1>5 DEF CardsBy

\* delete_orphans, whose owners are the issuers by then.
LEMMA DeletesOrphans ==
  ASSUME NEW S \in SUBSET CardRow, NEW done, "fill_owner" \in done,
         done \cap {"drop_owner", "delete_surplus"} = {}
  PROVE  CardsBy(done \cup {"delete_orphans"}, S) = {c \in CardsBy(done, S) : c.owner # Nobody}
<1> DEFINE more == done \cup {"delete_orphans"}
<1>1. \A c \in S : CardBy(done, c).owner = c.by /\ CardBy(more, c) = CardBy(done, c)
  BY DEF CardBy
<1>2. \A c : c \in KeptBy(more, S) <=> c \in KeptBy(done, S) /\ c.by # Nobody
  BY DEF KeptBy
<1>3. KeptBy(done, S) \subseteq S /\ ("drop_cards" \in more <=> "drop_cards" \in done)
  BY DEF KeptBy
<1> DEFINE K == KeptBy(done, S)
<1>4. {d \in {CardBy(done, c) : c \in K} : d.owner # Nobody} = {CardBy(more, c) : c \in KeptBy(more, S)}
  <2> HIDE DEF K, more
  <2>1. ASSUME NEW d, d \in {CardBy(done, c) : c \in K}, d.owner # Nobody
        PROVE  d \in {CardBy(more, c) : c \in KeptBy(more, S)}
    <3>1. PICK c \in K : d = CardBy(done, c)
      BY <2>1
    <3>2. c \in S
      BY <1>3 DEF K
    <3>3. d = CardBy(more, c) /\ c.by # Nobody
      BY <1>1, <2>1, <3>1, <3>2
    <3>4. c \in KeptBy(more, S)
      BY <1>2, <3>3 DEF K
    <3> QED BY <3>3, <3>4
  <2>2. ASSUME NEW c \in KeptBy(more, S)
        PROVE  CardBy(more, c) \in {CardBy(done, e) : e \in K} /\ CardBy(more, c).owner # Nobody
    <3>1. c \in K /\ c.by # Nobody
      BY <1>2 DEF K
    <3>2. c \in S
      BY <1>3, <3>1 DEF K
    <3> QED BY <1>1, <3>1, <3>2
  <2> QED BY <2>1, <2>2
<1> QED BY <1>3, <1>4 DEF CardsBy

\* delete_surplus: the earliest of those that are left.
LEMMA DeletesSurplus ==
  ASSUME NEW S \in SUBSET CardRow, NEW done, {"fill_owner", "delete_orphans"} \subseteq done,
         done \cap {"drop_owner", "delete_surplus", "drop_cards"} = {}
  PROVE  CardsBy(done \cup {"delete_surplus"}, S) = Earliest(CardsBy(done, S))
<1> DEFINE more == done \cup {"delete_surplus"}
<1> DEFINE K == KeptBy(done, S)
<1> DEFINE T == {CardBy(done, c) : c \in K}
<1>1. \A c : /\ CardBy(done, c).owner = c.by /\ CardBy(done, c).id = c.id
             /\ CardBy(more, c) = CardBy(done, c)
  BY DEF CardBy
<1>2. \A c : c \in K <=> c \in S /\ c.by # Nobody
  BY DEF KeptBy
<1>3. \A c : c \in KeptBy(more, S) <=> c \in K /\ FirstBy(S, c)
  BY DEF KeptBy
<1>4. CardsBy(done, S) = T /\ CardsBy(more, S) = {CardBy(more, c) : c \in KeptBy(more, S)}
  BY DEF CardsBy
<1> HIDE DEF K, more, T
<1>5. ASSUME NEW c \in K
      PROVE  FirstBy(S, c) <=> \A d \in T : d.owner = CardBy(done, c).owner => CardBy(done, c).id <= d.id
  <2>1. ASSUME FirstBy(S, c), NEW d \in T, d.owner = CardBy(done, c).owner
        PROVE  CardBy(done, c).id <= d.id
    <3>1. PICK e \in K : d = CardBy(done, e)
      BY DEF T
    <3>2. e \in S /\ e.by = c.by /\ e.id = d.id
      BY <1>1, <1>2, <2>1, <3>1
    <3>3. c.id <= e.id
      BY <2>1, <3>2 DEF FirstBy
    <3> QED BY <1>1, <3>2, <3>3
  <2>2. ASSUME \A d \in T : d.owner = CardBy(done, c).owner => CardBy(done, c).id <= d.id,
               NEW e \in S, e.by = c.by
        PROVE  c.id <= e.id
    <3>1. e \in K
      BY <1>2, <2>2
    <3>2. CardBy(done, e) \in T
      BY <3>1 DEF T
    <3>3. CardBy(done, e).owner = CardBy(done, c).owner
      BY <1>1, <2>2
    <3>4. CardBy(done, c).id <= CardBy(done, e).id
      BY <2>2, <3>2, <3>3
    <3> QED BY <1>1, <3>4
  <2> QED BY <2>1, <2>2 DEF FirstBy
<1>6. ASSUME NEW d \in Earliest(T)
      PROVE  d \in CardsBy(more, S)
  <2>1. d \in T /\ \A e \in T : e.owner = d.owner => d.id <= e.id
    BY DEF Earliest
  <2>2. PICK c \in K : d = CardBy(done, c)
    BY <2>1 DEF T
  <2>3. c \in KeptBy(more, S)
    BY <1>3, <1>5, <2>1, <2>2
  <2> QED BY <1>1, <1>4, <2>2, <2>3
<1>7. ASSUME NEW d \in CardsBy(more, S)
      PROVE  d \in Earliest(T)
  <2>1. PICK c \in KeptBy(more, S) : d = CardBy(more, c)
    BY <1>4
  <2>2. c \in K /\ FirstBy(S, c) /\ d = CardBy(done, c)
    BY <1>1, <1>3, <2>1
  <2>3. d \in T
    BY <2>2 DEF T
  <2>4. \A e \in T : e.owner = d.owner => d.id <= e.id
    BY <1>5, <2>2
  <2> QED BY <2>3, <2>4 DEF Earliest
<1> QED BY <1>4, <1>6, <1>7 DEF more

---------------------------------------------------------------------------
(* Rows carried over *)

\* What has and has not run when a statement comes.
LEMMA Order ==
  ASSUME Base, Ran
  PROVE  /\ Current.op = "fill_issuer" => Done \cap {"drop_owner", "fill_owner", "drop_issuer"} = {}
         /\ Current.op = "fill_owner" => Done \cap {"drop_owner", "fill_issuer", "drop_issuer"} = {}
         /\ Current.op = "drop_issuer" => Done \cap {"fill_issuer"} = {}
         /\ Current.op = "drop_type" => Done \cap {"add_type"} = {}
         /\ Current.op = "delete_orphans" =>
              "fill_owner" \in Done /\ Done \cap {"drop_owner", "delete_surplus"} = {}
         /\ Current.op = "delete_surplus" =>
              /\ {"fill_owner", "delete_orphans"} \subseteq Done
              /\ Done \cap {"drop_owner", "delete_surplus", "drop_cards"} = {}
<1>1. /\ conn.revision \in 0 .. 9 /\ db.revision \in 0 .. 9 /\ step \in Nat
      /\ doing = "up" => db.revision <= conn.revision
      /\ doing = "down" => conn.revision <= db.revision
  BY DEF Base, Control, Revision, Latest
<1>2. Placed
  BY Places DEF Base, Ran
<1>3. doing = "up" => Done \cap {"fill_owner", "drop_issuer", "delete_orphans", "delete_surplus",
                                 "drop_cards", "drop_type", "drop_role", "drop_log"} = {}
  BY DoneIn DEF Undid
<1>4. doing = "down" => Done \cap {"fill_issuer", "drop_owner", "add_type"} = {}
  BY DoneIn DEF Did
<1>5. Current.op = "fill_issuer" => Done \cap {"drop_owner", "fill_owner", "drop_issuer"} = {}
  <2>1. ASSUME Current.op = "fill_issuer"
        PROVE  doing = "up" /\ ~Did(4, 3)
    BY <1>1, <1>2, <2>1 DEF Placed, Did
  <2> QED BY <1>3, <2>1, DoneIn
<1>6. Current.op = "fill_owner" => Done \cap {"drop_owner", "fill_issuer", "drop_issuer"} = {}
  <2>1. ASSUME Current.op = "fill_owner"
        PROVE  doing = "down" /\ ~Undid(4, 5)
    BY <1>1, <1>2, <2>1 DEF Placed, Undid
  <2> QED BY <1>4, <2>1, DoneIn
<1>7. /\ Current.op = "drop_issuer" => Done \cap {"fill_issuer"} = {}
      /\ Current.op = "drop_type" => Done \cap {"add_type"} = {}
  BY <1>2, <1>4 DEF Placed
<1>8. Current.op = "delete_orphans" =>
        "fill_owner" \in Done /\ Done \cap {"drop_owner", "delete_surplus"} = {}
  <2>1. ASSUME Current.op = "delete_orphans"
        PROVE  doing = "down" /\ Undid(4, 2) /\ ~Undid(4, 4)
    BY <1>1, <1>2, <2>1 DEF Placed, Undid
  <2> QED BY <1>4, <2>1, DoneIn
<1>9. Current.op = "delete_surplus" =>
        /\ {"fill_owner", "delete_orphans"} \subseteq Done
        /\ Done \cap {"drop_owner", "delete_surplus", "drop_cards"} = {}
  <2>1. ASSUME Current.op = "delete_surplus"
        PROVE  doing = "down" /\ Undid(4, 2) /\ Undid(4, 3) /\ ~Undid(4, 4) /\ ~Undid(3, 1)
    BY <1>1, <1>2, <2>1 DEF Placed, Undid
  <2> QED BY <1>4, <2>1, DoneIn
<1> QED BY <1>5, <1>6, <1>7, <1>8, <1>9

\* What the running command sees of the rows is what its scripts so far make of
\* those committed, table by table; and cards have no types before revision 5.
CardsCarried == conn.rows.cards = CardsBy(Done, db.rows.cards)
UsersCarried ==
  conn.rows.users = IF "drop_role" \in Done THEN [p \in Person |-> NoRole] ELSE db.rows.users
CountersCarried ==
  \A k \in Kind : conn.rows.counters[k] = IF TableOf[k] \in Seeded THEN Seed[k]
                                          ELSE IF TableOf[k] \in Dropped THEN 0
                                          ELSE db.rows.counters[k]
MintedCarried == conn.rows.minted = {m \in db.rows.minted : TableOf[m.kind] \notin Dropped}
LogCarried ==
  ~Recovered => conn.rows.log = IF "drop_log" \in Done THEN NoLog ELSE db.rows.log
Untypedness == db.revision < 5 => \A c \in db.rows.cards : c.type = "none"

CarriedOver ==
  transactional =>
    /\ CardsCarried /\ UsersCarried /\ CountersCarried /\ MintedCarried /\ LogCarried
    /\ Untypedness

\* A statement leaves the cards as they are due.
LEMMA CardsCarriedRan ==
  ASSUME Base, CarriedOver, Ran, transactional
  PROVE  CardsCarried'
<1> DEFINE S == db.rows.cards
           T == conn.rows.cards
<1>1. db' = db /\ Effects(Current, conn.rows, conn'.rows)
  BY DEF Ran
<1>2. S \in SUBSET CardRow /\ T = CardsBy(Done, S)
  BY DEF Base, Types, Database, CarriedOver, CardsCarried
<1>3. Done' = Done \cup ({Current.op} \cap Changing)
  BY DoneRan
<1> SUFFICES conn'.rows.cards = CardsBy(Done', S)
  BY <1>1 DEF CardsCarried
<1>4. CASE Current.op = "fill_issuer"
  <2>1. conn'.rows.cards = {[c EXCEPT !.by = c.owner] : c \in T}
    BY <1>1, <1>4 DEF Effects
  <2>2. Done' = Done \cup {"fill_issuer"}
    BY <1>3, <1>4 DEF Changing
  <2>3. CardsBy(Done \cup {"fill_issuer"}, S) = {[c EXCEPT !.by = c.owner] : c \in CardsBy(Done, S)}
    BY <1>2, <1>4, Order, FillsIssuer
  <2> QED BY <1>2, <2>1, <2>2, <2>3
<1>5. CASE Current.op = "drop_owner"
  <2>1. conn'.rows.cards = {[c EXCEPT !.owner = Nobody] : c \in T}
    BY <1>1, <1>5 DEF Effects
  <2>2. Done' = Done \cup {"drop_owner"}
    BY <1>3, <1>5 DEF Changing
  <2>3. CardsBy(Done \cup {"drop_owner"}, S) = {[c EXCEPT !.owner = Nobody] : c \in CardsBy(Done, S)}
    BY <1>2, DropsOwner
  <2> QED BY <1>2, <2>1, <2>2, <2>3
<1>6. CASE Current.op = "add_type"
  <2>1. conn'.rows.cards = {[c EXCEPT !.type = Untyped] : c \in T}
    BY <1>1, <1>6 DEF Effects
  <2>2. Done' = Done \cup {"add_type"}
    BY <1>3, <1>6 DEF Changing
  <2>3. CardsBy(Done \cup {"add_type"}, S) = {[c EXCEPT !.type = Untyped] : c \in CardsBy(Done, S)}
    BY <1>2, AddsType
  <2> QED BY <1>2, <2>1, <2>2, <2>3
<1>7. CASE Current.op = "fill_owner"
  <2>1. conn'.rows.cards = {[c EXCEPT !.owner = c.by] : c \in T}
    BY <1>1, <1>7 DEF Effects
  <2>2. Done' = Done \cup {"fill_owner"}
    BY <1>3, <1>7 DEF Changing
  <2>3. CardsBy(Done \cup {"fill_owner"}, S) = {[c EXCEPT !.owner = c.by] : c \in CardsBy(Done, S)}
    BY <1>2, <1>7, Order, FillsOwner
  <2> QED BY <1>2, <2>1, <2>2, <2>3
<1>8. CASE Current.op = "drop_issuer"
  <2>1. conn'.rows.cards = {[c EXCEPT !.by = Nobody] : c \in T}
    BY <1>1, <1>8 DEF Effects
  <2>2. Done' = Done \cup {"drop_issuer"}
    BY <1>3, <1>8 DEF Changing
  <2>3. CardsBy(Done \cup {"drop_issuer"}, S) = {[c EXCEPT !.by = Nobody] : c \in CardsBy(Done, S)}
    BY <1>2, <1>8, Order, DropsIssuer
  <2> QED BY <1>2, <2>1, <2>2, <2>3
<1>9. CASE Current.op = "drop_type"
  <2>1. conn'.rows.cards = {[c EXCEPT !.type = "none"] : c \in T}
    BY <1>1, <1>9 DEF Effects
  <2>2. Done' = Done \cup {"drop_type"}
    BY <1>3, <1>9 DEF Changing
  <2>3. CardsBy(Done \cup {"drop_type"}, S) = {[c EXCEPT !.type = "none"] : c \in CardsBy(Done, S)}
    BY <1>2, <1>9, Order, DropsType
  <2> QED BY <1>2, <2>1, <2>2, <2>3
<1>10. CASE Current.op = "delete_orphans"
  <2>1. conn'.rows.cards = {c \in T : c.owner # Nobody}
    BY <1>1, <1>10 DEF Effects
  <2>2. Done' = Done \cup {"delete_orphans"}
    BY <1>3, <1>10 DEF Changing
  <2>3. CardsBy(Done \cup {"delete_orphans"}, S) = {c \in CardsBy(Done, S) : c.owner # Nobody}
    BY <1>2, <1>10, Order, DeletesOrphans
  <2> QED BY <1>2, <2>1, <2>2, <2>3
<1>11. CASE Current.op = "delete_surplus"
  <2>1. conn'.rows.cards = Earliest(T)
    BY <1>1, <1>11 DEF Effects
  <2>2. Done' = Done \cup {"delete_surplus"}
    BY <1>3, <1>11 DEF Changing
  <2>3. CardsBy(Done \cup {"delete_surplus"}, S) = Earliest(CardsBy(Done, S))
    BY <1>2, <1>11, Order, DeletesSurplus
  <2> QED BY <1>2, <2>1, <2>2, <2>3
<1>12. CASE Current.op = "drop_cards"
  <2>1. conn'.rows.cards = {} /\ "drop_cards" \in Done'
    BY <1>1, <1>3, <1>12 DEF Effects, Changing
  <2> QED BY <2>1 DEF CardsBy
<1>13. CASE Current.op \notin {"fill_issuer", "drop_owner", "add_type", "fill_owner", "drop_issuer",
                              "drop_type", "delete_orphans", "delete_surplus", "drop_cards"}
  <2>1. conn'.rows.cards = T
    BY <1>1, <1>13 DEF Effects
  <2>2. Done' \subseteq Done \cup {"drop_role", "drop_log"} /\ Done \subseteq Done'
    BY <1>3, <1>13 DEF Changing
  <2>3. /\ \A c : CardBy(Done', c) = CardBy(Done, c)
        /\ KeptBy(Done', S) = KeptBy(Done, S)
        /\ "drop_cards" \in Done' <=> "drop_cards" \in Done
    BY <2>2 DEF CardBy, KeptBy
  <2>4. CardsBy(Done', S) = CardsBy(Done, S)
    BY <2>3 DEF CardsBy
  <2> QED BY <1>2, <2>1, <2>4
<1> QED BY <1>4, <1>5, <1>6, <1>7, <1>8, <1>9, <1>10, <1>11, <1>12, <1>13

\* A statement leaves the other tables as they are due.
LEMMA TablesCarriedRan ==
  ASSUME Base, CarriedOver, Ran, transactional
  PROVE  /\ UsersCarried' /\ CountersCarried' /\ MintedCarried' /\ LogCarried'
         /\ Untypedness'
<1>1. db' = db /\ doing' = doing /\ Effects(Current, conn.rows, conn'.rows)
  BY DEF Ran
<1>2. Done' = Done \cup ({Current.op} \cap Changing)
  BY DoneRan
<1>3. Placed
  BY Places DEF Base, Ran
<1>4. UsersCarried'
  <2>1. conn'.rows.users = IF Current.op = "drop_role" THEN [p \in Person |-> NoRole] ELSE conn.rows.users
    BY <1>1 DEF Effects
  <2>2. "drop_role" \in Done' <=> "drop_role" \in Done \/ Current.op = "drop_role"
    BY <1>2 DEF Changing
  <2> QED BY <1>1, <2>1, <2>2 DEF CarriedOver, UsersCarried
<1>5. CountersCarried'
  <2>1. ASSUME NEW k \in Kind
        PROVE  conn'.rows.counters[k] = IF TableOf[k] \in Seeded' THEN Seed[k]
                                        ELSE IF TableOf[k] \in Dropped' THEN 0
                                        ELSE db.rows.counters[k]
    <3>1. TableOf[k] \in CodeTable
      BY Kinds
    <3>2. conn'.rows.counters[k] =
            IF Current.op = "seed" /\ Current.table = TableOf[k] THEN Seed[k]
            ELSE IF Current.op = "drop_codes" /\ Current.table = TableOf[k] THEN 0
            ELSE conn.rows.counters[k]
      BY CodesRan
    <3>3. /\ TableOf[k] \in Seeded' <=>
               TableOf[k] \in Seeded \/ (Current.op = "seed" /\ Current.table = TableOf[k])
          /\ TableOf[k] \in Dropped' <=>
               TableOf[k] \in Dropped \/ (Current.op = "drop_codes" /\ Current.table = TableOf[k])
      BY <3>1, CodesDone
    <3>4. conn.rows.counters[k] = IF TableOf[k] \in Seeded THEN Seed[k]
                                  ELSE IF TableOf[k] \in Dropped THEN 0
                                  ELSE db.rows.counters[k]
      BY DEF CarriedOver, CountersCarried
    <3>5. Current.op = "drop_codes" => TableOf[k] \notin Seeded
      BY <1>3 DEF Placed, Seeded, Did
    <3> QED BY <3>2, <3>3, <3>4, <3>5
  <2> QED BY <1>1, <2>1 DEF CountersCarried
<1>6. MintedCarried'
  <2>1. conn'.rows.minted =
          IF Current.op = "drop_codes" THEN {m \in conn.rows.minted : TableOf[m.kind] # Current.table}
          ELSE conn.rows.minted
    BY <1>1 DEF Effects
  <2>2. conn.rows.minted = {m \in db.rows.minted : TableOf[m.kind] \notin Dropped}
    BY DEF CarriedOver, MintedCarried
  <2>3. \A t \in CodeTable : t \in Dropped' <=>
          t \in Dropped \/ (Current.op = "drop_codes" /\ Current.table = t)
    BY CodesDone
  <2>4. \A m \in db.rows.minted : TableOf[m.kind] \in CodeTable
    BY Kinds DEF Base, Types, MintRow
  <2>5. \A m : m \in conn'.rows.minted <=> m \in db.rows.minted /\ TableOf[m.kind] \notin Dropped'
    BY <2>1, <2>2, <2>3, <2>4
  <2> QED BY <1>1, <2>5 DEF MintedCarried
<1>7. LogCarried'
  <2>1. conn'.rows.log = CASE Current.op = "backfill" -> Backfill(conn.rows)
                           [] Current.op = "drop_log" -> NoLog
                           [] OTHER -> conn.rows.log
    BY <1>1 DEF Effects
  <2>2. ~Recovered /\ (Recovered' <=> Current.op = "backfill")
    BY LastScript
  <2>3. "drop_log" \in Done' <=> "drop_log" \in Done \/ Current.op = "drop_log"
    BY <1>2 DEF Changing
  <2>4. conn.rows.log = IF "drop_log" \in Done THEN NoLog ELSE db.rows.log
    BY <2>2 DEF CarriedOver, LogCarried
  <2> QED BY <1>1, <2>1, <2>2, <2>3, <2>4 DEF LogCarried
<1>8. Untypedness'
  BY <1>1 DEF CarriedOver, Untypedness
<1> QED BY <1>4, <1>5, <1>6, <1>7, <1>8

\* Where db and conn agree and no script has begun, nothing has been done.
LEMMA AtRest ==
  /\ step = 1 /\ conn.revision = db.revision /\ db.revision \in Nat => Done = {} /\ Seeded = {} /\ Dropped = {}
  /\ step' = 1 /\ conn'.revision = db'.revision /\ db'.revision \in Nat =>
       Done' = {} /\ Seeded' = {} /\ Dropped' = {}
<1>1. ASSUME step = 1, conn.revision = db.revision, db.revision \in Nat, NEW r \in 1 .. 9, NEW k \in 1 .. 5
      PROVE  ~Did(r, k) /\ ~Undid(r, k)
  BY <1>1 DEF Did, Undid
<1>2. ASSUME step' = 1, conn'.revision = db'.revision, db'.revision \in Nat, NEW r \in 1 .. 9, NEW k \in 1 .. 5
      PROVE  ~Did(r, k)' /\ ~Undid(r, k)'
  BY <1>2 DEF Did, Undid
<1>3. ASSUME step = 1, conn.revision = db.revision, db.revision \in Nat
      PROVE  Done = {} /\ Seeded = {} /\ Dropped = {}
  <2>1. Done = {}
    BY <1>1, <1>3, DoneIn
  <2>2. \A t \in CodeTable : Created[t] \in 1 .. 9
    BY CodeTables
  <2> QED BY <1>1, <1>3, <2>1, <2>2 DEF Seeded, Dropped
<1>4. ASSUME step' = 1, conn'.revision = db'.revision, db'.revision \in Nat
      PROVE  Done' = {} /\ Seeded' = {} /\ Dropped' = {}
  <2>1. DoneUp' = {}
    BY <1>2, <1>4 DEF DoneUp
  <2>2. DoneDown' = {}
    BY <1>2, <1>4 DEF DoneDown
  <2>3. \A t \in CodeTable : Created[t] \in 1 .. 9
    BY CodeTables
  <2> QED BY <1>2, <1>4, <2>1, <2>2, <2>3 DEF Done, Seeded, Dropped
<1> QED BY <1>3, <1>4

\* What agrees with what is committed is as it is due.
LEMMA CarriedAtRest ==
  /\ /\ conn' = db' /\ step' = 1 /\ Base' /\ Untypedness'
     => CarriedOver'
  /\ /\ conn = db /\ step = 1 /\ Base /\ Untypedness
     => CarriedOver
<1>1. ASSUME conn' = db', step' = 1, Base', Untypedness'
      PROVE  CarriedOver'
  <2>1. db'.revision \in Nat /\ db'.rows.cards \in SUBSET CardRow
    BY <1>1 DEF Base, Control, Types, Database, Revision
  <2>2. Done' = {} /\ Seeded' = {} /\ Dropped' = {}
    BY <1>1, <2>1, AtRest
  <2>3. CardsBy({}, db'.rows.cards) = db'.rows.cards
    BY <2>1, NothingDone
  <2>4. CardsCarried'
    BY <1>1, <2>2, <2>3 DEF CardsCarried
  <2>5. UsersCarried' /\ CountersCarried' /\ MintedCarried' /\ LogCarried'
    BY <1>1, <2>2 DEF UsersCarried, CountersCarried, MintedCarried, LogCarried
  <2> QED BY <1>1, <2>4, <2>5 DEF CarriedOver
<1>2. ASSUME conn = db, step = 1, Base, Untypedness
      PROVE  CarriedOver
  <2>1. db.revision \in Nat /\ db.rows.cards \in SUBSET CardRow
    BY <1>2 DEF Base, Control, Types, Database, Revision
  <2>2. Done = {} /\ Seeded = {} /\ Dropped = {}
    BY <1>2, <2>1, AtRest
  <2>3. CardsBy({}, db.rows.cards) = db.rows.cards
    BY <2>1, NothingDone
  <2>4. CardsCarried
    BY <1>2, <2>2, <2>3 DEF CardsCarried
  <2>5. UsersCarried /\ CountersCarried /\ MintedCarried /\ LogCarried
    BY <1>2, <2>2 DEF UsersCarried, CountersCarried, MintedCarried, LogCarried
  <2> QED BY <1>2, <2>4, <2>5 DEF CarriedOver
<1> QED BY <1>1, <1>2

\* A commit leaves no types on cards of a schema without them.
LEMMA UntypedCommitted ==
  ASSUME Base, CarriedOver, Committed, transactional
  PROVE  Untypedness'
<1>1. /\ db' = conn /\ Arrived /\ step = 1 /\ doing \in {"up", "down"}
      /\ db.revision \in 0 .. 9 /\ conn.revision \in 0 .. 9
      /\ doing = "up" => db.revision <= conn.revision
      /\ doing = "down" => conn.revision <= db.revision
  BY DEF Committed, Busy, Base, Control, Revision, Latest
<1>2. ASSUME conn.revision < 5, NEW c \in conn.rows.cards
      PROVE  c.type = "none"
  <2>1. PICK d \in db.rows.cards : c = CardBy(Done, d)
    BY <1>2 DEF CarriedOver, CardsCarried, CardsBy, KeptBy
  <2>2. "add_type" \notin Done
    BY <1>1, <1>2, DoneIn DEF Did
  <2>3. c.type = IF "drop_type" \in Done THEN "none" ELSE d.type
    BY <2>1, <2>2 DEF CardBy
  <2>4. CASE db.revision < 5
    BY <2>3, <2>4 DEF CarriedOver, Untypedness
  <2>5. CASE ~(db.revision < 5)
    <3>1. Undid(5, 1)
      BY <1>1, <1>2, <2>5 DEF Undid
    <3>2. "drop_type" \in Done
      BY <3>1, DoneIn
    <3> QED BY <2>3, <3>2
  <2> QED BY <2>4, <2>5
<1> QED BY <1>1, <1>2 DEF Untypedness

\* Relative to Base and Changes, CarriedOver is inductive.
LEMMA CarriedStep ==
  ASSUME Base, CarriedOver, [Next]_vars
  PROVE  CarriedOver'
<1>0. Base' /\ transactional \in BOOLEAN
  BY BaseStep DEF Base, Control, Flags
<1>1. CASE UNCHANGED vars
  <2>1. UNCHANGED <<transactional, db, conn, doing, step>>
    BY <1>1 DEF vars, command
  <2>2. Done' = Done /\ Seeded' = Seeded /\ Dropped' = Dropped /\ (Recovered' <=> Recovered)
    BY <2>1 DEF Done, DoneUp, DoneDown, Seeded, Dropped, Did, Undid, Recovered
  <2> QED BY <2>1, <2>2 DEF CarriedOver, CardsCarried, UsersCarried, CountersCarried,
     MintedCarried,
                            LogCarried, Untypedness
<1>2. ASSUME NEW direction, NEW to, Began(direction, to)
      PROVE  CarriedOver'
  <2>1. conn' = db' /\ db' = db /\ step' = 1 /\ transactional' = transactional
    BY <1>2 DEF Began, Base, Control, Busy
  <2>2. transactional => Untypedness'
    BY <2>1 DEF CarriedOver, Untypedness
  <2> QED BY <1>0, <2>1, <2>2, CarriedAtRest DEF CarriedOver
<1>3. CASE CreateCopy
  <2>1. /\ UNCHANGED <<transactional, doing, step>>
        /\ conn'.rows = conn.rows /\ conn'.revision = conn.revision
        /\ db'.rows = db.rows /\ db'.revision = db.revision
    BY <1>3, Copied
  <2>2. Done' = Done /\ Seeded' = Seeded /\ Dropped' = Dropped /\ (Recovered' <=> Recovered)
    BY <2>1 DEF Done, DoneUp, DoneDown, Seeded, Dropped, Did, Undid, Recovered
  <2> QED BY <2>1, <2>2 DEF CarriedOver, CardsCarried, UsersCarried, CountersCarried,
     MintedCarried,
                            LogCarried, Untypedness
<1>4. CASE Execute
  <2>1. Ran /\ transactional' = transactional
    BY <1>4, ExecuteRuns DEF Ran
  <2> QED BY <2>1, CardsCarriedRan, TablesCarriedRan DEF CarriedOver
<1>5. CASE Record
  <2>1. /\ db' = db /\ conn'.rows = conn.rows /\ transactional' = transactional
        /\ doing' = doing
        /\ step' = 1
        /\ doing = "up" => conn'.revision = conn.revision + 1 /\ conn.revision < goal
    BY <1>5, Recorded
  <2>2. Done' = Done /\ Seeded' = Seeded /\ Dropped' = Dropped
    BY <1>5, DoneRecorded, CodesDone
  <2>3. Recovered => Recovered'
    <3>1. conn.revision \in 0 .. 9 /\ goal \in 0 .. 9
      BY DEF Base, Control, Revision, Latest
    <3>2. ASSUME Recovered
          PROVE  Recovered'
      <4>1. doing = "up" /\ conn.revision = 8 /\ db.revision < Latest
        BY <2>1, <3>1, <3>2 DEF Recovered, Latest
      <4> QED BY <2>1, <4>1 DEF Recovered, Latest
    <3> QED BY <3>2
  <2> QED BY <2>1, <2>2, <2>3 DEF CarriedOver, CardsCarried, UsersCarried, CountersCarried,
                                  MintedCarried, LogCarried, Untypedness
<1>6. CASE Committed
  <2>1. conn' = db' /\ step' = 1 /\ transactional' = transactional
    BY <1>6 DEF Committed
  <2>2. transactional => Untypedness'
    BY <1>6, UntypedCommitted
  <2> QED BY <1>0, <2>1, <2>2, CarriedAtRest DEF CarriedOver
<1>7. CASE Undone
  <2>1. conn' = db' /\ db' = db /\ step' = 1 /\ transactional' = transactional
    BY <1>7 DEF Undone
  <2>2. transactional => Untypedness'
    BY <2>1 DEF CarriedOver, Untypedness
  <2> QED BY <1>0, <2>1, <2>2, CarriedAtRest DEF CarriedOver
<1>8. CASE BotWrites
  <2>1. BotWrote
    BY <1>8, BotEffects
  <2>2. conn' = db' /\ step' = 1 /\ transactional' = transactional /\ db'.revision = db.revision
    BY <2>1 DEF BotWrote, BotKeeps, Base, Control
  <2>3. \/ db'.rows.cards = db.rows.cards
        \/ \E card : db'.rows.cards = db.rows.cards \cup {card} /\ (db.revision < 5 => card.type = "none")
    BY <2>1 DEF BotWrote, RoleWritten, CardWritten, BatchWritten
  <2>4. transactional => Untypedness'
    BY <2>2, <2>3 DEF CarriedOver, Untypedness
  <2> QED BY <1>0, <2>2, <2>4, CarriedAtRest DEF CarriedOver
<1> QED BY <1>1, <1>2, <1>3, <1>4, <1>5, <1>6, <1>7, <1>8, Steps

\* Nothing is due at first.
LEMMA CarriedInit ==
  ASSUME Init
  PROVE  CarriedOver
<1>1. Base
  BY BaseInit
<1>2. conn = db /\ step = 1 /\ db.rows.cards = {}
  BY DEF Init, NoRows
<1>3. Untypedness
  BY <1>2 DEF Untypedness
<1> QED BY <1>1, <1>2, <1>3, CarriedAtRest

\* CarriedOver is an invariant.
LEMMA CarriedHold == Spec => []CarriedOver
BY CarriedInit, CarriedStep, BaseHolds, PTL DEF Spec

---------------------------------------------------------------------------
(* Releases *)

\* Releases speaks of the same schema.
LEMMA SameSchema ==
  /\ Abstract!Kind = Kind /\ Abstract!Latest = Latest /\ Abstract!Revision = Revision
  /\ Abstract!TableOf = TableOf /\ Abstract!Created = Created /\ Abstract!Seed = Seed
  /\ Abstract!Untyped = Untyped /\ Abstract!NoLog = NoLog /\ Abstract!NoRole = NoRole
  /\ Abstract!NoRows = NoRows
<1>1. /\ Abstract!SeedRows = SeedRows /\ Abstract!CodeTable = CodeTable
      /\ Abstract!Brings = Brings /\ Abstract!Latest = Latest
  BY DEF Abstract!CodeTable, CodeTable, Abstract!SeedRows, SeedRows, Abstract!Brings, Brings,
         Abstract!Latest, Latest
<1>2. Abstract!Kind = Kind
  BY <1>1 DEF Abstract!Kind, Kind
<1>3. Abstract!TableOf = TableOf
  BY <1>1, <1>2 DEF Abstract!TableOf, TableOf
<1>4. Abstract!Created = Created
  BY <1>1 DEF Abstract!Created, Created
<1>5. Abstract!Seed = Seed
  BY <1>1, <1>2, <1>3 DEF Abstract!Seed, Seed, Abstract!Entry, Entry
<1>6. /\ Abstract!Untyped = Untyped /\ Abstract!NoLog = NoLog /\ Abstract!NoRole = NoRole
      /\ Abstract!Revision = Revision
  BY <1>1 DEF Abstract!Untyped, Untyped, Abstract!NoLog , NoLog , Abstract!NoRole , NoRole,
              Abstract!Revision, Revision
<1>7. Abstract!NoRows = NoRows
  BY <1>2, <1>6 DEF Abstract!NoRows, NoRows
<1> QED BY <1>1, <1>2, <1>3, <1>4, <1>5, <1>6, <1>7

\* And of the same recovery of the history.
LEMMA SameBackfill ==
  ASSUME NEW r
  PROVE  Abstract!Backfill(r) = Backfill(r)
<1>1. \A users : Abstract!RoleLines(users) = RoleLines(users)
  <2>1. \A p, u : Abstract!RoleLine(p, u) = RoleLine(p, u)
    BY DEF Abstract!RoleLine, RoleLine
  <2> QED BY <2>1 DEF Abstract!RoleLines, RoleLines
<1>2. {Abstract!CardLine(c) : c \in r.cards} = {CardLine(c) : c \in r.cards}
  <2>1. \A c : Abstract!CardLine(c) = CardLine(c)
    BY DEF Abstract!CardLine, CardLine
  <2> QED BY <2>1
<1>3. {Abstract!BatchLine(group) : group \in {Abstract!Group(r.minted, m) : m \in r.minted}}
        = {BatchLine(group) : group \in {Group(r.minted, m) : m \in r.minted}}
  <2>1. ASSUME NEW g
        PROVE  Abstract!BatchLine(g) = BatchLine(g)
    <3>1. Abstract!Cardinality(g) = Cardinality(g)
      BY DEF Abstract!Cardinality, Cardinality
    <3>2. \A k, m, n : Abstract!Before(k, m, n) = Before(k, m, n)
      BY DEF Abstract!Before, Before, Abstract!Size, Size
    <3> QED BY <3>1, <3>2, Zenon DEF Abstract!BatchLine, BatchLine
  <2>2. \A M, m : Abstract!Group(M, m) = Group(M, m)
    BY DEF Abstract!Group, Group, Abstract!Together, Together
  <2>3. {Abstract!Group(r.minted, m) : m \in r.minted} = {Group(r.minted, m) : m \in r.minted}
    BY <2>2
  <2> QED BY <2>1, <2>3
<1> QED BY <1>1, <1>2, <1>3 DEF Abstract!Backfill, Backfill

\* A card with its owner, its issuer and its type replaced, in either order.
LEMMA CardExcept ==
  ASSUME NEW c \in CardRow, NEW o, NEW b, NEW t
  PROVE  [c EXCEPT !.by = b, !.owner = o, !.type = t]
           = [id |-> c.id, owner |-> o, by |-> b, type |-> t, at |-> c.at]
<1>1. c = [id |-> c.id, owner |-> c.owner, by |-> c.by, type |-> c.type, at |-> c.at]
  BY DEF CardRow
<1>2. PICK d : d = [c EXCEPT !.by = b, !.owner = o, !.type = t]
  OBVIOUS
<1>3. /\ DOMAIN d = {"id", "owner", "by", "type", "at"}
      /\ d.id = c.id /\ d.owner = o /\ d.by = b /\ d.type = t /\ d.at = c.at
  BY <1>1, <1>2
<1>4. d = [id |-> d.id, owner |-> d.owner, by |-> d.by, type |-> d.type, at |-> d.at]
  BY <1>1, <1>2
<1> QED BY <1>2, <1>3, <1>4

\* A card that the downgrade of the rework leaves.
LEMMA CardSettled ==
  ASSUME NEW c \in CardRow
  PROVE  [c EXCEPT !.owner = c.by, !.by = Nobody, !.type = "none"]
           = [id |-> c.id, owner |-> c.by, by |-> Nobody, type |-> "none", at |-> c.at]
<1>1. c = [id |-> c.id, owner |-> c.owner, by |-> c.by, type |-> c.type, at |-> c.at]
  BY DEF CardRow
<1>2. PICK d : d = [c EXCEPT !.owner = c.by, !.by = Nobody, !.type = "none"]
  OBVIOUS
<1>3. /\ DOMAIN d = {"id", "owner", "by", "type", "at"}
      /\ d.id = c.id /\ d.owner = c.by /\ d.by = Nobody /\ d.type = "none" /\ d.at = c.at
  BY <1>1, <1>2
<1>4. d = [id |-> d.id, owner |-> d.owner, by |-> d.by, type |-> d.type, at |-> d.at]
  BY <1>1, <1>2
<1> QED BY <1>2, <1>3, <1>4

\* What Releases promises of an upgrade, in the words of this module.
CardUp(c, from, to) ==
  [c EXCEPT !.by    = IF Abstract!Passes(4, from, to) THEN c.owner ELSE @,
            !.owner = IF Abstract!Passes(4, from, to) THEN Nobody ELSE @,
            !.type  = IF Abstract!Passes(5, from, to) THEN Abstract!Untyped ELSE @]

\* Rows that agree with it part by part are what Releases promises.
LEMMA Upgrades ==
  ASSUME NEW x, HasRows(x), NEW y, HasRows(y), NEW from, NEW to,
         y.users = x.users, y.minted = x.minted,
         y.cards = {CardUp(c, from, to) : c \in x.cards},
         y.counters = [k \in Kind |-> IF Abstract!Passes(Created[TableOf[k]], from, to) THEN Seed[k]
                                      ELSE x.counters[k]],
         y.log = IF Abstract!Passes(9, from, to) THEN Backfill(y) ELSE x.log
  PROVE  y = Abstract!Upgraded(x, from, to)
<1> DEFINE cards == y.cards
           counters == y.counters
<1>0. PICK new : new = [x EXCEPT !.cards = cards, !.counters = counters]
  OBVIOUS
<1>1. Abstract!Upgraded(x, from, to)
        = IF Abstract!Passes(9, from, to) THEN [new EXCEPT !.log = Abstract!Backfill(new)] ELSE new
  <2>1. cards = {CardUp(c, from, to) : c \in x.cards}
    OBVIOUS
  <2>2. counters = [k \in Abstract!Kind |->
                     IF Abstract!Passes(Abstract!Created[Abstract!TableOf[k]], from, to)
                       THEN Abstract!Seed[k] ELSE x.counters[k]]
    BY SameSchema
  <2> HIDE DEF cards, counters
  <2>4. cards = {[c EXCEPT !.by    = IF Abstract!Passes(4, from, to) THEN c.owner ELSE @,
                           !.owner = IF Abstract!Passes(4, from, to) THEN Nobody ELSE @,
                           !.type  = IF Abstract!Passes(5, from, to) THEN Abstract!Untyped ELSE @] :
                   c \in x.cards}
    BY <2>1, Zenon DEF CardUp
  <2> DEFINE carriedOver == {[c EXCEPT !.by = IF Abstract!Passes(4, from, to) THEN c.owner ELSE @,
                           !.owner = IF Abstract!Passes(4, from, to) THEN Nobody ELSE @,
                           !.type  = IF Abstract!Passes(5, from, to) THEN Abstract!Untyped ELSE @] :
                   c \in x.cards}
             numbered == [k \in Abstract!Kind |->
                     IF Abstract!Passes(Abstract!Created[Abstract!TableOf[k]], from, to)
                       THEN Abstract!Seed[k] ELSE x.counters[k]]
             newer == [x EXCEPT !.cards = carriedOver, !.counters = numbered]
  <2>5. Abstract!Upgraded(x, from, to)
        = IF Abstract!Passes(9, from, to) THEN [newer EXCEPT !.log = Abstract!Backfill(newer)] ELSE newer
    BY Zenon DEF Abstract!Upgraded
  <2>6. carriedOver = cards /\ numbered = counters
    BY <2>2, <2>4
  <2> HIDE DEF carriedOver, numbered
  <2>7. newer = new
    BY <1>0, <2>6
  <2> HIDE DEF newer
  <2> QED BY <2>5, <2>7
<1>2. /\ HasRows(new) /\ new.users = y.users /\ new.minted = y.minted /\ new.cards = y.cards
      /\ new.counters = y.counters /\ new.log = x.log
  <2> HIDE DEF cards, counters
  <2>1. /\ HasRows(new) /\ new.cards = cards /\ new.counters = counters
        /\ new.users = x.users /\ new.minted = x.minted /\ new.log = x.log
    BY <1>0 DEF HasRows
  <2> QED BY <2>1 DEF cards, counters
<1>3. Backfill(new) = Backfill(y)
  BY <1>2 DEF Backfill
<1>4. CASE Abstract!Passes(9, from, to)
  <2>1. y.log = Backfill(y) /\ Abstract!Upgraded(x, from, to) = [new EXCEPT !.log = Backfill(y)]
    BY <1>1, <1>3, <1>4, SameBackfill
  <2>2. y = [new EXCEPT !.log = y.log]
    BY <1>2 DEF HasRows
  <2> QED BY <2>1, <2>2
<1>5. CASE ~Abstract!Passes(9, from, to)
  <2>1. y = new
    BY <1>2, <1>5 DEF HasRows
  <2> QED BY <1>1, <1>5, <2>1
<1> QED BY <1>4, <1>5

\* What it promises of a downgrade.
FirstIn(S, c) == \A d \in S : d.by = c.by => c.id <= d.id
CardsDown(S, from, to) ==
  IF Abstract!Passes(3, to, from) THEN {}
  ELSE IF Abstract!Passes(4, to, from)
    THEN {[c EXCEPT !.owner = c.by, !.by = Nobody, !.type = "none"] :
            c \in {d \in S : FirstIn(S, d) /\ d.by # Nobody}}
  ELSE IF Abstract!Passes(5, to, from)
    THEN {[c EXCEPT !.type = "none"] : c \in S}
  ELSE S

\* Rows that agree with it part by part are what Releases promises.
LEMMA Downgrades ==
  ASSUME NEW x, NEW y, HasRows(y), NEW from, NEW to,
         y.users = IF Abstract!Passes(2, to, from) THEN [p \in Person |-> NoRole] ELSE x.users,
         y.cards = CardsDown(x.cards, from, to),
         y.counters = [k \in Kind |-> IF Abstract!Passes(Created[TableOf[k]], to, from) THEN 0
                                      ELSE x.counters[k]],
         y.minted = {m \in x.minted : ~Abstract!Passes(Created[TableOf[m.kind]], to, from)},
         y.log = IF Abstract!Passes(9, to, from) THEN NoLog ELSE x.log
  PROVE  y = Abstract!Downgraded(x, from, to)
<1> DEFINE users == IF Abstract!Passes(2, to, from) THEN [p \in Person |-> Abstract!NoRole] ELSE x.users
           counters == [k \in Abstract!Kind |->
                          IF Abstract!Passes(Abstract!Created[Abstract!TableOf[k]], to, from) THEN 0
                          ELSE x.counters[k]]
           minted == {m \in x.minted :
                        ~Abstract!Passes(Abstract!Created[Abstract!TableOf[m.kind]], to, from)}
           log == IF Abstract!Passes(9, to, from) THEN Abstract!NoLog ELSE x.log
<1>1. y = [users |-> y.users, cards |-> y.cards, counters |-> y.counters, minted |-> y.minted,
           log |-> y.log]
  BY DEF HasRows
<1>2. y.users = users /\ y.counters = counters /\ y.minted = minted /\ y.log = log
  BY SameSchema
<1>3. Abstract!Downgraded(x, from, to)
        = [users |-> users, cards |-> CardsDown(x.cards, from, to), counters |-> counters,
           minted |-> minted, log |-> log]
  BY Zenon DEF Abstract!Downgraded, CardsDown, FirstIn
<1> HIDE DEF users, counters, minted, log
<1> QED BY <1>1, <1>2, <1>3

\* What has run when an upgrade commits, is what lies between the two revisions.
LEMMA UpgradeCommits ==
  ASSUME Base, Changes, CarriedOver, Committed, transactional, doing = "up"
  PROVE  conn.rows = Abstract!Upgraded(db.rows, db.revision, conn.revision)
<1> DEFINE S == db.rows.cards
           from == db.revision
           to == conn.revision
<1>1. /\ step = 1 /\ from \in 0 .. 9 /\ to \in 0 .. 9 /\ from <= to
      /\ HasRows(conn.rows) /\ HasRows(db.rows)
      /\ S \subseteq CardRow /\ conn.rows.counters \in [Kind -> Nat]
  BY DEF Committed, Busy, Base, Shapes, HasParts, Control, Types, Database, Revision, Latest
<1>2. \A r \in 1 .. 9, k \in 1 .. 5 : (Did(r, k) <=> Abstract!Passes(r, from, to)) /\ ~Undid(r, k)
  BY <1>1 DEF Did, Undid, Abstract!Passes
<1>3. /\ "fill_issuer" \in Done <=> Abstract!Passes(4, from, to)
      /\ "drop_owner" \in Done <=> Abstract!Passes(4, from, to)
      /\ "add_type" \in Done <=> Abstract!Passes(5, from, to)
      /\ Done \cap {"drop_role", "drop_cards", "fill_owner", "delete_orphans", "delete_surplus",
                    "drop_issuer", "drop_type", "drop_log"} = {}
  BY <1>2, DoneIn
<1>4. \A t \in CodeTable : (t \in Seeded <=> Abstract!Passes(Created[t], from, to)) /\ t \notin Dropped
  <2>1. \A t \in CodeTable : Created[t] \in 1 .. 9
    BY CodeTables
  <2> QED BY <1>2, <2>1 DEF Seeded, Dropped
<1>5. conn.rows.users = db.rows.users
  BY <1>3 DEF CarriedOver, UsersCarried
<1>6. conn.rows.minted = db.rows.minted
  <2>1. \A m \in db.rows.minted : TableOf[m.kind] \in CodeTable
    BY Kinds DEF Base, Types, MintRow
  <2> QED BY <1>4, <2>1 DEF CarriedOver, MintedCarried
<1>7. conn.rows.cards = {CardUp(c, from, to) : c \in S}
  <2>1. conn.rows.cards = {CardBy(Done, c) : c \in KeptBy(Done, S)} /\ KeptBy(Done, S) = S
    BY <1>3 DEF CarriedOver, CardsCarried, CardsBy, KeptBy
  <2>2. ASSUME NEW c \in S
        PROVE  CardBy(Done, c) = CardUp(c, from, to)
    <3> DEFINE o == IF Abstract!Passes(4, from, to) THEN Nobody ELSE c.owner
               b == IF Abstract!Passes(4, from, to) THEN c.owner ELSE c.by
               t == IF Abstract!Passes(5, from, to) THEN Abstract!Untyped ELSE c.type
    <3>1. CardUp(c, from, to) = [c EXCEPT !.by = b, !.owner = o, !.type = t]
      BY Zenon DEF CardUp
    <3>2. CardBy(Done, c) = [id |-> c.id, owner |-> o, by |-> b, type |-> t, at |-> c.at]
      BY <1>3, SameSchema DEF CardBy
    <3> HIDE DEF o, b, t
    <3>3. c \in CardRow
      BY <1>1
    <3> QED BY <3>1, <3>2, <3>3, CardExcept
  <2> QED BY <2>1, <2>2
<1>8. conn.rows.counters = [k \in Kind |-> IF Abstract!Passes(Created[TableOf[k]], from, to) THEN Seed[k]
                                           ELSE db.rows.counters[k]]
  <2>1. ASSUME NEW k \in Kind
        PROVE  conn.rows.counters[k] = IF Abstract!Passes(Created[TableOf[k]], from, to) THEN Seed[k]
                                       ELSE db.rows.counters[k]
    BY <1>4, Kinds DEF CarriedOver, CountersCarried
  <2> QED BY <1>1, <2>1
<1>9. conn.rows.log = IF Abstract!Passes(9, from, to) THEN Backfill(conn.rows) ELSE db.rows.log
  <2>1. Recovered <=> Abstract!Passes(9, from, to)
    BY <1>1 DEF Recovered, Abstract!Passes, Latest
  <2> QED BY <1>3, <2>1 DEF Changes, CarriedOver, LogCarried
<1> HIDE DEF from, to
<1> QED BY <1>1, <1>5, <1>6, <1>7, <1>8, <1>9, Upgrades DEF from, to

\* And the same when a downgrade commits.
LEMMA DowngradeCommits ==
  ASSUME Base, CarriedOver, Committed, transactional, doing = "down"
  PROVE  conn.rows = Abstract!Downgraded(db.rows, db.revision, conn.revision)
<1> DEFINE S == db.rows.cards
           from == db.revision
           to == conn.revision
<1>1. /\ step = 1 /\ from \in 0 .. 9 /\ to \in 0 .. 9 /\ to <= from
      /\ HasRows(conn.rows) /\ HasRows(db.rows)
      /\ S \subseteq CardRow /\ conn.rows.counters \in [Kind -> Nat]
  BY DEF Committed, Busy, Base, Shapes, HasParts, Control, Types, Database, Revision, Latest
<1>2. \A r \in 1 .. 9, k \in 1 .. 5 : (Undid(r, k) <=> Abstract!Passes(r, to, from)) /\ ~Did(r, k)
  BY <1>1 DEF Did, Undid, Abstract!Passes
<1>3. /\ "drop_role" \in Done <=> Abstract!Passes(2, to, from)
      /\ "drop_cards" \in Done <=> Abstract!Passes(3, to, from)
      /\ "fill_owner" \in Done <=> Abstract!Passes(4, to, from)
      /\ "delete_orphans" \in Done <=> Abstract!Passes(4, to, from)
      /\ "delete_surplus" \in Done <=> Abstract!Passes(4, to, from)
      /\ "drop_issuer" \in Done <=> Abstract!Passes(4, to, from)
      /\ "drop_type" \in Done <=> Abstract!Passes(5, to, from)
      /\ "drop_log" \in Done <=> Abstract!Passes(9, to, from)
      /\ Done \cap {"fill_issuer", "drop_owner", "add_type"} = {}
  BY <1>2, DoneIn
<1>4. \A t \in CodeTable : (t \in Dropped <=> Abstract!Passes(Created[t], to, from)) /\ t \notin Seeded
  <2>1. \A t \in CodeTable : Created[t] \in 1 .. 9
    BY CodeTables
  <2> QED BY <1>2, <2>1 DEF Seeded, Dropped
<1>5. conn.rows.users = IF Abstract!Passes(2, to, from) THEN [p \in Person |-> NoRole] ELSE db.rows.users
  BY <1>3 DEF CarriedOver, UsersCarried
<1>6. conn.rows.minted = {m \in db.rows.minted : ~Abstract!Passes(Created[TableOf[m.kind]], to, from)}
  <2>1. \A m \in db.rows.minted : TableOf[m.kind] \in CodeTable
    BY Kinds DEF Base, Types, MintRow
  <2> QED BY <1>4, <2>1 DEF CarriedOver, MintedCarried
<1>7. conn.rows.cards = CardsDown(S, from, to)
  <2>1. conn.rows.cards = CardsBy(Done, S)
    BY DEF CarriedOver, CardsCarried
  <2>2. CASE Abstract!Passes(3, to, from)
    BY <1>3, <2>1, <2>2 DEF CardsBy, CardsDown
  <2>3. CASE ~Abstract!Passes(3, to, from) /\ Abstract!Passes(4, to, from)
    <3>1. KeptBy(Done, S) = {c \in S : FirstIn(S, c) /\ c.by # Nobody}
      BY <1>3, <2>3 DEF KeptBy, FirstBy, FirstIn
    <3>2. ASSUME NEW c \in S
          PROVE  CardBy(Done, c) = [c EXCEPT !.owner = c.by, !.by = Nobody, !.type = "none"]
      <4>1. [c EXCEPT !.owner = c.by, !.by = Nobody, !.type = "none"]
              = [id |-> c.id, owner |-> c.by, by |-> Nobody, type |-> "none", at |-> c.at]
        <5>1. c \in CardRow
          BY <1>1
        <5> QED BY <5>1, CardSettled
      <4>2. "drop_type" \in Done \/ c.type = "none"
        <5>1. Abstract!Passes(5, to, from) \/ from < 5
          BY <1>1, <2>3 DEF Abstract!Passes
        <5> QED BY <1>3, <5>1 DEF CarriedOver, Untypedness
      <4> QED BY <1>3, <2>3, <4>1, <4>2 DEF CardBy
    <3> DEFINE K == {c \in S : FirstIn(S, c) /\ c.by # Nobody}
    <3>3. {CardBy(Done, c) : c \in K} = {[c EXCEPT !.owner = c.by, !.by = Nobody, !.type = "none"] : c \in K}
      BY <3>2
    <3>4. CardsBy(Done, S) = {CardBy(Done, c) : c \in K}
      BY <1>3, <2>3, <3>1 DEF CardsBy
    <3>5. CardsDown(S, from, to) = {[c EXCEPT !.owner = c.by, !.by = Nobody, !.type = "none"] : c \in K}
      BY <2>3, Zenon DEF CardsDown
    <3> QED BY <2>1, <3>3, <3>4, <3>5
  <2>4. CASE ~Abstract!Passes(3, to, from) /\ ~Abstract!Passes(4, to, from)
    <3>1. CardsBy(Done, S) = {CardBy(Done, c) : c \in S}
      BY <1>3, <2>4 DEF CardsBy, KeptBy
    <3>2. ASSUME NEW c \in S
          PROVE  CardBy(Done, c) = IF Abstract!Passes(5, to, from) THEN [c EXCEPT !.type = "none"] ELSE c
      <4>1. c = [id |-> c.id, owner |-> c.owner, by |-> c.by, type |-> c.type, at |-> c.at]
        BY <1>1 DEF CardRow
      <4> QED BY <1>3, <2>4, <4>1 DEF CardBy
    <3>3. CASE Abstract!Passes(5, to, from)
      <4>1. CardsBy(Done, S) = {[c EXCEPT !.type = "none"] : c \in S}
        BY <3>1, <3>2, <3>3
      <4>2. CardsDown(S, from, to) = {[c EXCEPT !.type = "none"] : c \in S}
        BY <2>4, <3>3, Zenon DEF CardsDown
      <4> QED BY <2>1, <4>1, <4>2
    <3>4. CASE ~Abstract!Passes(5, to, from)
      <4>1. CardsBy(Done, S) = S
        BY <3>1, <3>2, <3>4
      <4>2. CardsDown(S, from, to) = S
        BY <2>4, <3>4 DEF CardsDown
      <4> QED BY <2>1, <4>1, <4>2
    <3> QED BY <3>3, <3>4
  <2> QED BY <2>2, <2>3, <2>4
<1>8. conn.rows.counters = [k \in Kind |-> IF Abstract!Passes(Created[TableOf[k]], to, from) THEN 0
                                           ELSE db.rows.counters[k]]
  <2>1. ASSUME NEW k \in Kind
        PROVE  conn.rows.counters[k] = IF Abstract!Passes(Created[TableOf[k]], to, from) THEN 0
                                       ELSE db.rows.counters[k]
    BY <1>4, Kinds DEF CarriedOver, CountersCarried
  <2> QED BY <1>1, <2>1
<1>9. conn.rows.log = IF Abstract!Passes(9, to, from) THEN NoLog ELSE db.rows.log
  BY <1>3 DEF CarriedOver, LogCarried, Recovered
<1> HIDE DEF from, to
<1> QED BY <1>1, <1>5, <1>6, <1>7, <1>8, <1>9, Downgrades DEF from, to

\* The database stays of its kind.
LEMMA StaysTransactional ==
  ASSUME Base, [Next]_vars
  PROVE  transactional' = transactional
<1>1. CASE UNCHANGED vars
  BY <1>1 DEF vars
<1>2. CASE \E direction, to : Began(direction, to)
  BY <1>2 DEF Began
<1>3. CASE CreateCopy \/ Execute \/ Record
  BY <1>3 DEF CreateCopy, Execute, Record
<1>4. CASE Committed \/ Undone
  BY <1>4 DEF Committed, Undone
<1>5. CASE BotWrites
  BY <1>5 DEF BotWrites, Grant, Revoke, Promote, Issue, Mint, SetRole, Writes
<1> QED BY <1>1, <1>2, <1>3, <1>4, <1>5, Steps

\* What others see of a step, with transactional DDL: none, or a release.
SeenRevision == IF transactional THEN db.revision ELSE 0

Releasing ==
  \/ UNCHANGED SeenRevision
  \/ \E to \in Abstract!Revision : Abstract!Upgrade(to) \/ Abstract!Downgrade(to)

\* A step that commits another revision is a step of Releases.
LEMMA ReleaseStep ==
  ASSUME Base, Changes, CarriedOver, [Next]_vars
  PROVE  Releasing
<1>1. transactional' = transactional
  BY StaysTransactional
<1>2. CASE ~transactional \/ db'.revision = db.revision
  BY <1>1, <1>2 DEF Releasing, SeenRevision
<1>3. CASE transactional /\ db'.revision # db.revision
  <2> DEFINE from == db.revision
             to   == conn.revision
  <2>1. Committed /\ Busy /\ db' = conn
    BY <1>3, OnlyCommits DEF Committed
  <2>2. /\ from \in 0 .. 9 /\ to \in 0 .. 9 /\ to \in Abstract!Revision
        /\ doing \in {"up", "down"}
        /\ doing = "up" => from <= to
        /\ doing = "down" => to <= from
    BY <2>1, SameSchema DEF Base, Control, Busy, Revision, Latest
  <2>3. CASE doing = "up"
    <3>1. conn.rows = Abstract!Upgraded(db.rows, from, to)
      BY <1>3, <2>1, <2>3, UpgradeCommits
    <3>2. from < to
      BY <1>3, <2>1, <2>2, <2>3
    <3>3. Abstract!Upgrade(to)
      BY <1>1, <1>3, <2>1, <3>1, <3>2 DEF Abstract!Upgrade
    <3> QED BY <2>2, <3>3 DEF Releasing
  <2>4. CASE doing = "down"
    <3>1. conn.rows = Abstract!Downgraded(db.rows, from, to)
      BY <1>3, <2>1, <2>4, DowngradeCommits
    <3>2. from > to
      BY <1>3, <2>1, <2>2, <2>4
    <3>3. Abstract!Downgrade(to)
      BY <1>1, <1>3, <2>1, <3>1, <3>2 DEF Abstract!Downgrade
    <3> QED BY <2>2, <3>3 DEF Releasing
  <2> QED BY <2>2, <2>3, <2>4
<1> QED BY <1>2, <1>3

\* With transactional DDL, the scripts run statement by statement implement a release
\* in one step: what others see of the database goes from one revision to another
\* with its rows in the closed form of Releases, or does not change its revision.
THEOREM MigrationsImplementReleases == Spec => ImplementsReleases
<1>1. Init => Abstract!Fresh
  BY SameSchema DEF Init, Abstract!Fresh
<1>2. Base /\ Changes /\ CarriedOver /\ [Next]_vars => Releasing
  BY ReleaseStep
<1> QED BY <1>1, <1>2, BaseHolds, ChangesHold, CarriedHold, PTL
        DEF Spec, ImplementsReleases, Abstract!Promise, Releasing, SeenRevision

=============================================================================
