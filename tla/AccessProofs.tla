----------------------------- MODULE AccessProofs -----------------------------
(***************************************************************************)
(* Proofs about Access, for any people, updates, requests, environment,    *)
(* initial table and either lock.                                          *)
(***************************************************************************)
EXTENDS Access, TLAPS

\* Two tasks never hold uncommitted versions of one row, on SQLite not of any two
\* rows; a task that has ended holds none.
RowLocks ==
  /\ \A u, v \in Update, p, q \in Person :
       u # v /\ pending[u][p] # Absent /\ pending[v][q] # Absent => p # q /\ ~DbWideLock
  /\ \A u \in Update, p \in Person : pending[u][p] # Absent => pc[u] \in Live

\* Only a running bot has tasks; a task holds its sender's row from the moment
\* it is past the gate, and the target's from the moment it has changed it.
Phases ==
  \A u \in Update :
    /\ pc[u] \in Live => up
    /\ pc[u] \in Live \ {"contact"} => pending[u][From(u)] # Absent
    /\ \A p \in Person : pending[u][p] # Absent =>
         pc[u] \in Live \ {"contact"} /\ (p = From(u) \/ (p = Target(u) /\ outcome[u] = "changed"))
    /\ pc[u] \in {"unsent", "contact", "handler", "write"} => outcome[u] = "none"
    /\ pc[u] = "sync" => outcome[u] = "changed"
    /\ pc[u] \in Live /\ outcome[u] = "changed" =>
         pending[u][Target(u)] # Absent /\ Target(u) # From(u)

IsSuper(row) == Loaded(row).role = "super_admin"

\* While the bot polls, a copy says "super admin" exactly when the table does,
\* however stale it is otherwise.
SupersAgree ==
  \A u \in Update :
    /\ pc[u] \in Live => (IsSuper(own[u]) <=> IsSuper(rows[From(u)]))
    /\ pc[u] = "write" => (IsSuper(seen[u]) <=> IsSuper(rows[Target(u)]))

\* What is not committed differs from the table in its role only where a change
\* of role is due, with its line, and it neither makes nor unmakes super admins.
RolesDue ==
  \A u \in Update, p \in Person : pending[u][p] # Absent =>
    /\ IsSuper(pending[u][p]) <=> IsSuper(rows[p])
    /\ pending[u][p].role # RoleIn(rows, p) =>
         p = Target(u) /\ outcome[u] = "changed" /\ pending[u][p].role = NewRole(u)

\* An attempt on a row has a line no later than it.
Logged(times, row) ==
  row # Absent /\ row.lastDenied # Never => \E i \in 1 .. Len(times) : times[i] <= row.lastDenied

\* Copies and uncommitted versions included, except for a task whose own line is
\* still to be committed; and no copy is from the future.
KnocksLogged ==
  /\ \A p \in Person : Logged(knocks[p], rows[p]) /\ Loaded(rows[p]).lastDenied <= clock
  /\ \A u \in Update : pc[u] \in Live =>
       Logged(knocks[From(u)], own[u]) /\ Loaded(own[u]).lastDenied <= clock
  /\ \A u \in Update, p \in Person : pending[u][p] # Absent =>
       /\ pending[u][p].lastDenied <= clock
       /\ ~(outcome[u] = "knock" /\ p = From(u)) => Logged(knocks[p], pending[u][p])

\* Under SQLite's lock the handler's copy of the target is the committed row, what
\* it then writes is what its line says, and nothing else changes who granted a role.
CopiesFresh ==
  /\ \A u \in Update :
       /\ pc[u] = "write" /\ Target(u) # From(u) => seen[u] = rows[Target(u)]
       /\ pc[u] \in Live /\ outcome[u] = "changed" =>
            /\ TargetRole(u) = RoleIn(rows, Target(u))
            /\ pending[u][Target(u)].role = NewRole(u)
            /\ pending[u][Target(u)].grantedBy = From(u)
  /\ \A u \in Update, p \in Person :
       pending[u][p] # Absent /\ ~(p = Target(u) /\ outcome[u] = "changed") =>
         pending[u][p].grantedBy = Loaded(rows[p]).grantedBy

\* Each line of a history starts from the role the one before it left.
Chained(history) ==
  \A i \in 1 .. Len(history) - 1 : history[i].role = history[i + 1].prev

\* The last line of a history names the role in the row, and who granted it.
EndsIn(history, row) ==
  history # <<>> =>
    /\ row # Absent /\ row.role = history[Len(history)].role
    /\ history[Len(history)].actor # Nobody => row.grantedBy = history[Len(history)].actor

HistoryInv ==
  DbWideLock =>
    CopiesFresh /\ \A p \in Person : Chained(log[p]) /\ EndsIn(log[p], rows[p])

---------------------------------------------------------------------------
(* Types *)

LEMMA LoadedRow == \A row \in Row \cup {Absent} : Loaded(row) \in Row
BY DEF Loaded, NewRow, Row, Role, Never

LEMMA Typing ==
  ASSUME TypeOK, NEW u \in Update, pc[u] \in Live
  PROVE  /\ req[u] \in Request /\ From(u) \in Person /\ Target(u) \in Person
         /\ req[u].op \in {"grant", "revoke", "other"} /\ req[u].role \in Role
         /\ NewRole(u) \in Role
         /\ Loaded(own[u]) \in Row /\ Loaded(seen[u]) \in Row
         /\ ActorRole(u) \in Role /\ TargetRole(u) \in Role
<1>1. req[u] \in Request
  BY DEF TypeOK
<1>2. /\ req[u].from \in Person /\ req[u].target \in Person
      /\ req[u].op \in {"grant", "revoke", "other"} /\ req[u].role \in Role
  BY <1>1, AccessAssumption
<1>3. Loaded(own[u]) \in Row /\ Loaded(seen[u]) \in Row
  BY LoadedRow DEF TypeOK
<1>4. ActorRole(u) \in Role /\ TargetRole(u) \in Role
  BY <1>3 DEF ActorRole, TargetRole, Row
<1> QED BY <1>1, <1>2, <1>3, <1>4 DEF From, Target, NewRole, Role

LEMMA ChangedRow ==
  ASSUME TypeOK, NEW u \in Update, pc[u] \in Live
  PROVE  /\ Changed(u) \in Row
         /\ Changed(u).role = Column(RoleIn(rows, Target(u)), TargetRole(u), NewRole(u))
         /\ Changed(u).grantedBy = Column(Loaded(rows[Target(u)]).grantedBy,
                                          Loaded(seen[u]).grantedBy, From(u))
         /\ Changed(u).lastDenied \in {Never, Loaded(rows[Target(u)]).lastDenied}
<1> DEFINE stored == Loaded(rows[Target(u)])
           loaded == Loaded(seen[u])
<1>1. stored \in Row /\ loaded \in Row /\ From(u) \in Person /\ NewRole(u) \in Role
  BY Typing, LoadedRow DEF TypeOK, Table, Role
<1>2. Never \in Nat
  BY DEF Never
<1> HIDE DEF stored, loaded
<1>3. Changed(u) \in Row
  BY <1>1, <1>2 DEF Changed, Column, Row, stored, loaded
<1>4. Changed(u).role = Column(stored.role, loaded.role, NewRole(u))
  BY <1>1 DEF Changed, Row, stored, loaded
<1>5. Changed(u).grantedBy = Column(stored.grantedBy, loaded.grantedBy, From(u))
  BY <1>1 DEF Changed, Row, stored, loaded
<1>6. Changed(u).lastDenied \in {Never, stored.lastDenied}
  BY <1>1 DEF Changed, Column, Row, stored, loaded
<1> QED BY <1>3, <1>4, <1>5, <1>6 DEF RoleIn, TargetRole, stored, loaded

LEMMA KnockedRow ==
  ASSUME TypeOK, NEW u \in Update, pc[u] \in Live
  PROVE  /\ Touched(u) \in Row /\ Touched(u) = Loaded(rows[From(u)])
         /\ Knocked(u) \in Row /\ Knocked(u).role = Touched(u).role
         /\ Knocked(u).grantedBy = Touched(u).grantedBy /\ Knocked(u).lastDenied = clock
<1> DEFINE touched == Touched(u)
           loaded  == Loaded(own[u])
<1>1. touched \in Row /\ loaded \in Row
  BY Typing, LoadedRow DEF TypeOK, Table, Touched
<1>2. loaded.denied + 1 \in Nat /\ clock \in Nat
  BY <1>1 DEF Row, TypeOK
<1>3. Knocked(u) = [touched EXCEPT !.denied = loaded.denied + 1, !.lastDenied = clock]
  BY DEF Knocked
<1> HIDE DEF touched, loaded
<1>4. Knocked(u) \in Row /\ Knocked(u).role = touched.role
      /\ Knocked(u).grantedBy = touched.grantedBy /\ Knocked(u).lastDenied = clock
  BY <1>1, <1>2, <1>3 DEF Row
<1> QED BY <1>1, <1>4 DEF touched, Touched

---------------------------------------------------------------------------
(* The steps *)

NoRows == [p \in Person |-> Absent]

\* What a refusal, a failure, a crash or a stuttering step does: some tasks end
\* without a trace, all of them if the bot goes down.
Ended ==
  /\ UNCHANGED <<rows, log, knocks, clock, req, own, seen>>
  /\ crashes' \in Nat /\ told' = told /\ menu' = menu /\ up' \in BOOLEAN
  /\ \E S \in SUBSET {u \in Update : pc[u] \in Live} :
       /\ pc' = [u \in Update |-> IF u \in S THEN "done" ELSE pc[u]]
       /\ outcome' = [u \in Update |-> IF u \in S THEN "none" ELSE outcome[u]]
       /\ pending' = [u \in Update |-> IF u \in S THEN NoRows ELSE pending[u]]
       /\ \A u \in Update : pc[u] \in Live /\ u \notin S => up'
       /\ up' => up

Working(u) ==
  \/ \E r \in Request : Receive(u, r)
  \/ Admit(u) \/ Deny(u) \/ Skip(u) \/ ReadTarget(u) \/ Write(u)
  \/ Sync(u) \/ Reply(u) \/ Commit(u)

LEMMA StepsOfNext ==
  ASSUME TypeOK, RowLocks, Phases, [Next]_vars
  PROVE  Ended \/ (\E u \in Update : Working(u)) \/ Boot \/ Tick
<1>1. ASSUME NEW u \in Update, pc[u] \in Live, Rollback(u)
      PROVE  Ended
  <2>1. /\ pc' = [v \in Update |-> IF v \in {u} THEN "done" ELSE pc[v]]
        /\ outcome' = [v \in Update |-> IF v \in {u} THEN "none" ELSE outcome[v]]
        /\ pending' = [v \in Update |-> IF v \in {u} THEN NoRows ELSE pending[v]]
    BY <1>1 DEF Rollback, Close, NoRows, TypeOK
  <2>2. {u} \in SUBSET {v \in Update : pc[v] \in Live}
    BY <1>1
  <2>3. \A v \in Update : pc[v] \in Live /\ v \notin {u} => up'
    BY <1>1 DEF Rollback, world, Phases
  <2>4. /\ UNCHANGED <<rows, log, knocks, clock, req, own, seen>>
        /\ crashes' \in Nat /\ told' = told /\ menu' = menu /\ up' \in BOOLEAN /\ up' = up
    BY <1>1 DEF Rollback, world, base, TypeOK
  <2> QED BY <2>1, <2>2, <2>3, <2>4 DEF Ended
<1>2. ASSUME Crash
      PROVE  Ended
  <2> DEFINE S == {u \in Update : pc[u] \in Live}
  <2>1. pending' = [v \in Update |-> IF v \in S THEN NoRows ELSE pending[v]]
    <3>1. ASSUME NEW v \in Update, v \notin S
          PROVE  pending[v] = NoRows
      <4>1. \A p \in Person : pending[v][p] = Absent
        BY <3>1 DEF Phases
      <4>2. pending[v] \in [Person -> Row \cup {Absent}]
        BY DEF TypeOK, Table
      <4> QED BY <4>1, <4>2 DEF NoRows
    <3>2. pending' = [v \in Update |-> NoRows]
      BY <1>2 DEF Crash, NoRows
    <3> QED BY <3>1, <3>2
  <2>2. /\ pc' = [v \in Update |-> IF v \in S THEN "done" ELSE pc[v]]
        /\ outcome' = [v \in Update |-> IF v \in S THEN "none" ELSE outcome[v]]
    BY <1>2 DEF Crash
  <2>3. S \in SUBSET {u \in Update : pc[u] \in Live} /\ \A u \in Update : ~(pc[u] \in Live /\ u \notin S)
    OBVIOUS
  <2>4. /\ UNCHANGED <<rows, log, knocks, clock, req, own, seen>>
        /\ crashes' \in Nat /\ told' = told /\ menu' = menu /\ up' = FALSE
    BY <1>2 DEF Crash, base, TypeOK
  <2> QED BY <2>1, <2>2, <2>3, <2>4 DEF Ended
<1>3. ASSUME UNCHANGED vars
      PROVE  Ended
  <2>1. /\ pc' = [v \in Update |-> IF v \in {} THEN "done" ELSE pc[v]]
        /\ outcome' = [v \in Update |-> IF v \in {} THEN "none" ELSE outcome[v]]
        /\ pending' = [v \in Update |-> IF v \in {} THEN NoRows ELSE pending[v]]
    BY <1>3 DEF vars, tasks, TypeOK
  <2>2. {} \in SUBSET {u \in Update : pc[u] \in Live} /\ \A u \in Update : pc[u] \in Live => up'
    BY <1>3 DEF Phases, vars, world
  <2>3. /\ UNCHANGED <<rows, log, knocks, clock, req, own, seen>>
        /\ crashes' \in Nat /\ told' = told /\ menu' = menu /\ up' \in BOOLEAN /\ up' = up
    BY <1>3 DEF vars, world, base, tasks, TypeOK
  <2> QED BY <2>1, <2>2, <2>3 DEF Ended
<1>4. ASSUME NEW u \in Update, Refuse(u) \/ Collide(u) \/ Fail(u)
      PROVE  Ended
  BY <1>1, <1>4 DEF Refuse, Collide, Fail, Live
<1>5. ASSUME NEW u \in Update, Abort(u)
      PROVE  Ended
  <2>1. pc[u] \in {"contact", "write"}
    BY <1>5 DEF Abort, Deadlocked, WaitsFor, Wants
  <2> QED BY <1>1, <1>5, <2>1 DEF Abort, Live
<1> QED BY <1>2, <1>3, <1>4, <1>5 DEF Next, Advance, Working

LEMMA TypeStep ==
  ASSUME TypeOK, RowLocks, Phases, [Next]_vars
  PROVE  TypeOK'
<1> USE DEF world, base, tasks
<1>1. CASE Ended
  <2>1. NoRows \in Table
    BY DEF NoRows, Table
  <2> QED BY <1>1, <2>1 DEF Ended, TypeOK, Live
<1>2. ASSUME NEW u \in Update, NEW r \in Request, Receive(u, r)
      PROVE  TypeOK'
  <2>1. r.from \in Person /\ rows[r.from] \in Row \cup {Absent}
    BY AccessAssumption DEF TypeOK, Table
  <2>2. /\ own' \in [Update -> Row \cup {Absent}] /\ req' \in [Update -> Request \cup {Absent}]
        /\ pc' \in [Update -> Live \cup {"unsent", "done"}]
    BY <1>2, <2>1 DEF Receive, TypeOK, Live
  <2>3. \A v \in Update : pc'[v] \in Live => req'[v] \in Request
    BY <1>2 DEF Receive, TypeOK
  <2>4. UNCHANGED <<world, base, seen, outcome, pending>>
    BY <1>2 DEF Receive
  <2> QED BY <2>2, <2>3, <2>4 DEF TypeOK
<1>3. ASSUME NEW u \in Update, Admit(u)
      PROVE  TypeOK'
  <2>1. From(u) \in Person /\ Touched(u) \in Row
    BY <1>3, Typing, LoadedRow DEF Admit, Touched, TypeOK, Table, Live
  <2>2. pending' \in [Update -> Table]
    BY <1>3, <2>1 DEF Admit, TypeOK, Table
  <2> QED BY <1>3, <2>2 DEF Admit, TypeOK, Live
<1>4. ASSUME NEW u \in Update, Deny(u)
      PROVE  TypeOK'
  <2>1. From(u) \in Person /\ Knocked(u) \in Row
    BY <1>4, Typing, KnockedRow DEF Deny, Live
  <2>2. pending' \in [Update -> Table]
    BY <1>4, <2>1 DEF Deny, TypeOK, Table
  <2> QED BY <1>4, <2>2 DEF Deny, TypeOK, Live
<1>5. ASSUME NEW u \in Update, Skip(u)
      PROVE  TypeOK'
  BY <1>5 DEF Skip, TypeOK, Live
<1>6. ASSUME NEW u \in Update, ReadTarget(u)
      PROVE  TypeOK'
  <2>1. Target(u) \in Person
    BY <1>6, Typing DEF ReadTarget, Live
  <2> QED BY <1>6, <2>1 DEF ReadTarget, TypeOK, Table, Live
<1>7. ASSUME NEW u \in Update, Write(u)
      PROVE  TypeOK'
  <2>1. Target(u) \in Person /\ Changed(u) \in Row
    BY <1>7, Typing, ChangedRow DEF Write, Live
  <2>2. pending' \in [Update -> Table]
    BY <1>7, <2>1 DEF Write, TypeOK, Table
  <2> QED BY <1>7, <2>2 DEF Write, TypeOK, Live
<1>8. ASSUME NEW u \in Update, Sync(u)
      PROVE  TypeOK'
  BY <1>8 DEF Sync, MenuOf, TypeOK, Live
<1>9. ASSUME NEW u \in Update, Reply(u)
      PROVE  TypeOK'
  <2>1. From(u) \in Person /\ clock \in Nat
    BY <1>9, Typing DEF Reply, Live, TypeOK
  <2>2. told' \in [Person -> Seq(Nat)]
    BY <1>9, <2>1 DEF Reply, TypeOK
  <2>3. /\ pc' \in [Update -> Live \cup {"unsent", "done"}]
        /\ \A v \in Update : pc'[v] \in Live => pc[v] \in Live
        /\ UNCHANGED <<up, crashes, clock, menu, base, req, own, seen, outcome, pending>>
    BY <1>9 DEF Reply, TypeOK, Live
  <2> QED BY <2>2, <2>3 DEF TypeOK
<1>10. ASSUME NEW u \in Update, Commit(u)
       PROVE  TypeOK'
  <2>1. /\ Target(u) \in Person /\ From(u) \in Person /\ TargetRole(u) \in Role
        /\ NewRole(u) \in Role
    BY <1>10, Typing DEF Commit, Live, Role
  <2>2. rows' \in Table
    BY <1>10 DEF Commit, TypeOK, Table
  <2>3. NewLine(u) \in Line
    BY <2>1 DEF NewLine, Line
  <2>4. log' \in [Person -> Seq(Line)]
    BY <1>10, <2>1, <2>3 DEF Commit, TypeOK
  <2>5. knocks' \in [Person -> Seq(Nat)]
    <3>1. pending[u][From(u)] \in Row
      BY <1>10, <2>1 DEF Commit, Phases, Live, TypeOK, Table
    <3>2. pending[u][From(u)].lastDenied \in Nat
      BY <3>1 DEF Row
    <3> QED BY <1>10, <2>1, <3>2 DEF Commit, TypeOK
  <2>6. pending' \in [Update -> Table]
    BY <1>10 DEF Commit, Close, TypeOK, Table
  <2> QED BY <1>10, <2>2, <2>4, <2>5, <2>6 DEF Commit, Close, TypeOK, Live
<1>11. CASE Boot
  <2>1. rows' \in Table
    <3>1. ASSUME NEW row \in Row
          PROVE  [row EXCEPT !.role = "super_admin"] \in Row
      BY DEF Row, Role
    <3>2. \A p \in Person : [Loaded(rows[p]) EXCEPT !.role = "super_admin"] \in Row
      BY <3>1, LoadedRow DEF TypeOK, Table
    <3> QED BY <1>11, <3>2 DEF Boot, TypeOK, Table
  <2>2. \A p \in Person : [actor |-> Nobody, prev |-> Loaded(rows[p]).role,
                           role |-> "super_admin"] \in Line
    BY LoadedRow DEF TypeOK, Table, Row, Role, Line
  <2>3. log' \in [Person -> Seq(Line)]
    BY <1>11, <2>2 DEF Boot, TypeOK
  <2>4. menu' \in [Person -> {"staff", "member"}]
    BY <1>11 DEF Boot, TypeOK
  <2> QED BY <1>11, <2>1, <2>3, <2>4 DEF Boot, TypeOK
<1>12. CASE Tick
  BY <1>12 DEF Tick, TypeOK
<1> QED BY <1>1, <1>2, <1>3, <1>4, <1>5, <1>6, <1>7, <1>8, <1>9, <1>10, <1>11, <1>12, StepsOfNext
        DEF Working

---------------------------------------------------------------------------
(* What each step leaves alone *)

\* A working task touches nothing of the others', and the bot stays up.
LEMMA Frame ==
  ASSUME TypeOK, NEW u \in Update, Working(u)
  PROVE  /\ up' = up /\ clock' = clock
         /\ \A v \in Update \ {u} :
              /\ pc'[v] = pc[v] /\ req'[v] = req[v] /\ own'[v] = own[v] /\ seen'[v] = seen[v]
              /\ outcome'[v] = outcome[v] /\ pending'[v] = pending[v]
<1> USE DEF world, base, tasks, TypeOK
<1>1. ASSUME NEW r \in Request, Receive(u, r)
      PROVE  /\ up' = up /\ clock' = clock
             /\ \A v \in Update \ {u} :
                  /\ pc'[v] = pc[v] /\ req'[v] = req[v] /\ own'[v] = own[v] /\ seen'[v] = seen[v]
                  /\ outcome'[v] = outcome[v] /\ pending'[v] = pending[v]
  BY <1>1 DEF Receive
<1>2. CASE Admit(u) \/ Deny(u)
  BY <1>2 DEF Admit, Deny
<1>3. CASE Skip(u) \/ ReadTarget(u)
  BY <1>3 DEF Skip, ReadTarget
<1>4. CASE Write(u)
  BY <1>4 DEF Write
<1>5. CASE Sync(u) \/ Reply(u)
  BY <1>5 DEF Sync, Reply
<1>6. CASE Commit(u)
  BY <1>6 DEF Commit, Close
<1> QED BY <1>1, <1>2, <1>3, <1>4, <1>5, <1>6 DEF Working

\* Only a commit and a boot change the table.
LEMMA TableKept ==
  ASSUME NEW u \in Update, Working(u), ~Commit(u)
  PROVE  UNCHANGED <<rows, log, knocks>>
BY DEF Working, Receive, Admit, Deny, Skip, ReadTarget, Write, Sync, Reply, base

\* The row versions a task writes: its sender's, then its target's.
LEMMA Versions ==
  ASSUME TypeOK, Phases, NEW u \in Update, Working(u)
  PROVE  \/ pending' = pending /\ pc'[u] \in Live /\ (pc[u] \in Live \/ pc'[u] = "contact")
         \/ /\ Admit(u) \/ Deny(u) \/ Write(u)
            /\ pc'[u] \in Live \ {"contact"}
            /\ \E p \in Person, row \in Row :
                 /\ LockFree(u, p) /\ row # Absent
                 /\ pending' = [pending EXCEPT ![u][p] = row]
         \/ Commit(u) /\ pc'[u] = "done" /\ pending' = [pending EXCEPT ![u] = NoRows]
<1>1. CASE Admit(u) \/ Deny(u)
  <2>1. /\ From(u) \in Person /\ Touched(u) \in Row /\ Knocked(u) \in Row
        /\ LockFree(u, From(u)) /\ pc'[u] \in Live \ {"contact"}
    BY <1>1, Typing, KnockedRow DEF Admit, Deny, CanFlush, Live, TypeOK
  <2>2. Touched(u) # Absent /\ Knocked(u) # Absent
    BY <2>1, AccessAssumption
  <2> QED BY <1>1, <2>1, <2>2 DEF Admit, Deny
<1>2. CASE Write(u)
  <2>1. /\ Target(u) \in Person /\ Changed(u) \in Row /\ LockFree(u, Target(u))
        /\ pc'[u] \in Live \ {"contact"}
    BY <1>2, Typing, ChangedRow DEF Write, CanFlush, Live, TypeOK
  <2>2. Changed(u) # Absent
    BY <2>1, AccessAssumption
  <2> QED BY <1>2, <2>1, <2>2 DEF Write
<1>3. CASE Commit(u)
  BY <1>3 DEF Commit, Close, NoRows, TypeOK
<1>4. CASE Skip(u) \/ ReadTarget(u) \/ Sync(u) \/ Reply(u)
  BY <1>4 DEF Skip, ReadTarget, Sync, Reply, Live, TypeOK
<1>5. ASSUME NEW r \in Request, Receive(u, r)
      PROVE  pending' = pending /\ pc'[u] = "contact"
  BY <1>5 DEF Receive, TypeOK
<1> QED BY <1>1, <1>2, <1>3, <1>4, <1>5 DEF Working, Live

---------------------------------------------------------------------------
(* Row locks *)

LEMMA LockStep ==
  ASSUME TypeOK, RowLocks, Phases, [Next]_vars
  PROVE  RowLocks'
<1>1. CASE Ended
  <2>1. PICK S \in SUBSET {u \in Update : pc[u] \in Live} :
          /\ pc' = [u \in Update |-> IF u \in S THEN "done" ELSE pc[u]]
          /\ pending' = [u \in Update |-> IF u \in S THEN NoRows ELSE pending[u]]
    BY <1>1 DEF Ended
  <2>2. \A u \in Update, p \in Person : pending'[u][p] # Absent =>
          pending'[u][p] = pending[u][p] /\ pc'[u] = pc[u]
    BY <2>1 DEF NoRows
  <2> QED BY <2>2 DEF RowLocks
<1>2. ASSUME NEW u \in Update, Working(u)
      PROVE  RowLocks'
  <2>1. \A v \in Update \ {u} : pc'[v] = pc[v] /\ pending'[v] = pending[v]
    BY <1>2, Frame
  <2>2. CASE pending' = pending /\ pc'[u] \in Live /\ (pc[u] \in Live \/ pc'[u] = "contact")
    BY <2>1, <2>2 DEF RowLocks
  <2>3. ASSUME NEW p \in Person, NEW row \in Row, LockFree(u, p), row # Absent,
               pending' = [pending EXCEPT ![u][p] = row], pc'[u] \in Live \ {"contact"},
               pc[u] \in Live
        PROVE  RowLocks'
    <3>1. /\ pending'[u][p] = row
          /\ \A q \in Person : q # p => pending'[u][q] = pending[u][q]
      BY <2>3 DEF TypeOK, Table
    <3>2. ASSUME NEW v \in Update \ {u}, NEW q \in Person, NEW o \in Person,
                 pending'[v][q] # Absent, pending'[u][o] # Absent
          PROVE  q # o /\ ~DbWideLock
      <4>1. pending[v][q] # Absent
        BY <2>1, <3>2
      <4>2. CASE o = p
        BY <2>3, <4>1, <4>2 DEF LockFree
      <4>3. CASE o # p
        BY <3>1, <3>2, <4>1, <4>3 DEF RowLocks
      <4> QED BY <4>2, <4>3
    <3>3. \A v, w \in Update, q, o \in Person :
            v # w /\ pending'[v][q] # Absent /\ pending'[w][o] # Absent => q # o /\ ~DbWideLock
      BY <2>1, <3>2 DEF RowLocks
    <3>4. \A v \in Update, q \in Person : pending'[v][q] # Absent => pc'[v] \in Live
      BY <2>1, <2>3 DEF RowLocks
    <3> QED BY <3>3, <3>4 DEF RowLocks
  <2>4. CASE Commit(u) /\ pc'[u] = "done" /\ pending' = [pending EXCEPT ![u] = NoRows]
    <3>1. \A p \in Person : pending'[u][p] = Absent
      BY <2>4 DEF TypeOK, NoRows
    <3> QED BY <2>1, <3>1 DEF RowLocks
  <2>5. Admit(u) \/ Deny(u) \/ Write(u) => pc[u] \in Live
    BY DEF Admit, Deny, Write, Live
  <2> QED BY <1>2, <2>2, <2>3, <2>4, <2>5, Versions
<1>3. CASE Boot \/ Tick
  BY <1>3 DEF Boot, Tick, tasks, RowLocks
<1> QED BY <1>1, <1>2, <1>3, StepsOfNext

---------------------------------------------------------------------------
(* Phases *)

\* The phase invariant of one task.
Phase(u) ==
  /\ pc[u] \in Live => up
  /\ pc[u] \in Live \ {"contact"} => pending[u][From(u)] # Absent
  /\ \A p \in Person : pending[u][p] # Absent =>
       pc[u] \in Live \ {"contact"} /\ (p = From(u) \/ (p = Target(u) /\ outcome[u] = "changed"))
  /\ pc[u] \in {"unsent", "contact", "handler", "write"} => outcome[u] = "none"
  /\ pc[u] = "sync" => outcome[u] = "changed"
  /\ pc[u] \in Live /\ outcome[u] = "changed" =>
       pending[u][Target(u)] # Absent /\ Target(u) # From(u)

LEMMA PhaseByPhase == Phases <=> \A u \in Update : Phase(u)
BY DEF Phases, Phase

LEMMA OthersPhase ==
  ASSUME Phases, NEW u \in Update, up' = up,
         pc'[u] = pc[u], req'[u] = req[u], outcome'[u] = outcome[u], pending'[u] = pending[u]
  PROVE  Phase(u)'
BY DEF Phases, Phase, From, Target

LEMMA NotOneself ==
  ASSUME NEW u \in Update, MayChange(u)
  PROVE  Target(u) # From(u)
BY DEF MayChange, CanRevoke

LEMMA PhaseStep ==
  ASSUME TypeOK, RowLocks, Phases, [Next]_vars
  PROVE  Phases'
<1>1. CASE Ended
  <2>1. PICK S \in SUBSET {u \in Update : pc[u] \in Live} :
          /\ pc' = [u \in Update |-> IF u \in S THEN "done" ELSE pc[u]]
          /\ outcome' = [u \in Update |-> IF u \in S THEN "none" ELSE outcome[u]]
          /\ pending' = [u \in Update |-> IF u \in S THEN NoRows ELSE pending[u]]
          /\ \A u \in Update : pc[u] \in Live /\ u \notin S => up'
    BY <1>1 DEF Ended
  <2>2. req' = req
    BY <1>1 DEF Ended
  <2>3. ASSUME NEW u \in Update, u \in S
        PROVE  Phase(u)'
    BY <2>1, <2>3 DEF Phase, NoRows, Live
  <2>4. ASSUME NEW u \in Update, u \notin S
        PROVE  Phase(u)'
    BY <2>1, <2>2, <2>4 DEF Phases, Phase, From, Target
  <2> QED BY <2>3, <2>4 DEF Phases, Phase
<1>2. ASSUME NEW u \in Update, Working(u)
      PROVE  Phases'
  <2> USE DEF world, base, tasks
  <2>1. \A v \in Update \ {u} : Phase(v)'
    BY <1>2, Frame, OthersPhase
  <2>2. up' = up /\ Phase(u)
    BY <1>2, Frame, PhaseByPhase
  <2> SUFFICES Phase(u)'
    BY <2>1 DEF Phases, Phase
  <2>3. ASSUME NEW r \in Request, Receive(u, r)
        PROVE  Phase(u)'
    BY <2>2, <2>3 DEF Receive, Phase, From, Target, Live, TypeOK
  <2>4. CASE Admit(u)
    <3>1. From(u) \in Person /\ Touched(u) # Absent
      BY <2>4, Typing, KnockedRow, AccessAssumption DEF Admit, Live
    <3> QED BY <2>2, <2>4, <3>1 DEF Admit, Phase, From, Target, Live, TypeOK, Table
  <2>5. CASE Deny(u)
    <3>1. From(u) \in Person /\ Knocked(u) # Absent
      BY <2>5, Typing, KnockedRow, AccessAssumption DEF Deny, Live
    <3> QED BY <2>2, <2>5, <3>1 DEF Deny, Phase, From, Target, Live, TypeOK, Table
  <2>6. CASE Skip(u)
    BY <2>2, <2>6 DEF Skip, Phase, From, Target, Live, TypeOK
  <2>7. CASE ReadTarget(u)
    BY <2>2, <2>7 DEF ReadTarget, Phase, From, Target, Live, TypeOK
  <2>8. CASE Write(u)
    <3>1. Target(u) \in Person /\ Changed(u) # Absent /\ Target(u) # From(u)
      BY <2>8, Typing, ChangedRow, NotOneself, AccessAssumption DEF Write, Live
    <3> QED BY <2>2, <2>8, <3>1 DEF Write, Phase, From, Target, Live, TypeOK, Table
  <2>9. CASE Sync(u)
    BY <2>2, <2>9 DEF Sync, Phase, From, Target, Live, TypeOK
  <2>10. CASE Reply(u)
    BY <2>2, <2>10 DEF Reply, Phase, From, Target, Live, TypeOK
  <2>11. CASE Commit(u)
    BY <2>2, <2>11 DEF Commit, Close, Phase, From, Target, Live, TypeOK
  <2> QED BY <1>2, <2>3, <2>4, <2>5, <2>6, <2>7, <2>8, <2>9, <2>10, <2>11 DEF Working
<1>3. CASE Boot \/ Tick
  BY <1>3 DEF Boot, Tick, tasks, Phases, From, Target
<1> QED BY <1>1, <1>2, <1>3, StepsOfNext

---------------------------------------------------------------------------
(* Roles: what the copies know, and what the uncommitted versions change *)

LEMMA CommitKeepsSupers ==
  ASSUME TypeOK, RolesDue, NEW u \in Update, Commit(u), NEW p \in Person
  PROVE  IsSuper(rows'[p]) <=> IsSuper(rows[p])
<1>1. rows'[p] = IF pending[u][p] = Absent THEN rows[p] ELSE pending[u][p]
  BY DEF Commit
<1> QED BY <1>1 DEF RolesDue

LEMMA WorkKeepsSupers ==
  ASSUME TypeOK, RolesDue, NEW u \in Update, Working(u)
  PROVE  \A p \in Person : IsSuper(rows'[p]) <=> IsSuper(rows[p])
BY CommitKeepsSupers, TableKept

\* Nothing is live and nothing uncommitted while the bot is down.
LEMMA DownIsIdle ==
  ASSUME TypeOK, Phases, ~up
  PROVE  \A u \in Update : pc[u] \notin Live /\ \A p \in Person : pending[u][p] = Absent
BY DEF Phases

LEMMA SuperStep ==
  ASSUME TypeOK, Phases, RowLocks, SupersAgree, RolesDue, [Next]_vars
  PROVE  SupersAgree'
<1>1. CASE Ended
  <2>1. rows' = rows /\ own' = own /\ seen' = seen /\ req' = req
    BY <1>1 DEF Ended
  <2>2. \A u \in Update : pc'[u] \in Live => pc'[u] = pc[u]
    BY <1>1 DEF Ended, Live
  <2> QED BY <2>1, <2>2 DEF SupersAgree, From, Target, Live
<1>2. ASSUME NEW u \in Update, Working(u)
      PROVE  SupersAgree'
  <2>1. \A p \in Person : IsSuper(rows'[p]) <=> IsSuper(rows[p])
    BY <1>2, WorkKeepsSupers
  <2>2. ASSUME NEW v \in Update \ {u}
        PROVE  /\ pc'[v] \in Live => (IsSuper(own'[v]) <=> IsSuper(rows'[req'[v].from]))
               /\ pc'[v] = "write" => (IsSuper(seen'[v]) <=> IsSuper(rows'[req'[v].target]))
    <3>1. pc'[v] = pc[v] /\ req'[v] = req[v] /\ own'[v] = own[v] /\ seen'[v] = seen[v]
      BY <1>2, Frame
    <3>2. pc[v] \in Live => From(v) \in Person /\ Target(v) \in Person
      BY Typing
    <3> QED BY <2>1, <3>1, <3>2 DEF SupersAgree, From, Target, Live
  <2> SUFFICES /\ pc'[u] \in Live => (IsSuper(own'[u]) <=> IsSuper(rows'[req'[u].from]))
               /\ pc'[u] = "write" => (IsSuper(seen'[u]) <=> IsSuper(rows'[req'[u].target]))
    BY <2>2 DEF SupersAgree, From, Target
  <2>3. ASSUME NEW r \in Request, Receive(u, r)
        PROVE  pc'[u] = "contact" /\ own'[u] = rows[r.from] /\ req'[u] = r /\ r.from \in Person
    BY <2>3, AccessAssumption DEF Receive, TypeOK
  <2>4. CASE Admit(u) \/ Deny(u) \/ Skip(u) \/ Write(u) \/ Sync(u) \/ Reply(u)
    <3>1. pc'[u] # "write" /\ pc[u] \in Live /\ req'[u] = req[u] /\ own'[u] = own[u]
      BY <2>4 DEF Admit, Deny, Skip, Write, Sync, Reply, TypeOK, Live
    <3> QED BY <2>1, <3>1, Typing DEF SupersAgree, From
  <2>5. CASE ReadTarget(u)
    <3>1. /\ pc[u] \in Live /\ req'[u] = req[u] /\ own'[u] = own[u]
          /\ seen'[u] = IF Target(u) = From(u) THEN own[u] ELSE rows[Target(u)]
      BY <2>5 DEF ReadTarget, TypeOK, Live
    <3> QED BY <2>1, <3>1, Typing DEF SupersAgree, From, Target
  <2>6. CASE Commit(u)
    BY <2>6 DEF Commit, Close, TypeOK, Live
  <2> QED BY <1>2, <2>1, <2>3, <2>4, <2>5, <2>6 DEF Working
<1>3. CASE Boot
  <2>1. pc' = pc
    BY <1>3 DEF Boot, tasks
  <2> QED BY <1>3, <2>1, DownIsIdle DEF Boot, SupersAgree, Live
<1>4. CASE Tick
  BY <1>4 DEF Tick, base, tasks, SupersAgree, From, Target
<1> QED BY <1>1, <1>2, <1>3, <1>4, StepsOfNext

\* What MayChange refuses: a super admin's row is never rewritten.
LEMMA SupersRefused ==
  ASSUME TypeOK, NEW u \in Update, pc[u] \in Live, MayChange(u)
  PROVE  TargetRole(u) # "super_admin" /\ NewRole(u) # "super_admin"
<1>1. TargetRole(u) # "super_admin"
  BY Typing DEF MayChange, CanRevoke, IsMember
<1>2. CASE req[u].op = "grant"
  <2>1. req[u].role \in Grantable[ActorRole(u)] /\ ActorRole(u) \in Role
    BY <1>2, Typing DEF MayChange, CanGrant
  <2> QED BY <1>1, <1>2, <2>1 DEF Grantable, NewRole
<1>3. CASE req[u].op # "grant"
  BY <1>1, <1>3 DEF NewRole
<1> QED BY <1>2, <1>3

\* The new version of a row, and what it changes of its role.
LEMMA WrittenRoles ==
  ASSUME TypeOK, SupersAgree, NEW u \in Update, Admit(u) \/ Deny(u) \/ Write(u)
  PROVE  LET p == IF Write(u) THEN Target(u) ELSE From(u)
             row == pending'[u][p]
         IN  /\ p \in Person /\ row \in Row
             /\ \A q \in Person \ {p} : pending'[u][q] = pending[u][q]
             /\ IsSuper(row) <=> IsSuper(rows[p])
             /\ row.role # RoleIn(rows, p) => Write(u) /\ row.role = NewRole(u)
<1>1. CASE (Admit(u) \/ Deny(u)) /\ ~Write(u)
  <2>1. From(u) \in Person /\ pc[u] \in Live
    BY <1>1, Typing DEF Admit, Deny, Live
  <2>2. /\ pending'[u][From(u)] \in {Touched(u), Knocked(u)}
        /\ \A q \in Person \ {From(u)} : pending'[u][q] = pending[u][q]
    BY <1>1, <2>1 DEF Admit, Deny, TypeOK, Table
  <2>3. pending'[u][From(u)] \in Row /\ pending'[u][From(u)].role = RoleIn(rows, From(u))
    BY <2>1, <2>2, KnockedRow DEF RoleIn
  <2>4. Loaded(pending'[u][From(u)]) = pending'[u][From(u)]
    BY <2>3, AccessAssumption DEF Loaded
  <2> QED BY <1>1, <2>1, <2>2, <2>3, <2>4 DEF IsSuper, RoleIn
<1>2. CASE Write(u)
  <2>1. Target(u) \in Person /\ pc[u] \in Live /\ Changed(u) \in Row
    BY <1>2, Typing, ChangedRow DEF Write, Live
  <2>2. /\ pending'[u][Target(u)] = Changed(u)
        /\ \A q \in Person \ {Target(u)} : pending'[u][q] = pending[u][q]
    BY <1>2, <2>1 DEF Write, TypeOK, Table
  <2>3. Changed(u).role \in {RoleIn(rows, Target(u)), NewRole(u)}
    BY <2>1, ChangedRow DEF Column
  <2>4. ~IsSuper(rows[Target(u)]) /\ NewRole(u) # "super_admin"
    BY <1>2, <2>1, SupersRefused DEF Write, SupersAgree, IsSuper, TargetRole
  <2>5. Loaded(Changed(u)) = Changed(u)
    BY <2>1, AccessAssumption DEF Loaded
  <2> QED BY <1>2, <2>1, <2>2, <2>3, <2>4, <2>5 DEF IsSuper, RoleIn
<1> QED BY <1>1, <1>2

LEMMA DueStep ==
  ASSUME TypeOK, Phases, RowLocks, SupersAgree, RolesDue, [Next]_vars
  PROVE  RolesDue'
<1>1. CASE Ended
  <2>1. PICK S \in SUBSET {u \in Update : pc[u] \in Live} :
          /\ outcome' = [u \in Update |-> IF u \in S THEN "none" ELSE outcome[u]]
          /\ pending' = [u \in Update |-> IF u \in S THEN NoRows ELSE pending[u]]
    BY <1>1 DEF Ended
  <2>2. \A u \in Update, p \in Person : pending'[u][p] # Absent =>
          pending'[u][p] = pending[u][p] /\ outcome'[u] = outcome[u]
    BY <2>1 DEF NoRows
  <2>3. rows' = rows /\ req' = req
    BY <1>1 DEF Ended
  <2> QED BY <2>2, <2>3 DEF RolesDue, RoleIn, Target, NewRole
<1>2. ASSUME NEW u \in Update, Working(u)
      PROVE  RolesDue'
  <2> DEFINE Due(v, p) ==
        /\ IsSuper(pending'[v][p]) <=> IsSuper(rows'[p])
        /\ pending'[v][p].role # RoleIn(rows', p) =>
             /\ p = req'[v].target /\ outcome'[v] = "changed"
             /\ pending'[v][p].role = IF req'[v].op = "grant" THEN req'[v].role ELSE "none"
  <2>1. ASSUME NEW v \in Update \ {u}, NEW p \in Person, pending'[v][p] # Absent
        PROVE  Due(v, p)
    <3>1. req'[v] = req[v] /\ outcome'[v] = outcome[v] /\ pending'[v] = pending[v]
      BY <1>2, Frame
    <3>2. rows'[p] = rows[p]
      <4>1. CASE Commit(u)
        BY <2>1, <3>1, <4>1 DEF Commit, RowLocks
      <4> QED BY <1>2, <4>1, TableKept
    <3> QED BY <2>1, <3>1, <3>2 DEF RolesDue, RoleIn, Target, NewRole
  <2> SUFFICES ASSUME NEW p \in Person, pending'[u][p] # Absent
               PROVE  Due(u, p)
    BY <2>1 DEF RolesDue, Target, NewRole
  <2>2. CASE Admit(u) \/ Deny(u) \/ Write(u)
    <3>1. rows' = rows /\ req'[u] = req[u] /\ outcome[u] = "none"
      BY <2>2 DEF Admit, Deny, Write, base, Phases
    <3>2. Write(u) => outcome'[u] = "changed"
      BY DEF Write, TypeOK
    <3> DEFINE w == IF Write(u) THEN Target(u) ELSE From(u)
    <3>3. CASE p # w
      <4>1. pending'[u][p] = pending[u][p]
        BY <2>2, <3>3, WrittenRoles
      <4> QED BY <3>1, <4>1 DEF RolesDue, RoleIn
    <3>4. CASE p = w
      BY <2>2, <3>1, <3>2, <3>4, WrittenRoles DEF RoleIn, Target, NewRole
    <3> QED BY <3>3, <3>4
  <2>3. CASE Skip(u) \/ ReadTarget(u) \/ Sync(u) \/ Reply(u)
    <3>1. rows' = rows /\ req' = req /\ outcome' = outcome /\ pending' = pending
      BY <2>3 DEF Skip, ReadTarget, Sync, Reply, base
    <3> QED BY <3>1 DEF RolesDue, RoleIn, Target, NewRole
  <2>4. ASSUME NEW r \in Request, Receive(u, r)
        PROVE  FALSE
    BY <2>4 DEF Receive, Phases, Live
  <2>5. ~Commit(u)
    BY DEF Commit, Close, TypeOK
  <2> QED BY <1>2, <2>2, <2>3, <2>4, <2>5 DEF Working
<1>3. CASE Boot
  <2>1. pending' = pending
    BY <1>3 DEF Boot, tasks
  <2> QED BY <1>3, <2>1, DownIsIdle DEF Boot, RolesDue
<1>4. CASE Tick
  BY <1>4 DEF Tick, base, tasks, RolesDue, RoleIn, Target, NewRole
<1> QED BY <1>1, <1>2, <1>3, <1>4, StepsOfNext

---------------------------------------------------------------------------
(* The theorems about roles *)

RolesInv == TypeOK /\ RowLocks /\ Phases /\ SupersAgree /\ RolesDue

LEMMA RolesInit == Init => RolesInv
<1> SUFFICES ASSUME Init
             PROVE  RolesInv
  OBVIOUS
<1>1. \A u \in Update : pc[u] = "unsent" /\ outcome[u] = "none" /\ \A p \in Person : pending[u][p] = Absent
  BY DEF Init
<1>2. TypeOK
  <2>1. NoRows \in Table /\ rows \in Table
    BY AccessAssumption DEF Init, NoRows, Table
  <2>2. /\ pending \in [Update -> Table] /\ up \in BOOLEAN /\ crashes \in Nat /\ clock \in Nat
        /\ own \in [Update -> Row \cup {Absent}] /\ seen \in [Update -> Row \cup {Absent}]
        /\ menu \in [Person -> {"staff", "member"}]
    BY <2>1 DEF Init, NoRows, MenuOf
  <2>3. log \in [Person -> Seq(Line)] /\ knocks \in [Person -> Seq(Nat)] /\ told \in [Person -> Seq(Nat)]
    BY DEF Init
  <2> QED BY <2>1, <2>2, <2>3 DEF Init, TypeOK, Live
<1>3. RowLocks /\ Phases /\ SupersAgree /\ RolesDue
  BY <1>1 DEF RowLocks, Phases, SupersAgree, RolesDue, Live
<1> QED BY <1>2, <1>3 DEF RolesInv

\* Together the locks, the phases and the agreement of the copies are inductive.
THEOREM RolesInductive == Spec => []RolesInv
<1>1. RolesInv /\ [Next]_vars => RolesInv'
  BY TypeStep, LockStep, PhaseStep, SuperStep, DueStep DEF RolesInv
<1> QED BY <1>1, RolesInit, PTL DEF Spec

\* Every variable keeps its type, for any people, requests and earlier table.
THEOREM TypeCorrect == Spec => []TypeOK
<1>1. RolesInv => TypeOK
  BY DEF RolesInv
<1> QED BY <1>1, RolesInductive, PTL

\* What a boot leaves of each person's row.
LEMMA BootedRow ==
  ASSUME TypeOK, Boot, NEW p \in Person
  PROVE  \/ /\ p \in Seeded /\ rows'[p] \in Row /\ RoleIn(rows', p) = "super_admin"
            /\ rows'[p].lastDenied = Loaded(rows[p]).lastDenied
         \/ p \notin Seeded /\ rows'[p] = rows[p]
<1>1. CASE p \in Seeded
  <2> DEFINE row == Loaded(rows[p])
  <2>1. rows'[p] = [row EXCEPT !.role = "super_admin"]
    BY <1>1 DEF Boot
  <2>2. row \in Row
    BY LoadedRow DEF TypeOK, Table
  <2> HIDE DEF row
  <2>3. rows'[p] \in Row /\ rows'[p].role = "super_admin" /\ rows'[p].lastDenied = row.lastDenied
    BY <2>1, <2>2 DEF Row, Role
  <2>4. rows'[p] # Absent
    BY <2>3, AccessAssumption
  <2> QED BY <1>1, <2>3, <2>4 DEF RoleIn, Loaded, row
<1>2. CASE p \notin Seeded
  BY <1>2 DEF Boot
<1> QED BY <1>1, <1>2

\* No super admin is made or unmade while the bot polls, whatever the copies the
\* tasks work from; a boot only promotes.
THEOREM SupersAreSeeded == Spec => SuperAdminsFromEnv
<1>1. ASSUME RolesInv, [Next]_vars, NEW p \in Person
      PROVE  /\ RoleIn(rows, p) = "super_admin" => RoleIn(rows', p) = "super_admin"
             /\ up /\ RoleIn(rows', p) = "super_admin" => RoleIn(rows, p) = "super_admin"
  <2> USE <1>1 DEF RolesInv
  <2>1. CASE rows' = rows
    BY <2>1
  <2>2. ASSUME NEW u \in Update, Working(u)
        PROVE  RoleIn(rows', p) = "super_admin" <=> RoleIn(rows, p) = "super_admin"
    BY <2>2, WorkKeepsSupers DEF IsSuper, RoleIn
  <2>3. CASE Boot
    BY <2>3, BootedRow DEF Boot, RoleIn
  <2> QED BY <2>1, <2>2, <2>3, StepsOfNext DEF Ended, Tick, base
<1>2. RolesInv /\ [Next]_vars =>
        \A p \in Person :
          /\ RoleIn(rows, p) = "super_admin" => RoleIn(rows', p) = "super_admin"
          /\ up /\ RoleIn(rows', p) = "super_admin" => RoleIn(rows, p) = "super_admin"
  BY <1>1
<1> QED BY <1>2, RolesInductive, PTL DEF Spec, SuperAdminsFromEnv

LEMMA LongerBy ==
  ASSUME NEW T, NEW history \in Seq(T), NEW line \in T
  PROVE  LET longer == Append(history, line)
         IN  /\ SubSeq(longer, 1, Len(history)) = history
             /\ Len(longer) = Len(history) + 1
             /\ longer[Len(longer)] = line
OBVIOUS

\* A role never changes without a line that says so, and the history only grows.
THEOREM ChangesAreLogged == Spec => RoleChangesAreLogged
<1> DEFINE Told(p) ==
      /\ SubSeq(log'[p], 1, Len(log[p])) = log[p]
      /\ RoleIn(rows', p) # RoleIn(rows, p) =>
           /\ Len(log'[p]) = Len(log[p]) + 1
           /\ log'[p][Len(log'[p])].role = RoleIn(rows', p)
<1>1. ASSUME RolesInv, [Next]_vars, NEW p \in Person
      PROVE  Told(p)
  <2> USE <1>1 DEF RolesInv
  <2>0. log[p] \in Seq(Line)
    BY DEF TypeOK
  <2>1. CASE UNCHANGED <<rows, log>>
    <3>1. SubSeq(log[p], 1, Len(log[p])) = log[p]
      BY <2>0
    <3> QED BY <2>1, <3>1
  <2>2. ASSUME NEW u \in Update, Commit(u)
        PROVE  Told(p)
    <3>1. /\ pc[u] \in Live /\ Target(u) \in Person /\ NewLine(u) \in Line
          /\ NewLine(u).role = NewRole(u)
      BY <2>2, Typing DEF Commit, Live, NewLine, Line, Role
    <3>2. rows'[p] = IF pending[u][p] = Absent THEN rows[p] ELSE pending[u][p]
      BY <2>2 DEF Commit
    <3>3. CASE p = Target(u) /\ outcome[u] = "changed"
      <4>1. log'[p] = Append(log[p], NewLine(u))
        BY <2>2, <3>1, <3>3 DEF Commit, TypeOK
      <4>2. RoleIn(rows', p) # RoleIn(rows, p) => RoleIn(rows', p) = NewRole(u)
        BY <3>2 DEF RolesDue, RoleIn, Loaded
      <4> QED BY <2>0, <3>1, <4>1, <4>2, LongerBy
    <3>4. CASE ~(p = Target(u) /\ outcome[u] = "changed")
      <4>1. log'[p] = log[p]
        BY <2>2, <3>1, <3>4 DEF Commit, TypeOK
      <4>2. RoleIn(rows', p) = RoleIn(rows, p)
        BY <3>2, <3>4 DEF RolesDue, RoleIn, Loaded
      <4>3. SubSeq(log[p], 1, Len(log[p])) = log[p]
        BY <2>0
      <4> QED BY <4>1, <4>2, <4>3
    <3> QED BY <3>3, <3>4
  <2>3. CASE Boot
    <3>1. CASE p \in Seeded
      <4> DEFINE line == [actor |-> Nobody, prev |-> Loaded(rows[p]).role, role |-> "super_admin"]
      <4>1. line \in Line /\ line.role = "super_admin"
        BY LoadedRow DEF TypeOK, Table, Row, Role, Line
      <4>2. log'[p] = Append(log[p], line)
        BY <2>3, <3>1 DEF Boot
      <4>3. RoleIn(rows', p) = "super_admin"
        BY <2>3, <3>1, BootedRow
      <4> HIDE DEF line
      <4> QED BY <2>0, <4>1, <4>2, <4>3, LongerBy
    <3>2. CASE p \notin Seeded
      <4>1. log'[p] = log[p] /\ rows'[p] = rows[p]
        BY <2>3, <3>2 DEF Boot
      <4>2. SubSeq(log[p], 1, Len(log[p])) = log[p]
        BY <2>0
      <4> QED BY <4>1, <4>2 DEF RoleIn
    <3> QED BY <3>1, <3>2
  <2>4. CASE Ended \/ Tick
    BY <2>1, <2>4 DEF Ended, Tick, base
  <2>5. ASSUME NEW u \in Update, Working(u)
        PROVE  Told(p)
    BY <2>1, <2>2, <2>5, TableKept
  <2> QED BY <2>3, <2>4, <2>5, StepsOfNext
<1>2. RolesInv /\ [Next]_vars => \A p \in Person : Told(p)
  BY <1>1
<1> QED BY <1>2, RolesInductive, PTL DEF Spec, RoleChangesAreLogged

---------------------------------------------------------------------------
(* Attempts *)

LEMMA StillLogged ==
  ASSUME NEW times \in Seq(Nat), NEW t \in Nat, NEW row, Logged(times, row)
  PROVE  Logged(Append(times, t), row)
BY DEF Logged

LEMMA NewlyLogged ==
  ASSUME NEW times \in Seq(Nat), NEW row \in Row
  PROVE  Logged(Append(times, row.lastDenied), row)
<1>1. row.lastDenied \in Nat
  BY DEF Row
<1> DEFINE longer == Append(times, row.lastDenied)
<1>2. Len(longer) \in 1 .. Len(longer) /\ longer[Len(longer)] <= row.lastDenied
  BY <1>1
<1> HIDE DEF longer
<1>3. \E i \in 1 .. Len(longer) : longer[i] <= row.lastDenied
  BY <1>2
<1> QED BY <1>3 DEF Logged, longer

LEMMA NoKnockLogged ==
  ASSUME NEW times, NEW row, row = Absent \/ row.lastDenied = Never
  PROVE  Logged(times, row)
BY DEF Logged

\* The lines about attempts only grow.
LEMMA LinesStay ==
  ASSUME TypeOK, Phases, [Next]_vars, NEW p \in Person, NEW row, Logged(knocks[p], row)
  PROVE  Logged(knocks'[p], row)
<1>1. ASSUME NEW u \in Update, Commit(u)
      PROVE  knocks'[p] = knocks[p] \/ \E t \in Nat : knocks'[p] = Append(knocks[p], t)
  <2>1. From(u) \in Person /\ pc[u] \in Live /\ pc[u] # "contact"
    BY <1>1, Typing DEF Commit, Live
  <2>2. pending[u][From(u)] \in Row
    BY <2>1 DEF Phases, TypeOK, Table
  <2>3. pending[u][From(u)].lastDenied \in Nat
    BY <2>2 DEF Row
  <2> QED BY <1>1, <2>1, <2>3 DEF Commit, TypeOK
<1>2. knocks[p] \in Seq(Nat)
  BY DEF TypeOK
<1>3. ASSUME NEW u \in Update, Commit(u)
      PROVE  Logged(knocks'[p], row)
  BY <1>1, <1>2, <1>3, StillLogged
<1>4. CASE knocks' = knocks
  BY <1>4
<1>5. knocks' = knocks \/ \E u \in Update : Commit(u)
  BY DEF Next, Advance, Receive, Admit, Deny, Skip, ReadTarget, Write, Sync, Reply, Refuse, Collide,
         Abort, Fail, Rollback, Crash, Boot, Tick, vars, base
<1> QED BY <1>3, <1>4, <1>5

\* A version of a row that Admit, Deny or Write makes is logged, or about to be.
LEMMA WrittenKnock ==
  ASSUME TypeOK, Phases, KnocksLogged, NEW u \in Update, Admit(u) \/ Deny(u) \/ Write(u)
  PROVE  LET p == IF Write(u) THEN Target(u) ELSE From(u)
             row == pending'[u][p]
         IN  /\ \A q \in Person \ {p} : pending'[u][q] = pending[u][q]
             /\ row.lastDenied <= clock
             /\ ~(outcome'[u] = "knock" /\ p = From(u)) => Logged(knocks[p], row)
<1>1. clock \in Nat /\ \A p \in Person : Loaded(rows[p]).lastDenied \in Nat
  BY LoadedRow DEF TypeOK, Table, Row
<1>2. \A p \in Person : Logged(knocks[p], Loaded(rows[p]))
  BY DEF KnocksLogged, Logged, Loaded, NewRow
<1>3. CASE Write(u)
  <2>1. Target(u) \in Person /\ pc[u] \in Live
    BY <1>3, Typing DEF Write, Live
  <2>2. /\ pending'[u][Target(u)] = Changed(u)
        /\ \A q \in Person \ {Target(u)} : pending'[u][q] = pending[u][q]
    BY <1>3, <2>1 DEF Write, TypeOK, Table
  <2>3. Changed(u).lastDenied \in {Never, Loaded(rows[Target(u)]).lastDenied} /\ Changed(u) \in Row
    BY <2>1, ChangedRow
  <2>4. Changed(u).lastDenied <= clock
    BY <1>1, <2>1, <2>3 DEF KnocksLogged, Never
  <2>5. Logged(knocks[Target(u)], Changed(u))
    <3>1. Loaded(rows[Target(u)]) # Absent
      BY <2>1, LoadedRow, AccessAssumption DEF TypeOK, Table
    <3> QED BY <1>2, <2>1, <2>3, <3>1 DEF Logged
  <2> QED BY <1>3, <2>2, <2>4, <2>5
<1>4. CASE Admit(u) /\ ~Write(u)
  <2>1. From(u) \in Person /\ pc[u] \in Live
    BY <1>4, Typing DEF Admit, Live
  <2>2. /\ pending'[u][From(u)] = Loaded(rows[From(u)])
        /\ \A q \in Person \ {From(u)} : pending'[u][q] = pending[u][q]
    BY <1>4, <2>1, KnockedRow DEF Admit, TypeOK, Table
  <2> QED BY <1>2, <1>4, <2>1, <2>2 DEF KnocksLogged
<1>5. CASE Deny(u) /\ ~Write(u)
  <2>1. From(u) \in Person /\ pc[u] \in Live
    BY <1>5, Typing DEF Deny, Live
  <2>2. /\ pending'[u][From(u)] = Knocked(u)
        /\ \A q \in Person \ {From(u)} : pending'[u][q] = pending[u][q]
    BY <1>5, <2>1 DEF Deny, TypeOK, Table
  <2>3. Knocked(u).lastDenied = clock /\ Knocked(u) \in Row
    BY <2>1, KnockedRow
  <2>4. outcome'[u] # "knock" => Logged(knocks[From(u)], Knocked(u))
    <3> DEFINE loaded == Loaded(own[u])
    <3> SUFFICES ASSUME outcome'[u] # "knock"
                 PROVE  Logged(knocks[From(u)], Knocked(u))
      OBVIOUS
    <3>1. ~ShouldReply(loaded.lastDenied)
      BY <1>5 DEF Deny, TypeOK
    <3>2. own[u] # Absent /\ own[u].lastDenied # Never
      BY <3>1 DEF ShouldReply, Loaded, NewRow
    <3>3. own[u].lastDenied <= clock /\ Logged(knocks[From(u)], own[u])
      BY <2>1, <3>2 DEF KnocksLogged, Loaded
    <3>4. own[u].lastDenied \in Nat /\ knocks[From(u)] \in Seq(Nat)
      BY <2>1, <3>2 DEF TypeOK, Row
    <3>5. PICK i \in 1 .. Len(knocks[From(u)]) : knocks[From(u)][i] <= own[u].lastDenied
      BY <3>2, <3>3 DEF Logged
    <3>6. knocks[From(u)][i] <= clock
      BY <1>1, <3>3, <3>4, <3>5
    <3> QED BY <2>3, <3>6 DEF Logged
  <2>5. clock <= clock
    BY <1>1
  <2> QED BY <1>5, <2>2, <2>3, <2>4, <2>5
<1> QED BY <1>3, <1>4, <1>5

LEMMA KnockStep ==
  ASSUME TypeOK, RowLocks, Phases, KnocksLogged, [Next]_vars
  PROVE  KnocksLogged'
<1>1. \A p \in Person : \A row : Logged(knocks[p], row) => Logged(knocks'[p], row)
  BY LinesStay
<1>2. /\ clock \in Nat /\ \A p \in Person : Loaded(rows[p]).lastDenied \in Nat
      /\ \A u \in Update : Loaded(own[u]).lastDenied \in Nat
  BY LoadedRow DEF TypeOK, Table, Row
<1>3. CASE Ended
  <2>1. PICK S \in SUBSET {u \in Update : pc[u] \in Live} :
          /\ pc' = [u \in Update |-> IF u \in S THEN "done" ELSE pc[u]]
          /\ outcome' = [u \in Update |-> IF u \in S THEN "none" ELSE outcome[u]]
          /\ pending' = [u \in Update |-> IF u \in S THEN NoRows ELSE pending[u]]
    BY <1>3 DEF Ended
  <2>2. \A u \in Update : u \in S => \A p \in Person : pending'[u][p] = Absent
    BY <2>1 DEF NoRows
  <2>3. \A u \in Update : u \notin S =>
          pc'[u] = pc[u] /\ outcome'[u] = outcome[u] /\ pending'[u] = pending[u]
    BY <2>1
  <2>4. \A u \in Update : pc'[u] \in Live => pc[u] \in Live
    BY <2>1 DEF Live
  <2>5. UNCHANGED <<rows, knocks, clock, req, own>>
    BY <1>3 DEF Ended
  <2> QED BY <2>2, <2>3, <2>4, <2>5 DEF KnocksLogged, From
<1>4. ASSUME NEW u \in Update, Working(u)
      PROVE  KnocksLogged'
  <2> DEFINE FromOf(v) == req'[v].from
             RowsPart == \A p \in Person :
               Logged(knocks'[p], rows'[p]) /\ Loaded(rows'[p]).lastDenied <= clock
             OwnPart(v) == pc'[v] \in Live =>
               Logged(knocks'[FromOf(v)], own'[v]) /\ Loaded(own'[v]).lastDenied <= clock
             PendingPart(v) == \A p \in Person : pending'[v][p] # Absent =>
               /\ pending'[v][p].lastDenied <= clock
               /\ ~(outcome'[v] = "knock" /\ p = FromOf(v)) => Logged(knocks'[p], pending'[v][p])
  <2>1. clock' = clock
    BY <1>4, Frame
  <2>2. RowsPart
    <3>1. CASE rows' = rows
      BY <1>1, <3>1 DEF KnocksLogged
    <3>2. CASE Commit(u)
      <4> TAKE p \in Person
      <4>1. CASE pending[u][p] = Absent
        BY <1>1, <3>2, <4>1 DEF KnocksLogged, Commit
      <4>2. CASE pending[u][p] # Absent
        <5>1. rows'[p] = pending[u][p] /\ rows'[p] \in Row /\ knocks[p] \in Seq(Nat)
          BY <3>2, <4>2 DEF Commit, TypeOK, Table
        <5>2. Loaded(rows'[p]).lastDenied <= clock
          BY <4>2, <5>1 DEF KnocksLogged, Loaded
        <5>3. CASE outcome[u] = "knock" /\ p = From(u)
          <6>1. knocks'[p] = Append(knocks[p], rows'[p].lastDenied)
            BY <3>2, <5>1, <5>3 DEF Commit, TypeOK
          <6> QED BY <5>1, <5>2, <6>1, NewlyLogged
        <5>4. CASE ~(outcome[u] = "knock" /\ p = From(u))
          BY <1>1, <4>2, <5>1, <5>2, <5>4 DEF KnocksLogged
        <5> QED BY <5>3, <5>4
      <4> QED BY <4>1, <4>2
    <3> QED BY <1>4, <3>1, <3>2, TableKept
  <2>3. ASSUME NEW v \in Update \ {u}
        PROVE  OwnPart(v) /\ PendingPart(v)
    <3>1. /\ pc'[v] = pc[v] /\ req'[v] = req[v] /\ own'[v] = own[v]
          /\ outcome'[v] = outcome[v] /\ pending'[v] = pending[v]
      BY <1>4, Frame
    <3>2. pc[v] \in Live => From(v) \in Person
      BY Typing
    <3>3. OwnPart(v)
      BY <1>1, <3>1, <3>2 DEF KnocksLogged, From
    <3>4. PendingPart(v)
      BY <1>1, <3>1 DEF KnocksLogged, From
    <3> QED BY <3>3, <3>4
  <2>4. OwnPart(u)
    <3>1. ASSUME NEW r \in Request, Receive(u, r)
          PROVE  OwnPart(u)
      <4>1. req'[u] = r /\ own'[u] = rows[r.from] /\ r.from \in Person
        BY <3>1, AccessAssumption DEF Receive, TypeOK
      <4> QED BY <1>1, <4>1 DEF KnocksLogged
    <3>2. CASE Commit(u)
      BY <3>2 DEF Commit, Close, TypeOK, Live
    <3>3. CASE Admit(u) \/ Deny(u) \/ Skip(u) \/ ReadTarget(u) \/ Write(u) \/ Sync(u) \/ Reply(u)
      <4>1. pc[u] \in Live /\ req' = req /\ own' = own
        BY <3>3 DEF Admit, Deny, Skip, ReadTarget, Write, Sync, Reply, Live
      <4>2. From(u) \in Person
        BY <4>1, Typing
      <4> QED BY <1>1, <4>1, <4>2 DEF KnocksLogged, From
    <3> QED BY <1>4, <3>1, <3>2, <3>3 DEF Working
  <2>5. PendingPart(u)
    <3>1. ASSUME NEW r \in Request, Receive(u, r)
          PROVE  PendingPart(u)
      BY <3>1 DEF Receive, Phases, Live
    <3>2. CASE Commit(u)
      BY <3>2 DEF Commit, Close, TypeOK
    <3>3. CASE Skip(u) \/ ReadTarget(u) \/ Sync(u) \/ Reply(u)
      <4>1. pending' = pending /\ req' = req /\ outcome' = outcome
        BY <3>3 DEF Skip, ReadTarget, Sync, Reply
      <4> QED BY <1>1, <4>1 DEF KnocksLogged, From
    <3>4. CASE Admit(u) \/ Deny(u) \/ Write(u)
      <4>1. outcome[u] = "none" /\ req' = req
        BY <3>4 DEF Admit, Deny, Write, Phases
      <4> DEFINE w == IF Write(u) THEN Target(u) ELSE From(u)
      <4> TAKE p \in Person
      <4>2. CASE p = w
        BY <1>1, <3>4, <4>1, <4>2, WrittenKnock DEF From
      <4>3. CASE p # w
        <5>1. pending'[u][p] = pending[u][p]
          BY <3>4, <4>3, WrittenKnock
        <5> QED BY <1>1, <4>1, <5>1 DEF KnocksLogged
      <4> QED BY <4>2, <4>3
    <3> QED BY <1>4, <3>1, <3>2, <3>3, <3>4 DEF Working
  <2> HIDE DEF OwnPart, PendingPart
  <2>6. \A v \in Update : OwnPart(v) /\ PendingPart(v)
    BY <2>3, <2>4, <2>5
  <2> USE DEF OwnPart, PendingPart
  <2> QED BY <2>1, <2>2, <2>6 DEF KnocksLogged, From
<1>5. CASE Boot
  <2>1. UNCHANGED <<clock, knocks, pc, req, own, pending, outcome>>
    BY <1>5 DEF Boot, tasks
  <2>2. ASSUME NEW p \in Person
        PROVE  Logged(knocks[p], rows'[p]) /\ Loaded(rows'[p]).lastDenied <= clock
    <3>1. CASE rows'[p] = rows[p]
      BY <3>1 DEF KnocksLogged
    <3>2. CASE rows'[p] \in Row /\ rows'[p].lastDenied = Loaded(rows[p]).lastDenied
      <4>1. Loaded(rows'[p]) = rows'[p]
        BY <3>2, AccessAssumption DEF Loaded
      <4>2. Logged(knocks[p], Loaded(rows[p])) /\ Loaded(rows[p]) # Absent
        BY LoadedRow, AccessAssumption DEF KnocksLogged, Logged, Loaded, NewRow, TypeOK, Table
      <4>3. Loaded(rows[p]).lastDenied <= clock
        BY DEF KnocksLogged
      <4>4. Logged(knocks[p], rows'[p])
        BY <3>2, <4>2 DEF Logged
      <4> QED BY <3>2, <4>1, <4>3, <4>4
    <3> QED BY <1>5, <3>1, <3>2, BootedRow
  <2> QED BY <2>1, <2>2 DEF KnocksLogged, From
<1>6. CASE Tick
  <2>1. clock' \in Nat /\ clock' >= clock /\ UNCHANGED <<rows, knocks, pc, req, own, pending, outcome>>
    BY <1>2, <1>6 DEF Tick, base, tasks
  <2>2. \A u \in Update, p \in Person : pending[u][p] # Absent => pending[u][p].lastDenied \in Nat
    BY DEF TypeOK, Table, Row
  <2>3. \A n \in Nat : n <= clock => n <= clock'
    BY <1>2, <2>1
  <2> QED BY <1>2, <2>1, <2>2, <2>3 DEF KnocksLogged, From
<1> QED BY <1>3, <1>4, <1>5, <1>6, StepsOfNext

\* Whoever is on the attempts list has a line in the history that says so.
THEOREM AttemptsLogged == Spec => []AttemptsAreLogged
<1>1. Init => KnocksLogged
  <2>1. ASSUME Init, NEW p \in Person
        PROVE  Logged(knocks[p], rows[p]) /\ Loaded(rows[p]).lastDenied <= clock
    <3>1. rows[p] = Absent \/ rows[p].lastDenied = Never
      BY <2>1, AccessAssumption DEF Init
    <3>2. clock = 1
      BY <2>1 DEF Init
    <3> QED BY <3>1, <3>2, NoKnockLogged DEF Loaded, NewRow, Never
  <2>2. ASSUME Init, NEW u \in Update
        PROVE  pc[u] \notin Live /\ \A p \in Person : pending[u][p] = Absent
    BY <2>2 DEF Init, Live
  <2> QED BY <2>1, <2>2 DEF KnocksLogged
<1>2. RolesInv /\ KnocksLogged /\ [Next]_vars => KnocksLogged'
  BY KnockStep DEF RolesInv
<1>3. KnocksLogged => AttemptsAreLogged
  BY DEF KnocksLogged, Logged, AttemptsAreLogged
<1> QED BY <1>1, <1>2, <1>3, RolesInductive, PTL DEF Spec

---------------------------------------------------------------------------
(* The history tells the row, when the whole database is one lock *)

\* While one task holds the database, the others have no more than arrived.
LEMMA OneAtATime ==
  ASSUME TypeOK, RowLocks, Phases, DbWideLock, NEW u \in Update, pc[u] \in Live \ {"contact"}
  PROVE  \A v \in Update \ {u} :
           pc[v] \notin Live \ {"contact"} /\ \A p \in Person : pending[v][p] = Absent
<1>1. From(u) \in Person /\ pending[u][From(u)] # Absent
  BY Typing DEF Phases
<1>2. \A v \in Update \ {u}, p \in Person : pending[v][p] = Absent
  BY <1>1 DEF RowLocks
<1>3. \A v \in Update \ {u} : pc[v] \in Live => From(v) \in Person
  BY Typing
<1> QED BY <1>2, <1>3 DEF Phases

LEMMA ChainGrows ==
  ASSUME NEW history \in Seq(Line), NEW line \in Line, Chained(history),
         history # <<>> => history[Len(history)].role = line.prev
  PROVE  Chained(Append(history, line))
<1> DEFINE longer == Append(history, line)
<1>1. Len(longer) = Len(history) + 1 /\ Len(history) \in Nat
  OBVIOUS
<1>2. \A i \in 1 .. Len(history) : longer[i] = history[i]
  OBVIOUS
<1>3. longer[Len(history) + 1] = line
  OBVIOUS
<1>4. Len(history) # 0 => history # <<>>
  OBVIOUS
<1> SUFFICES ASSUME NEW i \in 1 .. Len(history)
             PROVE  longer[i].role = longer[i + 1].prev
  BY <1>1 DEF Chained
<1>5. CASE i = Len(history)
  BY <1>1, <1>2, <1>3, <1>4, <1>5
<1>6. CASE i # Len(history)
  <2>1. i \in 1 .. Len(history) - 1 /\ i + 1 \in 1 .. Len(history)
    BY <1>1, <1>6
  <2> QED BY <1>2, <2>1 DEF Chained
<1> QED BY <1>5, <1>6

LEMMA EndGrows ==
  ASSUME NEW history \in Seq(Line), NEW line \in Line, NEW row, row # Absent, row.role = line.role,
         line.actor # Nobody => row.grantedBy = line.actor
  PROVE  EndsIn(Append(history, line), row)
BY LongerBy DEF EndsIn

\* Under the lock a change is made to the row as committed, and written as asked.
LEMMA FreshWrite ==
  ASSUME TypeOK, RowLocks, Phases, CopiesFresh, NEW u \in Update, Write(u)
  PROVE  /\ Target(u) # From(u) /\ TargetRole(u) = RoleIn(rows, Target(u))
         /\ Changed(u).role = NewRole(u) /\ Changed(u).grantedBy = From(u)
<1>1. pc[u] = "write" /\ pc[u] \in Live /\ Target(u) # From(u)
  BY NotOneself DEF Write, Live
<1>2. seen[u] = rows[Target(u)]
  BY <1>1 DEF CopiesFresh
<1> QED BY <1>1, <1>2, ChangedRow DEF TargetRole, RoleIn, Column

\* The CopiesFresh of one task.
Fresh(u) ==
  /\ pc[u] = "write" /\ Target(u) # From(u) => seen[u] = rows[Target(u)]
  /\ pc[u] \in Live /\ outcome[u] = "changed" =>
       /\ TargetRole(u) = RoleIn(rows, Target(u))
       /\ pending[u][Target(u)].role = NewRole(u)
       /\ pending[u][Target(u)].grantedBy = From(u)
  /\ \A p \in Person : pending[u][p] # Absent /\ ~(p = Target(u) /\ outcome[u] = "changed") =>
       pending[u][p].grantedBy = Loaded(rows[p]).grantedBy

LEMMA FreshStep ==
  ASSUME DbWideLock, TypeOK, RowLocks, Phases, CopiesFresh, NEW u \in Update, Working(u)
  PROVE  CopiesFresh'
<1> USE DEF world, base, tasks
<1>1. ASSUME NEW v \in Update \ {u}
      PROVE  Fresh(v)'
  <2>1. /\ pc'[v] = pc[v] /\ req'[v] = req[v] /\ seen'[v] = seen[v]
        /\ outcome'[v] = outcome[v] /\ pending'[v] = pending[v]
    BY Frame
  <2>2. CASE Commit(u)
    <3>1. pc[u] \in Live \ {"contact"}
      BY <2>2 DEF Commit, Live
    <3>2. pc[v] \notin Live \ {"contact"} /\ \A p \in Person : pending[v][p] = Absent
      BY <3>1, OneAtATime
    <3>3. pc[v] \notin {"write"} /\ ~(pc[v] \in Live /\ outcome[v] = "changed")
      BY <3>2 DEF Phases, Live
    <3> QED BY <2>1, <3>2, <3>3 DEF Fresh
  <2>3. CASE rows' = rows
    BY <2>1, <2>3 DEF CopiesFresh, Fresh, From, Target, TargetRole, NewRole, RoleIn
  <2> QED BY <2>2, <2>3, TableKept
<1>2. Fresh(u)
  BY DEF CopiesFresh, Fresh
<1> SUFFICES Fresh(u)'
  BY <1>1 DEF CopiesFresh, Fresh
<1>3. ASSUME NEW r \in Request, Receive(u, r)
      PROVE  Fresh(u)'
  <2>1. pc'[u] = "contact" /\ outcome'[u] = "none" /\ \A p \in Person : pending'[u][p] = Absent
    BY <1>3 DEF Receive, Phases, TypeOK, Live
  <2> QED BY <2>1 DEF Fresh
<1>4. CASE Admit(u) \/ Deny(u)
  <2>1. /\ pc[u] \in Live /\ outcome[u] = "none" /\ From(u) \in Person
        /\ \A p \in Person : pending[u][p] = Absent
    BY <1>4, Typing DEF Admit, Deny, Live, Phases
  <2>2. /\ pc'[u] # "write" /\ outcome'[u] # "changed" /\ rows' = rows
        /\ pending'[u][From(u)] \in {Touched(u), Knocked(u)}
        /\ \A p \in Person \ {From(u)} : pending'[u][p] = pending[u][p]
    BY <1>4, <2>1 DEF Admit, Deny, TypeOK, Table
  <2>3. pending'[u][From(u)].grantedBy = Loaded(rows[From(u)]).grantedBy
    BY <2>1, <2>2, KnockedRow
  <2> QED BY <2>1, <2>2, <2>3 DEF Fresh
<1>5. CASE Skip(u)
  BY <1>2, <1>5 DEF Skip, Fresh, From, Target, TargetRole, NewRole, RoleIn, TypeOK, Live
<1>6. CASE ReadTarget(u)
  <2>1. /\ pc'[u] = "write" /\ outcome'[u] = "none" /\ outcome[u] = "none"
        /\ rows' = rows /\ req' = req /\ pending' = pending
        /\ Target(u) # From(u) => seen'[u] = rows[Target(u)]
    BY <1>6 DEF ReadTarget, TypeOK, Phases
  <2> QED BY <1>2, <2>1 DEF Fresh, From, Target
<1>7. CASE Write(u)
  <2>1. Target(u) \in Person /\ pc[u] \in Live /\ outcome[u] = "none"
    BY <1>7, Typing DEF Write, Live, Phases
  <2>2. /\ pc'[u] = "sync" /\ outcome'[u] = "changed" /\ rows' = rows /\ req' = req /\ seen' = seen
        /\ pending'[u][Target(u)] = Changed(u)
        /\ \A p \in Person \ {Target(u)} : pending'[u][p] = pending[u][p]
    BY <1>7, <2>1 DEF Write, TypeOK, Table
  <2>3. /\ TargetRole(u) = RoleIn(rows, Target(u))
        /\ Changed(u).role = NewRole(u) /\ Changed(u).grantedBy = From(u)
    BY <1>7, FreshWrite
  <2>4. \A p \in Person \ {Target(u)} : pending'[u][p] # Absent =>
          pending'[u][p].grantedBy = Loaded(rows[p]).grantedBy
    BY <1>2, <2>1, <2>2 DEF Fresh
  <2>5. /\ req'[u] = req[u] /\ seen'[u] = seen[u]
    BY <2>2
  <2> QED BY <2>1, <2>2, <2>3, <2>4, <2>5 DEF Fresh, From, Target, TargetRole, NewRole, RoleIn
<1>8. CASE Sync(u)
  BY <1>2, <1>8 DEF Sync, Fresh, From, Target, TargetRole, NewRole, RoleIn, TypeOK, Live
<1>9. CASE Reply(u)
  BY <1>2, <1>9 DEF Reply, Fresh, From, Target, TargetRole, NewRole, RoleIn, TypeOK, Live
<1>10. CASE Commit(u)
  <2>1. pc'[u] = "done" /\ \A p \in Person : pending'[u][p] = Absent
    BY <1>10 DEF Commit, Close, TypeOK
  <2> QED BY <2>1 DEF Fresh, Live
<1> QED BY <1>3, <1>4, <1>5, <1>6, <1>7, <1>8, <1>9, <1>10 DEF Working

LEMMA HistoryCommit ==
  ASSUME DbWideLock, TypeOK, RowLocks, Phases, RolesDue, CopiesFresh, NEW u \in Update, Commit(u),
         NEW p \in Person, Chained(log[p]), EndsIn(log[p], rows[p])
  PROVE  Chained(log'[p]) /\ EndsIn(log'[p], rows'[p])
<1>1. /\ pc[u] \in Live /\ From(u) \in Person /\ Target(u) \in Person /\ log[p] \in Seq(Line)
      /\ NewLine(u) \in Line /\ NewLine(u).role = NewRole(u) /\ NewLine(u).actor = From(u)
      /\ NewLine(u).prev = TargetRole(u)
  BY Typing DEF Commit, Live, NewLine, Line, Role, TypeOK
<1>2. rows'[p] = IF pending[u][p] = Absent THEN rows[p] ELSE pending[u][p]
  BY DEF Commit
<1>3. CASE p = Target(u) /\ outcome[u] = "changed"
  <2>1. log'[p] = Append(log[p], NewLine(u))
    BY <1>1, <1>3 DEF Commit, TypeOK
  <2>2. rows'[p] = pending[u][p] /\ rows'[p] # Absent
    BY <1>1, <1>2, <1>3 DEF Phases
  <2>3. /\ rows'[p].role = NewRole(u) /\ rows'[p].grantedBy = From(u)
        /\ TargetRole(u) = RoleIn(rows, p)
    BY <1>1, <1>3, <2>2 DEF CopiesFresh
  <2>4. log[p] # <<>> => log[p][Len(log[p])].role = NewLine(u).prev
    BY <1>1, <2>3 DEF EndsIn, RoleIn, Loaded
  <2>5. Chained(log'[p])
    BY <1>1, <2>1, <2>4, ChainGrows
  <2>6. EndsIn(log'[p], rows'[p])
    BY <1>1, <2>1, <2>2, <2>3, EndGrows
  <2> QED BY <2>5, <2>6
<1>4. CASE ~(p = Target(u) /\ outcome[u] = "changed")
  <2>1. log'[p] = log[p]
    BY <1>1, <1>4 DEF Commit, TypeOK
  <2>2. CASE pending[u][p] # Absent /\ log[p] # <<>>
    <3>1. rows'[p] = pending[u][p] /\ rows[p] # Absent
      BY <1>2, <2>2 DEF EndsIn
    <3>2. rows'[p].role = rows[p].role /\ rows'[p].grantedBy = rows[p].grantedBy
      BY <1>4, <2>2, <3>1 DEF RolesDue, CopiesFresh, RoleIn, Loaded
    <3> QED BY <2>1, <2>2, <3>1, <3>2 DEF EndsIn
  <2>3. CASE pending[u][p] = Absent \/ log[p] = <<>>
    BY <1>2, <2>1, <2>3 DEF EndsIn
  <2> QED BY <2>2, <2>3
<1> QED BY <1>3, <1>4

LEMMA HistoryBoot ==
  ASSUME TypeOK, Boot, NEW p \in Person, Chained(log[p]), EndsIn(log[p], rows[p])
  PROVE  Chained(log'[p]) /\ EndsIn(log'[p], rows'[p])
<1>1. CASE p \in Seeded
  <2> DEFINE line == [actor |-> Nobody, prev |-> Loaded(rows[p]).role, role |-> "super_admin"]
  <2>1. /\ line \in Line /\ line.role = "super_admin" /\ line.actor = Nobody
        /\ line.prev = Loaded(rows[p]).role /\ log[p] \in Seq(Line)
    BY LoadedRow DEF TypeOK, Table, Row, Role, Line
  <2>2. log'[p] = Append(log[p], line)
    BY <1>1 DEF Boot
  <2>3. rows'[p] # Absent /\ rows'[p].role = "super_admin"
    BY <1>1, BootedRow, AccessAssumption DEF RoleIn, Loaded
  <2>4. log[p] # <<>> => log[p][Len(log[p])].role = line.prev
    BY <2>1 DEF EndsIn, Loaded
  <2> HIDE DEF line
  <2>5. Chained(log'[p])
    BY <2>1, <2>2, <2>4, ChainGrows
  <2>6. EndsIn(log'[p], rows'[p])
    BY <2>1, <2>2, <2>3, EndGrows
  <2> QED BY <2>5, <2>6
<1>2. CASE p \notin Seeded
  BY <1>2 DEF Boot
<1> QED BY <1>1, <1>2

LEMMA HistoryStep ==
  ASSUME TypeOK, RowLocks, Phases, RolesDue, HistoryInv, [Next]_vars
  PROVE  HistoryInv'
<1> SUFFICES ASSUME DbWideLock
             PROVE  CopiesFresh' /\ \A p \in Person : Chained(log'[p]) /\ EndsIn(log'[p], rows'[p])
  BY DEF HistoryInv
<1>1. CopiesFresh /\ \A p \in Person : Chained(log[p]) /\ EndsIn(log[p], rows[p])
  BY DEF HistoryInv
<1>2. CASE Ended
  <2>1. PICK S \in SUBSET {u \in Update : pc[u] \in Live} :
          /\ pc' = [u \in Update |-> IF u \in S THEN "done" ELSE pc[u]]
          /\ outcome' = [u \in Update |-> IF u \in S THEN "none" ELSE outcome[u]]
          /\ pending' = [u \in Update |-> IF u \in S THEN NoRows ELSE pending[u]]
    BY <1>2 DEF Ended
  <2>2. UNCHANGED <<rows, log, req, seen>>
    BY <1>2 DEF Ended
  <2>3. ASSUME NEW u \in Update, u \in S
        PROVE  Fresh(u)'
    BY <2>1, <2>3 DEF Fresh, NoRows, Live
  <2>4. ASSUME NEW u \in Update, u \notin S
        PROVE  Fresh(u)'
    <3>1. pc'[u] = pc[u] /\ outcome'[u] = outcome[u] /\ pending'[u] = pending[u]
      BY <2>1, <2>4
    <3> QED BY <1>1, <2>2, <3>1 DEF CopiesFresh, Fresh, From, Target, TargetRole, NewRole, RoleIn
  <2>5. CopiesFresh'
    BY <2>3, <2>4 DEF CopiesFresh, Fresh
  <2> QED BY <1>1, <2>2, <2>5
<1>3. ASSUME NEW u \in Update, Working(u)
      PROVE  CopiesFresh' /\ \A p \in Person : Chained(log'[p]) /\ EndsIn(log'[p], rows'[p])
  <2>1. CASE Commit(u)
    BY <1>1, <1>3, <2>1, FreshStep, HistoryCommit
  <2>2. CASE rows' = rows /\ log' = log
    BY <1>1, <1>3, <2>2, FreshStep
  <2> QED BY <1>3, <2>1, <2>2, TableKept
<1>4. CASE Boot
  <2>1. \A u \in Update : pc'[u] \notin Live /\ \A p \in Person : pending'[u][p] = Absent
    BY <1>4, DownIsIdle DEF Boot, tasks
  <2>2. CopiesFresh'
    BY <2>1 DEF CopiesFresh, Live
  <2> QED BY <1>1, <1>4, <2>2, HistoryBoot
<1>5. CASE Tick
  <2>1. UNCHANGED <<base, tasks>>
    BY <1>5 DEF Tick
  <2>2. CopiesFresh'
    BY <1>1, <2>1 DEF base, tasks, CopiesFresh, From, Target, TargetRole, NewRole, RoleIn
  <2> QED BY <1>1, <2>1, <2>2 DEF base
<1> QED BY <1>2, <1>3, <1>4, <1>5, StepsOfNext

\* Under SQLite's lock the copies are fresh and the histories chain up, always.
LEMMA HistoryInductive == Spec => []HistoryInv
<1>1. Init => HistoryInv
  <2>1. ASSUME Init
        PROVE  CopiesFresh /\ \A p \in Person : log[p] = <<>>
    BY <2>1 DEF Init, CopiesFresh, Live
  <2> QED BY <2>1 DEF HistoryInv, Chained, EndsIn
<1>2. RolesInv /\ HistoryInv /\ [Next]_vars => HistoryInv'
  BY HistoryStep DEF RolesInv
<1> QED BY <1>1, <1>2, RolesInductive, PTL DEF Spec

\* On SQLite, whose lock spans the database, a person's history tells their row.
\* On PostgreSQL it need not: the run access_history finds two grants that miss
\* each other.
THEOREM HistoryOnSqlite == Spec => [](DbWideLock => HistoryTellsTheRow)
<1>1. HistoryInv => (DbWideLock => HistoryTellsTheRow)
  BY DEF HistoryInv, Chained, EndsIn, HistoryTellsTheRow, RoleIn, Loaded
<1> QED BY <1>1, HistoryInductive, PTL

=============================================================================
