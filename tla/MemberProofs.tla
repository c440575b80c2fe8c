----------------------------- MODULE MemberProofs -----------------------------
(***************************************************************************)
(* Under SQLite's lock, Access implements MemberRegister, for any people,  *)
(* updates, requests, environment and initial table.                       *)
(***************************************************************************)
EXTENDS AccessProofs

\* The roles a person has had, by a table and its history: Members!Had.
HadIn(table, history, p) ==
  {RoleIn(table, p)} \cup {history[p][i].prev : i \in DOMAIN history[p]}

\* Who is at work has, or once had, the role they go by, and what they have
\* changed they were allowed to change.
Entitled(u) ==
  pc[u] \in Live =>
    /\ ActorRole(u) \in HadIn(rows, log, From(u))
    /\ outcome[u] = "changed" => MayChange(u)

\* The step leaves what the register holds of a person as it is.
Same(p) ==
  /\ log'[p] = log[p] /\ RoleIn(rows', p) = RoleIn(rows, p)
  /\ Loaded(rows'[p]).grantedBy = Loaded(rows[p]).grantedBy

---------------------------------------------------------------------------
(* The steps of the register *)

\* What a commit does to a person's role, granter and history.
LEMMA CommitChanges ==
  ASSUME TypeOK, Phases, RolesDue, CopiesFresh, NEW u \in Update, Commit(u), NEW p \in Person
  PROVE  IF p = Target(u) /\ outcome[u] = "changed"
           THEN /\ log'[p] = Append(log[p], NewLine(u)) /\ TargetRole(u) = RoleIn(rows, p)
                /\ RoleIn(rows', p) = NewRole(u)
                /\ Loaded(rows'[p]).grantedBy = From(u)
           ELSE Same(p)
<1>1. /\ pc[u] \in Live /\ Target(u) \in Person /\ pc[u] \notin {"contact"}
      /\ rows'[p] = IF pending[u][p] = Absent THEN rows[p] ELSE pending[u][p]
  BY Typing DEF Commit, Live
<1>2. CASE p = Target(u) /\ outcome[u] = "changed"
  <2>1. log'[p] = Append(log[p], NewLine(u))
    BY <1>1, <1>2 DEF Commit, TypeOK
  <2>2. rows'[p] = pending[u][p] /\ rows'[p] # Absent
    BY <1>1, <1>2 DEF Phases
  <2> QED BY <1>1, <1>2, <2>1, <2>2 DEF CopiesFresh, RoleIn, Loaded
<1>3. CASE ~(p = Target(u) /\ outcome[u] = "changed")
  <2>1. log'[p] = log[p]
    BY <1>1, <1>3 DEF Commit, TypeOK
  <2> QED BY <1>1, <1>3, <2>1 DEF RolesDue, CopiesFresh, Same, RoleIn, Loaded
<1> QED BY <1>2, <1>3

\* What a boot does to it.
LEMMA BootChanges ==
  ASSUME TypeOK, Boot, NEW p \in Person
  PROVE  /\ p \in Seeded <=> p \in SuperIds /\ RoleIn(rows, p) # "super_admin"
         /\ Loaded(rows'[p]).grantedBy = Loaded(rows[p]).grantedBy
         /\ IF p \in Seeded
              THEN /\ RoleIn(rows', p) = "super_admin"
                   /\ log'[p] = Append(log[p], [actor |-> Nobody, prev |-> RoleIn(rows, p),
                                                role |-> "super_admin"])
              ELSE Same(p)
<1>1. p \in Seeded <=> p \in SuperIds /\ RoleIn(rows, p) # "super_admin"
  BY DEF Seeded, RoleIn, Loaded, NewRow
<1>2. CASE p \in Seeded
  <2> DEFINE row == Loaded(rows[p])
  <2>1. rows'[p] = [row EXCEPT !.role = "super_admin"] /\ row \in Row
    BY <1>2, LoadedRow DEF Boot, TypeOK, Table
  <2> HIDE DEF row
  <2>2. rows'[p].grantedBy = row.grantedBy
    BY <2>1 DEF Row
  <2>3. rows'[p] # Absent /\ RoleIn(rows', p) = "super_admin"
    BY <1>2, BootedRow, AccessAssumption
  <2>4. Loaded(rows'[p]).grantedBy = Loaded(rows[p]).grantedBy
    BY <2>2, <2>3 DEF Loaded, row
  <2>5. log'[p] = Append(log[p], [actor |-> Nobody, prev |-> RoleIn(rows, p), role |-> "super_admin"])
    BY <1>2 DEF Boot, RoleIn
  <2> QED BY <1>1, <1>2, <2>3, <2>4, <2>5
<1>3. CASE p \notin Seeded
  BY <1>1, <1>3 DEF Boot, Same, RoleIn
<1> QED BY <1>2, <1>3

\* Nothing else changes the table or the history.
LEMMA ChangingSteps ==
  ASSUME TypeOK, RowLocks, Phases, [Next]_vars
  PROVE  (\E u \in Update : Commit(u)) \/ Boot \/ UNCHANGED <<rows, log>>
BY StepsOfNext, TableKept DEF Ended, Tick, base

\* A history with one more line, of the role the person has, forgets no role.
LEMMA HadGrows ==
  ASSUME TypeOK, RowLocks, Phases, RolesDue, CopiesFresh, [Next]_vars, NEW p \in Person
  PROVE  HadIn(rows, log, p) \subseteq HadIn(rows', log', p)
<1> USE DEF HadIn
<1>1. CASE Same(p)
  BY <1>1 DEF Same
<1>2. ASSUME NEW line \in Line, line.prev = RoleIn(rows, p), log'[p] = Append(log[p], line)
      PROVE  HadIn(rows, log, p) \subseteq HadIn(rows', log', p)
  <2>1. log[p] \in Seq(Line)
    BY DEF TypeOK
  <2>2. /\ \A i \in DOMAIN log[p] : i \in DOMAIN log'[p] /\ log'[p][i] = log[p][i]
        /\ Len(log'[p]) \in DOMAIN log'[p] /\ log'[p][Len(log'[p])] = line
    BY <1>2, <2>1
  <2> QED BY <1>2, <2>2
<1>3. ASSUME NEW u \in Update, Commit(u)
      PROVE  Same(p) \/ \E line \in Line : line.prev = RoleIn(rows, p) /\ log'[p] = Append(log[p], line)
  <2>1. pc[u] \in Live
    BY <1>3 DEF Commit, Live
  <2>2. NewLine(u) \in Line /\ NewLine(u).prev = TargetRole(u)
    BY <2>1, Typing DEF NewLine, Line, Role
  <2> QED BY <1>3, <2>2, CommitChanges
<1>4. CASE Boot
  <2> DEFINE line == [actor |-> Nobody, prev |-> RoleIn(rows, p), role |-> "super_admin"]
  <2>1. line \in Line /\ line.prev = RoleIn(rows, p)
    BY LoadedRow DEF TypeOK, Table, Row, Role, Line, RoleIn
  <2>2. Same(p) \/ log'[p] = Append(log[p], line)
    BY <1>4, BootChanges
  <2> QED BY <1>1, <1>2, <2>1, <2>2
<1>5. CASE UNCHANGED <<rows, log>>
  BY <1>1, <1>5 DEF Same
<1> QED BY <1>1, <1>2, <1>3, <1>4, <1>5, ChangingSteps

---------------------------------------------------------------------------
(* Nobody works with a role they never had *)

EntitledInv == DbWideLock => \A u \in Update : Entitled(u)

\* An update takes its sender's role from the table when it arrives, and is done
\* with it when it has been checked: in between, the history remembers the role.
LEMMA EntitledStep ==
  ASSUME DbWideLock, TypeOK, RowLocks, Phases, RolesDue, CopiesFresh, [Next]_vars,
         \A u \in Update : Entitled(u)
  PROVE  \A u \in Update : Entitled(u)'
<1>1. ASSUME NEW u \in Update, pc[u] \in Live,
             own'[u] = own[u], seen'[u] = seen[u], req'[u] = req[u],
             outcome'[u] = "changed" => MayChange(u)
      PROVE  Entitled(u)'
  <2>1. From(u) \in Person
    BY <1>1, Typing
  <2>2. HadIn(rows, log, From(u)) \subseteq HadIn(rows', log', From(u))
    BY <2>1, HadGrows
  <2>3. ActorRole(u)' = ActorRole(u) /\ From(u)' = From(u) /\ (MayChange(u) => MayChange(u)')
    BY <1>1 DEF ActorRole, MayChange, TargetRole, Target, From
  <2>4. ActorRole(u) \in HadIn(rows, log, From(u))
    BY <1>1 DEF Entitled
  <2>5. ActorRole(u)' \in HadIn(rows', log', From(u)')
    BY <2>2, <2>3, <2>4
  <2> QED BY <1>1, <2>3, <2>5 DEF Entitled
<1>2. ASSUME NEW u \in Update, pc'[u] \notin Live
      PROVE  Entitled(u)'
  BY <1>2 DEF Entitled
<1>3. CASE Ended
  <2>1. UNCHANGED <<own, seen, req>> /\ \A u \in Update :
          pc'[u] \in Live => pc[u] \in Live /\ outcome'[u] \in {"none", outcome[u]}
    BY <1>3 DEF Ended, Live
  <2> QED BY <1>1, <1>2, <2>1 DEF Entitled
<1>4. ASSUME NEW u \in Update, Working(u)
      PROVE  \A v \in Update : Entitled(v)'
  <2>1. ASSUME NEW v \in Update \ {u}
        PROVE  Entitled(v)'
    <3>1. /\ pc'[v] = pc[v] /\ req'[v] = req[v] /\ own'[v] = own[v] /\ seen'[v] = seen[v]
          /\ outcome'[v] = outcome[v]
      BY <1>4, Frame
    <3> QED BY <1>1, <1>2, <3>1 DEF Entitled
  <2> SUFFICES Entitled(u)'
    BY <2>1
  <2>2. ASSUME NEW r \in Request, Receive(u, r)
        PROVE  Entitled(u)'
    <3>1. /\ rows' = rows /\ log' = log /\ outcome'[u] = "none"
          /\ req'[u] = r /\ own'[u] = rows[r.from]
      BY <2>2 DEF Receive, base, Phases, TypeOK
    <3>2. ActorRole(u)' = RoleIn(rows', From(u)')
      BY <3>1 DEF ActorRole, From, RoleIn
    <3> QED BY <3>1, <3>2 DEF Entitled, HadIn
  <2>3. CASE ~\E r \in Request : Receive(u, r)
    <3>1. pc[u] \in Live
      BY <1>4, <2>3 DEF Working, Admit, Deny, Skip, ReadTarget, Write, Sync, Reply, Commit, Live
    <3>2. CASE ReadTarget(u)
      <4>1. outcome'[u] = "none"
        BY <3>2 DEF ReadTarget, Phases
      <4>2. own'[u] = own[u] /\ req'[u] = req[u] /\ rows' = rows /\ log' = log
        BY <3>2 DEF ReadTarget, base
      <4>3. ActorRole(u)' = ActorRole(u) /\ From(u)' = From(u)
        BY <4>2 DEF ActorRole, From
      <4> QED BY <3>1, <4>1, <4>2, <4>3 DEF Entitled
    <3>3. CASE ~ReadTarget(u)
      <4>1. own'[u] = own[u] /\ seen'[u] = seen[u] /\ req'[u] = req[u]
        BY <1>4, <2>3, <3>3 DEF Working, Admit, Deny, Skip, Write, Sync, Reply, Commit
      <4>2. outcome'[u] = "changed" => MayChange(u)
        <5>1. CASE Write(u)
          BY <5>1 DEF Write
        <5>2. CASE Deny(u)
          BY <5>2 DEF Deny, TypeOK
        <5>3. CASE ~Write(u) /\ ~Deny(u)
          BY <1>4, <2>3, <3>1, <3>3, <5>3
             DEF Working, Admit, Skip, Sync, Reply, Commit, Entitled
        <5> QED BY <5>1, <5>2, <5>3
      <4> QED BY <1>1, <3>1, <4>1, <4>2
    <3> QED BY <3>2, <3>3
  <2> QED BY <2>2, <2>3
<1>5. CASE Boot
  BY <1>2, <1>5, DownIsIdle DEF Boot, tasks
<1>6. CASE Tick
  BY <1>6 DEF Tick, base, tasks, Entitled, ActorRole, MayChange, TargetRole, Target, From
<1> QED BY <1>3, <1>4, <1>5, <1>6, StepsOfNext

LEMMA EntitledInductive == Spec => []EntitledInv
<1>1. Init => EntitledInv
  BY DEF Init, EntitledInv, Entitled, Live
<1>2. RolesInv /\ HistoryInv /\ EntitledInv /\ [Next]_vars => EntitledInv'
  BY EntitledStep DEF RolesInv, HistoryInv, EntitledInv
<1> QED BY <1>1, <1>2, RolesInductive, HistoryInductive, PTL DEF Spec

---------------------------------------------------------------------------
(* The refinement *)

MemberStep ==
  \/ \E a, p \in Person, new \in {"user", "admin"} : Members!Grant(a, p, new)
  \/ \E a, p \in Person : Members!Revoke(a, p)
  \/ Members!Seed

\* The register's rules are those of Roles.
LEMMA SameRules ==
  /\ \A mine, new : Members!CanGrant(mine, new) <=> CanGrant(mine, new)
  /\ \A mine, role, same : Members!CanRevoke(mine, role, same) <=> CanRevoke(mine, role, same)
<1>1. Members!Grantable = Grantable
  BY DEF Members!Grantable, Grantable, Members!Role, Role
<1>2. Members!Rank = Rank
  BY DEF Members!Rank, Rank, Members!Role, Role
<1> QED BY <1>1, <1>2 DEF Members!CanGrant, CanGrant, Members!CanRevoke, CanRevoke,
           Members!IsMember, IsMember, Members!IsStaff, IsStaff

\* A commit with a change is a Grant or a Revoke; without one, the register rests.
LEMMA CommitIsAStep ==
  ASSUME TypeOK, Phases, RolesDue, CopiesFresh, NEW u \in Update, Commit(u), Entitled(u)
  PROVE  MemberStep \/ UNCHANGED Members!register
<1>1. /\ pc[u] \in Live /\ From(u) \in Person /\ Target(u) \in Person
      /\ ActorRole(u) \in Role
  BY Typing DEF Commit, Live
<1> DEFINE roles    == [p \in Person |-> RoleIn(rows, p)]
           granter  == [p \in Person |-> Loaded(rows[p]).grantedBy]
           roles2   == [p \in Person |-> RoleIn(rows', p)]
           granter2 == [p \in Person |-> Loaded(rows'[p]).grantedBy]
           a == From(u)
           t == Target(u)
<1>2. CASE outcome[u] = "changed"
  <2>1. /\ TargetRole(u) = roles[t]
        /\ NewLine(u) = [actor |-> a, prev |-> roles[t], role |-> NewRole(u)]
    BY <1>1, <1>2, CommitChanges DEF NewLine
  <2>2. log' = [log EXCEPT ![t] = Append(@, [actor |-> a, prev |-> roles[t], role |-> NewRole(u)])]
    BY <1>2, <2>1 DEF Commit
  <2>3. roles2 = [roles EXCEPT ![t] = NewRole(u)] /\ granter2 = [granter EXCEPT ![t] = a]
    BY <1>1, <1>2, CommitChanges DEF Same
  <2>4. Members!Change(a, t, NewRole(u))
    BY <2>2, <2>3 DEF Members!Change
  <2>5. ActorRole(u) \in Members!Had(a) /\ MayChange(u)
    BY <1>1, <1>2 DEF Entitled, HadIn, Members!Had
  <2>6. CASE req[u].op = "grant"
    <3>1. /\ NewRole(u) = req[u].role /\ a # t /\ CanGrant(ActorRole(u), NewRole(u))
          /\ IsMember(TargetRole(u)) => CanRevoke(ActorRole(u), TargetRole(u), FALSE)
      BY <2>5, <2>6 DEF MayChange, NewRole
    <3>2. Members!Grant(a, t, NewRole(u))
      BY <2>1, <2>4, <2>5, <3>1, SameRules DEF Members!Grant, Members!IsMember, IsMember
    <3>3. NewRole(u) \in {"user", "admin"}
      BY <1>1, <3>1 DEF CanGrant, Grantable
    <3> QED BY <1>1, <3>2, <3>3 DEF MemberStep
  <2>7. CASE req[u].op # "grant"
    <3>1. NewRole(u) = "none" /\ CanRevoke(ActorRole(u), TargetRole(u), a = t)
      BY <2>5, <2>7 DEF MayChange, NewRole
    <3>2. Members!Revoke(a, t)
      BY <2>1, <2>4, <2>5, <3>1, SameRules DEF Members!Revoke
    <3> QED BY <1>1, <3>2 DEF MemberStep
  <2> QED BY <2>6, <2>7
<1>3. CASE outcome[u] # "changed"
  <2>1. log' = log
    BY <1>3 DEF Commit
  <2>2. roles2 = roles /\ granter2 = granter
    BY <1>3, CommitChanges DEF Same
  <2> QED BY <2>1, <2>2 DEF Members!register
<1> QED BY <1>2, <1>3

LEMMA BootIsAStep ==
  ASSUME TypeOK, Boot
  PROVE  Members!Seed
<1> DEFINE roles   == [p \in Person |-> RoleIn(rows, p)]
           missing == {p \in SuperIds : roles[p] # "super_admin"}
<1>1. \A p \in Person : p \in missing <=> p \in Seeded
  BY BootChanges
<1>2. [p \in Person |-> RoleIn(rows', p)] =
        [p \in Person |-> IF p \in missing THEN "super_admin" ELSE roles[p]]
  BY <1>1, BootChanges DEF Same
<1>3. [p \in Person |-> Loaded(rows'[p]).grantedBy] = [p \in Person |-> Loaded(rows[p]).grantedBy]
  BY BootChanges
<1>4. log' = [p \in Person |->
        IF p \in missing
          THEN Append(log[p], [actor |-> Nobody, prev |-> roles[p], role |-> "super_admin"])
          ELSE log[p]]
  BY <1>1 DEF Boot, RoleIn
<1> QED BY <1>2, <1>3, <1>4 DEF Members!Seed

\* Under SQLite's lock, what transactions do to the members is what the register
\* promises: one change at a time, on the role the target has, on an authority the
\* sender has or had, with its line.
THEOREM MembersOnSqlite == ASSUME DbWideLock PROVE Spec => ImplementsMembers
<1>1. Init => Members!Register
  <2> SUFFICES ASSUME Init
               PROVE  Members!Register
    OBVIOUS
  <2>1. rows \in Table
    BY AccessAssumption DEF Init
  <2>2. \A p \in Person : RoleIn(rows, p) \in Role /\ Loaded(rows[p]).grantedBy \in Person \cup {Nobody}
    BY <2>1, LoadedRow DEF Table, Row, RoleIn
  <2>3. Role = Members!Role
    BY DEF Role, Members!Role
  <2> QED BY <2>2, <2>3 DEF Init, Members!Register
<1>2. ASSUME RolesInv, HistoryInv, EntitledInv, [Next]_vars
      PROVE  MemberStep \/ UNCHANGED Members!register
  <2>1. /\ TypeOK /\ Phases /\ RowLocks /\ RolesDue /\ CopiesFresh
        /\ \A u \in Update : Entitled(u)
    BY <1>2 DEF RolesInv, HistoryInv, EntitledInv
  <2>2. CASE UNCHANGED <<rows, log>>
    BY <2>2 DEF Members!register, RoleIn
  <2>3. CASE Boot
    BY <2>1, <2>3, BootIsAStep DEF MemberStep
  <2> QED BY <1>2, <2>1, <2>2, <2>3, ChangingSteps, CommitIsAStep
<1>3. DbWideLock
  OBVIOUS
<1> QED BY <1>1, <1>2, RolesInductive, HistoryInductive, EntitledInductive, PTL
        DEF Spec, ImplementsMembers, Members!Promise, MemberStep

=============================================================================
