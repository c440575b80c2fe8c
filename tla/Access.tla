-------------------------------- MODULE Access --------------------------------
(***************************************************************************)
(* Who may use the bot, and who may change that.                           *)
(*                                                                         *)
(* Every Telegram update runs as its own task through the same chain: open *)
(* a transaction (middlewares/database.py), load and touch the sender's    *)
(* users row (middlewares/user.py), turn non-members away                  *)
(* (middlewares/access.py), run the handler (handlers/admin.py), commit.   *)
(* The tasks interleave at every await, so what one has read may be stale  *)
(* by the time it writes.                                                  *)
(*                                                                         *)
(* The database is modelled by its committed rows and, for each update,    *)
(* the versions it has written and not committed. Holding such a version   *)
(* is holding the row lock. PostgreSQL (production) locks a row, SQLite    *)
(* (the default) the whole database: DbWideLock chooses.                   *)
(***************************************************************************)
EXTENDS Roles, Sequences, FiniteSets

CONSTANTS
  Person,      \* Telegram users: senders, and people named by id
  Nobody,      \* NULL in granted_by_id; the bot itself as a line's actor
  Absent,      \* no row; in "pending", nothing written
  Update,      \* the updates polled; each is handled once
  Request,     \* what an update may carry
  SuperIds,    \* settings.super_admin_ids
  FirstTable,  \* the users tables an earlier life of the bot may have left
  DbWideLock,  \* TRUE: SQLite's lock; FALSE: PostgreSQL's row locks
  Cooldown,    \* DENY_REPLY_COOLDOWN, in clock ticks
  MaxClock,    \* bound on the clock
  MaxCrashes   \* bound on crashes

Never == 0     \* NULL in last_denied_at

Row == [role : Role, grantedBy : Person \cup {Nobody}, denied : Nat, lastDenied : Nat]

NewRow == [role |-> "none", grantedBy |-> Nobody, denied |-> 0, lastDenied |-> Never]

Table == [Person -> Row \cup {Absent}]

\* A membership line of audit_log, kept with the person it was done to.
Line == [actor : Person \cup {Nobody}, prev : Role, role : Role]

ASSUME AccessAssumption ==
  /\ Nobody \notin Person
  /\ Absent \notin Row
  /\ Request \subseteq [from : Person, op : {"grant", "revoke", "other"}, target : Person,
                        role : Role, via : {"message", "callback"}]
  /\ SuperIds \subseteq Person
  /\ FirstTable \subseteq Table
  \* the log starts empty: no attempt is on the books yet
  /\ \A table \in FirstTable, p \in Person : table[p] # Absent => table[p].lastDenied = Never
  /\ DbWideLock \in BOOLEAN
  /\ Cooldown \in Nat /\ MaxClock \in Nat \ {0} /\ MaxCrashes \in Nat

VARIABLES
  up,       \* the process is polling
  crashes,  \* how often it has died
  clock,    \* wall-clock time, in ticks
  rows,     \* the committed users table
  log,      \* committed membership lines, per target, oldest first
  knocks,   \* committed "access denied" lines, per sender: their times
  told,     \* "invite only" messages delivered, per sender: their times
  menu,     \* the "/" menu Telegram shows each person
  pc,       \* how far each update's task has come
  req,      \* the update itself
  own,      \* the sender's row as record_contact loaded it
  seen,     \* the target's row as the handler loaded it
  outcome,  \* what the task has added to the log besides its rows
  pending   \* row versions written by the task and not committed

world == <<up, crashes, clock, menu, told>>
base  == <<rows, log, knocks>>
tasks == <<pc, req, own, seen, outcome, pending>>
vars  == <<world, base, tasks>>

Live == {"contact", "handler", "write", "sync", "reply", "commit"}

---------------------------------------------------------------------------
(* What a task sees *)

From(u)   == req[u].from
Target(u) == req[u].target

\* The User object a SELECT gives; a missing row becomes a new User.
Loaded(row) == IF row = Absent THEN NewRow ELSE row

ActorRole(u)  == Loaded(own[u]).role
TargetRole(u) == Loaded(seen[u]).role

\* No other transaction keeps u from writing p's row.
LockFree(u, p) ==
  \A v \in Update \ {u}, q \in Person : (DbWideLock \/ q = p) => pending[v][q] = Absent

\* A task that loaded no row INSERTs one: telegram_id is unique.
Taken(p, loaded) == loaded = Absent /\ rows[p] # Absent

CanFlush(u, p, loaded) == LockFree(u, p) /\ ~Taken(p, loaded)

\* The unit of work puts in the UPDATE only the columns whose new value
\* differs from the loaded one; the rest keep what is stored.
Column(stored, loaded, new) == IF new = loaded THEN stored ELSE new

\* Mutant: revoking writes a role there is none of.
RemovedRole(u) == IF req[u].op = "grant" THEN req[u].role ELSE "removed"

NewRole(u) == IF req[u].op = "grant" THEN req[u].role ELSE "none"

\* Mutants: the line repeats the old role; it takes the actor's role for the
\* target's.
LineOfOldRole(u)   == [actor |-> From(u), prev |-> TargetRole(u), role |-> TargetRole(u)]
LineOfActorRole(u) == [actor |-> From(u), prev |-> ActorRole(u), role |-> NewRole(u)]

\* The history line of a role change.
NewLine(u) == [actor |-> From(u), prev |-> TargetRole(u), role |-> NewRole(u)]

\* Mutant: the first attempt of all is taken for a repeated one.
ShouldReplyAgain(lastDenied) == lastDenied # Never /\ clock - lastDenied > Cooldown

ShouldReply(lastDenied) == lastDenied = Never \/ clock - lastDenied > Cooldown

---------------------------------------------------------------------------
(* One update, step by step: each step ends where the task awaits *)

\* UserMiddleware, record_contact: the update arrives, its sender is SELECTed.
Receive(u, r) ==
  /\ up /\ pc[u] = "unsent"
  /\ pc'  = [pc EXCEPT ![u] = "contact"]
  /\ req' = [req EXCEPT ![u] = r]
  /\ own' = [own EXCEPT ![u] = rows[r.from]]
  /\ UNCHANGED <<world, base, seen, outcome, pending>>

\* record_contact flushes last_seen_at (or the new row): from here until the
\* transaction ends the sender's row is locked. The loaded copy stays as it was.
Touched(u) == Loaded(rows[From(u)])

\* AccessMiddleware lets a member through.
Admit(u) ==
  /\ pc[u] = "contact"
  /\ CanFlush(u, From(u), own[u])
  /\ IsMember(ActorRole(u))
  /\ pc' = [pc EXCEPT ![u] = "handler"]
  /\ pending' = [pending EXCEPT ![u][From(u)] = Touched(u)]
  /\ UNCHANGED <<world, base, req, own, seen, outcome>>

\* One more attempt, counted on the loaded copy.
Knocked(u) ==
  [Touched(u) EXCEPT !.denied = Loaded(own[u]).denied + 1, !.lastDenied = clock]

\* AccessMiddleware turns a non-member away. The attempt is logged when the last
\* one is older than the cooldown.
Deny(u) ==
  /\ pc[u] = "contact"
  /\ CanFlush(u, From(u), own[u])
  /\ ~IsMember(ActorRole(u))
  /\ pc' = [pc EXCEPT ![u] = "reply"]
  /\ pending' = [pending EXCEPT ![u][From(u)] = Knocked(u)]
  /\ outcome' = [outcome EXCEPT ![u] =
       IF ShouldReply(Loaded(own[u]).lastDenied) THEN "knock" ELSE "denied"]
  /\ UNCHANGED <<world, base, req, own, seen>>

\* An update that asks for no role change, or whose sender the IsStaff filter
\* keeps out of the admin router, changes no more rows.
Skip(u) ==
  /\ pc[u] = "handler"
  /\ req[u].op = "other" \/ ~IsStaff(ActorRole(u))
  /\ pc' = [pc EXCEPT ![u] = "reply"]
  /\ UNCHANGED <<world, base, req, own, seen, outcome, pending>>

\* grant_role and revoke_access SELECT the target. The session hands back the
\* object it already holds when the target is the sender.
ReadTarget(u) ==
  /\ pc[u] = "handler"
  /\ req[u].op # "other" /\ IsStaff(ActorRole(u))
  /\ pc' = [pc EXCEPT ![u] = "write"]
  /\ seen' = [seen EXCEPT ![u] = IF Target(u) = From(u) THEN own[u] ELSE rows[Target(u)]]
  /\ UNCHANGED <<world, base, req, own, outcome, pending>>

\* The checks of grant_role and revoke_access, on the loaded copies.
MayChange(u) ==
  IF req[u].op = "grant"
    THEN /\ CanGrant(ActorRole(u), req[u].role)
         /\ Target(u) # From(u)
         /\ IsMember(TargetRole(u)) => CanRevoke(ActorRole(u), TargetRole(u), FALSE)
    ELSE CanRevoke(ActorRole(u), TargetRole(u), Target(u) = From(u))

\* Mutant: who changed the role is not put down.
ChangedByNobody(u) ==
  [Loaded(rows[Target(u)]) EXCEPT !.role = Column(@, TargetRole(u), NewRole(u))]

\* The row grant_role or revoke_access leaves; granting clears the knocks.
Changed(u) ==
  LET stored == Loaded(rows[Target(u)])
      loaded == Loaded(seen[u])
      moved  == [stored EXCEPT
                   !.role      = Column(@, loaded.role, NewRole(u)),
                   !.grantedBy = Column(@, loaded.grantedBy, From(u))]
  IN IF req[u].op = "grant"
       THEN [moved EXCEPT !.denied     = Column(@, loaded.denied, 0),
                          !.lastDenied = Column(@, loaded.lastDenied, Never)]
       ELSE moved

\* The flush that ends grant_role and revoke_access.
Write(u) ==
  /\ pc[u] = "write"
  /\ MayChange(u)
  /\ CanFlush(u, Target(u), seen[u])
  /\ pc' = [pc EXCEPT ![u] = "sync"]
  /\ pending' = [pending EXCEPT ![u][Target(u)] = Changed(u)]
  /\ outcome' = [outcome EXCEPT ![u] = "changed"]
  /\ UNCHANGED <<world, base, req, own, seen>>

MenuOf(role) == IF IsStaff(role) THEN "staff" ELSE "member"

\* sync_for_user publishes the new "/" menu, before the commit. Telegram may
\* refuse (no chat, bot blocked): that is swallowed.
Sync(u) ==
  /\ pc[u] = "sync"
  /\ pc' = [pc EXCEPT ![u] = "reply"]
  /\ menu' \in {menu, [menu EXCEPT ![Target(u)] = MenuOf(NewRole(u))]}
  /\ UNCHANGED <<up, crashes, clock, told, base, req, own, seen, outcome, pending>>

\* The answer goes out. A non-member who wrote a message gets one only for the
\* first attempt of a window; a pressed button is always answered by a toast.
Reply(u) ==
  /\ pc[u] = "reply"
  /\ pc' = [pc EXCEPT ![u] = "commit"]
  /\ told' = IF outcome[u] = "knock" /\ req[u].via = "message"
               THEN [told EXCEPT ![From(u)] = Append(@, clock)] ELSE told
  /\ UNCHANGED <<up, crashes, clock, menu, base, req, own, seen, outcome, pending>>

\* Mutant: the session is never closed, and its locks stay.
CloseLater(u) == pc' = [pc EXCEPT ![u] = "done"] /\ pending' = pending

\* The transaction ends: its locks go, and with a rollback all it wrote.
Close(u) ==
  /\ pc' = [pc EXCEPT ![u] = "done"]
  /\ pending' = [pending EXCEPT ![u] = [p \in Person |-> Absent]]

Rollback(u) ==
  /\ Close(u)
  /\ outcome' = [outcome EXCEPT ![u] = "none"]
  /\ UNCHANGED <<world, base, req, own, seen>>

\* session_scope commits when the handler has returned.
Commit(u) ==
  /\ pc[u] = "commit"
  /\ rows' = [p \in Person |-> IF pending[u][p] = Absent THEN rows[p] ELSE pending[u][p]]
  /\ log' = IF outcome[u] = "changed"
              THEN [log EXCEPT ![Target(u)] = Append(@, NewLine(u))] ELSE log
  /\ knocks' = IF outcome[u] = "knock"
                 THEN [knocks EXCEPT ![From(u)] = Append(@, pending[u][From(u)].lastDenied)]
                 ELSE knocks
  /\ Close(u)
  /\ UNCHANGED <<world, req, own, seen, outcome>>

---------------------------------------------------------------------------
(* The ways an update ends without committing: session_scope rolls back and *)
(* the error handler apologises.                                            *)

\* PermissionDenied.
Refuse(u) == pc[u] = "write" /\ ~MayChange(u) /\ Rollback(u)

\* IntegrityError: somebody else inserted the person in the meantime.
Collide(u) ==
  /\ \/ pc[u] = "contact" /\ LockFree(u, From(u)) /\ Taken(From(u), own[u])
     \/ pc[u] = "write" /\ MayChange(u) /\ LockFree(u, Target(u)) /\ Taken(Target(u), seen[u])
  /\ Rollback(u)

\* A Telegram call or a database call raises something no handler expects.
Fail(u) == pc[u] \in Live /\ Rollback(u)

\* The row u's next UPDATE is after, when it has one to make.
Wants(u, p) ==
  \/ pc[u] = "contact" /\ p = From(u)
  \/ pc[u] = "write" /\ MayChange(u) /\ p = Target(u)

WaitsFor(u, v) ==
  u # v /\ \E p, q \in Person : Wants(u, p) /\ (DbWideLock \/ q = p) /\ pending[v][q] # Absent

\* u is on a cycle of tasks that each wait for the next.
Deadlocked(u) ==
  \E S \in SUBSET Update : u \in S /\ \A v \in S :
    (\E w \in S : WaitsFor(v, w)) /\ (\E w \in S : WaitsFor(w, v))

\* SQLite gives up waiting ("database is locked"); PostgreSQL waits until its
\* deadlock detector picks a victim.
Abort(u) ==
  /\ IF DbWideLock THEN \E v \in Update : WaitsFor(u, v) ELSE Deadlocked(u)
  /\ Rollback(u)

---------------------------------------------------------------------------
(* The process *)

\* Every task dies with the process, and the database rolls it back. What was
\* told to Telegram stays told.
Crash ==
  /\ up /\ crashes < MaxCrashes
  /\ up' = FALSE /\ crashes' = crashes + 1
  /\ pc' = [u \in Update |-> IF pc[u] \in Live THEN "done" ELSE pc[u]]
  /\ outcome' = [u \in Update |-> IF pc[u] \in Live THEN "none" ELSE outcome[u]]
  /\ pending' = [u \in Update |-> [p \in Person |-> Absent]]
  /\ UNCHANGED <<clock, menu, told, base, req, own, seen>>

\* sync_super_admins promotes the env-listed people who are not super admins.
Seeded == {p \in SuperIds : rows[p] = Absent \/ rows[p].role # "super_admin"}

StaffMembers(table) == {p \in Person : table[p] # Absent /\ IsStaff(table[p].role)}

\* __main__: seed, publish the staff menus one by one (Telegram may refuse
\* some), drop what queued while the bot was down, then poll.
Boot ==
  /\ ~up /\ up' = TRUE
  /\ rows' = [p \in Person |->
       IF p \in Seeded THEN [Loaded(rows[p]) EXCEPT !.role = "super_admin"] ELSE rows[p]]
  /\ log' = [p \in Person |->
       IF p \in Seeded THEN Append(log[p], [actor |-> Nobody, prev |-> Loaded(rows[p]).role,
                                            role |-> "super_admin"])
                       ELSE log[p]]
  /\ \E reached \in SUBSET StaffMembers(rows') :
       menu' = [p \in Person |-> IF p \in reached THEN "staff" ELSE menu[p]]
  /\ UNCHANGED <<crashes, clock, told, knocks, tasks>>

Tick ==
  /\ clock < MaxClock /\ clock' = clock + 1
  /\ UNCHANGED <<up, crashes, menu, told, base, tasks>>

---------------------------------------------------------------------------

Init ==
  /\ up = FALSE /\ crashes = 0 /\ clock = 1
  /\ rows \in FirstTable
  /\ log = [p \in Person |-> <<>>]
  /\ knocks = [p \in Person |-> <<>>]
  /\ told = [p \in Person |-> <<>>]
  /\ menu = [p \in Person |-> MenuOf(Loaded(rows[p]).role)]
  /\ pc = [u \in Update |-> "unsent"]
  /\ req = [u \in Update |-> Absent]
  /\ own = [u \in Update |-> Absent]
  /\ seen = [u \in Update |-> Absent]
  /\ outcome = [u \in Update |-> "none"]
  /\ pending = [u \in Update |-> [p \in Person |-> Absent]]

\* What the task of one update does next, failures the code does not cause apart.
Advance(u) ==
  \/ Admit(u) \/ Deny(u) \/ Skip(u) \/ ReadTarget(u) \/ Write(u)
  \/ Sync(u) \/ Reply(u) \/ Commit(u)
  \/ Refuse(u) \/ Collide(u) \/ Abort(u)

Next ==
  \/ \E u \in Update :
       \/ \E r \in Request : Receive(u, r)
       \/ Advance(u)
       \/ Fail(u)
  \/ Crash \/ Boot \/ Tick

Spec == Init /\ [][Next]_vars

\* asyncio runs every ready task, Telegram calls time out, the database hands on
\* its locks and breaks deadlocks, and a supervisor restarts the process.
Fairness == WF_vars(Boot) /\ \A u \in Update : WF_vars(Advance(u))

FairSpec == Spec /\ Fairness

---------------------------------------------------------------------------
(* Properties *)

\* Every variable keeps its type.
TypeOK ==
  /\ up \in BOOLEAN /\ crashes \in Nat /\ clock \in Nat
  /\ rows \in Table
  /\ log \in [Person -> Seq(Line)]
  /\ knocks \in [Person -> Seq(Nat)] /\ told \in [Person -> Seq(Nat)]
  /\ menu \in [Person -> {"staff", "member"}]
  /\ pc \in [Update -> Live \cup {"unsent", "done"}]
  /\ req \in [Update -> Request \cup {Absent}]
  /\ \A u \in Update : pc[u] \in Live => req[u] \in Request
  /\ own \in [Update -> Row \cup {Absent}] /\ seen \in [Update -> Row \cup {Absent}]
  /\ outcome \in [Update -> {"none", "denied", "knock", "changed"}]
  /\ pending \in [Update -> Table]

RoleIn(table, p) == Loaded(table[p]).role

\* Super admins come from the environment only: while the bot is polling nobody
\* becomes or stops being one, whatever stale copies the tasks work from and
\* whatever role a button asks for (RoleCb takes any), and a restart only adds (core/roles.py "seeded from the environment only",
\* sync_super_admins "Only ever promotes").
SuperAdminsFromEnv ==
  [][ \A p \in Person :
        /\ RoleIn(rows, p) = "super_admin" => RoleIn(rows', p) = "super_admin"
        /\ up /\ RoleIn(rows', p) = "super_admin" => RoleIn(rows, p) = "super_admin" ]_vars

\* A role never changes without a history line, appended in the same step, that
\* names the new role; and no line is ever rewritten (models/audit.py: an action
\* and its line commit or roll back together).
RoleChangesAreLogged ==
  [][ \A p \in Person :
        /\ SubSeq(log'[p], 1, Len(log[p])) = log[p]
        /\ RoleIn(rows', p) # RoleIn(rows, p) =>
             /\ Len(log'[p]) = Len(log[p]) + 1
             /\ log'[p][Len(log'[p])].role = RoleIn(rows', p) ]_vars

\* The history of a person tells their row: each line starts from the role the
\* one before it left, and the last names their role and who granted it
\* (models/user.py "Who granted the current role").
HistoryTellsTheRow ==
  \A p \in Person : log[p] # <<>> =>
    LET last == log[p][Len(log[p])]
    IN /\ RoleIn(rows, p) = last.role
       /\ last.actor # Nobody => rows[p].grantedBy = last.actor
       /\ \A i \in 1 .. Len(log[p]) - 1 : log[p][i].role = log[p][i + 1].prev

\* Somebody on the attempts list (list_recent_denied) has a history line that
\* says so, no later than their last attempt, although most attempts write none
\* and granting clears the list.
AttemptsAreLogged ==
  \A p \in Person : rows[p] # Absent /\ rows[p].lastDenied # Never =>
    \E i \in 1 .. Len(knocks[p]) : knocks[p][i] <= rows[p].lastDenied

\* Every update that has reached the bot is finished: no handler waits forever
\* for a row, however the updates lock each other's rows.
EveryUpdateEnds == \A u \in Update : pc[u] = "contact" ~> pc[u] = "done"

Members == INSTANCE MemberRegister WITH
  roles   <- [p \in Person |-> RoleIn(rows, p)],
  granter <- [p \in Person |-> Loaded(rows[p]).grantedBy],
  history <- log

\* Under SQLite's lock, transactions that overlap, fail, lose the lock or die
\* with the process come to single steps: every change of a role is one that its
\* author might make when, or before, they wrote, to the role the target has in
\* the table, with the line that belongs to it.
ImplementsMembers == Members!Promise

---------------------------------------------------------------------------
(* What the documentation says and the interleavings break *)

\* "Nothing past this point runs for a non-member" (middlewares/access.py): while
\* a handler runs its sender is a member in the table.
GateHolds ==
  \A u \in Update : pc[u] \in {"handler", "write", "sync"} => IsMember(RoleIn(rows, From(u)))

=============================================================================
