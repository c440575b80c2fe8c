# Power Bank bot: a TLA+ model

The bot (`src/powerbank`) is one asyncio process that talks to Telegram and to
one SQL database, SQLite by default and PostgreSQL in production. It decides
who may use it, lets its members issue account cards, and lets super admins
mint batches of numbered codes (coin notes, power passes, store cards). This
directory models the parts of it in which the order of events matters, checks
them with TLC and proves the most important results with TLAPS.

## The system

Every Telegram update becomes a task of its own (`start_polling`), and all
tasks interleave at every `await`. A task runs one chain:

```
FSM state read -> DatabaseMiddleware -> UserMiddleware -> AccessMiddleware -> filters -> handler
                  opens a transaction   loads and touches  turns non-members
                                        the sender's row   away
```

and the transaction commits when the handler returns, or rolls back when it
raises (`db/session.py`). Components meet in three places: the `users` table,
`audit_log` (each action adds its history line in its own transaction), and
Telegram, which keeps what it was sent whatever the database does afterwards.

| Component | State | Operations | What is hard | What makes it correct |
|---|---|---|---|---|
| Role rules (`core/roles.py`) | none | `can_grant`, `can_revoke` | nothing by itself | only ever used on roles that are still true |
| Access (`services/access.py`, `services/users.py`, middlewares, `bot/commands.py`, `__main__.py`) | `users` rows, membership lines, the "/" menus | contact, knock, grant, revoke, seed at start | read, await, write on stale copies; row locks and deadlocks; rollback after a side effect; crash | super admins only from the environment; a role and its line change together; the history tells the row; every update ends |
| Minting (`services/coins.py`, `power_pass.py`, `store_cards.py`, `bot/screens.py`) | counters, cards, batch lines, photos sent | reserve, insert, log, send, commit | concurrent batches, failure after photos, crash, shared stems | gapless and unique numbering; lines that add up to the counter; nothing issued unsent |
| Flows (`bot/handlers/*`, FSM) | per chat: state and collected data, in memory | open, collect, submit, ask, escape | state read before the wait for the sender's row; data cleared before the act and not restored by a rollback; leftovers of abandoned flows; lost at restart | one act per conversation, of the values typed in it; an ended flow stays ended, but for an update already under way |
| Account cards (`services/cards.py`) | `cards`, lines | issue, look up | check, await, insert on the bank number; a lookup whose line is rolled back | one card per number, each with a line |
| History pages (`services/audit.py`, `handlers/history.py`, `history_nav`) | `audit_log`; the screens and buttons there are | page, turn, filter by person | count and page are two queries; lines appear meanwhile, not in the order of their time; old buttons | who pages to the end has seen everything; a page has what its count promised |
| Input validation (`services/batches.py`, `cards.py`) | none | cleaning typed values, search by number | Unicode digits, borders, zeros | accepts exactly what the next step can take; finds again what it took |
| Rendering (`render/engine.py`) | none | fit a value into its box, draw it | sizes in steps of two, outline, narrow boxes | nothing outside its box, nothing smaller than need be |
| Migrations (`src/migrations`) | the schema, `alembic_version`, all rows | upgrade, downgrade | DDL outside the transaction on SQLite; failures and retries; rows carried over; a history made from rows | whole revisions; no card, number or change lost; retries arrive |
| Texts, keyboards, configuration, logging | none | | | see the end |

`PROJECT.json` lists the components with their sources, and every hazard with
the line at which it bites.

## Modules

| Module | Models |
|---|---|
| `Roles` | `core/roles.py`: ranks and permission predicates, as operators |
| `MemberRegister` | abstract specification of access control: a register of roles with its history |
| `Access` | one update after another through the middlewares and the grant and revoke handlers, with transactions, locks, failures, crash, seeding and the clock |
| `AccessProofs` | theorems about `Access` |
| `MemberProofs` | theorem: `Access` implements `MemberRegister` under SQLite's lock |
| `MCAccess` | people, requests and first tables for TLC |
| `CodeRegister` | abstract specification of minting: a register that grows by whole batches |
| `Minting` | a batch from the typed size to the commit, with failures and crash |
| `MintingProofs` | theorems about `Minting`, its refinement of `CodeRegister` among them |
| `MCMinting` | types, stems and seeds for TLC |
| `Flows` | conversations: dispatcher, FSM storage, every guided flow, the account card and its lookup |
| `FlowsProofs` | theorems about `Flows` |
| `MCFlows` | people, requests and conversations under way for TLC |
| `History` | pages of the audit log under concurrent writers, by buttons of any age |
| `HistoryProofs` | theorems about `History` |
| `MCHistory` | first lines for TLC |
| `Values` | from the characters typed to the value drawn: cleaning, search, `fit_text` |
| `ValuesProofs` | theorems about `Values` |
| `MCValues` | characters, boxes and a font for TLC |
| `Schema` | what the revisions bring, seed and recover, as operators |
| `Releases` | abstract specification of migrations: from revision to revision in one step |
| `Migrations` | the chain run statement by statement on either database, and the bot's writes in between |
| `MigrationsProofs` | theorems about `Migrations`: types, cards, whole revisions, fitting scripts |
| `SeriesProofs` | theorems about what `Migrations` carries along: numbers, roles, history; and that it implements `Releases` |
| `MCMigrations` | people, types and revisions for TLC |

### Access

`rows`, `log` and `knocks` are the committed tables; `pending[u]` holds the row
versions the transaction of update `u` has flushed and not committed. An
uncommitted version is a row lock: PostgreSQL makes the next writer of that row
wait, SQLite the next writer of any row (`DbWideLock`). `own[u]` and `seen[u]`
are the sender's and the target's row *as the session loaded them*. They do not
follow the table, which is what SQLAlchemy's identity map does, and they are
what every decision of the code is taken on.

| Action | Code |
|---|---|
| `Receive` | `UserMiddleware`, the SELECT of `record_contact` |
| `Admit`, `Deny` | the flush of `record_contact`, then `AccessMiddleware` and `record_denied_attempt` |
| `Skip` | the `IsStaff` filter, and handlers that change no role |
| `ReadTarget`, `Write`, `Refuse` | `grant_role` and `revoke_access`: the SELECT, the checks, the flush |
| `Sync` | `sync_for_user`: the menu, published before the commit |
| `Reply`, `Commit`, `Rollback` | the answer, then the end of `session_scope` |
| `Collide` | the unique constraint on `telegram_id` |
| `Fail` | any exception of a Telegram or database call, at any await |
| `Abort` | SQLite's lock timeout; PostgreSQL's deadlock detector |
| `Crash`, `Boot` | the process dies; it starts, seeds and publishes menus |
| `Tick` | the wall clock, counted in ticks of which `Cooldown` make five minutes |

An UPDATE names only the columns whose new value differs from the loaded one
(`Column`): the rest keep what is stored. This is why concurrent grants mix.

Left out: profile columns and `role_granted_at` (nothing is decided on them),
`is_banned` (no code sets it), updates without a sender. Consecutive flushes
under a lock that is held already are one step. A crash in the middle of `Boot`
is a `Boot` followed by `Crash`: seeding is one transaction, and menus may
reach any subset of the staff. The history is kept per target, since no
property relates lines of different people.

`MemberRegister` is what a reader of `services/access.py` would like to assume: a
change of role is one step, decided on the role the target has at that moment,
with one line. Under SQLite's lock `Access` implements it (`ImplementsMembers`):
the flush of `record_contact` takes the lock before the target is read. The
sender's own row is read earlier, so the authority may be one that the sender had
and has lost meanwhile; the register says so (`Had`), and without that the run
finds the property violated. On PostgreSQL it is false, for the reason that
`access_history` shows.

### Minting

The three services differ in their tables and stems only; `Type` ranges over
all of them. The counter row is locked from `Reserve` to the end of the
transaction (`CounterFree`); a code is a stem with a number, so two types that
share a stem may collide (`Insert`, `Collide`). The history line is made as
`record_batch` makes it, from the cards inserted (`Cards`, `LineOf`). `delivered` is what Telegram was
sent: it only grows. SQLite's single lock is taken before the handler runs, so
its behaviours are those in which batches do not overlap, and are included.

### Flows

A conversation is `fsm[p]`: the state (a flow and a position in it) and the data
collected so far. `Steps` gives each flow's StatesGroup as the keys its steps
store, which makes one `Collect` out of the eight handlers that store a value and
one `Submit` out of the five that act. An update is read against the state
twice: `Arrive` copies the state into `raw`, as the dispatcher's FSM middleware
does before any other middleware, and the handler finds the *data* only after
`Turn`, when it has got past `record_contact`. Telegram clients can send a second
message meanwhile, so `raw` may be out of date.

| Action | Code |
|---|---|
| `Arrive` | the dispatcher: a task, and the state it reads |
| `Open` | a menu button, which leaves the data alone, or a command, which clears it |
| `Collect`, `Reject` | a step: the value is cleaned and stored, or refused |
| `Submit`, `Lose` | the last step: data read, storage cleared; a missing key raises |
| `Insert`, `Collide` | `issue_card` under `unique(bank_number)`; a batch or a grant counts as done |
| `Ask`, `Lookup` | flows that only ask; a card looked up, with its line |
| `Escape` | `/start`, cancel, the panels |
| `Ignore` | no handler of any router matches |
| `Commit`, `Rollback`, `Fail`, `Crash` | as above; a crash empties the storage, a rollback does not touch it |

A typed value is a bank number or `Bad`, since the number is the only value that
two conversations share; a pressed button is the flow it belongs to. Each value
carries the update that gave it (`by`), each conversation the update that opened
it, and an idle one the last update that had arrived when it ended (`since`): no
guard reads them, the properties do. SQLite's lock only
removes behaviours here (updates of different people do not overlap).

### History

Each writer is a transaction that adds one line. On PostgreSQL the line's `at`
is the time its transaction began (`Begin`), on SQLite the time of its INSERT
(`Add`), and SQLite's lock keeps everybody else out meanwhile, the reader too,
since every update starts with a write. The reader's updates wait for each
other, for they hold the reader's own row, but come in any order: `pressed` is a
set of requests, `handling` the one between its two queries.

| Action | Code |
|---|---|
| `Begin`, `Add`, `Commit`, `Rollback` | `session_scope` and `record`, for any action that leaves a line |
| `Open` | `open_history`, or `person_got_target` when it has found somebody: page 0 |
| `Turn` | a paging button of `history_nav`, of the screen as it is now |
| `Count`, `Fetch` | the two queries of `history`, the second with what `_page_screen` shows |
| `Lose` | the edit of the message fails |

A screen keeps `pages` of the count it was made from, so its buttons may be out
of date; each message keeps them until it is edited. `since`, `seen`, `met` and
`slipped` are read by properties only.

### Values

A character is its kind and digit: kinds are what `split`, `translate`, `isdigit`
and `int()` tell apart. Digits of scripts that nothing translates are a kind of
their own ("decimal"): `int()` reads them, but `lstrip("0")` does not take their
zeros off, so a number in them with enough zeros before it is refused. `Type` builds any text; `SendCount` and `SendValue` are
the steps of a flow that clean it, and what is accepted goes to `FitText`, whose
four actions are the iterations of `fit_text`'s two loops (`Shrink`, `Smallest`,
`Clip`, `Clipped`). `Width` is a constant operator, so the font is arbitrary. That an ellipsis of the
smallest size fits into every box is assumed: the boxes of `assets/layouts` are
620 pixels wide and more, and their smallest sizes 40 points at most.
The bank number appears with its zeros, as `formatted_number` prints it.

### Migrations

`Up` and `Down` list each revision's statements in order; a statement says what
it needs, adds to and takes from the schema, and what it does to rows (`After`).
`conn` is the database as the running command sees it, `db` as it is committed.
They differ while a transaction is open: from the start on PostgreSQL, from the
first row written on SQLite, whose driver begins transactions at INSERT, UPDATE
or DELETE only. Batch mode, which SQLite needs for constraints, makes a copy of
the table first (`CreateCopy`, DDL), then fills it (an INSERT), drops the old
table and renames (`Execute`).

| Action | Code |
|---|---|
| `Upgrade`, `Downgrade` | `alembic upgrade` (`make migrate` for the latest) and `downgrade` |
| `CreateCopy`, `Execute`, `Record` | the statements of a script, then its version row |
| `Commit` | the end of `engine.begin()` |
| `Raise`, `Fail`, with `Rollback` | a statement that cannot be done; a lost connection |
| `Grant`, `Revoke`, `Promote`, `Issue`, `Mint` | the bot's writes that a migration carries over, each as one transaction |

The bot does not run while a command does, and runs on a whole schema only.
What it wrote on earlier revisions is taken to be what today's services write
on the columns there were, since those releases are not in the repository. A
column that does not exist holds its default, so that rows have one shape.
The ends of a recovered batch are the least and the greatest of its codes *as
text* (`Before`); a code has at least `Padding` digits, four to six in the bot.
`Releases` states the same in closed form: one step per command, each row's fate
given by the revisions passed. `facts` (the last change of each role, the
batches, the numbers sold, the tables dropped) is read by properties only.

## Checks

| Run | Question | Answer |
|---|---|---|
| `access_postgres` | two updates under row locks, 4 people, a crash and a restart: do only env-listed people become super admins whatever a button carries, is every role change logged, does every update end? | yes |
| `access_sqlite` | three updates under SQLite's lock, with a clock: does the history tell the row, are attempts logged, refinement? | yes |
| `access_gate` | does nothing run for a non-member? | no |
| `access_history` | does the history tell the row on PostgreSQL? | no |
| `flows` | four updates of two people, with failures and a restart: one card per number, values used once, whole submits, ended flows stay ended? | yes |
| `flows_start` | does /start always escape a half-finished flow? | no |
| `minting` | three batches over three types: numbering, history, delivery, progress, refinement? | yes |
| `minting_twice` | is no code sent twice? | no |
| `history` | two writers, up to four presses, two pages and more: does paging to the end show every line, does no page fall short, do lines appear near the top? | yes |
| `values` | every text of five characters, four boxes: do numbers mean what they spell, are they found again, is what is drawn inside its box and no smaller than need be, do the loops end? | yes |
| `migrations` | both databases, up, down and up again, one failure anywhere, three writes of the bot: whole revisions, scripts that fit one another, cards, numbers and history kept, retries, refinement? | yes |
| `migrations_backfill` | does the recovered history name who granted a member's role, or at least the batches exactly? | no |

The runs that answer "no" each disagree with a sentence of the code or its docs,
quoted in `PROJECT.json` under "findings". In words:

* *The gate.* `record_contact` reads the sender, then waits for the sender's
  row. A removal that commits while it waits is not seen.
* *The history.* `grant_role` reads without a lock and writes only what differs
  from what it read. Two grants of one person that overlap leave a row that
  names a granter other than the last line's.
* *Codes sent twice.* Photos go out before the commit. A failed batch leaves its
  codes with the admin, and the next batch gets the same ones.
* */start.* The filters go by the state the dispatcher read when the update
  arrived. A text sent just before `/start`, and handled just after it, sets the
  next state of the flow that `/start` has ended. `StaysEscaped` says that
  nothing else takes a flow up again, for anybody.
* *The recovered history.* Seeding a member leaves who granted their old role on
  the row, and the backfill tells a grant of `super_admin` by that person. And it
  compares codes as text: a batch that crosses 9999 gets the ends 10000 and 9999.
  The property asks for one of the two only; the run shows one history that breaks
  both. What does hold is in `BackfillTellsLastChange` (who last changed the role
  by hand) and `HistoryAccounts` (the size always, the ends where the codes have
  one length).

Five hazards are in the models and have no run of their own. Two attempts of one
stranger that overlap both find the window open and are both answered. Of two
employees who give one bank number, the one whose insert is refused is told to
choose another number, but the flow was cleared before the insert, so the number
typed next is ignored; no second card comes of it (`OneCardPerNumber`). The two
join ranges share a stem and meet after 1796 ranked cards, from where on
ranked batches fail: the seeds of `minting` are near each other, so it goes
there, and `NoGapsNoRepeats` and `EveryBatchEnds` hold across the border. The "/"
menu is published before the commit, and a failed commit leaves it (`Sync`, then
`Rollback`): it decides nothing, but shows staff commands to somebody who is not
staff, until their role changes again. And the details of a looked-up card go
out before its image and the commit; if the image fails, the line that logs the
lookup is rolled back (`Fail` in phase `lookup`), although the details were read.

**Bounds.** Two concurrent updates suffice for every disagreement found and for
a two-party deadlock; the SQLite run takes three so that an update can come
between the read and the write of another while a third has written. The
requests cover refusals, self-removal, removals in both directions, a first
contact racing a grant, and buttons that no screen shows: the role in one comes
from the client, and may be `super_admin` or `none`. `MaxClock = 3` with `Cooldown = 1` lets a window open,
close and open again. `MaxCrashes = 1` puts a crash and a restart at every
point. In `Minting` three batches of sizes 1 and 2 with the ranked counter one
card below the unranked seed make a batch end exactly at, and run across, the
border.

In `Flows`, of the two people, `p` is patient: `p` sends the next
update when the last one is done. `q` is not. `SubmitsAreWhole` is
about patient people only, because it is false for the others: whoever sends two
messages at once can run a step on a state that the first has left, which makes
the handler find no data (`Lose`). The code promises nothing about that, but
`OneCardPerNumber`, `EachValueUsedOnce` and `StaysEscaped` hold for everybody.
`StaysEscaped` excepts updates that were on their way when the flow ended, the
case of `flows_start`, which needs two updates only. Four
updates are enough because the conversations begin under way: both people near the
end of a card (`q` gives the number that `p` has given, both submit, and the fourth
repeats), or `p` about to look a card up, or with a pass chosen (open another flow,
choose, submit, repeat), and `q` before the size of a batch. From each of them a
member can be added from the first step to the last. `MaxCrashes = 1` puts a restart between any two steps.

In `History`, pages of two lines, three lines at first and two more give a
last page that is full, one that is not, and a page that has come into being
since the button was made, and let a whole page of lines slip in
between the two queries; four presses open, turn, press an old button and open
anew on another filter. Two searched filters are enough, since lines matter only
as matching or not. In `Values`, bank numbers of two digits and batches of up to
eleven put the borders (too long, zero, one more than the most) into texts of
five characters with zeros and space to spare. The boxes hold everything, force
each loop, and one has room for the ellipsis alone. In `Migrations` the commands name
revisions 0, 3, 5, 8 and 9, so that a command runs one script or several, the
rework of cards is reached with cards of the old shape, and the history is made
both from an empty database and from rows; three writes make a member, a change
and a card or batch. One failure and one downgrade come at every statement. Codes are padded to one
digit where the bot pads to four and more (`Padding`), and batches have one card or
nine, so that a batch that starts a series stays within a length and the next one
crosses to a longer. `migrations_backfill` needs four writes, no failure and the
last two revisions.

**Fairness.** `EveryUpdateEnds` and `EveryBatchEnds` assume weak fairness of each
task's own steps: asyncio runs every ready task, Telegram calls time out, the
database hands a lock on and breaks deadlocks. They assume it of `Boot`, because
a supervisor restarts the process. `Fail`, `Crash` and `Tick` are never assumed to
happen. Weak fairness is enough for a waiting writer because there are finitely
many updates, so a lock is not taken from under it for ever.

`EveryValueIsDrawn` assumes that `fit_text`, which is plain code, goes on.
`RetriesReachLatest` assumes that a command that was started is run to its end
and that whoever deploys repeats `make migrate`; it is stated for PostgreSQL,
since on SQLite a failure can leave DDL behind that makes every further attempt
fail (`Raise`), until somebody removes it by hand.

**Deadlock** is not checked where all updates may be done (`access_*`, `flows*`,
`minting*`), and is checked in `history`, `values` and `migrations`.

**Mutants.** Each property of a passing run is broken by a plausible bug in a
modelled definition (`Mutant:` comments): a dropped guard of `can_grant`, an
unlocked counter, a range with one number too many, a line with the old role,
a session that is not closed, a card inserted unchecked, a state that outlives
the act, a button answered in another flow, a button past the last page, a log
in ascending order, an outline charged once, a column dropped before it is
copied, a counter seeded with the last number used.

## Proofs

The theorems hold for any number of people, updates, requests, types, batches,
sizes, seeds, designs, for any revisions that commands name, and for any bound
on crashes, failures, downgrades, writes and the clock. They assume
`AccessAssumption`, `MintingAssumption`, `FlowsAssumption`, `HistoryAssumption`,
`ValuesAssumption` and `MigrationsAssumption`: the shape of the constants, distinct
null values, positive seeds and sizes, boxes with room for an
ellipsis, and conversations under way that the bot could have.

**Minting.** `Inductive` proves `IInv`. Its core: a batch that has reserved
holds the current value of its counter, and no other batch of its type has
reserved; the issued cards of a type are exactly its seed up to its counter.
The lock gives the first part, the commit (counter and cards in one step) the
second. From it follow `Numbering`, `Disjointness`, `CommittedCodesSentOnce` and
`NoCardUnsent`. `Accounting` needs more of the invariant: each line
tells the cards of its batch (`LineOf` of `Cards`), each committed batch has one,
and the lines of a type name ranges one after the other, in the order they were
committed; that they reach from the seed to the counter is then what the
cards do.
`Implementation` maps each `Commit` to an `Issue` of the register and everything
else to a stutter; that the register's codes are fresh is where the unique
constraint checked at `Insert` must still hold at `Commit`, and `CodesFree`
is what keeps it.

**Access.** `RolesInv` strengthens the type invariant with the lock discipline
(`RowLocks`), what each phase implies about the copies (`Phases`), and
`SupersAgree`: a task's stale copy may be wrong about anything *except* who is a
super admin, because nobody becomes or stops being one while tasks live. That
is the fact that makes `MayChange`, evaluated on stale copies, still protect
super admins, whatever role a request asks for; `SupersAreSeeded` follows. `RolesDue` says that the role a pending
version will install is the one its line will name; `ChangesAreLogged` follows.
`AttemptsLogged` needs that the copy in `own` was in the table once.
`HistoryOnSqlite` needs `HistoryInv`: while a task holds SQLite's lock and has
loaded its target under it, the copy is the row.

**Flows.** `Inductive` proves `IInv`. Its core are two facts. `Stamps`: whatever
is stored was given by an update whose handler has run, so what the next one
gives is new. `Apart`: no value is in a conversation and in an act, or in an act
and one about to commit. Handlers of one person exclude each other (`Serial`),
and `Submit` takes the data and clears the storage in one step; hence `UsedOnce`.
`Uniqueness` rests on `Numbered`: a number that is inserted and not committed is
held by one transaction and in no committed card. For patient people `Alone`
says that the state the dispatcher read is still theirs when the handler runs,
and `Unhurried` that a conversation has its values in order; `Wholeness` follows.
`Escaped` is about everybody and rests on `Stale`: whoever is idle has no update
that read a state, but those that had arrived when the flow ended, since one
that arrives later reads the idle state.

**Members.** `MembersOnSqlite` assumes `DbWideLock`. A commit that changes a role
is a `Grant` or a `Revoke`: `CopiesFresh` says that the target was as the handler
read it, and `EntitledInv` that the sender's role as loaded was in the table once,
since every change after it has left a line with the role before
(`HadGrows`). A boot is a `Seed`; no other step changes what the register holds.

**History.** Positions are counts (`Cardinality` of the lines above), so the
argument is about finite sets: the lines of a log take each position from 0 to
one less than their number, once (`PlacesAreTaken`), hence a page that the count
promised has its lines (`LinesBetween`). Lines only get added, so the position
of a line only grows and by no more than what was added (`LogGrows`,
`StillShown`). `StoreInv` says of the writers that ids are fresh and times not
later than the clock; with `NearTop`, that the lines above a line to be added
were committed since its transaction began, `LinesAppearNearTop` follows.
`ReadInv` says of the reader that the lines from the start which the pages up to
the one shown hold now were all seen (`ShownTo`), which is kept by a page at a
time and by lines pushing down, and that the next page may only be asked for
after those above it (`Turnable`). At the last page at most as many lines are
missing as slipped in between count and page (`ThroughTo`); hence `ReadsThrough`. `PagesAsCounted` needs that buttons name pages that exist, in spite of
clamping: the number of pages never falls.

**Values.** The theorems hold for texts of every length and numbers of any number
of digits. `Number` (what `int()` reads, from the left), `Means` (what the text
says, from the right) and `Ten` are recursive functions, and what holds of them
for every length needs an induction. The library's induction theorems take the
property as an operator, which no installed prover can instantiate; here the
property is a set of numbers, and a set that has 0 and is closed under successor
has every number, since otherwise it would have a least counterexample
(`Induction`, from `NatLessThanWellFounded` and `WFMin`). In the same way
`Recursion` shows that a function defined by recursion exists and `Determined`
that there is only one, so that the definitions may be unfolded.

On these rest: `NumberIsMeaning`; `SignificantIsLength`, that the length left by
`lstrip("0")` tells how large the number is, exactly for ASCII digits and from one
side for all (the model's `NumbersMeanThemselves` says so too); `FormattedNumber`,
that the digits of `zfill` spell the number, for numbers that have no more of them;
and `OneWord`, that `strip()` and `" ".join(split())` leave the same of a text if
either leaves one word. The last needs that the characters kept are at distinct
places without gaps (`PlacesTaken`, `PlacesDiffer`). `BankOfWord` and `CountOfWord`
then say in closed form what the two readers take, and `NumbersMean`,
`SearchFinds` and `ValuesTypes` follow; that one is inductive as it stands.

`InsideTheBox` and `AsLargeAsCanBe` hold for any font, and any layout with room for
an ellipsis (`ValuesAssumption`). Two hypotheses
are theirs, and both are about fonts, for texts and sizes that there are: one
measures in whole units (`Pixels`) and does not get narrower as it gets larger (`Growing`, for the second only; the code
takes it for granted when it goes down from the largest size and stops at the
first that fits). That only texts and sizes get there is `TypeOK`, and at the cut that
the size is the smallest one.

**Migrations.** The chain is fixed: nine revisions of at most five statements each
way. The proofs first tell each statement by its place, the direction, the
revision and the step: `Placed` and `Shifts` say where each change of rows and of
schema is made and that it is made nowhere else, after which an invariant speaks
of places and no proof unfolds a script again. `Steps` reduces every step to one
of eight. Eight invariants are inductive, each on top of earlier ones; all but the
last two say the same of both databases, however often a command fails.

* `Base`: types, and `Control`, which keeps a command between the committed
  revision and its goal, and `conn` equal to `db` while no transaction is open.
  `MigrationsTypes` is a part of it.
* `Cards`: at every place of the rework each card has the form that place gives
  it (owner, issuer or both), ids are its key, and each committed card is among
  those the command sees, on the way down at least the first of its holder. It
  is needed in this detail because a failure on SQLite may stop anywhere, and
  because the constraints the downgrade puts back (`Satisfied`) hold only by what
  the deletions before them did. `MigrationsKeepCards` follows.
* `Numbers`: a counter lies beyond the last number used by hand and beyond every
  number sold whose table has not been dropped. That the bot mints from the
  committed counter is not enough: a downgrade takes the counter away and an
  upgrade seeds it anew, and between creating and seeding there is none. Hence
  `MigrationsNumbersGoOn`.
* `Changes`: the row of a person tells their role, since when, and who last
  changed it by hand, which a seeding leaves; and once the backfill has run, the history is the
  backfill of the rows. `MigrationsRecoverRoles` is about the step that commits it.
* `Tables` and `Logs`: the codes are those of the batches, so grouping them by
  type, admin and instant gives the batches back when no two share all three
  (`Regrouped`; a batch is an interval of numbers, and its size the distance of
  its ends). A recovered line has the ends that `Before` finds, which are those of the
  batch where its codes have one length, as text order is then that of the
  numbers. The history tells the batches and has the cards' lines whether they
  were written as it happened or recovered (`MigrationsAccount`).
* `Whole`: the schema is exactly the one of the place, always with transactional
  DDL and until the first failure without. `MigrationsWhole` reads it between
  scripts. `MigrationsFit` adds that nothing is missing or in the way of the next
  statement; it is the claim that ups and downs were written to match, for every
  combination of goals. It needs `Cards` too, for the constraints.
* `CarriedOver`, with transactional DDL: what the running command sees is what
  the statements it has run so far (`Done`, `Seeded`, `Dropped`) make of the
  committed rows, each table in closed form. One lemma to a statement says that
  it adds itself to those before it (`FillsIssuer` to `DeletesSurplus`); they hold
  only in the order of the script (`Order`). When a command commits, what has run
  is what lies between the two revisions, and the closed form is the one of
  `Releases` (`UpgradeCommits`, `DowngradeCommits`), hence
  `MigrationsImplementReleases`. `Untypedness` is the one fact about the bot it
  needs: cards of a schema without types have none, so that those which the downgrade
  of the rework leaves have none whether or not `card_type` was dropped on the way.

Only model-checked are the liveness properties (`EveryUpdateEnds`,
`EveryBatchEnds`, `EveryValueIsDrawn`, `RetriesReachLatest`), which rest on
fairness and ENABLED, out of the prover's reach. Every invariant of the passing
runs is a theorem. The properties the "no" runs refute are, of course, not proved;
`HistoryTellsTheRow` and `ImplementsMembers` are proved for SQLite only, since on
PostgreSQL they are false.

## Not modelled

* `Access` and `Minting` together: a minting update's lock on its sender's row
  delays that sender's removal. Each has the locks of its own tables only; that a
  lock lasts until its holder's transaction ends is in both.
* The drawing itself (`_draw_value`, `_draw_stretched`, the gradient, scaling):
  pixels. That a render may raise is in `Fail`.
* Texts and the layout of keyboards: wording, no state. What buttons carry is in
  `Flows` and `History`.
* The search by a part of a name: the database's `ilike`.
* Configuration and logging: read once; they appear as constants.
* Of the migrations, indexes and column types, and the offline mode, which prints
  SQL and changes nothing.
