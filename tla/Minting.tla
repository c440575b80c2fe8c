------------------------------- MODULE Minting -------------------------------
(***************************************************************************)
(* Minting a batch of coin notes, power passes or store cards. The three   *)
(* services and handlers are one algorithm over three sets of types.       *)
(*                                                                         *)
(* One update mints one batch inside one transaction: reserve the numbers  *)
(* (UPDATE ... RETURNING locks the counter row), insert the cards, add the *)
(* history line, send every card as a photo, and only then commit.         *)
(*                                                                         *)
(* Counters lock row by row, as on PostgreSQL. SQLite has one lock, taken  *)
(* by record_contact before the handler runs: its behaviours are those of  *)
(* this module in which batches do not overlap.                            *)
(***************************************************************************)
EXTENDS CodeRegister, FiniteSets

CONSTANTS
  Unasked,     \* a batch nobody has asked for yet
  MaxCrashes   \* bound on crashes

ASSUME MintingAssumption ==
  /\ Seed \in [Type -> Nat \ {0}]
  /\ Count \subseteq Nat \ {0}
  /\ MaxCrashes \in Nat
  /\ Unasked \notin [type : Type, count : Count]

VARIABLES
  crashes,
  pc,         \* how far each batch has come
  ask,        \* its type and size
  first,      \* the first number it has reserved
  sent,       \* how many of its photos Telegram has accepted
  delivered   \* every photo ever sent: its batch and its card

progress == <<crashes, pc, ask, first, sent, delivered>>
vars == <<register, progress>>

Live == {"reserve", "insert", "send"}

\* The batches whose transaction has moved its counter and not ended.
Reserved(b) == pc[b] \in {"insert", "send"}

\* Mutant: the end of the range is taken to be part of it.
NumbersInclusive(b) == first[b] .. first[b] + ask[b].count

Numbers(b) == first[b] .. first[b] + ask[b].count - 1
Codes(b)   == {Code(ask[b].type, n) : n \in Numbers(b)}

\* issue_batch: the cards of the batch, in the order of their numbers.
Cards(b) ==
  [i \in 1 .. Cardinality(Numbers(b)) |->
     [batch |-> b, type |-> ask[b].type, n |-> first[b] + i - 1]]

\* record_batch: the size and the ends of a list of cards.
LineOf(cards) ==
  [batch |-> cards[1].batch, type |-> cards[1].type, count |-> Len(cards),
   first |-> cards[1].n, last |-> cards[Len(cards)].n]

---------------------------------------------------------------------------

\* Mutant: the flow's data is cleared before it is read.
StartCleared(b, type, count) ==
  /\ pc[b] = "unsent"
  /\ pc' = [pc EXCEPT ![b] = "reserve"]
  /\ UNCHANGED <<register, crashes, ask, first, sent, delivered>>

\* got_count: the size has been accepted, the flow's data read and cleared.
Start(b, type, count) ==
  /\ pc[b] = "unsent"
  /\ pc' = [pc EXCEPT ![b] = "reserve"]
  /\ ask' = [ask EXCEPT ![b] = [type |-> type, count |-> count]]
  /\ UNCHANGED <<register, crashes, first, sent, delivered>>

\* Mutants: the counter is read and not locked; a rollback keeps it locked.
CounterUnlocked(b) == TRUE
CounterKept(b) ==
  \A c \in Batch \ {b} : Reserved(c) \/ pc[c] = "failed" => ask[c].type # ask[b].type

\* No other transaction holds the counter row.
CounterFree(b) ==
  \A c \in Batch \ {b} : Reserved(c) => ask[c].type # ask[b].type

\* reserve_codes: the counter moves in the transaction; others see it at commit.
Reserve(b) ==
  /\ pc[b] = "reserve" /\ CounterFree(b)
  /\ pc' = [pc EXCEPT ![b] = "insert"]
  /\ first' = [first EXCEPT ![b] = next[ask[b].type]]
  /\ UNCHANGED <<register, crashes, ask, sent, delivered>>

\* An INSERT of a code another transaction has inserted waits for its end.
CodesFree(b) ==
  \A c \in Batch \ {b} : pc[c] = "send" => Codes(c) \cap Codes(b) = {}

\* Mutant: the code column has no unique constraint.
InsertAnyway(b) ==
  /\ pc[b] = "insert"
  /\ pc' = [pc EXCEPT ![b] = "send"]
  /\ UNCHANGED <<register, crashes, ask, first, sent, delivered>>

\* issue_batch: the cards and the history line, flushed under unique(code).
Insert(b) ==
  /\ pc[b] = "insert" /\ CodesFree(b) /\ Codes(b) \cap Issued = {}
  /\ pc' = [pc EXCEPT ![b] = "send"]
  /\ UNCHANGED <<register, crashes, ask, first, sent, delivered>>

\* Mutant: one photo is counted as the whole batch.
SendOne(b) ==
  /\ pc[b] = "send" /\ sent[b] < ask[b].count
  /\ sent' = [sent EXCEPT ![b] = ask[b].count]
  /\ delivered' = delivered \cup {[batch |-> b, type |-> ask[b].type, n |-> first[b] + sent[b]]}
  /\ UNCHANGED <<register, crashes, pc, ask, first>>

\* send_code_card_batch: the next photo reaches the admin's chat.
Send(b) ==
  /\ pc[b] = "send" /\ sent[b] < ask[b].count
  /\ sent' = [sent EXCEPT ![b] = @ + 1]
  /\ delivered' = delivered \cup {[batch |-> b, type |-> ask[b].type, n |-> first[b] + sent[b]]}
  /\ UNCHANGED <<register, crashes, pc, ask, first>>

\* session_scope commits once everything has been sent.
Commit(b) ==
  /\ pc[b] = "send" /\ sent[b] = ask[b].count
  /\ pc' = [pc EXCEPT ![b] = "done"]
  /\ next' = [next EXCEPT ![ask[b].type] = first[b] + ask[b].count]
  /\ issued' = issued \cup {Cards(b)[i] : i \in DOMAIN Cards(b)}
  /\ log' = Append(log, LineOf(Cards(b)))
  /\ UNCHANGED <<crashes, ask, first, sent, delivered>>

---------------------------------------------------------------------------

\* The transaction is rolled back: counter, cards and line are as if the batch
\* had never been asked for. The photos are where they were sent.
Rollback(b) ==
  /\ pc' = [pc EXCEPT ![b] = "failed"]
  /\ UNCHANGED <<register, crashes, ask, first, sent, delivered>>

\* IntegrityError on unique(code).
Collide(b) ==
  pc[b] = "insert" /\ CodesFree(b) /\ Codes(b) \cap Issued # {} /\ Rollback(b)

\* A render, a Telegram call, the database or the commit itself raises.
Fail(b) == pc[b] \in Live /\ Rollback(b)

\* The process dies and is restarted; what it was doing is rolled back.
Crash ==
  /\ crashes < MaxCrashes /\ crashes' = crashes + 1
  /\ pc' = [b \in Batch |-> IF pc[b] \in Live THEN "failed" ELSE pc[b]]
  /\ UNCHANGED <<register, ask, first, sent, delivered>>

---------------------------------------------------------------------------

Init ==
  /\ Register
  /\ crashes = 0
  /\ pc = [b \in Batch |-> "unsent"]
  /\ ask = [b \in Batch |-> Unasked]
  /\ first = [b \in Batch |-> 0] /\ sent = [b \in Batch |-> 0]
  /\ delivered = {}

Advance(b) ==
  \/ Reserve(b) \/ Insert(b) \/ Send(b) \/ Commit(b) \/ Collide(b)

Next ==
  \/ \E b \in Batch :
       \/ \E type \in Type, count \in Count : Start(b, type, count)
       \/ Advance(b)
       \/ Fail(b)
  \/ Crash

Spec == Init /\ [][Next]_vars

\* Every await ends: Telegram calls time out and the lock holder ends its own.
FairSpec == Spec /\ \A b \in Batch : WF_vars(Advance(b))

---------------------------------------------------------------------------
(* Properties *)

Card == [batch : Batch, type : Type, n : Nat]
Request == [type : Type, count : Count]
BatchLine == [batch : Batch, type : Type, count : Nat, first : Nat, last : Nat]

\* Every variable keeps its type.
TypeOK ==
  /\ next \in [Type -> Nat] /\ issued \subseteq Card /\ log \in Seq(BatchLine)
  /\ crashes \in Nat
  /\ pc \in [Batch -> Live \cup {"unsent", "done", "failed"}]
  /\ ask \in [Batch -> Request \cup {Unasked}]
  /\ \A b \in Batch : pc[b] # "unsent" => ask[b] \in Request
  /\ first \in [Batch -> Nat] /\ sent \in [Batch -> Nat]
  /\ delivered \subseteq Card

\* Whatever fails, crashes or overlaps, the cards of a type are numbered without
\* a gap and without a repeat from the seed to just below the counter, so
\* last_codes names the last card there is (format_code "1-based, no gaps").
NoGapsNoRepeats ==
  \A type \in Type :
    /\ {card.n : card \in {c \in issued : c.type = type}} = Seed[type] .. next[type] - 1
    /\ \A c, d \in issued : c.type = type /\ d.type = type /\ c.n = d.n => c = d

\* "Two admins minting the same denomination at once never receive overlapping
\* ranges" (services/coins.py): the ranges of batches still open or committed.
NoOverlap ==
  \A b, c \in Batch :
    /\ b # c /\ ask[b] # Unasked /\ ask[c] # Unasked /\ ask[b].type = ask[c].type
    /\ (Reserved(b) \/ pc[b] = "done") /\ (Reserved(c) \/ pc[c] = "done")
    => Numbers(b) \cap Numbers(c) = {}

\* The history adds up to the counter, whatever overlaps, fails or dies: the lines
\* of a type, in the order they were committed, name ranges that follow each other
\* from the seed to just below the counter, each as long as its size says. Whoever
\* reads the log (record_batch) learns of every card and where the next batch starts.
HistoryAddsUp ==
  \A type \in Type :
    LET mine == {i \in 1 .. Len(log) : log[i].type = type}
    IN /\ UNION {log[i].first .. log[i].last : i \in mine} = Seed[type] .. next[type] - 1
       /\ \A i, j \in mine : i < j => log[i].last < log[j].first
       /\ \A i \in mine : log[i].count = log[i].last - log[i].first + 1

\* No card exists that its admin was not sent: the commit comes after the photos.
IssuedWasDelivered == issued \subseteq delivered

\* A code sent twice was sent by at most one batch that committed: only a batch
\* that failed can have handed out the codes of another.
TwiceOnlyAfterRollback ==
  \A d, e \in delivered :
    Code(d.type, d.n) = Code(e.type, e.n) /\ d.batch # e.batch => pc[d.batch] # "done" \/ pc[e.batch] # "done"

\* Every batch that was asked for ends: the locks on counters and codes cannot
\* hold each other up.
EveryBatchEnds == \A b \in Batch : pc[b] = "reserve" ~> pc[b] \in {"done", "failed"}

\* The detailed specification implements the register.
Abstract == INSTANCE CodeRegister WITH next <- next, issued <- issued, log <- log
ImplementsRegister == Abstract!Promise

---------------------------------------------------------------------------
(* What the documentation says and failures break *)

\* "Two admins minting the same denomination at once never receive overlapping
\* ranges" (services/coins.py), of the codes admins are sent.
NoCodeSentTwice ==
  \A d, e \in delivered : Code(d.type, d.n) = Code(e.type, e.n) => d.batch = e.batch

=============================================================================
