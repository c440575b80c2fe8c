---------------------------- MODULE MintingProofs ----------------------------
(***************************************************************************)
(* Proofs about Minting, for any types, seeds, batches and batch sizes.    *)
(***************************************************************************)
EXTENDS Minting, FiniteSetTheorems, TLAPS

\* An open batch has the counter to itself, and it stands where it was read.
Locking ==
  \A b \in Batch : Reserved(b) =>
    /\ first[b] = next[ask[b].type]
    /\ \A c \in Batch \ {b} : Reserved(c) => ask[c].type # ask[b].type

\* What is inserted and not committed collides with nothing: the unique index
\* has seen it, and blocks whoever comes later.
Fresh ==
  \A b \in Batch : pc[b] = "send" =>
    /\ Codes(b) \cap Issued = {}
    /\ \A c \in Batch \ {b} : pc[c] = "send" => Codes(c) \cap Codes(b) = {}

\* The cards are those of the committed batches, all of them and no others.
Committed ==
  /\ \A card \in issued :
       pc[card.batch] = "done" /\ card.type = ask[card.batch].type /\ card.n \in Numbers(card.batch)
  /\ \A b \in Batch : pc[b] = "done" =>
       /\ \A n \in Numbers(b) : [batch |-> b, type |-> ask[b].type, n |-> n] \in issued
       /\ first[b] + ask[b].count <= next[ask[b].type]

\* Numbers run from the seed to the counter, and no two cards share a code.
Counters ==
  /\ \A type \in Type :
       /\ Seed[type] <= next[type]
       /\ \A card \in issued : card.type = type => card.n \in Seed[type] .. next[type] - 1
       /\ \A n \in Seed[type] .. next[type] - 1 :
            \E card \in issued : card.type = type /\ card.n = n
  /\ \A c, d \in issued : Code(c.type, c.n) = Code(d.type, d.n) => c = d

\* A batch has sent its first cards, as many as it has counted.
Photos ==
  /\ \A card \in delivered :
       /\ pc[card.batch] \in {"send", "done", "failed"}
       /\ card.type = ask[card.batch].type /\ card.n \in Numbers(card.batch)
  /\ \A b \in Batch : pc[b] \in {"unsent", "reserve", "insert"} => sent[b] = 0
  /\ \A b \in Batch : pc[b] = "send" =>
       /\ sent[b] <= ask[b].count
       /\ \A n \in first[b] .. first[b] + sent[b] - 1 :
            [batch |-> b, type |-> ask[b].type, n |-> n] \in delivered

\* Each line is that of one committed batch, and those of a type ascend.
LineTells(line, b) ==
  /\ pc[b] = "done" /\ line.type = ask[b].type /\ line.count = ask[b].count
  /\ line.first = first[b] /\ line.last = first[b] + ask[b].count - 1

Lines ==
  /\ \A i \in 1 .. Len(log) : LineTells(log[i], log[i].batch)
  /\ \A i, j \in 1 .. Len(log) : log[i].batch = log[j].batch => i = j
  /\ \A b \in Batch : pc[b] = "done" => \E i \in 1 .. Len(log) : log[i].batch = b
  /\ \A i, j \in 1 .. Len(log) :
       i < j /\ log[i].type = log[j].type => log[i].last < log[j].first

IInv == TypeOK /\ Locking /\ Fresh /\ Committed /\ Counters /\ Photos /\ Lines /\ IssuedWasDelivered

---------------------------------------------------------------------------

\* What a failure, a crash or a stuttering step does: some open batches fail and
\* nothing else changes.
Ending ==
  /\ UNCHANGED <<register, ask, first, sent, delivered>>
  /\ crashes' \in Nat
  /\ \E S \in SUBSET {b \in Batch : pc[b] \in Live} :
       pc' = [b \in Batch |-> IF b \in S THEN "failed" ELSE pc[b]]

LEMMA StepsOfNext ==
  ASSUME TypeOK, [Next]_vars
  PROVE  \/ Ending
         \/ \E b \in Batch :
              \/ \E type \in Type, count \in Count : Start(b, type, count)
              \/ Reserve(b) \/ Insert(b) \/ Send(b) \/ Commit(b)
<1>1. ASSUME NEW b \in Batch, pc[b] \in Live, Rollback(b)
      PROVE  Ending
  <2>1. pc' = [c \in Batch |-> IF c \in {b} THEN "failed" ELSE pc[c]]
    BY <1>1 DEF Rollback, TypeOK
  <2>2. {b} \in SUBSET {c \in Batch : pc[c] \in Live}
    BY <1>1
  <2> QED BY <1>1, <2>1, <2>2 DEF Rollback, Ending, TypeOK
<1>2. ASSUME Crash
      PROVE  Ending
  <2> DEFINE S == {b \in Batch : pc[b] \in Live}
  <2>1. pc' = [b \in Batch |-> IF b \in S THEN "failed" ELSE pc[b]]
    BY <1>2 DEF Crash
  <2>2. S \in SUBSET {b \in Batch : pc[b] \in Live}
    OBVIOUS
  <2>3. crashes' \in Nat
    BY <1>2 DEF Crash, TypeOK
  <2> QED BY <1>2, <2>1, <2>2, <2>3 DEF Crash, Ending
<1>3. ASSUME UNCHANGED vars
      PROVE  Ending
  <2>1. pc' = [b \in Batch |-> IF b \in {} THEN "failed" ELSE pc[b]]
    BY <1>3 DEF vars, progress, TypeOK
  <2>2. {} \in SUBSET {b \in Batch : pc[b] \in Live}
    OBVIOUS
  <2>3. UNCHANGED <<register, ask, first, sent, delivered>> /\ crashes' \in Nat
    BY <1>3 DEF vars, progress, TypeOK
  <2> QED BY <2>1, <2>2, <2>3 DEF Ending
<1>4. ASSUME NEW b \in Batch, Collide(b) \/ Fail(b)
      PROVE  Ending
  BY <1>1, <1>4 DEF Collide, Fail, Live
<1> QED BY <1>2, <1>3, <1>4 DEF Next, Advance

\* The cards that are inserted are those of the numbers reserved, and the line made
\* from the list of them has its size and its ends.
LEMMA BatchAsInserted ==
  ASSUME NEW b \in Batch, first[b] \in Nat, ask[b].count \in Nat \ {0}
  PROVE  /\ {Cards(b)[i] : i \in DOMAIN Cards(b)} =
              {[batch |-> b, type |-> ask[b].type, n |-> n] : n \in Numbers(b)}
         /\ LineOf(Cards(b)) =
              [batch |-> b, type |-> ask[b].type, count |-> ask[b].count, first |-> first[b],
               last |-> first[b] + ask[b].count - 1]
<1> DEFINE card(n) == [batch |-> b, type |-> ask[b].type, n |-> n]
           size == ask[b].count
<1>1. Cardinality(Numbers(b)) = size
  <2> DEFINE last == first[b] + size - 1
  <2>1. first[b] \in Int /\ last \in Int /\ first[b] <= last /\ last - first[b] + 1 = size
    OBVIOUS
  <2>2. Cardinality(first[b] .. last) = IF first[b] > last THEN 0 ELSE last - first[b] + 1
    <3> HIDE DEF last
    <3> QED BY <2>1, FS_Interval
  <2> QED BY <2>1, <2>2 DEF Numbers
<1>2. Cards(b) = [i \in 1 .. size |-> card(first[b] + i - 1)]
  BY <1>1 DEF Cards
<1>3. /\ DOMAIN Cards(b) = 1 .. size /\ Len(Cards(b)) = size
      /\ \A i \in 1 .. size : Cards(b)[i] = card(first[b] + i - 1)
  BY <1>2
<1>4. {Cards(b)[i] : i \in DOMAIN Cards(b)} = {card(n) : n \in Numbers(b)}
  <2>1. ASSUME NEW i \in 1 .. size
        PROVE  first[b] + i - 1 \in Numbers(b) /\ Cards(b)[i] = card(first[b] + i - 1)
    BY <1>3 DEF Numbers
  <2>2. ASSUME NEW n \in Numbers(b)
        PROVE  \E i \in 1 .. size : Cards(b)[i] = card(n)
    <3>1. n - first[b] + 1 \in 1 .. size /\ first[b] + (n - first[b] + 1) - 1 = n
      BY DEF Numbers
    <3> QED BY <1>3, <3>1
  <2> HIDE DEF card
  <2> QED BY <1>3, <2>1, <2>2
<1>5. /\ 1 \in 1 .. size /\ size \in 1 .. size
      /\ Cards(b)[1] = card(first[b]) /\ Cards(b)[size] = card(first[b] + size - 1)
  BY <1>3
<1> QED BY <1>3, <1>4, <1>5 DEF LineOf

LEMMA TypeStep ==
  ASSUME TypeOK, [Next]_vars
  PROVE  TypeOK'
<1> USE MintingAssumption
<1>1. CASE Ending
  BY <1>1 DEF Ending, TypeOK, register, Live
<1>2. ASSUME NEW b \in Batch, NEW type \in Type, NEW count \in Count, Start(b, type, count)
      PROVE  TypeOK'
  BY <1>2 DEF Start, TypeOK, register, Live, Request
<1>3. ASSUME NEW b \in Batch, Reserve(b)
      PROVE  TypeOK'
  <2>1. ask[b] \in Request
    BY <1>3 DEF Reserve, TypeOK
  <2> QED BY <1>3, <2>1 DEF Reserve, TypeOK, register, Live, Request
<1>4. ASSUME NEW b \in Batch, Insert(b)
      PROVE  TypeOK'
  BY <1>4 DEF Insert, TypeOK, register, Live
<1>5. ASSUME NEW b \in Batch, Send(b)
      PROVE  TypeOK'
  <2>1. ask[b] \in Request
    BY <1>5 DEF Send, TypeOK
  <2> QED BY <1>5, <2>1 DEF Send, TypeOK, register, Live, Request, Card
<1>6. ASSUME NEW b \in Batch, Commit(b)
      PROVE  TypeOK'
  <2>1. ask[b] \in Request /\ first[b] \in Nat /\ ask[b].count \in Nat \ {0}
    BY <1>6 DEF Commit, TypeOK, Request
  <2>2. log' \in Seq(BatchLine)
    <3>1. LineOf(Cards(b)) \in BatchLine
      BY <2>1, BatchAsInserted DEF Request, BatchLine
    <3> QED BY <1>6, <3>1 DEF Commit, TypeOK
  <2>3. issued' \subseteq Card
    <3>1. \A n \in Numbers(b) : [batch |-> b, type |-> ask[b].type, n |-> n] \in Card
      BY <2>1 DEF Request, Card, Numbers
    <3>2. issued' = issued \cup {[batch |-> b, type |-> ask[b].type, n |-> n] : n \in Numbers(b)}
      BY <1>6, <2>1, BatchAsInserted DEF Commit
    <3>3. issued \subseteq Card
      BY DEF TypeOK
    <3> QED BY <3>1, <3>2, <3>3
  <2>4. next' \in [Type -> Nat]
    BY <1>6, <2>1 DEF Commit, TypeOK, Request
  <2> QED BY <1>6, <2>2, <2>3, <2>4 DEF Commit, TypeOK, Live
<1> QED BY <1>1, <1>2, <1>3, <1>4, <1>5, <1>6, StepsOfNext

\* The variables of Minting keep their types, whatever fails or crashes.
THEOREM TypeCorrect == Spec => []TypeOK
<1>1. Init => TypeOK
  BY MintingAssumption DEF Init, Register, TypeOK, Live
<1>2. TypeOK /\ [Next]_vars => TypeOK'
  BY TypeStep
<1> QED BY <1>1, <1>2, PTL DEF Spec

---------------------------------------------------------------------------
(* The inductive invariant, one step at a time *)

\* A step that leaves the register and the committed batches alone.
Kept ==
  /\ UNCHANGED <<next, issued, log>>
  /\ \A b \in Batch :
       /\ pc'[b] = "done" <=> pc[b] = "done"
       /\ pc[b] = "done" => ask'[b] = ask[b] /\ first'[b] = first[b]

LEMMA RegisterKept ==
  ASSUME TypeOK, Committed, Counters, Lines, Kept
  PROVE  Committed' /\ Counters' /\ Lines'
<1>1. \A b \in Batch : pc[b] = "done" => Numbers(b)' = Numbers(b)
  BY DEF Kept, Numbers
<1>2. Committed'
  <2>1. \A card \in issued : card.batch \in Batch
    BY DEF TypeOK, Card
  <2> QED BY <1>1, <2>1 DEF Kept, Committed
<1>3. Counters'
  BY DEF Kept, Counters
<1>4. Lines'
  <2>1. ASSUME NEW i \in 1 .. Len(log)
        PROVE  LineTells(log[i], log[i].batch)'
    <3>1. log[i] \in BatchLine
      BY DEF TypeOK
    <3>2. log[i].batch \in Batch
      BY <3>1 DEF BatchLine
    <3> QED BY <3>2 DEF Kept, Lines, LineTells
  <2>2. \A i, j \in 1 .. Len(log) : log[i].batch = log[j].batch => i = j
    BY DEF Lines
  <2>3. \A b \in Batch : pc'[b] = "done" => \E i \in 1 .. Len(log) : log[i].batch = b
    BY DEF Kept, Lines
  <2>4. \A i, j \in 1 .. Len(log) :
          i < j /\ log[i].type = log[j].type => log[i].last < log[j].first
    BY DEF Lines
  <2>5. log' = log
    BY DEF Kept
  <2> QED BY <2>1, <2>2, <2>3, <2>4, <2>5 DEF Lines
<1> QED BY <1>2, <1>3, <1>4

LEMMA EndingStep ==
  ASSUME IInv, Ending
  PROVE  Locking' /\ Fresh' /\ Committed' /\ Counters' /\ Photos' /\ Lines' /\ IssuedWasDelivered'
<1> USE DEF IInv
<1>1. PICK S \in SUBSET {b \in Batch : pc[b] \in Live} :
        pc' = [b \in Batch |-> IF b \in S THEN "failed" ELSE pc[b]]
  BY DEF Ending
<1>2. \A b \in Batch : pc'[b] = pc[b] \/ (pc[b] \in Live /\ pc'[b] = "failed")
  BY <1>1
<1>3. UNCHANGED <<next, issued, log, ask, first, sent, delivered>>
  BY DEF Ending, register
<1>4. \A b \in Batch : Numbers(b)' = Numbers(b) /\ Codes(b)' = Codes(b)
  BY <1>3 DEF Numbers, Codes
<1>5. Locking'
  BY <1>2, <1>3 DEF Locking, Reserved, Live
<1>6. Fresh'
  BY <1>2, <1>3, <1>4 DEF Fresh, Issued, Live
<1>7. Committed' /\ Counters' /\ Lines'
  BY <1>2, <1>3, RegisterKept DEF Kept, Live
<1>8. Photos'
  BY <1>2, <1>3, <1>4 DEF Photos, Live, TypeOK, Card
<1>9. IssuedWasDelivered'
  BY <1>3 DEF IssuedWasDelivered
<1> QED BY <1>5, <1>6, <1>7, <1>8, <1>9

LEMMA StartStep ==
  ASSUME IInv, NEW b \in Batch, NEW type \in Type, NEW count \in Count, Start(b, type, count)
  PROVE  Locking' /\ Fresh' /\ Committed' /\ Counters' /\ Photos' /\ Lines' /\ IssuedWasDelivered'
<1> USE DEF IInv
<1>1. /\ pc[b] = "unsent" /\ pc'[b] = "reserve"
      /\ \A c \in Batch : c # b => pc'[c] = pc[c] /\ ask'[c] = ask[c]
      /\ UNCHANGED <<next, issued, log, first, sent, delivered>>
  BY DEF Start, TypeOK, register
<1>2. \A c \in Batch : c # b => Numbers(c)' = Numbers(c) /\ Codes(c)' = Codes(c)
  BY <1>1 DEF Numbers, Codes
<1>3. Locking'
  BY <1>1 DEF Locking, Reserved
<1>4. Fresh'
  BY <1>1, <1>2 DEF Fresh, Issued
<1>5. Committed' /\ Counters' /\ Lines'
  BY <1>1, RegisterKept DEF Kept
<1>6. Photos'
  BY <1>1, <1>2 DEF Photos, TypeOK, Card
<1>7. IssuedWasDelivered'
  BY <1>1 DEF IssuedWasDelivered
<1> QED BY <1>3, <1>4, <1>5, <1>6, <1>7

LEMMA ReserveStep ==
  ASSUME IInv, NEW b \in Batch, Reserve(b)
  PROVE  Locking' /\ Fresh' /\ Committed' /\ Counters' /\ Photos' /\ Lines' /\ IssuedWasDelivered'
<1> USE DEF IInv
<1>1. /\ pc[b] = "reserve" /\ pc'[b] = "insert" /\ first'[b] = next[ask[b].type]
      /\ \A c \in Batch : c # b => pc'[c] = pc[c] /\ first'[c] = first[c]
      /\ UNCHANGED <<next, issued, log, ask, sent, delivered>>
  BY DEF Reserve, TypeOK, register
<1>2. \A c \in Batch : c # b => Numbers(c)' = Numbers(c) /\ Codes(c)' = Codes(c)
  BY <1>1 DEF Numbers, Codes
<1>3. Locking'
  BY <1>1 DEF Locking, Reserved, Reserve, CounterFree
<1>4. Fresh'
  BY <1>1, <1>2 DEF Fresh, Issued
<1>5. Committed' /\ Counters' /\ Lines'
  BY <1>1, RegisterKept DEF Kept
<1>6. Photos'
  BY <1>1, <1>2 DEF Photos, TypeOK, Card
<1>7. IssuedWasDelivered'
  BY <1>1 DEF IssuedWasDelivered
<1> QED BY <1>3, <1>4, <1>5, <1>6, <1>7

LEMMA InsertStep ==
  ASSUME IInv, NEW b \in Batch, Insert(b)
  PROVE  Locking' /\ Fresh' /\ Committed' /\ Counters' /\ Photos' /\ Lines' /\ IssuedWasDelivered'
<1> USE DEF IInv
<1>1. /\ pc[b] = "insert" /\ pc'[b] = "send"
      /\ \A c \in Batch : c # b => pc'[c] = pc[c]
      /\ UNCHANGED <<next, issued, log, ask, first, sent, delivered>>
  BY DEF Insert, TypeOK, register
<1>2. \A c \in Batch : Numbers(c)' = Numbers(c) /\ Codes(c)' = Codes(c)
  BY <1>1 DEF Numbers, Codes
<1>3. Locking'
  BY <1>1 DEF Locking, Reserved
<1>4. Fresh'
  BY <1>1, <1>2 DEF Fresh, Issued, Insert, CodesFree
<1>5. Committed' /\ Counters' /\ Lines'
  BY <1>1, RegisterKept DEF Kept
<1>6. Photos'
  <2>1. ask[b].count \in Nat /\ first[b] \in Nat /\ sent[b] = 0
    BY <1>1, MintingAssumption DEF Photos, TypeOK, Request
  <2>2. \A n \in first[b] .. first[b] + sent[b] - 1 : FALSE
    BY <2>1
  <2>3. \A card \in delivered : card.batch \in Batch /\ card.batch # b
    BY <1>1 DEF Photos, TypeOK, Card
  <2> QED BY <1>1, <1>2, <2>1, <2>2, <2>3 DEF Photos
<1>7. IssuedWasDelivered'
  BY <1>1 DEF IssuedWasDelivered
<1> QED BY <1>3, <1>4, <1>5, <1>6, <1>7

LEMMA SendStep ==
  ASSUME IInv, NEW b \in Batch, Send(b)
  PROVE  Locking' /\ Fresh' /\ Committed' /\ Counters' /\ Photos' /\ Lines' /\ IssuedWasDelivered'
<1> USE DEF IInv
<1> DEFINE photo == [batch |-> b, type |-> ask[b].type, n |-> first[b] + sent[b]]
<1>1. /\ pc[b] = "send" /\ sent[b] < ask[b].count /\ sent'[b] = sent[b] + 1
      /\ \A c \in Batch : c # b => sent'[c] = sent[c]
      /\ delivered' = delivered \cup {photo}
      /\ UNCHANGED <<next, issued, log, pc, ask, first>>
  BY DEF Send, TypeOK, register
<1>2. \A c \in Batch : Numbers(c)' = Numbers(c) /\ Codes(c)' = Codes(c)
  BY <1>1 DEF Numbers, Codes
<1>3. Locking'
  BY <1>1 DEF Locking, Reserved
<1>4. Fresh'
  BY <1>1, <1>2 DEF Fresh, Issued
<1>5. Committed' /\ Counters' /\ Lines'
  BY <1>1, RegisterKept DEF Kept
<1>6. Photos'
  <2>1. ask[b].count \in Nat /\ first[b] \in Nat /\ sent[b] \in Nat
    BY <1>1, MintingAssumption DEF TypeOK, Request
  <2>2. photo.n \in Numbers(b)
    BY <1>1, <2>1 DEF Numbers
  <2>3. \A n \in first[b] .. first[b] + sent'[b] - 1 :
          [batch |-> b, type |-> ask[b].type, n |-> n] \in delivered'
    <3>1. \A n \in first[b] .. first[b] + sent'[b] - 1 :
            n \in first[b] .. first[b] + sent[b] - 1 \/ n = first[b] + sent[b]
      BY <1>1, <2>1
    <3> QED BY <1>1, <3>1 DEF Photos
  <2>4. \A card \in delivered' :
          /\ pc[card.batch] \in {"send", "done", "failed"}
          /\ card.type = ask[card.batch].type /\ card.n \in Numbers(card.batch)
    BY <1>1, <2>2 DEF Photos
  <2>5. \A c \in Batch : pc'[c] = "send" =>
          /\ sent'[c] <= ask'[c].count
          /\ \A n \in first'[c] .. first'[c] + sent'[c] - 1 :
               [batch |-> c, type |-> ask'[c].type, n |-> n] \in delivered'
    <3>1. sent'[b] <= ask[b].count
      BY <1>1, <2>1
    <3>2. CASE TRUE
      BY <1>1, <2>3, <3>1 DEF Photos
    <3> QED BY <3>2
  <2>6. \A card \in delivered' : card.batch \in Batch
    BY <1>1 DEF TypeOK, Card
  <2> QED BY <1>1, <1>2, <2>4, <2>5, <2>6 DEF Photos
<1>7. IssuedWasDelivered'
  BY <1>1 DEF IssuedWasDelivered
<1> QED BY <1>3, <1>4, <1>5, <1>6, <1>7

LEMMA CommitStep ==
  ASSUME IInv, NEW b \in Batch, Commit(b)
  PROVE  Locking' /\ Fresh' /\ Committed' /\ Counters' /\ Photos' /\ Lines' /\ IssuedWasDelivered'
<1> USE DEF IInv
<1> DEFINE t == ask[b].type
           new == {[batch |-> b, type |-> t, n |-> n] : n \in Numbers(b)}
           line == [batch |-> b, type |-> t, count |-> ask[b].count, first |-> first[b],
                    last |-> first[b] + ask[b].count - 1]
<1>1. /\ pc[b] = "send" /\ sent[b] = ask[b].count /\ pc'[b] = "done"
      /\ \A c \in Batch : c # b => pc'[c] = pc[c]
      /\ issued' = issued \cup new /\ log' = Append(log, line)
      /\ UNCHANGED <<ask, first, sent, delivered>>
  <2>1. first[b] \in Nat /\ ask[b].count \in Nat \ {0}
    BY MintingAssumption DEF Commit, TypeOK, Request
  <2> QED BY <2>1, BatchAsInserted DEF Commit, TypeOK
<1>2. /\ t \in Type /\ ask[b].count \in Nat \ {0} /\ first[b] \in Nat /\ first[b] = next[t]
      /\ Numbers(b) \subseteq Nat
  BY <1>1, MintingAssumption DEF TypeOK, Request, Locking, Reserved, Numbers
<1>3. next'[t] = next[t] + ask[b].count /\ \A type \in Type : type # t => next'[type] = next[type]
  BY <1>2 DEF Commit, TypeOK
<1>4. \A c \in Batch : Numbers(c)' = Numbers(c) /\ Codes(c)' = Codes(c)
  BY <1>1 DEF Numbers, Codes
<1>5. Issued' = Issued \cup Codes(b)
  <2>1. \A card \in new : card.type = t /\ card.n \in Numbers(b)
    OBVIOUS
  <2>2. ASSUME NEW n \in Numbers(b)
        PROVE  \E card \in new : card.type = t /\ card.n = n
    <3> WITNESS [batch |-> b, type |-> t, n |-> n] \in new
    <3> QED OBVIOUS
  <2> HIDE DEF new
  <2> QED BY <1>1, <2>1, <2>2 DEF Issued, Codes
<1>6. Locking'
  BY <1>1, <1>3 DEF Locking, Reserved, TypeOK, Request
<1>7. Fresh'
  BY <1>1, <1>4, <1>5 DEF Fresh
<1>8. Committed'
  <2>1. ASSUME NEW card \in issued'
        PROVE  pc'[card.batch] = "done" /\ card.type = ask'[card.batch].type
               /\ card.n \in Numbers(card.batch)'
    <3>1. CASE card \in issued
      <4>1. card.batch \in Batch
        BY <3>1 DEF TypeOK, Card
      <4> QED BY <1>1, <1>4, <3>1, <4>1 DEF Committed
    <3>2. CASE card \in new
      <4>1. card.batch = b /\ card.type = t /\ card.n \in Numbers(b)
        BY <3>2
      <4> QED BY <1>1, <1>4, <4>1
    <3> QED BY <1>1, <2>1, <3>1, <3>2
  <2>2. ASSUME NEW c \in Batch, pc'[c] = "done"
        PROVE  /\ \A n \in Numbers(c)' : [batch |-> c, type |-> ask'[c].type, n |-> n] \in issued'
               /\ first'[c] + ask'[c].count <= next'[ask'[c].type]
    <3>1. CASE c = b
      BY <1>1, <1>2, <1>3, <1>4, <3>1
    <3>2. CASE c # b
      <4>1. pc[c] = "done" /\ ask[c].type \in Type /\ ask[c].count \in Nat /\ first[c] \in Nat
        BY <1>1, <2>2, <3>2, MintingAssumption DEF TypeOK, Request
      <4>2. next'[ask[c].type] >= next[ask[c].type] /\ next[ask[c].type] \in Nat
            /\ next'[ask[c].type] \in Nat
        <5>1. next[ask[c].type] \in Nat
          BY <4>1 DEF TypeOK
        <5>2. CASE ask[c].type = t
          BY <1>2, <1>3, <5>1, <5>2
        <5>3. CASE ask[c].type # t
          BY <1>3, <4>1, <5>1, <5>3
        <5> QED BY <5>2, <5>3
      <4>3. first[c] + ask[c].count <= next[ask[c].type]
        BY <4>1 DEF Committed
      <4>4. first[c] + ask[c].count <= next'[ask[c].type]
        BY <4>1, <4>2, <4>3
      <4> QED BY <1>1, <1>4, <4>1, <4>4 DEF Committed
    <3> QED BY <3>1, <3>2
  <2> QED BY <2>1, <2>2 DEF Committed
<1>9. Counters'
  <2>1. ASSUME NEW type \in Type
        PROVE  /\ Seed[type] <= next'[type]
               /\ \A card \in issued' : card.type = type => card.n \in Seed[type] .. next'[type] - 1
               /\ \A n \in Seed[type] .. next'[type] - 1 :
                    \E card \in issued' : card.type = type /\ card.n = n
    <3>0. Seed[type] \in Nat /\ next[type] \in Nat /\ Seed[type] <= next[type]
      BY MintingAssumption DEF TypeOK, Counters
    <3>1. CASE type # t
      <4>1. \A card \in new : card.type # type
        BY <3>1
      <4> HIDE DEF new
      <4> QED BY <1>1, <1>3, <3>1, <4>1 DEF Counters
    <3>2. CASE type = t
      <4>1. Numbers(b) = next[t] .. next'[t] - 1
        BY <1>2, <1>3 DEF Numbers
      <4>2. Seed[t] .. next'[t] - 1 = (Seed[t] .. next[t] - 1) \cup Numbers(b)
        BY <1>2, <1>3, <3>0, <3>2, <4>1
      <4>3. \A card \in new : card.n \in Numbers(b)
        OBVIOUS
      <4>4. ASSUME NEW n \in Numbers(b)
            PROVE  \E card \in new : card.type = t /\ card.n = n
        <5> WITNESS [batch |-> b, type |-> t, n |-> n] \in new
        <5> QED OBVIOUS
      <4>5. Seed[t] <= next'[t]
        BY <1>2, <1>3, <3>0, <3>2
      <4> HIDE DEF new
      <4> QED BY <1>1, <3>2, <4>2, <4>3, <4>4, <4>5 DEF Counters
    <3> QED BY <3>1, <3>2
  <2>2. ASSUME NEW c \in issued', NEW d \in issued', Code(c.type, c.n) = Code(d.type, d.n)
        PROVE  c = d
    <3>1. \A card \in issued : Code(card.type, card.n) \in Issued
      BY DEF Issued
    <3>2. \A card \in new : Code(card.type, card.n) \in Codes(b)
      BY DEF Codes
    <3>3. Codes(b) \cap Issued = {}
      BY <1>1 DEF Fresh
    <3>4. CASE c \in issued /\ d \in issued
      BY <2>2, <3>4 DEF Counters
    <3>5. CASE c \in new /\ d \in new
      BY <2>2, <3>5 DEF Code
    <3> HIDE DEF new
    <3> QED BY <1>1, <2>2, <3>1, <3>2, <3>3, <3>4, <3>5
  <2> QED BY <2>1, <2>2 DEF Counters
<1>10. Photos'
  BY <1>1, <1>4 DEF Photos, TypeOK, Card
<1>11. Lines'
  <2>1. log \in Seq(BatchLine) /\ \A i \in 1 .. Len(log) : log[i] \in BatchLine
    BY DEF TypeOK
  <2>2. /\ Len(log') = Len(log) + 1 /\ log'[Len(log) + 1] = line
        /\ \A i \in 1 .. Len(log) : log'[i] = log[i]
    BY <1>1, <2>1
  <2>3. \A i \in 1 .. Len(log') : i \in 1 .. Len(log) \/ i = Len(log) + 1
    BY <2>1, <2>2
  <2>4. \A i \in 1 .. Len(log) : log[i].batch \in Batch /\ log[i].batch # b
    BY <1>1, <2>1 DEF Lines, LineTells, BatchLine
  <2> DEFINE Tells(l) == /\ pc'[l.batch] = "done" /\ l.type = ask'[l.batch].type
                         /\ l.count = ask'[l.batch].count /\ l.first = first'[l.batch]
                         /\ l.last = first'[l.batch] + ask'[l.batch].count - 1
  <2>5. Tells(line)
    BY <1>1
  <2>6. \A i \in 1 .. Len(log) : Tells(log[i])
    BY <1>1, <2>4 DEF Lines, LineTells
  <2>7. \A i \in 1 .. Len(log') : Tells(log'[i])
    <3> HIDE DEF Tells
    <3> QED BY <2>2, <2>3, <2>5, <2>6
  <2>8. \A i, j \in 1 .. Len(log') : log'[i].batch = log'[j].batch => i = j
    BY <2>2, <2>3, <2>4 DEF Lines
  <2>9. \A c \in Batch : pc'[c] = "done" => \E i \in 1 .. Len(log') : log'[i].batch = c
    <3>1. 1 .. Len(log) \subseteq 1 .. Len(log') /\ Len(log) + 1 \in 1 .. Len(log')
      BY <2>1, <2>2
    <3> QED BY <1>1, <2>2, <3>1 DEF Lines
  <2>10. ASSUME NEW i \in 1 .. Len(log), log[i].type = t
         PROVE  log[i].last < first[b]
    <3>1. log[i].batch \in Batch /\ LineTells(log[i], log[i].batch)
      BY <2>4 DEF Lines
    <3>2. /\ first[log[i].batch] \in Nat /\ ask[log[i].batch].count \in Nat
          /\ first[log[i].batch] + ask[log[i].batch].count <= next[t]
      BY <2>10, <3>1, MintingAssumption DEF TypeOK, Request, LineTells, Committed
    <3>3. next[t] \in Nat
      BY <1>2 DEF TypeOK
    <3> QED BY <1>2, <3>1, <3>2, <3>3 DEF LineTells
  <2>11. \A i, j \in 1 .. Len(log') :
           i < j /\ log'[i].type = log'[j].type => log'[i].last < log'[j].first
    <3>1. line.type = t /\ line.first = first[b]
      OBVIOUS
    <3>2. ASSUME NEW i \in 1 .. Len(log'), NEW j \in 1 .. Len(log'), i < j
          PROVE  i \in 1 .. Len(log) /\ (j \in 1 .. Len(log) \/ j = Len(log) + 1)
      BY <2>1, <2>2, <3>2
    <3> HIDE DEF line
    <3> QED BY <2>2, <2>10, <3>1, <3>2 DEF Lines
  <2> QED BY <2>7, <2>8, <2>9, <2>11 DEF Lines, LineTells
<1>12. IssuedWasDelivered'
  <2>1. Numbers(b) = first[b] .. first[b] + sent[b] - 1
    BY <1>1 DEF Numbers
  <2>2. \A card \in new : card \in delivered
    BY <1>1, <2>1 DEF Photos
  <2> HIDE DEF new
  <2> QED BY <1>1, <2>2 DEF IssuedWasDelivered
<1> QED BY <1>6, <1>7, <1>8, <1>9, <1>10, <1>11, <1>12

---------------------------------------------------------------------------
(* Theorems *)

LEMMA InitIInv == Init => IInv
<1> SUFFICES ASSUME Init PROVE IInv
  OBVIOUS
<1>1. TypeOK
  BY MintingAssumption DEF Init, Register, TypeOK, Live
<1>2. Locking /\ Fresh /\ Committed /\ Photos /\ IssuedWasDelivered
  BY DEF Init, Register, Locking, Fresh, Committed, Photos, IssuedWasDelivered, Reserved
<1>3. Counters
  BY MintingAssumption DEF Init, Register, Counters
<1>4. Lines
  BY DEF Init, Register, Lines
<1> QED BY <1>1, <1>2, <1>3, <1>4 DEF IInv

LEMMA IInvStep ==
  ASSUME IInv, [Next]_vars
  PROVE  IInv'
<1>1. TypeOK'
  BY TypeStep DEF IInv
<1>2. Locking' /\ Fresh' /\ Committed' /\ Counters' /\ Photos' /\ Lines' /\ IssuedWasDelivered'
  <2>1. CASE Ending
    BY <2>1, EndingStep
  <2>2. CASE \E b \in Batch :
               \/ \E type \in Type, count \in Count : Start(b, type, count)
               \/ Reserve(b) \/ Insert(b) \/ Send(b) \/ Commit(b)
    BY <2>2, StartStep, ReserveStep, InsertStep, SendStep, CommitStep
  <2> QED BY <2>1, <2>2, StepsOfNext DEF IInv
<1> QED BY <1>1, <1>2 DEF IInv

\* The strengthening every theorem below rests on.
THEOREM Inductive == Spec => []IInv
<1> QED BY InitIInv, IInvStep, PTL DEF Spec

\* Cards of a type are numbered consecutively from the seed, each number once,
\* for any number of batches, failures and crashes.
THEOREM Numbering == Spec => []NoGapsNoRepeats
<1>1. IInv => NoGapsNoRepeats
  <2> SUFFICES ASSUME IInv, NEW type \in Type
               PROVE  /\ {card.n : card \in {c \in issued : c.type = type}}
                            = Seed[type] .. next[type] - 1
                      /\ \A c, d \in issued : c.type = type /\ d.type = type /\ c.n = d.n => c = d
    BY DEF NoGapsNoRepeats
  <2>1. {card.n : card \in {c \in issued : c.type = type}} = Seed[type] .. next[type] - 1
    BY DEF IInv, Counters
  <2>2. \A c, d \in issued : c.type = type /\ d.type = type /\ c.n = d.n => c = d
    BY DEF IInv, Counters, Code
  <2> QED BY <2>1, <2>2
<1> QED BY <1>1, Inductive, PTL

\* Ranges of one type reserved or committed by two batches are disjoint.
THEOREM Disjointness == Spec => []NoOverlap
<1>1. IInv => NoOverlap
  <2> SUFFICES ASSUME IInv, NEW b \in Batch, NEW c \in Batch, b # c,
                      ask[b] # Unasked, ask[c] # Unasked, ask[b].type = ask[c].type,
                      Reserved(b) \/ pc[b] = "done", Reserved(c) \/ pc[c] = "done"
               PROVE  Numbers(b) \cap Numbers(c) = {}
    BY DEF NoOverlap
  <2> DEFINE t == ask[b].type
  <2>1. /\ t \in Type /\ next[t] \in Nat
        /\ first[b] \in Nat /\ ask[b].count \in Nat /\ first[c] \in Nat /\ ask[c].count \in Nat
    BY MintingAssumption DEF IInv, TypeOK, Request
  <2>2. CASE Reserved(b) /\ Reserved(c)
    BY <2>2 DEF IInv, Locking
  <2>3. CASE Reserved(b) /\ pc[c] = "done"
    BY <2>1, <2>3 DEF IInv, Locking, Committed, Numbers
  <2>4. CASE pc[b] = "done" /\ Reserved(c)
    BY <2>1, <2>4 DEF IInv, Locking, Committed, Numbers
  <2>5. CASE pc[b] = "done" /\ pc[c] = "done"
    <3>1. ASSUME NEW n \in Numbers(b), n \in Numbers(c)
          PROVE  FALSE
      <4>1. /\ [batch |-> b, type |-> t, n |-> n] \in issued
            /\ [batch |-> c, type |-> t, n |-> n] \in issued
        BY <2>5, <3>1 DEF IInv, Committed
      <4>2. [batch |-> b, type |-> t, n |-> n] = [batch |-> c, type |-> t, n |-> n]
        BY <4>1 DEF IInv, Counters
      <4>3. [batch |-> b, type |-> t, n |-> n].batch = [batch |-> c, type |-> t, n |-> n].batch
        BY <4>2
      <4> QED BY <4>3
    <3> QED BY <3>1
  <2> QED BY <2>2, <2>3, <2>4, <2>5
<1> QED BY <1>1, Inductive, PTL

\* Two batches that both committed never sent the same code.
THEOREM CommittedCodesSentOnce == Spec => []TwiceOnlyAfterRollback
<1>1. IInv => TwiceOnlyAfterRollback
  <2> SUFFICES ASSUME IInv, NEW d \in delivered, NEW e \in delivered,
                      Code(d.type, d.n) = Code(e.type, e.n), d.batch # e.batch,
                      pc[d.batch] = "done", pc[e.batch] = "done"
               PROVE  FALSE
    BY DEF TwiceOnlyAfterRollback
  <2>1. ASSUME NEW card \in delivered, pc[card.batch] = "done"
        PROVE  card \in issued
    <3>1. card \in Card
      BY DEF IInv, TypeOK
    <3>2. card = [batch |-> card.batch, type |-> card.type, n |-> card.n] /\ card.batch \in Batch
      BY <3>1 DEF Card
    <3>3. card.type = ask[card.batch].type /\ card.n \in Numbers(card.batch)
      BY DEF IInv, Photos
    <3> QED BY <2>1, <3>2, <3>3 DEF IInv, Committed
  <2>2. d \in issued /\ e \in issued
    BY <2>1
  <2> QED BY <2>2 DEF IInv, Counters
<1> QED BY <1>1, Inductive, PTL

\* Every card on record was sent to the admin who asked for it.
THEOREM NoCardUnsent == Spec => []IssuedWasDelivered
<1>1. IInv => IssuedWasDelivered
  BY DEF IInv
<1> QED BY <1>1, Inductive, PTL

\* The history adds up to the counter, for any batches, failures and crashes.
THEOREM Accounting == Spec => []HistoryAddsUp
<1>1. IInv => HistoryAddsUp
  <2> SUFFICES ASSUME IInv, NEW type \in Type
               PROVE  LET mine == {i \in 1 .. Len(log) : log[i].type = type}
                      IN /\ UNION {log[i].first .. log[i].last : i \in mine}
                              = Seed[type] .. next[type] - 1
                         /\ \A i, j \in mine : i < j => log[i].last < log[j].first
                         /\ \A i \in mine : log[i].count = log[i].last - log[i].first + 1
    BY DEF HistoryAddsUp
  <2> USE DEF IInv
  <2> DEFINE mine == {i \in 1 .. Len(log) : log[i].type = type}
             told(i) == log[i].first .. log[i].last
  <2>1. ASSUME NEW i \in mine
        PROVE  /\ log[i].batch \in Batch /\ pc[log[i].batch] = "done"
               /\ ask[log[i].batch].type = type /\ told(i) = Numbers(log[i].batch)
               /\ log[i].count = log[i].last - log[i].first + 1
    <3> DEFINE b == log[i].batch
    <3>1. log[i] \in BatchLine
      BY DEF TypeOK
    <3>2. b \in Batch /\ LineTells(log[i], b)
      BY <3>1 DEF BatchLine, Lines
    <3>3. first[b] \in Nat /\ ask[b].count \in Nat \ {0}
      BY <3>2, MintingAssumption DEF TypeOK, LineTells, Request
    <3> QED BY <3>2, <3>3 DEF LineTells, Numbers
  <2>2. ASSUME NEW i \in mine, NEW n \in told(i)
        PROVE  n \in Seed[type] .. next[type] - 1
    <3>1. [batch |-> log[i].batch, type |-> type, n |-> n] \in issued
      BY <2>1, <2>2 DEF Committed
    <3> QED BY <3>1 DEF Counters
  <2>3. ASSUME NEW n \in Seed[type] .. next[type] - 1
        PROVE  \E i \in mine : n \in told(i)
    <3>1. PICK card \in issued : card.type = type /\ card.n = n
      BY DEF Counters
    <3>2. /\ card.batch \in Batch /\ pc[card.batch] = "done"
          /\ type = ask[card.batch].type /\ n \in Numbers(card.batch)
      BY <3>1 DEF Committed, TypeOK, Card
    <3>3. PICK i \in 1 .. Len(log) : log[i].batch = card.batch
      BY <3>2 DEF Lines
    <3>4. i \in mine
      BY <3>2, <3>3 DEF Lines, LineTells
    <3> QED BY <2>1, <3>2, <3>3, <3>4
  <2>4. UNION {told(i) : i \in mine} = Seed[type] .. next[type] - 1
    <3> HIDE DEF told, mine
    <3> QED BY <2>2, <2>3
  <2>5. \A i, j \in mine : i < j => log[i].last < log[j].first
    BY DEF Lines
  <2> QED BY <2>1, <2>4, <2>5
<1> QED BY <1>1, Inductive, PTL

\* Minting implements the register: it starts as one, a commit issues a batch
\* and every other step leaves the register as it is.
THEOREM Implementation == Spec => ImplementsRegister
<1>1. Init => Abstract!Register
  BY DEF Init, Register, Abstract!Register
<1> DEFINE AbstractStep ==
      \E b \in Batch, type \in Type, count \in Count : Abstract!Issue(b, type, count)
<1>2. ASSUME IInv, [Next]_vars
      PROVE  AbstractStep \/ UNCHANGED register
  <2>1. ASSUME NEW b \in Batch, Commit(b)
        PROVE  Issue(b, ask[b].type, ask[b].count) /\ ask[b].type \in Type /\ ask[b].count \in Count
    <3>1. /\ pc[b] = "send" /\ ask[b].type \in Type /\ ask[b].count \in Count
          /\ first[b] = next[ask[b].type] /\ next[ask[b].type] \in Nat
      BY <1>2, <2>1, MintingAssumption DEF Commit, IInv, TypeOK, Request, Locking, Reserved
    <3>2. \A card \in issued : card.batch # b
      BY <1>2, <3>1 DEF IInv, TypeOK, Card, Committed
    <3>3. \A n \in Numbers(b) : Code(ask[b].type, n) \notin Issued
      BY <1>2, <3>1 DEF IInv, Fresh, Codes
    <3>4. next' = [next EXCEPT ![ask[b].type] = @ + ask[b].count]
      BY <2>1, <3>1 DEF Commit
    <3>5. first[b] \in Nat /\ ask[b].count \in Nat \ {0}
      BY <3>1, MintingAssumption
    <3> QED BY <2>1, <3>1, <3>2, <3>3, <3>4, <3>5, BatchAsInserted DEF Commit, Issue, Numbers
  <2>2. ASSUME NEW b \in Batch, Commit(b)
        PROVE  AbstractStep
    <3>1. Abstract!Issue(b, ask[b].type, ask[b].count)
      BY <2>1, <2>2 DEF Abstract!Issue, Issue, Abstract!Code, Code, Abstract!Issued, Issued
    <3> QED BY <2>1, <2>2, <3>1
  <2>3. CASE Ending
    <3>1. UNCHANGED register
      BY <2>3 DEF Ending
    <3> QED BY <3>1
  <2>4. ASSUME NEW b \in Batch,
               \/ \E type \in Type, count \in Count : Start(b, type, count)
               \/ Reserve(b) \/ Insert(b) \/ Send(b)
        PROVE  UNCHANGED register
    BY <2>4 DEF Start, Reserve, Insert, Send
  <2> HIDE DEF AbstractStep
  <2> QED BY <1>2, <2>2, <2>3, <2>4, StepsOfNext DEF IInv
<1> QED BY <1>1, <1>2, Inductive, PTL DEF Spec, ImplementsRegister, Abstract!Promise, Abstract!register, register

=============================================================================
