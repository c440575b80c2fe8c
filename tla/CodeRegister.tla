----------------------------- MODULE CodeRegister -----------------------------
(***************************************************************************)
(* What minting promises, with no transactions, locks or Telegram in it:   *)
(* a register of printed codes that grows one whole batch at a time. A     *)
(* batch takes the next numbers of its type, all of them fresh codes, and  *)
(* leaves exactly one history line. Minting implements this (MintingProofs).*)
(***************************************************************************)
EXTENDS Integers, Sequences

CONSTANTS
  Type,   \* coin denominations, power-pass grades, store-card designs
  Stem,   \* the fixed part of a type's codes
  Seed,   \* the first number the bot hands out, after those issued by hand
  Batch,  \* the minting requests
  Count   \* batch sizes clean_batch_count accepts

VARIABLES
  next,   \* the counter tables: the next number of each type
  issued, \* the card tables
  log     \* the batch lines of audit_log

register == <<next, issued, log>>

\* format_code: stem and counter. No stem is a prefix of another type's code.
Code(type, n) == <<Stem[type], n>>

Issued == {Code(card.type, card.n) : card \in issued}

Register ==
  /\ next = Seed /\ issued = {} /\ log = <<>>

Issue(b, type, count) ==
  LET numbers == next[type] .. next[type] + count - 1 IN
  /\ \A card \in issued : card.batch # b
  /\ \A n \in numbers : Code(type, n) \notin Issued
  /\ next' = [next EXCEPT ![type] = @ + count]
  /\ issued' = issued \cup {[batch |-> b, type |-> type, n |-> n] : n \in numbers}
  /\ log' = Append(log, [batch |-> b, type |-> type, count |-> count,
                         first |-> next[type], last |-> next[type] + count - 1])

Promise ==
  Register /\ [][\E b \in Batch, type \in Type, count \in Count : Issue(b, type, count)]_register

=============================================================================
