-------------------------------- MODULE Values --------------------------------
(***************************************************************************)
(* From what a person types to what is drawn: the cleaning of a name, a    *)
(* bank number and a batch size (services/cards.py, services/batches.py),  *)
(* the search by number, and the fitting of a value into its box on the    *)
(* card (render/engine.py fit_text), loop by loop.                         *)
(*                                                                         *)
(* A character is told by its kind: digits that int() reads ("ascii",      *)
(* "arabic", and "decimal" of any other script, which nothing translates), *)
(* digits only isdigit() takes for one ("power", as in x²), whitespace,    *)
(* the ellipsis, and all the others ("letter").                            *)
(***************************************************************************)
EXTENDS Integers, FiniteSets, SequencesExt

CONSTANTS
  Typed,       \* the characters typed
  MaxTyped,    \* bound on the length of a text
  BankDigits,  \* BANK_NUMBER_DIGITS
  MaxName,     \* MAX_NAME_LENGTH or MAX_USERNAME_LENGTH
  MaxBatch,    \* MAX_BATCH
  Fields,      \* the boxes of the layouts: max_width, font_size, min_size, stroke
  Width(_, _)  \* textlength of a text at a font size, in a unit, as of the
               \* boxes, that makes both whole: 1/64 of a pixel, as RAQM has it

Character == [kind : {"ascii", "arabic", "decimal", "power", "space", "letter", "ellipsis"}, digit : 0 .. 9]
Field     == [max_width : Nat, font_size : Nat, min_size : Nat, stroke : Nat]

Ellipsis  == [kind |-> "ellipsis", digit |-> 0]

\* The boxes of the layouts (assets/layouts) are 620 pixels wide and more, and their
\* smallest sizes at most 40: an ellipsis of that size fits into each of them.
ASSUME ValuesAssumption ==
  /\ Typed \subseteq Character /\ Fields \subseteq Field
  /\ \A f \in Fields : Width(<<Ellipsis>>, f.min_size) + 2 * f.stroke <= f.max_width
  /\ MaxTyped \in Nat /\ BankDigits \in Nat \ {0} /\ MaxName \in Nat \ {0} /\ MaxBatch \in Nat \ {0}

VARIABLES
  text,    \* what has been typed
  phase,   \* "typing", "answered", or how far the drawing is
  outcome, \* what the last text was taken for
  field,   \* the box drawn into
  shown,   \* the value as it is to be drawn
  size     \* the font size tried, at last used

vars == <<text, phase, outcome, field, shown, size>>

Ascii(d)  == [kind |-> "ascii", digit |-> d]
ASpace    == [kind |-> "space", digit |-> 0]

---------------------------------------------------------------------------
(* Reading a text *)

IsSpace(c) == c.kind = "space"

\* The characters that " ".join(raw.split()) keeps: of each run of whitespace
\* between two words the first.
Kept(raw) ==
  LET word(i) == ~IsSpace(raw[i])
  IN {i \in DOMAIN raw : word(i) \/ (/\ i > 1 /\ word(i - 1)
                                     /\ \E j \in i + 1 .. Len(raw) : word(j))}

\* How many of them there are up to i.
Place(positions, i) == Cardinality({j \in positions : j <= i})

Joined(raw) ==
  [k \in 1 .. Cardinality(Kept(raw)) |-> raw[CHOOSE i \in Kept(raw) : Place(Kept(raw), i) = k]]

\* raw.strip()
Stripped(raw) ==
  LET words == {i \in DOMAIN raw : ~IsSpace(raw[i])}
  IN IF words = {} THEN <<>>
     ELSE SubSeq(raw, CHOOSE i \in words : \A j \in words : i <= j,
                      CHOOSE i \in words : \A j \in words : i >= j)

\* str.isdigit
IsDigit(s) == s # <<>> /\ \A i \in DOMAIN s : s[i].kind \in {"ascii", "arabic", "decimal", "power"}

\* translate(_ARABIC_INDIC)
Translated(s) == [i \in DOMAIN s |-> IF s[i].kind = "arabic" THEN Ascii(s[i].digit) ELSE s[i]]

\* len(text.lstrip("0"))
Significant(s) ==
  Cardinality({i \in DOMAIN s : \E j \in 1 .. i : s[j] # Ascii(0)})

Accepted(number, value) == [is |-> "accepted", number |-> number, value |-> value]
Refused == [is |-> "refused", number |-> 0, value |-> <<>>]   \* UserFacingError
Broken  == [is |-> "broken", number |-> 0, value |-> <<>>]    \* ValueError, for handlers/errors.py

\* int(text), digit by digit from the left, where isdigit() holds.
Number(s) ==
  LET value[i \in 0 .. Len(s)] == IF i = 0 THEN 0 ELSE 10 * value[i - 1] + s[i].digit
  IN value[Len(s)]

IntOf(s) ==
  IF \E i \in DOMAIN s : s[i].kind = "power" THEN Broken ELSE Accepted(Number(s), <<>>)

Ten[n \in Nat] == IF n = 0 THEN 1 ELSE 10 * Ten[n - 1]

\* Mutant: the higher places are not taken off.
FormattedCarry(number) == [i \in 1 .. BankDigits |-> Ascii(number \div Ten[BankDigits - i])]

\* str(number).zfill(BANK_NUMBER_DIGITS)
Formatted(number) == [i \in 1 .. BankDigits |-> Ascii((number \div Ten[BankDigits - i]) % 10)]

CleanName(raw) ==
  LET value == Joined(raw)
  IN IF value # <<>> /\ Len(value) <= MaxName THEN Accepted(0, value) ELSE Refused

\* Mutant: one digit more is let through.
NormalizeLonger(raw) ==
  LET s == Translated(Joined(raw)) IN
  IF ~IsDigit(s) \/ Significant(s) > BankDigits + 1 THEN Refused
  ELSE IF IntOf(s).is = "broken" THEN Broken
  ELSE IF IntOf(s).number = 0 THEN Refused
  ELSE Accepted(IntOf(s).number, Formatted(IntOf(s).number))

NormalizeBankNumber(raw) ==
  LET s == Translated(Joined(raw)) IN
  IF ~IsDigit(s) \/ Significant(s) > BankDigits THEN Refused
  ELSE IF IntOf(s).is = "broken" THEN Broken
  ELSE IF IntOf(s).number = 0 THEN Refused
  ELSE Accepted(IntOf(s).number, Formatted(IntOf(s).number))

CleanBatchCount(raw) ==
  LET s == Joined(raw) IN
  IF ~IsDigit(s) THEN Refused
  ELSE IF IntOf(s).is = "accepted" /\ IntOf(s).number \notin 1 .. MaxBatch THEN Refused
  ELSE IntOf(s)

\* Mutant: the query is read as it was typed.
FindUntranslated(query) ==
  LET s == Stripped(query) IN
  IF ~IsDigit(s) \/ \E i \in DOMAIN s : s[i].kind = "arabic" THEN Refused ELSE NormalizeBankNumber(s)

\* find_card, by number: which one is searched for.
FindCard(query) ==
  LET digits == Translated(Stripped(query)) IN
  IF ~IsDigit(digits) THEN Refused ELSE NormalizeBankNumber(digits)

---------------------------------------------------------------------------
(* Typing *)

Init ==
  /\ text = <<>> /\ phase = "typing" /\ outcome = Refused
  /\ field \in Fields /\ shown = <<>> /\ size = 0

Type(c) ==
  /\ phase = "typing" /\ Len(text) < MaxTyped
  /\ text' = Append(text, c)
  /\ UNCHANGED <<phase, outcome, field, shown, size>>

\* A batch size is not drawn.
SendCount ==
  /\ phase = "typing" /\ phase' = "answered"
  /\ outcome' = CleanBatchCount(text)
  /\ UNCHANGED <<text, field, shown, size>>

\* What is accepted is drawn, a number with its leading zeros.
SendValue(read) ==
  /\ phase = "typing" /\ outcome' = read
  /\ IF read.is = "accepted"
       THEN phase' = "shrink" /\ shown' = read.value /\ size' = field.font_size
       ELSE phase' = "answered" /\ UNCHANGED <<shown, size>>
  /\ UNCHANGED <<text, field>>

\* The next value, for any box.
Again ==
  /\ phase \in {"answered", "drawn"}
  /\ text' = <<>> /\ phase' = "typing" /\ outcome' = Refused
  /\ field' \in Fields /\ shown' = <<>> /\ size' = 0

---------------------------------------------------------------------------
(* fit_text *)

\* Mutant: the outline is charged once.
BudgetOfOneSide == field.max_width - field.stroke

\* The outline is charged on both sides.
Budget == field.max_width - 2 * field.stroke

Fits(s, at) == Width(s, at) <= Budget

\* Mutant: by four.
ShrinkFaster ==
  /\ phase = "shrink" /\ size > field.min_size
  /\ IF Fits(shown, size) THEN phase' = "drawn" /\ size' = size
                          ELSE phase' = phase /\ size' = size - 4
  /\ UNCHANGED <<text, outcome, field, shown>>

\* Two points smaller, while it does not fit.
Shrink ==
  /\ phase = "shrink" /\ size > field.min_size
  /\ IF Fits(shown, size) THEN phase' = "drawn" /\ size' = size
                          ELSE phase' = phase /\ size' = size - 2
  /\ UNCHANGED <<text, outcome, field, shown>>

\* At the smallest size it fits or it is cut.
Smallest ==
  /\ phase = "shrink" /\ size <= field.min_size
  /\ size' = field.min_size
  /\ phase' = IF Fits(shown, field.min_size) THEN "drawn" ELSE "clip"
  /\ UNCHANGED <<text, outcome, field, shown>>

\* Mutant: only a word's end is cut.
ClipWords ==
  /\ phase = "clip" /\ shown # <<>> /\ ~Fits(Append(shown, Ellipsis), size)
  /\ shown' = IF Len(shown) > 1 THEN Front(shown) ELSE shown
  /\ UNCHANGED <<text, phase, outcome, field, size>>

\* One character less.
Clip ==
  /\ phase = "clip" /\ shown # <<>> /\ ~Fits(Append(shown, Ellipsis), size)
  /\ shown' = Front(shown)
  /\ UNCHANGED <<text, phase, outcome, field, size>>

Clipped ==
  /\ phase = "clip" /\ (shown = <<>> \/ Fits(Append(shown, Ellipsis), size))
  /\ shown' = Append(shown, Ellipsis) /\ phase' = "drawn"
  /\ UNCHANGED <<text, outcome, field, size>>

FitText == Shrink \/ Smallest \/ Clip \/ Clipped

Next ==
  \/ \E c \in Typed : Type(c)
  \/ SendCount
  \/ SendValue(CleanName(text))
  \/ SendValue(NormalizeBankNumber(text))
  \/ FitText
  \/ Again

Spec == Init /\ [][Next]_vars

\* The loop is plain code: it goes on.
FairSpec == Spec /\ WF_vars(FitText)

---------------------------------------------------------------------------
(* Properties *)

\* Every variable keeps its type.
TypeOK ==
  /\ text \in Seq(Character) /\ shown \in Seq(Character)
  /\ phase \in {"typing", "answered", "shrink", "clip", "drawn"}
  /\ outcome.is \in {"accepted", "refused", "broken"} /\ outcome.number \in Nat
  /\ field \in Fields /\ size \in Int

\* What a text means as a number, digit by digit from the right.
Means(s) ==
  LET n == Len(s)
      sum[i \in 0 .. n] == IF i = 0 THEN 0 ELSE sum[i - 1] + Ten[i - 1] * s[n - i + 1].digit
  IN sum[n]

Plain(s) == s # <<>> /\ \A i \in DOMAIN s : s[i].kind \in {"ascii", "arabic", "decimal"}

\* In digits of the two keyboards the bot knows of.
Usual(s) == \A i \in DOMAIN s : s[i].kind \in {"ascii", "arabic"}

\* A bank number is taken only when the text, without the space around it, is a
\* positive number of at most eight digits, and then always, on either keyboard
\* and with however many zeros; a batch size exactly when it is one from 1 to
\* 100; and each is taken for the number it spells. Nothing else gets through,
\* although isdigit() takes more for digits than int() does.
NumbersMeanThemselves ==
  LET s == Stripped(text)
      bank == NormalizeBankNumber(text)
      count == CleanBatchCount(text)
  IN /\ bank.is = "accepted" => Plain(s) /\ Means(s) \in 1 .. Ten[BankDigits] - 1
     /\ Plain(s) /\ Usual(s) /\ Means(s) \in 1 .. Ten[BankDigits] - 1 => bank.is = "accepted"
     /\ bank.is = "accepted" => bank.number = Means(s)
     /\ count.is = "accepted" <=> Plain(s) /\ Means(s) \in 1 .. MaxBatch
     /\ count.is = "accepted" => count.number = Means(s)

\* A number is found again by every text it could have been typed as, and by
\* what is printed on the card.
SearchFindsCard ==
  LET bank == NormalizeBankNumber(text) IN
  bank.is = "accepted" => FindCard(text) = bank /\ FindCard(bank.value) = bank

\* "The renderer must never draw outside its box, whatever it is handed"
\* (fit_text): the text with its outline stays inside.
DrawnInsideTheBox ==
  phase = "drawn" => Width(shown, size) + 2 * field.stroke <= field.max_width

\* It is as large, and as long, as it can be: two points more or one character
\* more would not have fitted.
DrawnAsLargeAsCanBe ==
  phase = "drawn" =>
    IF shown = outcome.value
      THEN \A more \in {2 * i : i \in 1 .. field.font_size} :
             size + more <= field.font_size => ~Fits(shown, size + more)
      ELSE /\ size = field.min_size /\ ~Fits(outcome.value, size)
           /\ LET n == Len(shown) - 1
              IN /\ Front(shown) = SubSeq(outcome.value, 1, n)
                 /\ n < Len(outcome.value) =>
                      ~Fits(Append(SubSeq(outcome.value, 1, n + 1), Ellipsis), size)

\* Every value that is accepted is drawn: both loops end.
EveryValueIsDrawn == phase = "shrink" ~> phase = "drawn"

=============================================================================
