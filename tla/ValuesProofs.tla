----------------------------- MODULE ValuesProofs -----------------------------
(***************************************************************************)
(* What is read from a text, for every text whatever its length, and what  *)
(* fit_text draws, for every font, box and value.                          *)
(*                                                                         *)
(* The numbers are recursive functions over the text. That a property of   *)
(* them holds for every length is shown by induction over the set of the   *)
(* numbers that have it, by its least counterexample; that the functions   *)
(* exist, by building them up to each length.                              *)
(*                                                                         *)
(* Two hypotheses of the theorems about the drawing are about fonts: that  *)
(* one measures in whole units and that it grows with its size.            *)
(***************************************************************************)
EXTENDS Values, TLAPS, SequenceTheorems, FiniteSetTheorems, WellFoundedInduction

---------------------------------------------------------------------------
(* Induction and recursion *)

\* A set of numbers that is not empty has a smallest.
LEMMA SmallestOfSet ==
  ASSUME NEW S, S \subseteq Nat, S # {}
  PROVE  \E m \in S : \A k \in S : m <= k
<1> DEFINE R == {p \in Nat \X Nat : p[1] < p[2]}
<1>1. IsWellFoundedOn(R, Nat)
  BY NatLessThanWellFounded DEF OpToRel
<1>2. \E m \in S : \A k \in S : ~(<<k, m>> \in R)
  BY <1>1, WFMin
<1>3. ASSUME NEW k \in Nat, NEW m \in Nat, k < m
      PROVE  <<k, m>> \in R
  <2>1. <<k, m>> \in Nat \X Nat /\ <<k, m>>[1] = k /\ <<k, m>>[2] = m
    OBVIOUS
  <2> QED BY <1>3, <2>1
<1> HIDE DEF R
<1>4. \A k, m \in Nat : <<k, m>> \notin R => m <= k
  BY <1>3
<1> QED BY <1>2, <1>4

\* A set that has 0, and with each number the next, has all: induction.
LEMMA Induction ==
  ASSUME NEW P, 0 \in P, \A n \in Nat : n \in P => n + 1 \in P
  PROVE  Nat \subseteq P
<1> DEFINE S == Nat \ P
<1>1. CASE S # {}
  <2>1. PICK m \in S : \A k \in S : m <= k
    BY <1>1, SmallestOfSet
  <2>2. m # 0 /\ m - 1 \in Nat /\ m - 1 \notin S
    BY <2>1
  <2> QED BY <2>1, <2>2
<1> QED BY <1>1

\* f is the function that recursion from a by F makes over D.
Follows(f, D, a, F) == f = [i \in D |-> IF i = 0 THEN a ELSE F[<<f[i - 1], i>>]]

\* Two such functions agree as far as both go, and are of the type of a.
LEMMA Determined ==
  ASSUME NEW S, NEW a \in S, NEW F \in [S \X Nat -> S], NEW n \in Nat, NEW m \in Nat,
         NEW f, Follows(f, 0 .. n, a, F), NEW g, Follows(g, 0 .. m, a, F)
  PROVE  \A i \in Nat : i <= n /\ i <= m => f[i] = g[i] /\ f[i] \in S
<1> DEFINE P == {i \in Nat : i <= n /\ i <= m => f[i] = g[i] /\ f[i] \in S}
<1>1. 0 \in P
  BY DEF Follows
<1>2. ASSUME NEW i \in Nat, i \in P
      PROVE  i + 1 \in P
  <2>1. CASE i + 1 <= n /\ i + 1 <= m
    <3>1. f[i] = g[i] /\ f[i] \in S
      BY <1>2, <2>1
    <3>2. i + 1 \in 0 .. n /\ i + 1 \in 0 .. m /\ i + 1 # 0 /\ i + 1 - 1 = i
      BY <2>1
    <3>3. f[i + 1] = F[<<f[i], i + 1>>] /\ g[i + 1] = F[<<g[i], i + 1>>]
      BY <3>2 DEF Follows
    <3> QED BY <3>1, <3>3
  <2> QED BY <2>1
<1> HIDE DEF P
<1>3. Nat \subseteq P
  BY <1>1, <1>2, Induction
<1> QED BY <1>3 DEF P

\* There is such a function up to each number,
LEMMA RecursionUpTo ==
  ASSUME NEW S, NEW a \in S, NEW F \in [S \X Nat -> S]
  PROVE  \A n \in Nat : \E f \in [0 .. n -> S] : Follows(f, 0 .. n, a, F)
<1> DEFINE P == {n \in Nat : \E f \in [0 .. n -> S] : Follows(f, 0 .. n, a, F)}
<1>1. 0 \in P
  <2> DEFINE f == [i \in 0 .. 0 |-> a]
  <2>1. f \in [0 .. 0 -> S] /\ f = [i \in 0 .. 0 |-> IF i = 0 THEN a ELSE F[<<f[i - 1], i>>]]
    OBVIOUS
  <2> QED BY <2>1 DEF Follows
<1>2. ASSUME NEW n \in Nat, n \in P
      PROVE  n + 1 \in P
  <2>1. PICK f \in [0 .. n -> S] : Follows(f, 0 .. n, a, F)
    BY <1>2
  <2> DEFINE g == [i \in 0 .. n + 1 |-> IF i = n + 1 THEN F[<<f[n], n + 1>>] ELSE f[i]]
  <2>2. g \in [0 .. n + 1 -> S]
    <3>1. <<f[n], n + 1>> \in S \X Nat
      OBVIOUS
    <3>2. F[<<f[n], n + 1>>] \in S
      BY <3>1
    <3> QED BY <3>2
  <2>3. \A i \in 0 .. n : g[i] = f[i]
    OBVIOUS
  <2>4. ASSUME NEW i \in 0 .. n + 1
        PROVE  g[i] = IF i = 0 THEN a ELSE F[<<g[i - 1], i>>]
    <3>1. CASE i = n + 1
      <4>1. g[i] = F[<<f[n], n + 1>>] /\ i # 0 /\ g[i - 1] = f[n]
        BY <3>1, <2>3
      <4> QED BY <4>1, <3>1
    <3>2. CASE i \in 0 .. n
      <4>1. f[i] = IF i = 0 THEN a ELSE F[<<f[i - 1], i>>]
        BY <3>2, <2>1 DEF Follows
      <4>2. i # 0 => g[i - 1] = f[i - 1]
        BY <3>2, <2>3
      <4> QED BY <4>1, <4>2, <3>2, <2>3
    <3> QED BY <3>1, <3>2
  <2>5. Follows(g, 0 .. n + 1, a, F)
    <3> HIDE DEF g
    <3> QED BY <2>2, <2>4 DEF Follows
  <2> QED BY <2>2, <2>5
<1> HIDE DEF P
<1>3. Nat \subseteq P
  BY <1>1, <1>2, Induction
<1> QED BY <1>3 DEF P

\* and so one over all of them.
LEMMA Recursion ==
  ASSUME NEW S, NEW a \in S, NEW F \in [S \X Nat -> S]
  PROVE  \E f \in [Nat -> S] : Follows(f, Nat, a, F)
<1> DEFINE up(n) == CHOOSE f \in [0 .. n -> S] : Follows(f, 0 .. n, a, F)
           f == [n \in Nat |-> up(n)[n]]
<1>1. \A n \in Nat : up(n) \in [0 .. n -> S] /\ Follows(up(n), 0 .. n, a, F)
  BY RecursionUpTo
<1> HIDE DEF up
<1>2. f \in [Nat -> S]
  BY <1>1
<1>3. ASSUME NEW i \in Nat
      PROVE  f[i] = IF i = 0 THEN a ELSE F[<<f[i - 1], i>>]
  <2>1. f[i] = IF i = 0 THEN a ELSE F[<<up(i)[i - 1], i>>]
    BY <1>1 DEF Follows
  <2>2. CASE i # 0
    <3>1. i - 1 \in Nat /\ i - 1 <= i
      BY <2>2
    <3>2. up(i)[i - 1] = up(i - 1)[i - 1]
      <4>1. PICK g : g = up(i) /\ Follows(g, 0 .. i, a, F)
        BY <1>1
      <4>2. PICK h : h = up(i - 1) /\ Follows(h, 0 .. i - 1, a, F)
        BY <1>1, <3>1
      <4>3. PICK m \in Nat : m = i - 1
        BY <3>1
      <4>4. \A k \in Nat : k <= i /\ k <= m => g[k] = h[k] /\ g[k] \in S
        <5>1. Follows(g, 0 .. i, a, F) /\ Follows(h, 0 .. m, a, F)
          BY <4>1, <4>2, <4>3
        <5> QED BY <5>1, Determined, Zenon
      <4> QED BY <4>1, <4>2, <4>3, <4>4, <3>1
    <3> QED BY <2>1, <3>1, <3>2
  <2> QED BY <2>1, <2>2
<1> HIDE DEF f
<1> QED BY <1>2, <1>3 DEF Follows

---------------------------------------------------------------------------
(* Reading and meaning of a number *)

\* The powers of ten are what their recursion says.
LEMMA Tens ==
  /\ Ten[0] = 1
  /\ \A n \in Nat : Ten[n] \in Nat \ {0} /\ Ten[n + 1] = 10 * Ten[n]
<1> DEFINE Pos == Nat \ {0}
           F == [p \in Pos \X Nat |-> 10 * p[1]]
<1>1. F \in [Pos \X Nat -> Pos] /\ 1 \in Pos
  OBVIOUS
<1>2. \A v \in Pos, i \in Nat : F[<<v, i>>] = 10 * v
  OBVIOUS
<1> HIDE DEF F
<1>3. PICK g \in [Nat -> Pos] : Follows(g, Nat, 1, F)
  BY <1>1, Recursion
<1>4. g = [n \in Nat |-> IF n = 0 THEN 1 ELSE 10 * g[n - 1]]
  <2>1. \A n \in Nat : g[n] = IF n = 0 THEN 1 ELSE F[<<g[n - 1], n>>]
    BY <1>3 DEF Follows
  <2>2. \A n \in Nat : n # 0 => g[n - 1] \in Pos
    OBVIOUS
  <2> QED BY <1>2, <2>1, <2>2
<1>5. Ten = [n \in Nat |-> IF n = 0 THEN 1 ELSE 10 * Ten[n - 1]]
  BY <1>4 DEF Ten
<1> DEFINE P == {n \in Nat : Ten[n] \in Pos}
<1>6. Ten[0] = 1 /\ \A n \in Nat : Ten[n + 1] = 10 * Ten[n]
  BY <1>5
<1>7. Nat \subseteq P
  <2>1. 0 \in P
    BY <1>6
  <2>2. \A n \in Nat : n \in P => n + 1 \in P
    BY <1>6
  <2> HIDE DEF P
  <2> QED BY <2>1, <2>2, Induction
<1> QED BY <1>6, <1>7

\* f[i] is int() of the first i characters of s.
Prefix(f, s) ==
  /\ f \in [0 .. Len(s) -> Nat] /\ f[0] = 0
  /\ \A i \in 1 .. Len(s) : f[i] = 10 * f[i - 1] + s[i].digit

\* int() reads a text by its beginnings, the next digit after ten times the last.
LEMMA NumberByPrefix ==
  ASSUME NEW s \in Seq(Character)
  PROVE  \E f : Prefix(f, s) /\ Number(s) = f[Len(s)]
<1> DEFINE n == Len(s)
           digit == [i \in Nat |-> IF i \in 1 .. n THEN s[i].digit ELSE 0]
           F == [p \in Nat \X Nat |-> 10 * p[1] + digit[p[2]]]
           value == CHOOSE f : f = [i \in 0 .. n |-> IF i = 0 THEN 0 ELSE 10 * f[i - 1] + s[i].digit]
<1>1. n \in Nat /\ \A i \in 1 .. n : s[i].digit \in Nat
  <2>1. \A c \in Character : c.digit \in 0 .. 9
    BY DEF Character
  <2>2. n \in Nat /\ \A i \in 1 .. n : s[i] \in Character
    OBVIOUS
  <2> QED BY <2>1, <2>2
<1>0. digit \in [Nat -> Nat] /\ \A i \in 1 .. n : digit[i] = s[i].digit
  BY <1>1
<1> HIDE DEF digit
<1>2. F \in [Nat \X Nat -> Nat]
  <2>1. \A p \in Nat \X Nat : p[1] \in Nat /\ p[2] \in Nat /\ digit[p[2]] \in Nat
    BY <1>0
  <2>2. \A p \in Nat \X Nat : 10 * p[1] + digit[p[2]] \in Nat
    BY <2>1
  <2> QED BY <2>2
<1>3. \A v \in Nat, i \in 1 .. n : F[<<v, i>>] = 10 * v + s[i].digit
  <2>1. ASSUME NEW v \in Nat, NEW i \in 1 .. n
        PROVE  F[<<v, i>>] = 10 * v + digit[i]
    <3>1. i \in Nat /\ <<v, i>> \in Nat \X Nat /\ <<v, i>>[1] = v /\ <<v, i>>[2] = i
      BY <1>1
    <3> QED BY <3>1
  <2> QED BY <1>0, <2>1
<1> HIDE DEF F
<1>4. PICK g \in [0 .. n -> Nat] : Follows(g, 0 .. n, 0, F)
  <2>1. 0 \in Nat
    OBVIOUS
  <2> QED BY <1>1, <1>2, <2>1, RecursionUpTo, Zenon
<1>5. g = [i \in 0 .. n |-> IF i = 0 THEN 0 ELSE 10 * g[i - 1] + s[i].digit]
  <2>1. \A i \in 0 .. n : g[i] = IF i = 0 THEN 0 ELSE F[<<g[i - 1], i>>]
    BY <1>4 DEF Follows
  <2>2. \A i \in 1 .. n : g[i - 1] \in Nat
    BY <1>1
  <2>3. \A i \in 0 .. n : i # 0 => F[<<g[i - 1], i>>] = 10 * g[i - 1] + s[i].digit
    BY <1>1, <1>3, <2>2
  <2>4. \A i \in 0 .. n : g[i] = IF i = 0 THEN 0 ELSE 10 * g[i - 1] + s[i].digit
    BY <2>1, <2>3
  <2> QED BY <2>4
<1>6. value = [i \in 0 .. n |-> IF i = 0 THEN 0 ELSE 10 * value[i - 1] + s[i].digit]
  BY <1>5
<1>7. Number(s) = value[n]
  BY DEF Number
<1> HIDE DEF value
<1> DEFINE P == {i \in Nat : i <= n => value[i] \in Nat}
<1>8. value[0] = 0 /\ \A i \in 1 .. n : value[i] = 10 * value[i - 1] + s[i].digit
  BY <1>6
<1>9. Nat \subseteq P
  <2>1. 0 \in P
    BY <1>8
  <2>2. ASSUME NEW i \in Nat, i \in P
        PROVE  i + 1 \in P
    <3>1. CASE i + 1 <= n
      <4>1. i + 1 \in 1 .. n /\ i + 1 - 1 = i
        BY <3>1
      <4>2. value[i + 1] = 10 * value[i] + s[i + 1].digit
        BY <1>8, <4>1
      <4>3. value[i] \in Nat
        BY <2>2, <3>1
      <4> QED BY <1>1, <4>1, <4>2, <4>3
    <3> QED BY <3>1
  <2> HIDE DEF P
  <2> QED BY <2>1, <2>2, Induction
<1>10. value \in [0 .. n -> Nat]
  BY <1>6, <1>9
<1> QED BY <1>7, <1>8, <1>10 DEF Prefix

\* Every character of a text has a digit.
LEMMA DigitIsNat ==
  ASSUME NEW s \in Seq(Character)
  PROVE  Len(s) \in Nat /\ \A i \in 1 .. Len(s) : s[i] \in Character /\ s[i].digit \in 0 .. 9
<1>1. \A c \in Character : c.digit \in 0 .. 9
  BY DEF Character
<1>2. Len(s) \in Nat /\ \A i \in 1 .. Len(s) : s[i] \in Character
  OBVIOUS
<1> QED BY <1>1, <1>2

\* f[i] is what the last i characters of s mean.
Suffix(f, s) ==
  /\ f \in [0 .. Len(s) -> Nat] /\ f[0] = 0
  /\ \A i \in 1 .. Len(s) : f[i] = f[i - 1] + Ten[i - 1] * s[Len(s) - i + 1].digit

\* What a text means is the sum over its ends, each digit times its place.
LEMMA MeansBySuffix ==
  ASSUME NEW s \in Seq(Character)
  PROVE  \E f : Suffix(f, s) /\ Means(s) = f[Len(s)]
<1> DEFINE n == Len(s)
           term == [i \in Nat |-> IF i \in 1 .. n THEN Ten[i - 1] * s[n - i + 1].digit ELSE 0]
           F == [p \in Nat \X Nat |-> p[1] + term[p[2]]]
           sum == CHOOSE f : f = [i \in 0 .. n |->
                               IF i = 0 THEN 0 ELSE f[i - 1] + Ten[i - 1] * s[n - i + 1].digit]
<1>1. n \in Nat /\ \A i \in 1 .. n : Ten[i - 1] * s[n - i + 1].digit \in Nat
  <2>1. ASSUME NEW i \in 1 .. n
        PROVE  Ten[i - 1] * s[n - i + 1].digit \in Nat
    <3>1. i - 1 \in Nat /\ n - i + 1 \in 1 .. n
      OBVIOUS
    <3>2. Ten[i - 1] \in Nat /\ s[n - i + 1].digit \in Nat
      <4>1. \A j \in 1 .. n : s[j].digit \in Nat
        BY DigitIsNat
      <4> QED BY <3>1, <4>1, Tens
    <3> QED BY <3>2
  <2> QED BY <2>1
<1>2. term \in [Nat -> Nat] /\ \A i \in 1 .. n : term[i] = Ten[i - 1] * s[n - i + 1].digit
  BY <1>1
<1> HIDE DEF term
<1>3. F \in [Nat \X Nat -> Nat]
  <2>1. \A p \in Nat \X Nat : p[1] \in Nat /\ p[2] \in Nat /\ term[p[2]] \in Nat
    BY <1>2
  <2>2. \A p \in Nat \X Nat : p[1] + term[p[2]] \in Nat
    BY <2>1
  <2> QED BY <2>2
<1>4. \A v \in Nat, i \in 1 .. n : F[<<v, i>>] = v + Ten[i - 1] * s[n - i + 1].digit
  <2>1. ASSUME NEW v \in Nat, NEW i \in 1 .. n
        PROVE  F[<<v, i>>] = v + term[i]
    <3>1. i \in Nat /\ <<v, i>> \in Nat \X Nat /\ <<v, i>>[1] = v /\ <<v, i>>[2] = i
      BY <1>1
    <3> QED BY <3>1
  <2> QED BY <1>2, <2>1
<1> HIDE DEF F
<1>5. PICK g \in [0 .. n -> Nat] : Follows(g, 0 .. n, 0, F)
  <2>1. 0 \in Nat
    OBVIOUS
  <2> QED BY <1>1, <1>3, <2>1, RecursionUpTo, Zenon
<1>6. g = [i \in 0 .. n |-> IF i = 0 THEN 0 ELSE g[i - 1] + Ten[i - 1] * s[n - i + 1].digit]
  <2>1. \A i \in 0 .. n : g[i] = IF i = 0 THEN 0 ELSE F[<<g[i - 1], i>>]
    BY <1>5 DEF Follows
  <2>2. \A i \in 1 .. n : g[i - 1] \in Nat
    <3>1. \A i \in 1 .. n : i - 1 \in 0 .. n
      BY <1>1
    <3> HIDE DEF n
    <3> QED BY <3>1
  <2>3. \A i \in 0 .. n : i # 0 => F[<<g[i - 1], i>>] = g[i - 1] + Ten[i - 1] * s[n - i + 1].digit
    BY <1>1, <1>4, <2>2
  <2>4. \A i \in 0 .. n : g[i] = IF i = 0 THEN 0 ELSE g[i - 1] + Ten[i - 1] * s[n - i + 1].digit
    BY <2>1, <2>3
  <2> QED BY <2>4
<1>7. sum = [i \in 0 .. n |-> IF i = 0 THEN 0 ELSE sum[i - 1] + Ten[i - 1] * s[n - i + 1].digit]
  BY <1>6
<1>8. Means(s) = sum[n]
  BY DEF Means
<1> HIDE DEF sum
<1>9. sum[0] = 0 /\ \A i \in 1 .. n : sum[i] = sum[i - 1] + Ten[i - 1] * s[n - i + 1].digit
  BY <1>1, <1>7
<1> DEFINE P == {i \in Nat : i <= n => sum[i] \in Nat}
<1>10. Nat \subseteq P
  <2>1. 0 \in P
    BY <1>9
  <2>2. ASSUME NEW i \in Nat, i \in P
        PROVE  i + 1 \in P
    <3>1. CASE i + 1 <= n
      <4>1. i + 1 \in 1 .. n /\ i + 1 - 1 = i
        BY <1>1, <3>1
      <4>2. PICK t \in Nat : sum[i + 1] = sum[i] + t
        BY <1>1, <1>9, <4>1
      <4>3. sum[i] \in Nat
        BY <1>1, <2>2, <3>1
      <4> QED BY <4>1, <4>2, <4>3
    <3> QED BY <3>1
  <2> HIDE DEF P
  <2> QED BY <2>1, <2>2, Induction
<1>11. sum \in [0 .. n -> Nat]
  <2>1. \A i \in 0 .. n : sum[i] \in Nat
    BY <1>1, <1>10
  <2> HIDE DEF n, P
  <2> QED BY <1>7, <2>1
<1> QED BY <1>8, <1>9, <1>11 DEF Suffix

\* int() of a text, read from the left, is what it means, summed from the right:
\* at every place, the beginning times its power of ten and the end make the number.
LEMMA NumberIsMeaning ==
  ASSUME NEW s \in Seq(Character)
  PROVE  Number(s) = Means(s) /\ Number(s) \in Nat
<1> DEFINE n == Len(s)
<1>1. PICK f : Prefix(f, s) /\ Number(s) = f[n]
  BY NumberByPrefix
<1>2. PICK g : Suffix(g, s) /\ Means(s) = g[n]
  BY MeansBySuffix
<1>3. n \in Nat /\ \A i \in 1 .. n : s[i].digit \in Nat
  BY DigitIsNat
<1>4. /\ f[0] = 0 /\ g[0] = 0 /\ \A i \in 0 .. n : f[i] \in Nat /\ g[i] \in Nat
      /\ \A i \in 1 .. n : f[i] = 10 * f[i - 1] + s[i].digit
      /\ \A i \in 1 .. n : g[i] = g[i - 1] + Ten[i - 1] * s[n - i + 1].digit
  BY <1>1, <1>2 DEF Prefix, Suffix
<1> HIDE DEF n
<1> DEFINE P == {k \in Nat : k <= n => f[n] = Ten[k] * f[n - k] + g[k]}
<1>5. 0 \in P
  BY <1>3, <1>4, Tens
<1>6. ASSUME NEW k \in Nat, k \in P
      PROVE  k + 1 \in P
  <2>1. CASE k + 1 <= n
    <3>1. /\ k <= n /\ n - k \in 1 .. n /\ k + 1 \in 1 .. n /\ k + 1 - 1 = k
          /\ n - (k + 1) + 1 = n - k /\ n - k - 1 = n - (k + 1) /\ n - (k + 1) \in 0 .. n
      BY <1>3, <2>1
    <3>2. f[n] = Ten[k] * f[n - k] + g[k]
      BY <1>6, <3>1
    <3> DEFINE a == f[n - (k + 1)]
               d == s[n - k].digit
               t == Ten[k]
    <3>3. f[n - k] = 10 * a + d
      BY <1>4, <3>1
    <3>4. g[k + 1] = g[k] + t * d
      BY <1>4, <3>1
    <3>5. Ten[k + 1] = 10 * t /\ t \in Nat /\ a \in Nat /\ d \in Nat /\ g[k] \in Nat
      <4>1. Ten[k + 1] = 10 * t /\ t \in Nat
        BY Tens
      <4>2. k \in 0 .. n
        BY <1>3, <3>1
      <4> QED BY <1>3, <1>4, <3>1, <4>1, <4>2
    <3> HIDE DEF a, d, t
    <3>6. t * (10 * a + d) = (10 * t) * a + t * d
      BY <3>5
    <3>7. f[n] = t * (10 * a + d) + g[k]
      BY <3>2, <3>3 DEF t
    <3>8. f[n] = Ten[k + 1] * a + g[k + 1]
      <4>1. t * d \in Nat /\ (10 * t) * a \in Nat
        BY <3>5
      <4> QED BY <3>4, <3>5, <3>6, <3>7, <4>1
    <3> QED BY <3>8 DEF a
  <2> QED BY <2>1
<1> HIDE DEF P
<1>7. n \in P
  BY <1>3, <1>5, <1>6, Induction
<1>8. f[n] = Ten[n] * f[0] + g[n]
  BY <1>3, <1>7 DEF P
<1>9. Ten[n] \in Nat
  BY <1>3, Tens
<1> QED BY <1>1, <1>2, <1>3, <1>4, <1>8, <1>9 DEF n

---------------------------------------------------------------------------
(* How long a number is *)

\* A higher power of ten is larger.
LEMMA TensGrow ==
  ASSUME NEW i \in Nat, NEW j \in Nat, i <= j
  PROVE  Ten[i] <= Ten[j]
<1> DEFINE P == {k \in Nat : Ten[i] <= Ten[i + k]}
<1>1. 0 \in P
  BY Tens
<1>2. ASSUME NEW k \in Nat, k \in P
      PROVE  k + 1 \in P
  <2>1. i + k \in Nat /\ i + (k + 1) = (i + k) + 1
    OBVIOUS
  <2>2. Ten[i + (k + 1)] = 10 * Ten[i + k] /\ Ten[i + k] \in Nat
    BY <2>1, Tens
  <2>3. Ten[i] \in Nat /\ Ten[i] <= Ten[i + k]
    BY <1>2, Tens
  <2> QED BY <2>2, <2>3
<1> HIDE DEF P
<1>3. j - i \in P
  BY <1>1, <1>2, Induction
<1> QED BY <1>3 DEF P

\* p is the place of the first digit that is no zero, or after the last.
Lead(s, p) ==
  /\ p \in 1 .. Len(s) + 1
  /\ \A j \in 1 .. p - 1 : s[j] = Ascii(0)
  /\ p <= Len(s) => s[p] # Ascii(0)

\* lstrip("0") leaves what is from that place on.
LEMMA SignificantFrom ==
  ASSUME NEW s \in Seq(Character)
  PROVE  \E p : Lead(s, p) /\ Significant(s) = Len(s) - p + 1
<1> DEFINE n == Len(s)
           S == {j \in 1 .. n : s[j] # Ascii(0)}
           T == {i \in DOMAIN s : \E j \in 1 .. i : s[j] # Ascii(0)}
<1>1. n \in Nat /\ DOMAIN s = 1 .. n
  OBVIOUS
<1>0. Significant(s) = Cardinality(T)
  BY DEF Significant
<1>2. CASE S = {}
  <2>1. T = {}
    BY <1>1, <1>2
  <2>2. Lead(s, n + 1)
    BY <1>1, <1>2 DEF Lead
  <2>3. Cardinality({}) = 0
    BY FS_EmptySet
  <2>4. n - (n + 1) + 1 = 0
    BY <1>1
  <2>5. Significant(s) = n - (n + 1) + 1
    BY <1>0, <2>1, <2>3, <2>4
  <2> QED BY <2>2, <2>5
<1>3. CASE S # {}
  <2>1. S \subseteq Nat
    BY <1>1
  <2> HIDE DEF S
  <2>2. PICK p \in S : \A k \in S : p <= k
    BY <1>3, <2>1, SmallestOfSet
  <2>3. p \in 1 .. n /\ s[p] # Ascii(0) /\ \A j \in 1 .. n : j < p => s[j] = Ascii(0)
    BY <1>1, <2>2 DEF S
  <2>4. Lead(s, p)
    BY <1>1, <2>3 DEF Lead
  <2>5. T = p .. n
    <3>1. ASSUME NEW i \in T PROVE i \in p .. n
      BY <1>1, <2>3
    <3>2. ASSUME NEW i \in p .. n PROVE i \in T
      BY <1>1, <2>3
    <3> QED BY <3>1, <3>2
  <2>6. Cardinality(p .. n) = n - p + 1
    BY <1>1, <2>3, FS_Interval
  <2> QED BY <1>0, <2>4, <2>5, <2>6
<1> QED BY <1>2, <1>3

\* What is before it is zero,
LEMMA LeadIsZero ==
  ASSUME NEW s \in Seq(Character), NEW f, Prefix(f, s), NEW p, Lead(s, p)
  PROVE  f[p - 1] = 0
<1> DEFINE n == Len(s)
           P == {i \in Nat : i < p => f[i] = 0}
<1>1. n \in Nat /\ p \in 1 .. n + 1 /\ \A j \in 1 .. p - 1 : s[j].digit = 0
  BY DigitIsNat DEF Lead, Ascii
<1>2. 0 \in P
  BY DEF Prefix
<1>3. ASSUME NEW i \in Nat, i \in P
      PROVE  i + 1 \in P
  <2>1. CASE i + 1 < p
    <3>1. i + 1 \in 1 .. n /\ i + 1 \in 1 .. p - 1 /\ i + 1 - 1 = i /\ i < p
      BY <1>1, <2>1
    <3>2. f[i + 1] = 10 * f[i] + s[i + 1].digit
      BY <3>1 DEF Prefix
    <3>3. f[i] = 0 /\ s[i + 1].digit = 0
      BY <1>1, <1>3, <3>1
    <3> QED BY <3>2, <3>3
  <2> QED BY <2>1
<1> HIDE DEF P
<1>4. Nat \subseteq P
  BY <1>2, <1>3, Induction
<1>5. p - 1 \in Nat /\ p - 1 < p
  BY <1>1
<1> QED BY <1>4, <1>5 DEF P

\* so the number is shorter than 1 and a zero for each digit that is left,
LEMMA NumberBelow ==
  ASSUME NEW s \in Seq(Character)
  PROVE  Significant(s) \in Nat /\ Number(s) < Ten[Significant(s)]
<1> DEFINE n == Len(s)
<1>1. PICK f : Prefix(f, s) /\ Number(s) = f[n]
  BY NumberByPrefix
<1>2. PICK p : Lead(s, p) /\ Significant(s) = n - p + 1
  BY SignificantFrom
<1>3. n \in Nat /\ p \in 1 .. n + 1 /\ f[p - 1] = 0
  <2>1. n \in Nat /\ p \in 1 .. n + 1
    BY <1>2 DEF Lead
  <2>2. f[p - 1] = 0
    BY <1>1, <1>2, LeadIsZero
  <2> QED BY <2>1, <2>2
<1>4. \A i \in 1 .. n : s[i].digit \in 0 .. 9
  BY DigitIsNat
<1>5. /\ \A i \in 0 .. n : f[i] \in Nat
      /\ \A i \in 1 .. n : f[i] = 10 * f[i - 1] + s[i].digit
  BY <1>1 DEF Prefix
<1> DEFINE P == {k \in Nat : k <= n - p + 1 => f[p - 1 + k] < Ten[k]}
<1> HIDE DEF n
<1>6. 0 \in P
  <2>1. p - 1 + 0 = p - 1
    BY <1>3
  <2>2. f[p - 1 + 0] = 0
    BY <1>3, <2>1
  <2>3. Ten[0] = 1 /\ 0 < 1
    BY Tens
  <2> QED BY <2>2, <2>3
<1>7. ASSUME NEW k \in Nat, k \in P
      PROVE  k + 1 \in P
  <2>1. CASE k + 1 <= n - p + 1
    <3>1. PICK i : i = p - 1 + k
      OBVIOUS
    <3>2. /\ i + 1 \in 1 .. n /\ i + 1 - 1 = i /\ i \in 0 .. n /\ p - 1 + (k + 1) = i + 1
          /\ k <= n - p + 1
      BY <1>3, <2>1, <3>1
    <3>3. f[i + 1] = 10 * f[i] + s[i + 1].digit
      BY <1>5, <3>2
    <3>4. f[i] < Ten[k] /\ f[i] \in Nat /\ s[i + 1].digit \in 0 .. 9
      BY <1>4, <1>5, <1>7, <3>1, <3>2
    <3>5. Ten[k] \in Nat /\ Ten[k + 1] = 10 * Ten[k]
      BY Tens
    <3>6. f[i + 1] < Ten[k + 1]
      <4>1. PICK a \in Nat, d \in 0 .. 9, t \in Nat : a = f[i] /\ d = s[i + 1].digit /\ t = Ten[k]
        BY <3>4, <3>5
      <4>2. a < t
        BY <3>4, <4>1
      <4>3. 10 * a + d < 10 * t
        BY <4>2
      <4> QED BY <3>3, <3>5, <4>1, <4>3
    <3>7. f[p - 1 + (k + 1)] < Ten[k + 1]
      BY <3>2, <3>6
    <3> QED BY <3>7
  <2> QED BY <2>1
<1> HIDE DEF P
<1>8. n - p + 1 \in P
  <2>1. Nat \subseteq P
    BY <1>6, <1>7, Induction
  <2> QED BY <1>3, <2>1
<1>9. p - 1 + (n - p + 1) = n /\ n - p + 1 \in Nat
  BY <1>3
<1> QED BY <1>1, <1>2, <1>8, <1>9 DEF P, n

\* and in ASCII digits, where only "0" is a zero, it is no shorter than they are.
LEMMA NumberAbove ==
  ASSUME NEW s \in Seq(Character), \A i \in DOMAIN s : s[i].kind = "ascii",
         NEW m \in Nat, m < Significant(s)
  PROVE  Ten[m] <= Number(s)
<1> DEFINE n == Len(s)
<1>1. PICK f : Prefix(f, s) /\ Number(s) = f[n]
  BY NumberByPrefix
<1>2. PICK p : Lead(s, p) /\ Significant(s) = n - p + 1
  BY SignificantFrom
<1>3. n \in Nat /\ p \in 1 .. n /\ f[p - 1] = 0 /\ s[p] # Ascii(0)
  <2>1. n \in Nat /\ p \in 1 .. n + 1
    BY <1>2 DEF Lead
  <2>2. f[p - 1] = 0
    BY <1>1, <1>2, LeadIsZero
  <2>3. p <= n
    BY <1>2, <2>1
  <2> QED BY <1>2, <2>1, <2>2, <2>3 DEF Lead
<1>4. \A i \in 1 .. n : s[i].digit \in 0 .. 9
  BY DigitIsNat
<1>5. /\ \A i \in 0 .. n : f[i] \in Nat
      /\ \A i \in 1 .. n : f[i] = 10 * f[i - 1] + s[i].digit
  BY <1>1 DEF Prefix
<1>6. s[p].digit # 0
  <2>1. s[p] \in Character /\ s[p].kind = "ascii"
    BY <1>3
  <2>2. s[p] = [kind |-> "ascii", digit |-> s[p].digit]
    BY <2>1 DEF Character
  <2> QED BY <1>3, <2>2 DEF Ascii
<1> DEFINE P == {k \in Nat : k <= n - p => Ten[k] <= f[p + k]}
<1> HIDE DEF n
<1>7. 0 \in P
  <2>1. f[p] = 10 * f[p - 1] + s[p].digit /\ s[p].digit \in 1 .. 9
    BY <1>3, <1>4, <1>5, <1>6
  <2>2. f[p] >= 1 /\ p + 0 = p
    BY <1>3, <2>1
  <2> QED BY <2>2, Tens
<1>8. ASSUME NEW k \in Nat, k \in P
      PROVE  k + 1 \in P
  <2>1. CASE k + 1 <= n - p
    <3>1. PICK i : i = p + k
      OBVIOUS
    <3>2. i + 1 \in 1 .. n /\ i + 1 - 1 = i /\ i \in 0 .. n /\ p + (k + 1) = i + 1 /\ k <= n - p
      BY <1>3, <2>1, <3>1
    <3>3. f[i + 1] = 10 * f[i] + s[i + 1].digit
      BY <1>5, <3>2
    <3>4. Ten[k] <= f[i] /\ f[i] \in Nat /\ s[i + 1].digit \in 0 .. 9
      BY <1>4, <1>5, <1>8, <3>1, <3>2
    <3>5. Ten[k] \in Nat /\ Ten[k + 1] = 10 * Ten[k]
      BY Tens
    <3>6. Ten[k + 1] <= f[i + 1]
      <4>1. PICK a \in Nat, d \in 0 .. 9, t \in Nat : a = f[i] /\ d = s[i + 1].digit /\ t = Ten[k]
        BY <3>4, <3>5
      <4>2. t <= a
        BY <3>4, <4>1
      <4>3. 10 * t <= 10 * a + d
        BY <4>2
      <4> QED BY <3>3, <3>5, <4>1, <4>3
    <3>7. Ten[k + 1] <= f[p + (k + 1)]
      BY <3>2, <3>6
    <3> QED BY <3>7
  <2> QED BY <2>1
<1> HIDE DEF P
<1>9. n - p \in P
  <2>1. Nat \subseteq P
    BY <1>7, <1>8, Induction
  <2> QED BY <1>3, <2>1
<1>10. p + (n - p) = n /\ n - p \in Nat /\ m <= n - p
  BY <1>2, <1>3 DEF n
<1>11. Ten[m] <= Ten[n - p] /\ Ten[m] \in Nat /\ Ten[n - p] \in Nat
  BY <1>10, TensGrow, Tens
<1>12. Ten[n - p] <= f[n] /\ f[n] \in Nat
  BY <1>3, <1>5, <1>9, <1>10 DEF P
<1> QED BY <1>1, <1>11, <1>12 DEF n

\* So the length after lstrip("0") tells how large the number is.
LEMMA SignificantIsLength ==
  ASSUME NEW s \in Seq(Character), NEW b \in Nat
  PROVE  /\ Significant(s) <= b => Number(s) < Ten[b]
         /\ (\A i \in DOMAIN s : s[i].kind = "ascii") /\ Number(s) < Ten[b] => Significant(s) <= b
<1>1. Number(s) \in Nat /\ Significant(s) \in Nat /\ Number(s) < Ten[Significant(s)]
  BY NumberIsMeaning, NumberBelow
<1>2. ASSUME Significant(s) <= b
      PROVE  Number(s) < Ten[b]
  <2>1. Ten[Significant(s)] <= Ten[b] /\ Ten[Significant(s)] \in Nat /\ Ten[b] \in Nat
    BY <1>1, <1>2, TensGrow, Tens
  <2> QED BY <1>1, <2>1
<1>3. ASSUME \A i \in DOMAIN s : s[i].kind = "ascii", Number(s) < Ten[b]
      PROVE  Significant(s) <= b
  <2>1. CASE b < Significant(s)
    <3>1. Ten[b] <= Number(s) /\ Ten[b] \in Nat
      BY <1>3, <2>1, NumberAbove, Tens
    <3> QED BY <1>1, <1>3, <3>1
  <2> QED BY <1>1, <2>1
<1> QED BY <1>2, <1>3

---------------------------------------------------------------------------
(* Printing a number *)

\* A quotient is known by its rest,
LEMMA DivUnique ==
  ASSUME NEW a \in Nat, NEW b \in Nat \ {0}, NEW q \in Nat, NEW r \in Nat, r < b, a = b * q + r
  PROVE  a \div b = q
<1>1. PICK u \in Nat, v \in Nat : u = a \div b /\ v = a % b /\ a = b * u + v /\ v < b
  OBVIOUS
<1>2. CASE u < q
  <2>1. PICK k \in Nat \ {0} : q = u + k
    <3>1. q - u \in Nat \ {0} /\ q = u + (q - u)
      BY <1>2
    <3> QED BY <3>1
  <2>2. b * q = b * u + b * k /\ b * k >= b
    BY <2>1
  <2>3. b * u \in Nat /\ b * k \in Nat
    BY <2>1
  <2>4. v = b * k + r
    BY <1>1, <2>2, <2>3
  <2> QED BY <1>1, <2>2, <2>3, <2>4
<1>3. CASE q < u
  <2>1. PICK k \in Nat \ {0} : u = q + k
    <3>1. u - q \in Nat \ {0} /\ u = q + (u - q)
      BY <1>3
    <3> QED BY <3>1
  <2>2. b * u = b * q + b * k /\ b * k >= b
    BY <2>1
  <2>3. b * q \in Nat /\ b * k \in Nat
    BY <2>1
  <2>4. r = b * k + v
    BY <1>1, <2>2, <2>3
  <2> QED BY <1>1, <2>2, <2>3, <2>4
<1> QED BY <1>1, <1>2, <1>3

\* so dividing by ten times as much takes off one digit.
LEMMA DivTenTimes ==
  ASSUME NEW a \in Nat, NEW m \in Nat \ {0}
  PROVE  /\ a \div m \in Nat /\ a \div (10 * m) \in Nat
         /\ a \div m = 10 * (a \div (10 * m)) + ((a \div m) % 10)
<1>1. PICK q \in Nat, r \in Nat : q = a \div m /\ a = m * q + r /\ r < m
  OBVIOUS
<1>2. PICK u \in Nat, v \in Nat : u = q \div 10 /\ v = q % 10 /\ q = 10 * u + v /\ v <= 9
  OBVIOUS
<1>3. m * q = (10 * m) * u + m * v
  BY <1>2
<1>4. /\ m * v \in Nat /\ m * v <= 9 * m /\ m * v + r \in Nat
      /\ (10 * m) * u \in Nat /\ 10 * m \in Nat \ {0}
  BY <1>2
<1>5. a = (10 * m) * u + (m * v + r) /\ m * v + r < 10 * m
  BY <1>1, <1>3, <1>4
<1>6. a \div (10 * m) = u
  BY <1>4, <1>5, DivUnique
<1> QED BY <1>1, <1>2, <1>6

\* str().zfill() gives eight ASCII digits,
LEMMA FormattedIsText ==
  ASSUME NEW number \in Nat
  PROVE  /\ Formatted(number) \in Seq(Character) /\ Len(Formatted(number)) = BankDigits
         /\ \A i \in 1 .. BankDigits :
              /\ Formatted(number)[i].kind = "ascii"
              /\ Formatted(number)[i].digit = (number \div Ten[BankDigits - i]) % 10
<1>1. BankDigits \in Nat
  BY ValuesAssumption
<1>2. ASSUME NEW i \in 1 .. BankDigits
      PROVE  Ascii((number \div Ten[BankDigits - i]) % 10) \in Character
  <2>1. BankDigits - i \in Nat
    BY <1>1
  <2>2. PICK t \in Nat \ {0} : t = Ten[BankDigits - i]
    BY <2>1, Tens
  <2>3. number \div t \in Nat
    OBVIOUS
  <2>4. (number \div t) % 10 \in 0 .. 9
    BY <2>3
  <2> QED BY <2>2, <2>4 DEF Ascii, Character
<1>3. Formatted(number) = [i \in 1 .. BankDigits |-> Ascii((number \div Ten[BankDigits - i]) % 10)]
  BY DEF Formatted
<1>4. Formatted(number) \in Seq(Character) /\ Len(Formatted(number)) = BankDigits
  BY <1>1, <1>2, <1>3
<1>5. \A d : Ascii(d).kind = "ascii" /\ Ascii(d).digit = d
  BY DEF Ascii
<1>6. \A i \in 1 .. BankDigits : Formatted(number)[i] = Ascii((number \div Ten[BankDigits - i]) % 10)
  BY <1>3, Zenon
<1>7. ASSUME NEW i \in 1 .. BankDigits
      PROVE  /\ Formatted(number)[i].kind = "ascii"
             /\ Formatted(number)[i].digit = (number \div Ten[BankDigits - i]) % 10
  BY <1>5, <1>6, Zenon
<1> QED BY <1>4, <1>7

\* and a number of at most eight is read from them again.
LEMMA FormattedNumber ==
  ASSUME NEW number \in Nat, number < Ten[BankDigits]
  PROVE  Number(Formatted(number)) = number
<1> DEFINE s == Formatted(number)
<1>0. s \in Seq(Character) /\ Len(s) = BankDigits /\ BankDigits \in Nat
  BY FormattedIsText, ValuesAssumption
<1>1. PICK f : Prefix(f, s) /\ Number(s) = f[BankDigits]
  BY <1>0, NumberByPrefix
<1>2. \A i \in 1 .. BankDigits : f[i] = 10 * f[i - 1] + ((number \div Ten[BankDigits - i]) % 10)
  <2>1. \A i \in 1 .. BankDigits : f[i] = 10 * f[i - 1] + s[i].digit
    BY <1>0, <1>1 DEF Prefix
  <2>2. \A i \in 1 .. BankDigits : s[i].digit = (number \div Ten[BankDigits - i]) % 10
    BY FormattedIsText
  <2> QED BY <2>1, <2>2
<1>3. f[0] = 0
  BY <1>1 DEF Prefix
<1> HIDE DEF s
<1> DEFINE P == {i \in Nat : i <= BankDigits => f[i] = number \div Ten[BankDigits - i]}
<1>4. 0 \in P
  <2>1. PICK t \in Nat \ {0} : t = Ten[BankDigits]
    BY <1>0, Tens
  <2>2. number = t * 0 + number /\ number < t
    BY <2>1
  <2>3. number \div t = 0
    BY <2>2, DivUnique
  <2>4. BankDigits - 0 = BankDigits
    BY <1>0
  <2> QED BY <1>3, <2>1, <2>3, <2>4
<1>5. ASSUME NEW i \in Nat, i \in P
      PROVE  i + 1 \in P
  <2>1. CASE i + 1 <= BankDigits
    <3>1. PICK k \in Nat : k = BankDigits - (i + 1)
      BY <1>0, <2>1
    <3>2. /\ i + 1 \in 1 .. BankDigits /\ i + 1 - 1 = i /\ BankDigits - i = k + 1
          /\ i <= BankDigits
      BY <1>0, <2>1, <3>1
    <3>3. f[i] = number \div Ten[k + 1]
      BY <1>5, <3>2
    <3>4. f[i + 1] = 10 * f[i] + ((number \div Ten[k]) % 10)
      BY <1>2, <3>1, <3>2
    <3>5. Ten[k] \in Nat \ {0} /\ Ten[k + 1] = 10 * Ten[k]
      BY Tens
    <3>6. number \div Ten[k] = 10 * (number \div (10 * Ten[k])) + ((number \div Ten[k]) % 10)
      BY <3>5, DivTenTimes
    <3>7. f[i + 1] = number \div Ten[k]
      BY <3>3, <3>4, <3>5, <3>6
    <3> QED BY <3>1, <3>7
  <2> QED BY <2>1
<1> HIDE DEF P
<1>6. BankDigits \in P
  <2>1. Nat \subseteq P
    BY <1>4, <1>5, Induction
  <2> QED BY <1>0, <2>1
<1>7. f[BankDigits] = number \div Ten[0]
  <2>1. BankDigits - BankDigits = 0
    BY <1>0
  <2> QED BY <1>0, <1>6, <2>1 DEF P
<1>8. number \div 1 = number
  OBVIOUS
<1> QED BY <1>1, <1>7, <1>8, Tens DEF s

---------------------------------------------------------------------------
(* The cleaning of a text *)

\* A set of positions without its last.
LEMMA UpToPlus ==
  ASSUME NEW n \in Nat, NEW K \in SUBSET (1 .. n + 1), n + 1 \in K
  PROVE  /\ K \ {n + 1} \in SUBSET (1 .. n)
         /\ Cardinality(K) = Cardinality(K \ {n + 1}) + 1
         /\ Cardinality(K \ {n + 1}) \in Nat
<1>1. IsFiniteSet(1 .. n + 1)
  BY FS_Interval
<1>2. IsFiniteSet(K) /\ IsFiniteSet(K \ {n + 1})
  BY <1>1, FS_Subset
<1>3. Cardinality(K \ {n + 1}) = Cardinality(K) - 1 /\ Cardinality(K) \in Nat
  BY <1>2, FS_RemoveElement, FS_CardinalityType
<1>4. Cardinality(K \ {n + 1}) \in Nat
  BY <1>2, FS_CardinalityType
<1>5. K \ {n + 1} \in SUBSET (1 .. n)
  OBVIOUS
<1> QED BY <1>3, <1>4, <1>5

\* Each place is taken by one of the positions,
LEMMA PlacesTaken ==
  ASSUME NEW n \in Nat, NEW K \in SUBSET (1 .. n), NEW k \in 1 .. Cardinality(K)
  PROVE  \E i \in K : Place(K, i) = k
<1> DEFINE All(m) == \A L \in SUBSET (1 .. m) :
                       \A l \in 1 .. Cardinality(L) : \E i \in L : Place(L, i) = l
           P == {m \in Nat : All(m)}
<1>1. 0 \in P
  <2>1. \A L \in SUBSET (1 .. 0) : L = {}
    OBVIOUS
  <2>2. Cardinality({}) = 0 /\ 1 .. 0 = {}
    BY FS_EmptySet
  <2> QED BY <2>1, <2>2
<1>2. ASSUME NEW m \in Nat, m \in P
      PROVE  m + 1 \in P
  <2>1. ASSUME NEW L \in SUBSET (1 .. m + 1), NEW l \in 1 .. Cardinality(L)
        PROVE  \E i \in L : Place(L, i) = l
    <3>1. CASE m + 1 \notin L
      <4>1. L \in SUBSET (1 .. m)
        BY <3>1
      <4> QED BY <1>2, <4>1
    <3>2. CASE m + 1 \in L
      <4> DEFINE M == L \ {m + 1}
      <4>1. M \in SUBSET (1 .. m) /\ Cardinality(L) = Cardinality(M) + 1 /\ Cardinality(M) \in Nat
        BY <3>2, UpToPlus
      <4>2. CASE l = Cardinality(L)
        <5>1. {j \in L : j <= m + 1} = L
          <6>1. \A j \in L : j <= m + 1
            BY <2>1
          <6> HIDE DEF M, P, All
          <6> QED BY <6>1, Zenon
        <5> QED BY <3>2, <4>2, <5>1 DEF Place
      <4>3. CASE l # Cardinality(L)
        <5>1. l \in 1 .. Cardinality(M)
          BY <4>1, <4>3
        <5>2. PICK i \in M : Place(M, i) = l
          BY <1>2, <4>1, <5>1
        <5>3. {j \in M : j <= i} = {j \in L : j <= i}
          BY <4>1
        <5> QED BY <5>2, <5>3 DEF Place
      <4> QED BY <4>2, <4>3
    <3> QED BY <3>1, <3>2
  <2> QED BY <2>1
<1> HIDE DEF P
<1>3. n \in P
  BY <1>1, <1>2, Induction
<1> QED BY <1>3 DEF P

\* and by one alone.
LEMMA PlacesDiffer ==
  ASSUME NEW n \in Nat, NEW K \in SUBSET (1 .. n), NEW i \in K
  PROVE  /\ Place(K, i) \in 1 .. Cardinality(K)
         /\ \A j \in K : Place(K, j) = Place(K, i) => j = i
<1> DEFINE Up(j) == {l \in K : l <= j}
<1>1. IsFiniteSet(1 .. n)
  BY FS_Interval
<1>2. /\ IsFiniteSet(K)
      /\ \A j : /\ IsFiniteSet(Up(j)) /\ Cardinality(Up(j)) \in Nat
               /\ Cardinality(Up(j)) <= Cardinality(K)
  <2>1. IsFiniteSet(K)
    BY <1>1, FS_Subset
  <2>2. \A j : Up(j) \subseteq K
    OBVIOUS
  <2> QED BY <2>1, <2>2, FS_Subset, FS_CardinalityType
<1>3. Cardinality(Up(i)) # 0
  <2>1. i \in Up(i)
    OBVIOUS
  <2> QED BY <1>2, <2>1, FS_EmptySet
<1>4. ASSUME NEW j \in K, NEW l \in K, j < l
      PROVE  Cardinality(Up(j)) < Cardinality(Up(l))
  <2>1. Up(j) \subseteq Up(l) /\ Up(j) # Up(l)
    <3>1. \A x \in K : x <= j => x <= l
      BY <1>4
    <3>2. l \in Up(l) /\ l \notin Up(j)
      BY <1>4
    <3> QED BY <3>1, <3>2
  <2>2. IsFiniteSet(Up(l)) /\ Up(j) \in SUBSET Up(l)
    BY <1>2, <2>1
  <2>3. Cardinality(Up(j)) \in Nat /\ Cardinality(Up(l)) \in Nat
    BY <1>2
  <2> HIDE DEF Up
  <2>4. Cardinality(Up(j)) <= Cardinality(Up(l)) /\ Cardinality(Up(l)) # Cardinality(Up(j))
    BY <2>1, <2>2, FS_Subset
  <2> QED BY <2>3, <2>4
<1>5. Cardinality(K) \in Nat
  BY <1>2, FS_CardinalityType
<1>6. Place(K, i) \in 1 .. Cardinality(K)
  BY <1>2, <1>3, <1>5 DEF Place
<1>7. ASSUME NEW j \in K, Place(K, j) = Place(K, i)
      PROVE  j = i
  <2>1. ~(j < i) /\ ~(i < j)
    <3>1. Cardinality(Up(j)) = Cardinality(Up(i)) /\ Cardinality(Up(i)) \in Nat
      BY <1>2, <1>7 DEF Place
    <3> HIDE DEF Up
    <3> QED BY <1>4, <3>1
  <2> QED BY <2>1
<1> QED BY <1>6, <1>7

\* Which character comes to stand at k.
KeptAt(raw, k) == CHOOSE i \in Kept(raw) : Place(Kept(raw), i) = k

\* " ".join(raw.split()) is a text, with each character that is kept at its place.
LEMMA JoinedIsText ==
  ASSUME NEW raw \in Seq(Character)
  PROVE  /\ Kept(raw) \in SUBSET (1 .. Len(raw))
         /\ Joined(raw) \in Seq(Character) /\ Len(Joined(raw)) = Cardinality(Kept(raw))
         /\ \A i \in Kept(raw) : /\ Place(Kept(raw), i) \in 1 .. Len(Joined(raw))
                                 /\ Joined(raw)[Place(Kept(raw), i)] = raw[i]
<1>1. Kept(raw) \in SUBSET (1 .. Len(raw)) /\ Len(raw) \in Nat
  BY DEF Kept
<1>2. Cardinality(Kept(raw)) \in Nat
  <2>1. IsFiniteSet(1 .. Len(raw))
    BY <1>1, FS_Interval
  <2>2. IsFiniteSet(Kept(raw))
    BY <1>1, <2>1, FS_Subset
  <2> QED BY <2>2, FS_CardinalityType
<1>3. ASSUME NEW k \in 1 .. Cardinality(Kept(raw))
      PROVE  KeptAt(raw, k) \in Kept(raw) /\ Place(Kept(raw), KeptAt(raw, k)) = k
  BY <1>1, PlacesTaken DEF KeptAt
<1>4. Joined(raw) = [k \in 1 .. Cardinality(Kept(raw)) |-> raw[KeptAt(raw, k)]]
  BY DEF Joined, KeptAt
<1>5. \A k \in 1 .. Cardinality(Kept(raw)) : raw[KeptAt(raw, k)] \in Character
  BY <1>1, <1>3
<1>6. Joined(raw) \in Seq(Character) /\ Len(Joined(raw)) = Cardinality(Kept(raw))
  BY <1>2, <1>4, <1>5
<1>7. ASSUME NEW i \in Kept(raw)
      PROVE  /\ Place(Kept(raw), i) \in 1 .. Cardinality(Kept(raw))
             /\ Joined(raw)[Place(Kept(raw), i)] = raw[i]
  <2>1. /\ Place(Kept(raw), i) \in 1 .. Cardinality(Kept(raw))
        /\ \A j \in Kept(raw) : Place(Kept(raw), j) = Place(Kept(raw), i) => j = i
    BY <1>1, PlacesDiffer
  <2>2. KeptAt(raw, Place(Kept(raw), i)) = i
    BY <1>3, <2>1
  <2> QED BY <1>4, <2>1, <2>2
<1> QED BY <1>1, <1>6, <1>7

\* If what is kept is one run of characters, it is that run.
LEMMA JoinedRun ==
  ASSUME NEW raw \in Seq(Character), NEW a \in 1 .. Len(raw), NEW b \in a .. Len(raw),
         Kept(raw) = a .. b
  PROVE  Joined(raw) = SubSeq(raw, a, b)
<1>1. Len(raw) \in Nat /\ a \in Nat /\ b \in Nat /\ a <= b /\ b <= Len(raw) /\ 1 <= a
  OBVIOUS
<1>2. ASSUME NEW i \in a .. b
      PROVE  Place(a .. b, i) = i - a + 1
  <2>1. {j \in a .. b : j <= i} = a .. i
    BY <1>1
  <2>2. Cardinality(a .. i) = i - a + 1
    BY <1>1, FS_Interval
  <2> QED BY <2>1, <2>2 DEF Place
<1>3. Cardinality(a .. b) = b - a + 1
  BY <1>1, FS_Interval
<1>4. Joined(raw) \in Seq(Character) /\ Len(Joined(raw)) = b - a + 1
  BY <1>3, JoinedIsText
<1>5. /\ SubSeq(raw, a, b) \in Seq(Character) /\ Len(SubSeq(raw, a, b)) = b - a + 1
      /\ \A k \in 1 .. b - a + 1 : SubSeq(raw, a, b)[k] = raw[a + k - 1]
  BY <1>1, SubSeqProperties
<1>6. ASSUME NEW k \in 1 .. b - a + 1
      PROVE  Joined(raw)[k] = raw[a + k - 1]
  <2>1. a + k - 1 \in a .. b /\ (a + k - 1) - a + 1 = k
    BY <1>1
  <2>2. Place(a .. b, a + k - 1) = k
    BY <1>2, <2>1
  <2>3. Joined(raw)[Place(a .. b, a + k - 1)] = raw[a + k - 1]
    BY <2>1, JoinedIsText
  <2> QED BY <2>2, <2>3
<1> QED BY <1>4, <1>5, <1>6, SeqEqual

Spaceless(s) == \A i \in DOMAIN s : ~IsSpace(s[i])

\* The positions that strip() looks for.
Words(raw) == {i \in DOMAIN raw : ~IsSpace(raw[i])}

\* strip() goes from the first word to the last, and nothing else is kept by the
\* other cleaning.
LEMMA StrippedIsText ==
  ASSUME NEW raw \in Seq(Character), Words(raw) # {}
  PROVE  \E a, b \in Words(raw) : /\ Stripped(raw) = SubSeq(raw, a, b) /\ Words(raw) \subseteq a .. b
                                  /\ Kept(raw) \subseteq a .. b
<1> DEFINE W == Words(raw)
           n == Len(raw)
           lo == CHOOSE i \in W : \A j \in W : i <= j
           hi == CHOOSE i \in W : \A j \in W : i >= j
<1>1. n \in Nat /\ W \subseteq 1 .. n /\ W # {}
  BY DEF Words
<1> HIDE DEF W, n
<1>2. \E i \in W : \A j \in W : i <= j
  <2>1. W \subseteq Nat
    BY <1>1
  <2> QED BY <1>1, <2>1, SmallestOfSet
<1>3. \E i \in W : \A j \in W : i >= j
  <2> DEFINE M == {n - j : j \in W}
  <2>1. M \subseteq Nat /\ M # {}
    <3>1. \A j \in W : n - j \in Nat
      BY <1>1
    <3>2. \E j : j \in W
      BY <1>1
    <3> QED BY <3>1, <3>2
  <2> HIDE DEF M
  <2>2. PICK m \in M : \A k \in M : m <= k
    BY <2>1, SmallestOfSet
  <2>3. PICK i \in W : m = n - i
    BY <2>2 DEF M
  <2>4. \A j \in W : n - i <= n - j
    BY <2>2, <2>3 DEF M
  <2> QED BY <1>1, <2>4
<1>4. lo \in W /\ hi \in W /\ \A j \in W : lo <= j /\ j <= hi
  BY <1>1, <1>2, <1>3
<1>5. Stripped(raw) = SubSeq(raw, lo, hi)
  BY <1>1 DEF Stripped, Words, W
<1> HIDE DEF lo, hi
<1>6. W \subseteq lo .. hi
  BY <1>1, <1>4
<1>7. ASSUME NEW i \in Kept(raw)
      PROVE  i \in lo .. hi
  <2>1. i \in 1 .. n /\ (i \in W \/ (i > 1 /\ i - 1 \in W /\ \E j \in i + 1 .. n : j \in W))
    <3>1. DOMAIN raw = 1 .. n
      BY DEF n
    <3> QED BY <1>1, <3>1 DEF Kept, Words, W, n
  <2> QED BY <1>1, <1>4, <2>1
<1> QED BY <1>4, <1>5, <1>6, <1>7 DEF W

\* Of a text of whitespace nothing is left by either.
LEMMA BlankIsEmpty ==
  ASSUME NEW raw \in Seq(Character), Words(raw) = {}
  PROVE  Stripped(raw) = <<>> /\ Joined(raw) = <<>>
<1>1. Stripped(raw) = <<>>
  BY DEF Stripped, Words
<1>2. Kept(raw) = {}
  BY DEF Kept, Words
<1>3. Joined(raw) \in Seq(Character) /\ Len(Joined(raw)) = 0
  BY <1>2, JoinedIsText, FS_EmptySet
<1> QED BY <1>1, <1>3

\* If one of them leaves a single word, the other leaves the same.
LEMMA OneWord ==
  ASSUME NEW raw \in Seq(Character), Spaceless(Joined(raw)) \/ Spaceless(Stripped(raw))
  PROVE  /\ Joined(raw) = Stripped(raw)
         /\ Stripped(raw) \in Seq(Character) /\ Spaceless(Stripped(raw))
<1>1. CASE Words(raw) = {}
  <2>1. Joined(raw) = <<>> /\ Stripped(raw) = <<>>
    BY <1>1, BlankIsEmpty
  <2>2. <<>> \in Seq(Character) /\ Spaceless(<<>>)
    BY DEF Spaceless
  <2> QED BY <2>1, <2>2
<1>2. CASE Words(raw) # {}
  <2> DEFINE n == Len(raw)
  <2>1. PICK a, b \in Words(raw) : /\ Stripped(raw) = SubSeq(raw, a, b) /\ Words(raw) \subseteq a .. b
                                   /\ Kept(raw) \subseteq a .. b
    BY <1>2, StrippedIsText
  <2>2. /\ n \in Nat /\ a \in 1 .. n /\ b \in 1 .. n /\ a <= b
        /\ \A i \in 1 .. n : i \in Words(raw) <=> ~IsSpace(raw[i])
    BY <2>1 DEF Words
  <2>3. /\ Stripped(raw) \in Seq(Character) /\ Len(Stripped(raw)) = b - a + 1
        /\ \A k \in 1 .. b - a + 1 : Stripped(raw)[k] = raw[a + k - 1]
    BY <2>1, <2>2, SubSeqProperties
  <2>4. \A i \in a .. b : i \in 1 .. n
    BY <2>2
  <2>5. ASSUME a .. b \subseteq Words(raw)
        PROVE  /\ Joined(raw) = Stripped(raw)
               /\ Spaceless(Stripped(raw))
    <3>1. Words(raw) \subseteq Kept(raw)
      BY DEF Words, Kept
    <3>2. Kept(raw) = a .. b
      BY <2>1, <2>5, <3>1
    <3>3. Joined(raw) = Stripped(raw)
      <4>1. b \in a .. n
        BY <2>2
      <4> QED BY <2>1, <2>2, <3>2, <4>1, JoinedRun
    <3>4. ASSUME NEW k \in 1 .. b - a + 1
          PROVE  ~IsSpace(Stripped(raw)[k])
      <4>1. a + k - 1 \in a .. b
        BY <2>2
      <4> QED BY <2>2, <2>3, <2>4, <2>5, <4>1
    <3>5. DOMAIN Stripped(raw) = 1 .. b - a + 1
      BY <2>3
    <3> QED BY <3>3, <3>4, <3>5 DEF Spaceless
  <2>6. CASE Spaceless(Stripped(raw))
    <3>1. ASSUME NEW i \in a .. b
          PROVE  i \in Words(raw)
      <4>1. i - a + 1 \in 1 .. b - a + 1 /\ a + (i - a + 1) - 1 = i
        BY <2>2
      <4>2. Stripped(raw)[i - a + 1] = raw[i]
        BY <2>3, <4>1
      <4>3. DOMAIN Stripped(raw) = 1 .. b - a + 1
        BY <2>3
      <4>4. ~IsSpace(Stripped(raw)[i - a + 1])
        BY <2>6, <4>1, <4>3 DEF Spaceless
      <4> QED BY <2>2, <2>4, <4>2, <4>4
    <3> QED BY <2>3, <2>5, <3>1
  <2>7. CASE Spaceless(Joined(raw))
    <3>1. \A i \in Kept(raw) : ~IsSpace(raw[i])
      <4>1. Joined(raw) \in Seq(Character) /\ DOMAIN Joined(raw) = 1 .. Len(Joined(raw))
        BY JoinedIsText
      <4> QED BY <2>7, <4>1, JoinedIsText DEF Spaceless
    <3> DEFINE P == {k \in Nat : a + k <= b => a + k \in Words(raw)}
    <3>2. 0 \in P
      BY <2>2, <2>1
    <3>3. ASSUME NEW k \in Nat, k \in P
          PROVE  k + 1 \in P
      <4>1. CASE a + (k + 1) <= b /\ a + (k + 1) \notin Words(raw)
        <5>1. PICK i : i = a + (k + 1)
          OBVIOUS
        <5>2. i \in 1 .. n /\ i > 1 /\ i - 1 = a + k /\ a + k <= b /\ i <= b /\ i # b
          BY <2>1, <2>2, <4>1, <5>1
        <5>3. i - 1 \in Words(raw) /\ b \in i + 1 .. n /\ b \in Words(raw)
          BY <2>1, <2>2, <3>3, <5>2
        <5>4. ~IsSpace(raw[i - 1]) /\ ~IsSpace(raw[b]) /\ i \in DOMAIN raw
          <6>1. i - 1 \in 1 .. n
            BY <2>2, <5>2
          <6> QED BY <2>2, <5>2, <5>3, <6>1
        <5>5. i \in Kept(raw)
          BY <5>2, <5>3, <5>4 DEF Kept
        <5>6. IsSpace(raw[i])
          BY <2>2, <4>1, <5>1, <5>2
        <5> QED BY <3>1, <5>5, <5>6
      <4> QED BY <4>1
    <3> HIDE DEF P
    <3>4. Nat \subseteq P
      BY <3>2, <3>3, Induction
    <3>5. ASSUME NEW i \in a .. b
          PROVE  i \in Words(raw)
      <4>1. i - a \in Nat /\ a + (i - a) = i /\ i <= b
        BY <2>2
      <4>2. i - a \in P
        BY <3>4, <4>1
      <4> QED BY <4>1, <4>2 DEF P
    <3> QED BY <2>3, <2>5, <3>5
  <2> QED BY <2>6, <2>7
<1> QED BY <1>1, <1>2

\* A text with no whitespace stays as it is.
LEMMA SpacelessStays ==
  ASSUME NEW s \in Seq(Character), Spaceless(s)
  PROVE  Joined(s) = s /\ Stripped(s) = s
<1>1. CASE s = <<>>
  <2>1. Words(s) = {}
    BY <1>1 DEF Words
  <2> QED BY <1>1, <2>1, BlankIsEmpty
<1>2. CASE s # <<>>
  <2>1. Len(s) \in Nat \ {0}
    BY <1>2
  <2>2. Kept(s) = 1 .. Len(s)
    BY DEF Kept, Spaceless
  <2>3. SubSeq(s, 1, Len(s)) = s
    OBVIOUS
  <2>4. Joined(s) = s
    <3>1. 1 \in 1 .. Len(s) /\ Len(s) \in 1 .. Len(s)
      BY <2>1
    <3> QED BY <2>2, <2>3, <3>1, JoinedRun
  <2>5. Joined(s) = Stripped(s)
    BY <2>4, OneWord
  <2> QED BY <2>4, <2>5
<1> QED BY <1>1, <1>2

---------------------------------------------------------------------------
(* What a text is taken for *)

\* The digits alone make the number, whatever their kind.
LEMMA SameNumber ==
  ASSUME NEW s \in Seq(Character), NEW t \in Seq(Character), Len(s) = Len(t),
         \A i \in 1 .. Len(s) : s[i].digit = t[i].digit
  PROVE  Number(s) = Number(t)
<1> DEFINE n == Len(s)
<1>1. PICK f : Prefix(f, s) /\ Number(s) = f[n]
  BY NumberByPrefix
<1>2. PICK g : Prefix(g, t) /\ Number(t) = g[n]
  BY NumberByPrefix
<1>3. /\ n \in Nat /\ f[0] = 0 /\ g[0] = 0
      /\ \A i \in 1 .. n : f[i] = 10 * f[i - 1] + s[i].digit
      /\ \A i \in 1 .. n : g[i] = 10 * g[i - 1] + s[i].digit
  BY <1>1, <1>2 DEF Prefix
<1> HIDE DEF n
<1> DEFINE P == {i \in Nat : i <= n => f[i] = g[i]}
<1>4. 0 \in P
  BY <1>3
<1>5. ASSUME NEW i \in Nat, i \in P
      PROVE  i + 1 \in P
  <2>1. CASE i + 1 <= n
    <3>1. i + 1 \in 1 .. n /\ i + 1 - 1 = i /\ i <= n
      BY <1>3, <2>1
    <3>2. f[i + 1] = 10 * f[i] + s[i + 1].digit /\ g[i + 1] = 10 * g[i] + s[i + 1].digit
      BY <1>3, <3>1
    <3>3. f[i] = g[i]
      BY <1>5, <3>1
    <3> QED BY <3>2, <3>3
  <2> QED BY <2>1
<1> HIDE DEF P
<1>6. n \in P
  BY <1>3, <1>4, <1>5, Induction
<1> QED BY <1>1, <1>2, <1>3, <1>6 DEF P

\* translate() gives a text of the same digits, that it does not change again.
LEMMA TranslatedText ==
  ASSUME NEW s \in Seq(Character)
  PROVE  /\ Translated(s) \in Seq(Character) /\ Len(Translated(s)) = Len(s)
         /\ \A i \in 1 .. Len(s) :
              Translated(s)[i] = IF s[i].kind = "arabic" THEN Ascii(s[i].digit) ELSE s[i]
         /\ Translated(Translated(s)) = Translated(s)
         /\ Number(Translated(s)) = Number(s)
<1> DEFINE t == Translated(s)
           one(c) == IF c.kind = "arabic" THEN Ascii(c.digit) ELSE c
<1>1. \A c \in Character : one(c) \in Character /\ one(c).digit = c.digit /\ one(c).kind # "arabic"
  BY DEF Ascii, Character
<1>2. Len(s) \in Nat /\ DOMAIN s = 1 .. Len(s) /\ \A i \in 1 .. Len(s) : s[i] \in Character
  OBVIOUS
<1>3. t = [i \in 1 .. Len(s) |-> one(s[i])]
  BY <1>2 DEF Translated
<1> HIDE DEF t, one
<1>4. t \in Seq(Character) /\ Len(t) = Len(s) /\ \A i \in 1 .. Len(s) : t[i] = one(s[i])
  BY <1>1, <1>2, <1>3
<1>5. Translated(t) = t
  <2>1. \A i \in 1 .. Len(s) : t[i].kind # "arabic"
    BY <1>1, <1>2, <1>4
  <2>2. DOMAIN t = 1 .. Len(s)
    BY <1>3
  <2>3. Translated(t) = [i \in 1 .. Len(s) |-> t[i]]
    BY <2>1, <2>2 DEF Translated
  <2> QED BY <1>3, <2>3
<1>6. Number(t) = Number(s)
  <2>1. \A i \in 1 .. Len(t) : t[i].digit = s[i].digit
    BY <1>1, <1>2, <1>4
  <2> QED BY <1>4, <2>1, SameNumber
<1> QED BY <1>4, <1>5, <1>6 DEF t, one

\* isdigit() and int() take it as they took the one before.
LEMMA TranslatedKinds ==
  ASSUME NEW s \in Seq(Character)
  PROVE  /\ IsDigit(Translated(s)) <=> IsDigit(s)
         /\ (\E i \in DOMAIN Translated(s) : Translated(s)[i].kind = "power")
              <=> (\E i \in DOMAIN s : s[i].kind = "power")
         /\ Usual(s) => \A i \in DOMAIN Translated(s) : Translated(s)[i].kind = "ascii"
         /\ IsDigit(s) => Spaceless(s) /\ Spaceless(Translated(s))
<1> DEFINE t == Translated(s)
<1>1. /\ Len(s) \in Nat /\ DOMAIN s = 1 .. Len(s) /\ DOMAIN t = 1 .. Len(s)
      /\ (t = <<>>) <=> (s = <<>>)
  <2>1. t \in Seq(Character) /\ Len(t) = Len(s)
    BY TranslatedText
  <2> QED BY <2>1
<1>2. \A i \in 1 .. Len(s) : t[i].kind = IF s[i].kind = "arabic" THEN "ascii" ELSE s[i].kind
  <2>1. \A d : Ascii(d).kind = "ascii"
    BY DEF Ascii
  <2>2. \A i \in 1 .. Len(s) : t[i] = IF s[i].kind = "arabic" THEN Ascii(s[i].digit) ELSE s[i]
    BY TranslatedText
  <2> HIDE DEF t
  <2> QED BY <2>1, <2>2
<1> HIDE DEF t
<1>3. IsDigit(t) <=> IsDigit(s)
  BY <1>1, <1>2 DEF IsDigit
<1>4. (\E i \in DOMAIN t : t[i].kind = "power") <=> (\E i \in DOMAIN s : s[i].kind = "power")
  BY <1>1, <1>2
<1>5. Usual(s) => \A i \in DOMAIN t : t[i].kind = "ascii"
  BY <1>1, <1>2 DEF Usual
<1>6. IsDigit(s) => Spaceless(s) /\ Spaceless(t)
  BY <1>1, <1>2 DEF IsDigit, Spaceless, IsSpace
<1> QED BY <1>3, <1>4, <1>5, <1>6 DEF t

\* What isdigit() and int() both take for a number is one word of plain digits.
LEMMA PlainIsDigit ==
  ASSUME NEW s \in Seq(Character)
  PROVE  /\ Plain(s) <=> IsDigit(s) /\ ~(\E i \in DOMAIN s : s[i].kind = "power")
         /\ Plain(s) => Spaceless(s)
  BY DEF Plain, IsDigit, Spaceless, IsSpace

\* A word that becomes a bank number: digits, not all zeros, of which at most
\* eight are left by lstrip("0").
Taken(w) ==
  Plain(w) /\ Significant(Translated(w)) <= BankDigits /\ Number(w) # 0

\* strip() gives a text.
LEMMA StrippedText ==
  ASSUME NEW raw \in Seq(Character)
  PROVE  Stripped(raw) \in Seq(Character)
<1>1. CASE Words(raw) = {}
  <2>1. <<>> \in Seq(Character)
    OBVIOUS
  <2> QED BY <1>1, <2>1, BlankIsEmpty
<1>2. CASE Words(raw) # {}
  <2>1. PICK a, b \in Words(raw) : Stripped(raw) = SubSeq(raw, a, b)
    BY <1>2, StrippedIsText
  <2> QED BY <2>1 DEF Words
<1> QED BY <1>1, <1>2

\* normalize_bank_number takes exactly such a word, for its number, and prints it.
LEMMA BankOfWord ==
  ASSUME NEW raw \in Seq(Character)
  PROVE  LET bank == NormalizeBankNumber(raw)
             word == Stripped(raw)
         IN /\ bank.is = "accepted" <=> Taken(word)
            /\ bank.is = "accepted" =>
                 /\ word \in Seq(Character) /\ Number(word) \in Nat
                 /\ bank = Accepted(Number(word), Formatted(Number(word)))
            /\ bank.is \in {"accepted", "refused", "broken"} /\ bank.number \in Nat
<1> DEFINE bank == NormalizeBankNumber(raw)
           word == Stripped(raw)
           j == Joined(raw)
           s == Translated(j)
<1>1. j \in Seq(Character)
  BY JoinedIsText
<1>2. /\ IsDigit(s) <=> IsDigit(j)
      /\ (\E i \in DOMAIN s : s[i].kind = "power") <=> (\E i \in DOMAIN j : j[i].kind = "power")
      /\ IsDigit(j) => Spaceless(j)
      /\ Number(s) = Number(j) /\ Number(j) \in Nat
  BY <1>1, TranslatedKinds, TranslatedText, NumberIsMeaning
<1>3. /\ Plain(j) <=> IsDigit(j) /\ ~(\E i \in DOMAIN j : j[i].kind = "power")
      /\ IntOf(s) = IF \E i \in DOMAIN s : s[i].kind = "power" THEN Broken
                    ELSE Accepted(Number(s), <<>>)
  BY <1>1, PlainIsDigit DEF IntOf
<1>4. bank = IF ~IsDigit(s) \/ Significant(s) > BankDigits THEN Refused
             ELSE IF IntOf(s).is = "broken" THEN Broken
             ELSE IF IntOf(s).number = 0 THEN Refused
             ELSE Accepted(IntOf(s).number, Formatted(IntOf(s).number))
  BY DEF NormalizeBankNumber
<1>5. Significant(s) \in Nat /\ BankDigits \in Nat
  BY <1>1, TranslatedText, NumberBelow, ValuesAssumption
<1>6. /\ Refused.is = "refused" /\ Refused.number = 0 /\ Broken.is = "broken" /\ Broken.number = 0
      /\ \A x, y : Accepted(x, y).is = "accepted" /\ Accepted(x, y).number = x
  BY DEF Refused, Broken, Accepted
<1>7. Spaceless(j) => j = word
  BY OneWord
<1>8. Plain(word) => j = word
  BY StrippedText, PlainIsDigit, OneWord
<1> HIDE DEF bank, word, j, s
<1>9. bank.is = "accepted" <=> Plain(j) /\ Significant(s) <= BankDigits /\ Number(j) # 0
  BY <1>2, <1>3, <1>4, <1>5, <1>6
<1>10. bank.is = "accepted" => bank = Accepted(Number(j), Formatted(Number(j)))
  BY <1>2, <1>3, <1>4, <1>5, <1>6
<1>11. Plain(j) => j = word
  BY <1>2, <1>3, <1>7
<1>12. bank.is \in {"accepted", "refused", "broken"} /\ bank.number \in Nat
  BY <1>2, <1>3, <1>4, <1>5, <1>6
<1>13. bank.is = "accepted" <=> Taken(word)
  BY <1>8, <1>9, <1>11 DEF Taken, s
<1>14. bank.is = "accepted" => j = word
  BY <1>9, <1>11
<1>15. bank.is = "accepted" =>
         /\ word \in Seq(Character) /\ Number(word) \in Nat
         /\ bank = Accepted(Number(word), Formatted(Number(word)))
  BY <1>1, <1>2, <1>10, <1>14
<1> QED BY <1>12, <1>13, <1>15 DEF bank, word

\* clean_batch_count takes exactly a word of plain digits from 1 to MAX_BATCH.
LEMMA CountOfWord ==
  ASSUME NEW raw \in Seq(Character)
  PROVE  LET count == CleanBatchCount(raw)
             word == Stripped(raw)
         IN /\ count.is = "accepted" <=> Plain(word) /\ Number(word) \in 1 .. MaxBatch
            /\ count.is = "accepted" => count.number = Number(word)
            /\ count.is \in {"accepted", "refused", "broken"} /\ count.number \in Nat
<1> DEFINE count == CleanBatchCount(raw)
           word == Stripped(raw)
           s == Joined(raw)
<1>1. s \in Seq(Character) /\ word \in Seq(Character) /\ Number(s) \in Nat
  BY JoinedIsText, StrippedText, NumberIsMeaning
<1>2. /\ Plain(s) <=> IsDigit(s) /\ ~(\E i \in DOMAIN s : s[i].kind = "power")
      /\ IntOf(s) = IF \E i \in DOMAIN s : s[i].kind = "power" THEN Broken
                    ELSE Accepted(Number(s), <<>>)
  BY <1>1, PlainIsDigit DEF IntOf
<1>3. count = IF ~IsDigit(s) THEN Refused
              ELSE IF IntOf(s).is = "accepted" /\ IntOf(s).number \notin 1 .. MaxBatch THEN Refused
              ELSE IntOf(s)
  BY DEF CleanBatchCount
<1>4. /\ Refused.is = "refused" /\ Refused.number = 0 /\ Broken.is = "broken" /\ Broken.number = 0
      /\ \A x, y : Accepted(x, y).is = "accepted" /\ Accepted(x, y).number = x
  BY DEF Refused, Broken, Accepted
<1>5. Plain(s) \/ Plain(word) => s = word
  BY <1>1, PlainIsDigit, OneWord
<1> HIDE DEF count, word, s
<1>6. count.is = "accepted" <=> Plain(s) /\ Number(s) \in 1 .. MaxBatch
  BY <1>2, <1>3, <1>4
<1>7. count.is = "accepted" => count.number = Number(s)
  BY <1>2, <1>3, <1>4
<1>8. count.is \in {"accepted", "refused", "broken"} /\ count.number \in Nat
  BY <1>1, <1>2, <1>3, <1>4
<1>9. count.is = "accepted" <=> Plain(word) /\ Number(word) \in 1 .. MaxBatch
  BY <1>5, <1>6
<1>10. count.is = "accepted" => count.number = Number(word)
  BY <1>5, <1>6, <1>7
<1> QED BY <1>8, <1>9, <1>10 DEF count, word

\* What is read from a text is a text again.
LEMMA ReadIsText ==
  ASSUME NEW raw \in Seq(Character), NEW read \in {CleanName(raw), NormalizeBankNumber(raw)}
  PROVE  /\ read.is \in {"accepted", "refused", "broken"} /\ read.number \in Nat
         /\ read.is = "accepted" => read.value \in Seq(Character)
<1>1. CASE read = CleanName(raw)
  <2>1. Joined(raw) \in Seq(Character)
    BY JoinedIsText
  <2>2. read = Accepted(0, Joined(raw)) \/ read = Refused
    BY <1>1 DEF CleanName
  <2> QED BY <2>1, <2>2 DEF Accepted, Refused
<1>2. CASE read = NormalizeBankNumber(raw)
  <2> DEFINE word == Stripped(raw)
  <2>1. read.is \in {"accepted", "refused", "broken"} /\ read.number \in Nat
    BY <1>2, BankOfWord
  <2>2. ASSUME read.is = "accepted"
        PROVE  read.value \in Seq(Character)
    <3>1. PICK number \in Nat : read = Accepted(number, Formatted(number))
      BY <1>2, <2>2, BankOfWord
    <3>2. Formatted(number) \in Seq(Character)
      BY FormattedIsText
    <3> QED BY <3>1, <3>2 DEF Accepted
  <2> QED BY <2>1, <2>2
<1> QED BY <1>1, <1>2

\* Of each text the numbers are what it means,
LEMMA NumbersOfText ==
  ASSUME text \in Seq(Character)
  PROVE  NumbersMeanThemselves
<1> DEFINE word == Stripped(text)
           s == Translated(word)
           bank == NormalizeBankNumber(text)
           count == CleanBatchCount(text)
           top == Ten[BankDigits]
<1>1. /\ word \in Seq(Character) /\ Number(word) = Means(word) /\ Number(word) \in Nat
      /\ s \in Seq(Character) /\ Number(s) = Number(word)
  BY StrippedText, NumberIsMeaning, TranslatedText
<1>2. top \in Nat /\ BankDigits \in Nat
  BY Tens, ValuesAssumption
<1>3. /\ Significant(s) <= BankDigits => Number(s) < top
      /\ (\A i \in DOMAIN s : s[i].kind = "ascii") /\ Number(s) < top => Significant(s) <= BankDigits
  BY <1>1, <1>2, SignificantIsLength
<1>4. Usual(word) => \A i \in DOMAIN s : s[i].kind = "ascii"
  BY <1>1, TranslatedKinds
<1>5. /\ bank.is = "accepted" <=> Taken(word)
      /\ bank.is = "accepted" => bank = Accepted(Number(word), Formatted(Number(word)))
  BY BankOfWord
<1>6. /\ count.is = "accepted" <=> Plain(word) /\ Number(word) \in 1 .. MaxBatch
      /\ count.is = "accepted" => count.number = Number(word)
  BY CountOfWord
<1>7. Taken(word) <=> Plain(word) /\ Significant(s) <= BankDigits /\ Number(word) # 0
  BY DEF Taken
<1>8. \A x, y : Accepted(x, y).number = x
  BY DEF Accepted
<1> HIDE DEF word, s, bank, count, top
<1>9. bank.is = "accepted" => Plain(word) /\ Means(word) \in 1 .. top - 1
  BY <1>1, <1>2, <1>3, <1>5, <1>7
<1>10. Plain(word) /\ Usual(word) /\ Means(word) \in 1 .. top - 1 => bank.is = "accepted"
  <2>1. ASSUME Plain(word), Usual(word), Means(word) \in 1 .. top - 1
        PROVE  bank.is = "accepted"
    <3>1. Number(s) < top /\ Number(word) # 0
      BY <1>1, <1>2, <2>1
    <3>2. Significant(s) <= BankDigits
      BY <1>3, <1>4, <2>1, <3>1
    <3> QED BY <1>5, <1>7, <2>1, <3>1, <3>2
  <2> QED BY <2>1
<1>11. bank.is = "accepted" => bank.number = Means(word)
  BY <1>1, <1>5, <1>8
<1>12. /\ count.is = "accepted" <=> Plain(word) /\ Means(word) \in 1 .. MaxBatch
       /\ count.is = "accepted" => count.number = Means(word)
  BY <1>1, <1>6
<1> QED BY <1>9, <1>10, <1>11, <1>12 DEF NumbersMeanThemselves, word, bank, count, top

\* and the number taken from it is found again.
LEMMA SearchOfText ==
  ASSUME text \in Seq(Character)
  PROVE  SearchFindsCard
<1> SUFFICES ASSUME NormalizeBankNumber(text).is = "accepted"
             PROVE  LET bank == NormalizeBankNumber(text)
                    IN FindCard(text) = bank /\ FindCard(bank.value) = bank
  BY DEF SearchFindsCard
<1> DEFINE word == Stripped(text)
           s == Translated(word)
           bank == NormalizeBankNumber(text)
           v == Formatted(Number(word))
<1>1. /\ word \in Seq(Character) /\ Number(word) \in Nat /\ Number(word) # 0
      /\ Plain(word) /\ Significant(s) <= BankDigits
      /\ bank = Accepted(Number(word), v)
  BY BankOfWord DEF Taken
<1>2. s \in Seq(Character) /\ Translated(s) = s /\ Number(s) = Number(word) /\ Len(s) = Len(word)
  BY <1>1, TranslatedText
<1>3. IsDigit(word) /\ IsDigit(s) /\ Spaceless(s) /\ ~(\E i \in DOMAIN s : s[i].kind = "power")
  BY <1>1, PlainIsDigit, TranslatedKinds
<1>4. Stripped(s) = s
  BY <1>2, <1>3, SpacelessStays
<1>5. Plain(s)
  BY <1>2, <1>3, PlainIsDigit
<1>6. NormalizeBankNumber(s) = bank
  <2>1. Taken(Stripped(s))
    BY <1>1, <1>2, <1>4, <1>5 DEF Taken
  <2>2. NormalizeBankNumber(s) = Accepted(Number(Stripped(s)), Formatted(Number(Stripped(s))))
    BY <1>2, <2>1, BankOfWord
  <2> QED BY <1>1, <1>2, <1>4, <2>2
<1>7. FindCard(text) = bank
  BY <1>3, <1>6 DEF FindCard
<1>8. Number(word) < Ten[BankDigits]
  <2>1. BankDigits \in Nat
    BY ValuesAssumption
  <2> QED BY <1>1, <1>2, <2>1, SignificantIsLength
<1>9. /\ v \in Seq(Character) /\ Len(v) = BankDigits /\ \A i \in 1 .. BankDigits : v[i].kind = "ascii"
      /\ Number(v) = Number(word)
  BY <1>1, <1>8, FormattedIsText, FormattedNumber
<1> HIDE DEF v
<1>10. v # <<>> /\ DOMAIN v = 1 .. BankDigits /\ BankDigits \in Nat \ {0}
  BY <1>9, ValuesAssumption
<1>11. Plain(v) /\ IsDigit(v) /\ Spaceless(v)
  BY <1>9, <1>10 DEF Plain, IsDigit, Spaceless, IsSpace
<1>12. Translated(v) = v
  <2>1. Translated(v) = [i \in DOMAIN v |-> v[i]]
    BY <1>9, <1>10 DEF Translated
  <2> QED BY <1>9, <2>1
<1>13. Stripped(v) = v
  BY <1>9, <1>11, SpacelessStays
<1>14. Significant(v) <= BankDigits
  BY <1>8, <1>9, <1>10, SignificantIsLength
<1>15. NormalizeBankNumber(v) = bank
  <2>1. Taken(Stripped(v))
    BY <1>1, <1>9, <1>11, <1>12, <1>13, <1>14 DEF Taken
  <2>2. NormalizeBankNumber(v) = Accepted(Number(Stripped(v)), Formatted(Number(Stripped(v))))
    BY <1>9, <2>1, BankOfWord
  <2> QED BY <1>1, <1>9, <1>13, <2>2 DEF v
<1>16. FindCard(v) = bank
  BY <1>11, <1>12, <1>13, <1>15 DEF FindCard
<1>17. bank.value = v
  BY <1>1 DEF Accepted
<1> QED BY <1>7, <1>16, <1>17

---------------------------------------------------------------------------
(* Numbers and the search *)

\* No step breaks a type.
LEMMA ValuesTyped ==
  ASSUME TypeOK, [Next]_vars
  PROVE  TypeOK'
<1> USE DEF TypeOK
<1>1. CASE UNCHANGED vars
  BY <1>1 DEF vars
<1>2. ASSUME NEW c \in Typed, Type(c) PROVE TypeOK'
  <2>1. Append(text, c) \in Seq(Character)
    BY <1>2, ValuesAssumption
  <2> QED BY <1>2, <2>1 DEF Type
<1>3. CASE SendCount
  BY <1>3, CountOfWord DEF SendCount
<1>4. ASSUME NEW read \in {CleanName(text), NormalizeBankNumber(text)}, SendValue(read) PROVE TypeOK'
  <2>1. /\ read.is \in {"accepted", "refused", "broken"} /\ read.number \in Nat
        /\ read.is = "accepted" => read.value \in Seq(Character)
    BY ReadIsText
  <2>2. field.font_size \in Int
    BY ValuesAssumption DEF Field
  <2> QED BY <1>4, <2>1, <2>2 DEF SendValue
<1>5. CASE Shrink
  BY <1>5 DEF Shrink
<1>6. CASE Smallest
  <2>1. field.min_size \in Int
    BY ValuesAssumption DEF Field
  <2> QED BY <1>6, <2>1 DEF Smallest
<1>7. CASE Clip
  <2>1. shown # <<>> => Front(shown) \in Seq(Character)
    BY DEF Front
  <2> QED BY <1>7, <2>1 DEF Clip
<1>8. CASE Clipped
  <2>1. Append(shown, Ellipsis) \in Seq(Character)
    BY DEF Ellipsis, Character
  <2> QED BY <1>8, <2>1 DEF Clipped
<1>9. CASE Again
  <2>1. <<>> \in Seq(Character)
    OBVIOUS
  <2> QED BY <1>9, <2>1 DEF Again, Refused
<1> QED BY <1>1, <1>2, <1>3, <1>4, <1>5, <1>6, <1>7, <1>8, <1>9 DEF Next, FitText

\* Every variable keeps its type: what is read from a text of any length, and what
\* is left of it by the cut of fit_text, is a text again.
THEOREM ValuesTypes == Spec => []TypeOK
<1>1. Init => TypeOK
  <2>1. <<>> \in Seq(Character)
    OBVIOUS
  <2> QED BY <2>1 DEF Init, TypeOK, Refused
<1> QED BY <1>1, ValuesTyped, PTL DEF Spec

\* A bank number is taken (normalize_bank_number) only from a positive number of
\* at most eight digits, always from one typed on either keyboard, and for the
\* number it means; a batch size (clean_batch_count) exactly from 1 to MAX_BATCH:
\* for texts of every length and every limit.
THEOREM NumbersMean == Spec => []NumbersMeanThemselves
<1>1. TypeOK => NumbersMeanThemselves
  BY NumbersOfText DEF TypeOK
<1> QED BY <1>1, ValuesTypes, PTL

\* find_card finds a card by every text its number could have been typed as, and
\* by the number printed on it, for texts of every length and every limit.
THEOREM SearchFinds == Spec => []SearchFindsCard
<1>1. TypeOK => SearchFindsCard
  BY SearchOfText DEF TypeOK
<1> QED BY <1>1, ValuesTypes, PTL

---------------------------------------------------------------------------
(* Inside the box *)

\* A font measures in whole units,
Pixels   == \A s \in Seq(Character), at \in Nat : Width(s, at) \in Int
\* and no wider at a smaller size.
Growing  == \A s \in Seq(Character), i, j \in Nat : i <= j => Width(s, i) <= Width(s, j)

InsideInv ==
  /\ TypeOK
  /\ phase = "clip" => size = field.min_size
  /\ DrawnInsideTheBox

\* What fits, fits with its outline on both sides.
LEMMA FitsInside ==
  ASSUME Pixels, field \in Fields, NEW s \in Seq(Character), NEW at \in Nat, Fits(s, at)
  PROVE  Width(s, at) + 2 * field.stroke <= field.max_width
<1>1. Width(s, at) \in Int /\ field.max_width \in Nat /\ field.stroke \in Nat
  BY ValuesAssumption DEF Pixels, Field
<1> QED BY <1>1 DEF Fits, Budget

\* What is drawn stays, with its outline, inside the box of its field (fit_text),
\* for every value, every font and every box with room for an ellipsis.
THEOREM InsideTheBox ==
  ASSUME Pixels
  PROVE  Spec => []DrawnInsideTheBox
<1>1. Init => InsideInv
  <2>1. <<>> \in Seq(Character)
    OBVIOUS
  <2> QED BY <2>1 DEF Init, InsideInv, DrawnInsideTheBox, TypeOK, Refused
<1>2. ASSUME InsideInv, [Next]_vars PROVE InsideInv'
  <2>0. TypeOK'
    BY <1>2, ValuesTyped DEF InsideInv
  <2> SUFFICES (phase = "clip" => size = field.min_size)' /\ DrawnInsideTheBox'
    BY <2>0 DEF InsideInv
  <2>1. /\ field \in Fields /\ field.min_size \in Nat /\ shown \in Seq(Character) /\ size \in Int
        /\ phase = "clip" => size = field.min_size
        /\ phase = "drawn" => Width(shown, size) + 2 * field.stroke <= field.max_width
    BY <1>2, ValuesAssumption DEF InsideInv, TypeOK, Field, DrawnInsideTheBox
  <2> USE DEF DrawnInsideTheBox
  <2>2. CASE UNCHANGED vars
    BY <2>1, <2>2 DEF vars
  <2>3. CASE \E c \in Typed : Type(c)
    BY <2>1, <2>3 DEF Type
  <2>4. CASE SendCount
    BY <2>1, <2>4 DEF SendCount
  <2>5. ASSUME NEW read, SendValue(read)
        PROVE  (phase = "clip" => size = field.min_size)' /\ DrawnInsideTheBox'
    BY <2>1, <2>5 DEF SendValue
  <2>6. CASE Shrink
    <3>1. size \in Nat
      BY <2>1, <2>6 DEF Shrink
    <3> QED BY <2>1, <2>6, <3>1, FitsInside DEF Shrink
  <2>7. CASE Smallest
    BY <2>1, <2>7, FitsInside DEF Smallest
  <2>8. CASE Clip
    BY <2>1, <2>8 DEF Clip
  <2>9. CASE Clipped
    <3>1. shown = <<>> => Append(shown, Ellipsis) = <<Ellipsis>>
      OBVIOUS
    <3>2. Append(shown, Ellipsis) \in Seq(Character)
      BY <2>1 DEF Ellipsis, Character
    <3>3. Width(<<Ellipsis>>, field.min_size) + 2 * field.stroke <= field.max_width
      BY <2>1, ValuesAssumption
    <3> QED BY <2>1, <2>9, <3>1, <3>2, <3>3, FitsInside DEF Clipped
  <2>10. CASE Again
    BY <2>10 DEF Again
  <2> QED BY <1>2, <2>2, <2>3, <2>4, <2>5, <2>6, <2>7, <2>8, <2>9, <2>10 DEF Next, FitText
<1>3. InsideInv => DrawnInsideTheBox
  BY DEF InsideInv
<1> QED BY <1>1, <1>2, <1>3, PTL DEF Spec

---------------------------------------------------------------------------
(* As large and as long as it can be *)

Value == outcome.value

\* The first n characters of the value.
Start(n) == SubSeq(Value, 1, n)

\* Where the loop is: while it shrinks, every size two points above has been too
\* large; while it cuts, one character more has been too many.
Shrinking ==
  /\ shown = Value /\ size \in Int /\ size <= field.font_size
  /\ size = field.font_size \/ \A at \in Int : at >= size + 2 => ~Fits(Value, at)

Cut(n) ==
  /\ n \in 0 .. Len(Value)
  /\ n < Len(Value) => ~Fits(Append(Start(n + 1), Ellipsis), field.min_size)

Clipping ==
  /\ size = field.min_size /\ ~Fits(Value, size)
  /\ \E n \in 0 .. Len(Value) : shown = Start(n) /\ Cut(n)

Largest ==
  /\ shown = Value /\ size \in Int
  /\ size >= field.font_size \/ \A at \in Int : at >= size + 2 => ~Fits(Value, at)

Longest ==
  /\ size = field.min_size /\ ~Fits(Value, size)
  /\ \E n \in 0 .. Len(Value) : shown = Append(Start(n), Ellipsis) /\ Cut(n)

LargeInv ==
  /\ field \in Fields /\ text \in Seq(Character)
  /\ phase \in {"shrink", "clip", "drawn"} => Value \in Seq(Character)
  /\ phase = "shrink" => Shrinking
  /\ phase = "clip" => Clipping
  /\ phase = "drawn" => Largest \/ Longest

\* A width that is too large stays so at every larger size.
LEMMA LargerIsWider ==
  ASSUME Pixels, Growing, field \in Fields,
         NEW s \in Seq(Character), NEW i \in Nat, NEW j \in Nat, i <= j, ~Fits(s, i)
  PROVE  ~Fits(s, j)
<1>1. /\ Width(s, i) \in Int /\ Width(s, j) \in Int
      /\ field.max_width \in Int /\ field.stroke \in Int
  BY ValuesAssumption DEF Pixels, Field
<1>2. Width(s, i) <= Width(s, j)
  BY DEF Growing
<1> QED BY <1>1, <1>2 DEF Fits, Budget

\* The drawing starts at the largest size with the whole value.
LEMMA SendValueLarge ==
  ASSUME LargeInv, NEW read \in {CleanName(text), NormalizeBankNumber(text)},
         SendValue(read)
  PROVE  LargeInv'
<1>1. CASE read.is = "accepted"
  <2>1. /\ phase' = "shrink" /\ outcome' = read /\ shown' = read.value
        /\ size' = field.font_size /\ text' = text /\ field' = field
    BY <1>1 DEF SendValue
  <2>2. read.value \in Seq(Character)
    BY <1>1, ReadIsText DEF LargeInv
  <2>3. field.font_size \in Int
    BY ValuesAssumption DEF LargeInv, Field
  <2> QED BY <2>1, <2>2, <2>3 DEF LargeInv, Shrinking, Value
<1>2. CASE read.is # "accepted"
  BY <1>2 DEF SendValue, LargeInv
<1> QED BY <1>1, <1>2

\* A size smaller, while it does not fit: all above it were too large.
LEMMA ShrinkLarge ==
  ASSUME Pixels, Growing, LargeInv, Shrink
  PROVE  LargeInv'
<1>1. /\ field' = field /\ text' = text /\ shown' = shown /\ Value' = Value
      /\ Shrinking /\ Value \in Seq(Character) /\ field \in Fields
  BY DEF Shrink, LargeInv, Value
<1>2. CASE Fits(shown, size)
  <2>1. Largest'
    BY <1>1, <1>2 DEF Shrink, Shrinking, Largest, Fits, Budget
  <2> QED BY <1>1, <1>2, <2>1 DEF Shrink, LargeInv
<1>3. CASE ~Fits(shown, size)
  <2>1. phase' = "shrink" /\ size' = size - 2
    BY <1>3 DEF Shrink, LargeInv
  <2>2. \A at \in Int : at >= size' + 2 => ~Fits(Value, at)
    <3>1. size \in Nat
      BY <1>1, ValuesAssumption DEF Shrink, Shrinking, Field
    <3>2. \A at \in Int : at >= size' + 2 => at \in Nat /\ size <= at
      BY <2>1, <3>1
    <3>3. ~Fits(Value, size)
      BY <1>1, <1>3 DEF Shrinking
    <3> QED BY <1>1, <3>1, <3>2, <3>3, LargerIsWider
  <2>3. Shrinking'
    <3>1. size' \in Int /\ size' <= field.font_size
      BY <1>1, <2>1, ValuesAssumption DEF Shrinking, Field
    <3>2. \A at : Fits(Value, at)' <=> Fits(Value, at)
      BY <1>1 DEF Fits, Budget
    <3> QED BY <1>1, <2>2, <3>1 DEF Shrinking, Fits, Budget
  <2> QED BY <1>1, <2>1, <2>3 DEF LargeInv
<1> QED BY <1>2, <1>3

\* At the smallest size it fits, or the cut begins with the whole of it.
LEMMA SmallestLarge ==
  ASSUME Pixels, Growing, LargeInv, Smallest
  PROVE  LargeInv'
<1>1. /\ field' = field /\ text' = text /\ shown' = shown /\ Value' = Value
      /\ Shrinking /\ Value \in Seq(Character) /\ field \in Fields /\ size' = field.min_size
      /\ size <= field.min_size
  BY DEF Smallest, LargeInv, Value
<1>2. field.min_size \in Int /\ field.font_size \in Int
  BY <1>1, ValuesAssumption DEF Field
<1>3. CASE Fits(shown, field.min_size)
  <2>1. Largest'
    BY <1>1, <1>2 DEF Shrinking, Largest, Fits, Budget
  <2> QED BY <1>1, <1>3, <2>1 DEF Smallest, LargeInv
<1>4. CASE ~Fits(shown, field.min_size)
  <2>1. phase' = "clip"
    BY <1>4 DEF Smallest
  <2>2. Start(Len(Value)) = Value /\ Len(Value) \in Nat
    BY <1>1 DEF Start, Value
  <2>3. Clipping'
    <3>1. Cut(Len(Value))' /\ shown' = Start(Len(Value))'
      BY <1>1, <2>2 DEF Cut, Start, Shrinking, Value
    <3> QED BY <1>1, <1>4, <2>2, <3>1 DEF Clipping, Shrinking, Fits, Budget, Value
  <2> QED BY <1>1, <2>1, <2>3 DEF LargeInv
<1> QED BY <1>3, <1>4

\* A character less, while that and the ellipsis do not fit.
LEMMA ClipLarge ==
  ASSUME LargeInv, Clip
  PROVE  LargeInv'
<1>1. /\ field' = field /\ text' = text /\ Value' = Value /\ size' = size /\ phase' = "clip"
      /\ Clipping /\ Value \in Seq(Character) /\ field \in Fields
      /\ shown # <<>> /\ ~Fits(Append(shown, Ellipsis), size) /\ shown' = Front(shown)
  BY DEF Clip, LargeInv, Value
<1>2. PICK n \in 0 .. Len(Value) : shown = Start(n) /\ Cut(n)
  BY <1>1 DEF Clipping
<1>3. n # 0 /\ n - 1 \in 0 .. Len(Value) /\ shown' = Start(n - 1)
  BY <1>1, <1>2 DEF Start, Front
<1>4. Cut(n - 1)'
  BY <1>1, <1>2, <1>3 DEF Cut, Clipping, Fits, Budget, Start, Value
<1>5. Clipping'
  BY <1>1, <1>3, <1>4 DEF Clipping, Fits, Budget, Start, Value
<1> QED BY <1>1, <1>5 DEF LargeInv

\* The ellipsis ends the cut.
LEMMA ClippedLarge ==
  ASSUME LargeInv, Clipped
  PROVE  LargeInv'
<1>1. /\ field' = field /\ text' = text /\ Value' = Value /\ size' = size /\ phase' = "drawn"
      /\ Clipping /\ Value \in Seq(Character) /\ field \in Fields
      /\ shown' = Append(shown, Ellipsis)
  BY DEF Clipped, LargeInv, Value
<1>2. Longest'
  BY <1>1 DEF Clipping, Longest, Cut, Fits, Budget, Start, Value
<1> QED BY <1>1, <1>2 DEF LargeInv

\* Drawn either whole or cut, it is as large and as long as fits.
LEMMA LargeIsEnough ==
  ASSUME Pixels, Growing, LargeInv
  PROVE  DrawnAsLargeAsCanBe
<1> SUFFICES ASSUME phase = "drawn" PROVE DrawnAsLargeAsCanBe
  BY DEF DrawnAsLargeAsCanBe
<1>1. field.font_size \in Nat /\ field.min_size \in Nat /\ field \in Fields /\ Value \in Seq(Character)
  BY ValuesAssumption DEF LargeInv, Field
<1>2. CASE Largest
  BY <1>1, <1>2 DEF Largest, DrawnAsLargeAsCanBe, Value
<1>3. CASE Longest
  <2>1. PICK n \in 0 .. Len(Value) : shown = Append(Start(n), Ellipsis) /\ Cut(n)
    BY <1>3 DEF Longest
  <2>2. Start(n) \in Seq(Character) /\ Len(Start(n)) = n
    BY <1>1 DEF Start
  <2>3. Len(shown) - 1 = n /\ Front(shown) = Start(n)
    BY <2>1, <2>2 DEF Front
  <2>4. \A more \in Nat : ~Fits(Value, size + more)
    BY <1>1, <1>3, LargerIsWider DEF Longest
  <2>5. Front(shown) = SubSeq(Value, 1, Len(shown) - 1)
    BY <2>3 DEF Start
  <2>6. Len(shown) - 1 < Len(Value) =>
          ~Fits(Append(SubSeq(Value, 1, Len(shown) - 1 + 1), Ellipsis), size)
    BY <1>3, <2>1, <2>3 DEF Cut, Start, Longest
  <2>7. \A more \in {2 * i : i \in 1 .. field.font_size} : ~Fits(Value, size + more)
    BY <1>1, <2>4
  <2> QED BY <1>3, <2>5, <2>6, <2>7 DEF Longest, DrawnAsLargeAsCanBe, Value
<1> QED BY <1>2, <1>3 DEF LargeInv

\* What is drawn is as large, and where it is cut as long, as its box allows
\* ("shrinking beats overflowing", fit_text), for every font, box and value.
THEOREM AsLargeAsCanBe ==
  ASSUME Pixels, Growing
  PROVE  Spec => []DrawnAsLargeAsCanBe
<1>1. Init => LargeInv
  BY DEF Init, LargeInv
<1>2. ASSUME LargeInv, [Next]_vars PROVE LargeInv'
  <2>1. CASE UNCHANGED vars
    BY <1>2, <2>1 DEF vars, LargeInv, Shrinking, Clipping, Largest, Longest, Cut, Start, Value, Fits, Budget
  <2>2. ASSUME NEW c \in Typed, Type(c) PROVE LargeInv'
    BY <1>2, <2>2, ValuesAssumption DEF Type, LargeInv
  <2>3. CASE SendCount
    BY <1>2, <2>3 DEF SendCount, LargeInv
  <2>4. CASE Again
    BY <1>2, <2>4 DEF Again, LargeInv
  <2> QED BY <1>2, <2>1, <2>2, <2>3, <2>4, SendValueLarge, ShrinkLarge, SmallestLarge, ClipLarge,
             ClippedLarge DEF Next, FitText
<1>3. LargeInv => DrawnAsLargeAsCanBe
  BY LargeIsEnough
<1> QED BY <1>1, <1>2, <1>3, PTL DEF Spec

=============================================================================
