-------------------------- MODULE WalkForwardProofs --------------------------
(***************************************************************************)
(* Theorems about the walk-forward evaluation and its simulator, for every  *)
(* history, split, book, order and length of a run.                         *)
(***************************************************************************)
EXTENDS WalkForward, SequenceTheorems, WellFoundedInduction, FiniteSetTheorems, TLAPS

-----------------------------------------------------------------------------
(* Induction, and functions defined by it.                                   *)

(* A set of natural numbers that is not empty has a least element.           *)
LEMMA LeastNatural ==
  ASSUME NEW S \in SUBSET Nat, S # {}
  PROVE  \E x \in S : \A y \in S : x <= y
<1> DEFINE T == {0..x : x \in S}
           R == StrictSubsetOrdering(Nat)
<1>1. T \subseteq FiniteSubsetsOf(Nat) /\ T # {}
  <2>1. ASSUME NEW x \in S PROVE 0..x \in FiniteSubsetsOf(Nat)
    <3>1. IsFiniteSet(0..x)
      BY FS_Interval
    <3> QED BY <3>1 DEF FiniteSubsetsOf
  <2> QED BY <2>1
<1>2. IsWellFoundedOn(R, FiniteSubsetsOf(Nat))
  BY FS_StrictSubsetOrderingWellFounded
<1>3. PICK t \in T : \A u \in T : ~(<<u, t>> \in R)
  <2> HIDE DEF T, R
  <2> QED BY <1>1, <1>2, WFMin
<1>4. PICK x \in S : t = 0..x
  BY <1>3
<1>5. ASSUME NEW y \in S, y < x PROVE FALSE
  <2>1. 0..y \subseteq 0..x /\ x \in 0..x /\ x \notin 0..y /\ 0..y \in SUBSET Nat /\ 0..x \in SUBSET Nat
    BY <1>5
  <2>2. <<0..y, 0..x>> \in R
    BY <2>1 DEF StrictSubsetOrdering
  <2> QED BY <1>3, <1>4, <2>2
<1> QED BY <1>5

(* Induction over the natural numbers, for a set of them.                    *)
LEMMA Induction ==
  ASSUME NEW S, 0 \in S, \A n \in Nat : n \in S => n + 1 \in S
  PROVE  \A n \in Nat : n \in S
<1>1. ASSUME NEW m \in Nat \ S PROVE FALSE
  <2>1. PICK x \in Nat \ S : \A y \in Nat \ S : x <= y
    BY <1>1, LeastNatural
  <2>2. x - 1 \in Nat
    BY <2>1
  <2>3. x - 1 \in S
    BY <2>1, <2>2
  <2> QED BY <2>1, <2>2, <2>3
<1> QED BY <1>1

\* f goes from start by next, n times.
Unfolds(f, X, start, next, n) ==
  /\ f \in [0..n -> X]
  /\ f[0] = start
  /\ \A i \in 1..n : f[i] = next[i][f[i - 1]]

LEMMA Unfold ==
  ASSUME NEW X, NEW start \in X, NEW next \in [Nat -> [X -> X]]
  PROVE  \A n \in Nat : \E f : Unfolds(f, X, start, next, n)
<1> DEFINE S == {n \in Nat : \E f : Unfolds(f, X, start, next, n)}
<1>1. 0 \in S
  <2>1. Unfolds([i \in 0..0 |-> start], X, start, next, 0)
    BY DEF Unfolds
  <2> QED BY <2>1
<1>2. ASSUME NEW k \in Nat, NEW f, Unfolds(f, X, start, next, k)
      PROVE  k + 1 \in S
  <2> DEFINE g == [i \in 0..(k + 1) |-> IF i = k + 1 THEN next[k + 1][f[k]] ELSE f[i]]
  <2>0. k \in 0..k /\ 0 \in 0..(k + 1) /\ k + 1 \in 0..(k + 1) /\ k + 1 \in Nat
    OBVIOUS
  <2>1. f[k] \in X
    BY <1>2, <2>0 DEF Unfolds
  <2>2. next[k + 1][f[k]] \in X
    BY <2>0, <2>1
  <2>3. ASSUME NEW i \in 0..(k + 1) PROVE g[i] \in X
    <3>1. i # k + 1 => i \in 0..k
      OBVIOUS
    <3> QED BY <1>2, <2>2, <3>1 DEF Unfolds
  <2>4. g[0] = start
    BY <1>2, <2>0 DEF Unfolds
  <2>5. ASSUME NEW i \in 1..(k + 1) PROVE g[i] = next[i][g[i - 1]]
    <3>1. i - 1 \in 0..(k + 1) /\ i \in 0..(k + 1) /\ i - 1 # k + 1
      OBVIOUS
    <3>2. g[i - 1] = f[i - 1]
      BY <3>1
    <3>3. CASE i = k + 1
      <4>1. i - 1 = k
        BY <3>3
      <4> QED BY <3>1, <3>2, <3>3, <4>1
    <3>4. CASE i # k + 1
      <4>1. i \in 1..k
        BY <3>4
      <4>2. g[i] = f[i]
        BY <3>1, <3>4
      <4> QED BY <1>2, <3>2, <4>1, <4>2 DEF Unfolds
    <3> QED BY <3>3, <3>4
  <2>6. g \in [0..(k + 1) -> X]
    BY <2>3
  <2> HIDE DEF g
  <2>7. Unfolds(g, X, start, next, k + 1)
    BY <2>4, <2>5, <2>6 DEF Unfolds
  <2> QED BY <2>7
<1>3. \A k \in Nat : k \in S => k + 1 \in S
  BY <1>2
<1> HIDE DEF S
<1>4. \A n \in Nat : n \in S
  BY <1>1, <1>3, Induction
<1> QED BY <1>4 DEF S

-----------------------------------------------------------------------------
(* Sums over the symbols.                                                    *)

\* The totals up to each symbol.
Totals(total, f, n) ==
  /\ total \in [0..n -> Int]
  /\ total[0] = 0
  /\ \A s \in 1..n : total[s] = total[s - 1] + (IF s \in DOMAIN f THEN f[s] ELSE 0)

LEMMA SumTotals ==
  ASSUME NEW f, \A s \in DOMAIN f : f[s] \in Int, NEW n \in Nat
  PROVE  \E total : Totals(total, f, n) /\ SumTo(f, n) = total[n]
<1> DEFINE Step(total, s) == IF s = 0 THEN 0 ELSE total[s - 1] + (IF s \in DOMAIN f THEN f[s] ELSE 0)
           Makes(total) == total = [s \in 0..n |-> Step(total, s)]
<1> DEFINE term(s) == IF s \in DOMAIN f THEN f[s] ELSE 0
           next == [s \in Nat |-> [total \in Int |-> total + term(s)]]
<1>1. \A s \in Nat : term(s) \in Int
  OBVIOUS
<1>2. next \in [Nat -> [Int -> Int]] /\ \A s \in Nat, t \in Int : next[s][t] = t + term(s)
  <2> HIDE DEF term
  <2> QED BY <1>1
<1> HIDE DEF next
<1>3. PICK g : Unfolds(g, Int, 0, next, n)
  BY <1>2, Unfold
<1>4. Makes(g)
  <2>1. ASSUME NEW s \in 1..n PROVE g[s] = Step(g, s)
    <3>1. s \in Nat /\ s # 0 /\ s - 1 \in 0..n
      OBVIOUS
    <3>2. g[s - 1] \in Int /\ g[s] = next[s][g[s - 1]]
      BY <1>3, <3>1 DEF Unfolds
    <3> QED BY <1>2, <3>1, <3>2
  <2>2. \A s \in 0..n : s = 0 \/ s \in 1..n
    OBVIOUS
  <2>3. g \in [0..n -> Int] /\ g[0] = 0
    BY <1>3 DEF Unfolds
  <2>4. \A s \in 0..n : g[s] = Step(g, s)
    BY <2>1, <2>2, <2>3
  <2> QED BY <2>3, <2>4
<1> DEFINE total == CHOOSE total : Makes(total)
<1>5. Makes(total)
  <2> HIDE DEF Makes
  <2> QED BY <1>4
<1>6. SumTo(f, n) = total[n]
  BY DEF SumTo
<1> HIDE DEF total
<1>7. /\ total[0] = 0
      /\ \A s \in 1..n : total[s] = total[s - 1] + (IF s \in DOMAIN f THEN f[s] ELSE 0)
  BY <1>5
<1>8. total \in [0..n -> Int]
  <2> DEFINE S == {s \in Nat : s <= n => total[s] \in Int}
  <2>1. 0 \in S
    BY <1>7
  <2>2. ASSUME NEW s \in Nat, s \in S PROVE s + 1 \in S
    BY <1>7, <2>2
  <2> HIDE DEF S
  <2>3. \A s \in Nat : s \in S
    BY <2>1, <2>2, Induction
  <2>4. \A s \in 0..n : total[s] \in Int
    BY <2>3 DEF S
  <2>5. total = [s \in 0..n |-> total[s]]
    BY <1>5
  <2> QED BY <2>4, <2>5
<1> QED BY <1>6, <1>7, <1>8 DEF Totals

(* A sum changes by what one of its terms does.                              *)
LEMMA SumChanges ==
  ASSUME NEW f, \A s \in DOMAIN f : f[s] \in Int, NEW g, \A s \in DOMAIN g : g[s] \in Int,
         NEW n \in Nat, NEW s \in 1..n,
         DOMAIN g = DOMAIN f \cup {s}, \A r \in DOMAIN f \ {s} : g[r] = f[r]
  PROVE  /\ SumTo(f, n) \in Int
         /\ SumTo(g, n) = SumTo(f, n) + g[s] - (IF s \in DOMAIN f THEN f[s] ELSE 0)
<1> DEFINE d == g[s] - (IF s \in DOMAIN f THEN f[s] ELSE 0)
<1>1. PICK tf : Totals(tf, f, n) /\ SumTo(f, n) = tf[n]
  BY SumTotals
<1>2. PICK tg : Totals(tg, g, n) /\ SumTo(g, n) = tg[n]
  BY SumTotals
<1> DEFINE S == {k \in Nat : k <= n => tg[k] = tf[k] + (IF s <= k THEN d ELSE 0)}
<1>3. d \in Int
  OBVIOUS
<1>4. 0 \in S
  BY <1>1, <1>2 DEF Totals
<1>5. ASSUME NEW k \in Nat, k \in S PROVE k + 1 \in S
  <2> SUFFICES ASSUME k + 1 <= n PROVE tg[k + 1] = tf[k + 1] + (IF s <= k + 1 THEN d ELSE 0)
    OBVIOUS
  <2> DEFINE u == IF k + 1 \in DOMAIN f THEN f[k + 1] ELSE 0
             v == IF k + 1 \in DOMAIN g THEN g[k + 1] ELSE 0
  <2>1. tg[k] = tf[k] + (IF s <= k THEN d ELSE 0)
    BY <1>5
  <2>2. k \in 0..n /\ k + 1 \in 1..n /\ k + 1 \in 0..n /\ tf[k] \in Int /\ tg[k] \in Int
    BY <1>1, <1>2 DEF Totals
  <2>3. tf[k + 1] = tf[k] + u /\ tg[k + 1] = tg[k] + v
    BY <1>1, <1>2, <2>2 DEF Totals
  <2>4. u \in Int /\ v \in Int
    OBVIOUS
  <2>5. v = u + (IF s = k + 1 THEN d ELSE 0)
    OBVIOUS
  <2> HIDE DEF u, v, d
  <2> QED BY <1>3, <2>1, <2>2, <2>3, <2>4, <2>5
<1> HIDE DEF S
<1>6. n \in S
  BY <1>4, <1>5, Induction
<1>7. tg[n] = tf[n] + d /\ tf[n] \in Int
  BY <1>1, <1>6 DEF S, Totals
<1> QED BY <1>1, <1>2, <1>3, <1>7

(* A sum over one number more.                                               *)
LEMMA SumExtends ==
  ASSUME NEW f, \A i \in DOMAIN f : f[i] \in Int, NEW g, \A i \in DOMAIN g : g[i] \in Int,
         NEW n \in Nat,
         \A i \in 1..n : (i \in DOMAIN g <=> i \in DOMAIN f) /\ (i \in DOMAIN f => g[i] = f[i])
  PROVE  /\ SumTo(f, n) \in Int
         /\ SumTo(g, n + 1) = SumTo(f, n) + (IF n + 1 \in DOMAIN g THEN g[n + 1] ELSE 0)
<1>1. PICK tf : Totals(tf, f, n) /\ SumTo(f, n) = tf[n]
  BY SumTotals
<1>2. PICK tg : Totals(tg, g, n + 1) /\ SumTo(g, n + 1) = tg[n + 1]
  <2>1. n + 1 \in Nat
    OBVIOUS
  <2> QED BY <2>1, SumTotals
<1> DEFINE S == {k \in Nat : k <= n => tg[k] = tf[k]}
<1>3. 0 \in S
  BY <1>1, <1>2 DEF Totals
<1>4. ASSUME NEW k \in Nat, k \in S PROVE k + 1 \in S
  <2> SUFFICES ASSUME k + 1 <= n PROVE tg[k + 1] = tf[k + 1]
    OBVIOUS
  <2>1. tg[k] = tf[k] /\ k + 1 \in 1..n /\ k + 1 \in 1..(n + 1) /\ (k + 1) - 1 = k
    BY <1>4
  <2>2. /\ tf[k + 1] = tf[k] + (IF k + 1 \in DOMAIN f THEN f[k + 1] ELSE 0)
        /\ tg[k + 1] = tg[k] + (IF k + 1 \in DOMAIN g THEN g[k + 1] ELSE 0)
    BY <1>1, <1>2, <2>1 DEF Totals
  <2> QED BY <2>1, <2>2
<1> HIDE DEF S
<1>5. n \in S
  BY <1>3, <1>4, Induction
<1>6. tg[n] = tf[n] /\ tf[n] \in Int
  BY <1>1, <1>5 DEF S, Totals
<1>7. tg[n + 1] = tg[n] + (IF n + 1 \in DOMAIN g THEN g[n + 1] ELSE 0)
  BY <1>2 DEF Totals
<1> QED BY <1>1, <1>2, <1>6, <1>7

(* The sum over no symbol is zero.                                           *)
LEMMA SumOfNone ==
  ASSUME NEW f, DOMAIN f = {}, NEW n \in Nat
  PROVE  SumTo(f, n) = 0
<1>1. PICK t : Totals(t, f, n) /\ SumTo(f, n) = t[n]
  BY SumTotals
<1> DEFINE S == {k \in Nat : k <= n => t[k] = 0}
<1>2. 0 \in S
  BY <1>1 DEF Totals
<1>3. ASSUME NEW k \in Nat, k \in S PROVE k + 1 \in S
  BY <1>1, <1>3 DEF Totals
<1> HIDE DEF S
<1>4. n \in S
  BY <1>2, <1>3, Induction
<1> QED BY <1>1, <1>4 DEF S

(* The greater and the lesser of two.                                        *)
LEMMA OfTwo ==
  ASSUME NEW a \in Int, NEW b \in Int
  PROVE  /\ Max({a, b}) = IF a <= b THEN b ELSE a
         /\ Min({a, b}) = IF a <= b THEN a ELSE b
<1> DEFINE S == {a, b}
<1>1. \E x \in S : \A y \in S : x >= y
  OBVIOUS
<1>2. \E x \in S : \A y \in S : x <= y
  OBVIOUS
<1>3. Max(S) \in S /\ \A y \in S : Max(S) >= y
  BY <1>1 DEF Max
<1>4. Min(S) \in S /\ \A y \in S : Min(S) <= y
  BY <1>2 DEF Min
<1> QED BY <1>3, <1>4

-----------------------------------------------------------------------------
(* The windows.                                                              *)

LEMMA Multiples ==
  ASSUME NEW a \in Int, NEW b \in Int, NEW step \in Amounts
  PROVE  /\ a * step \in Int
         /\ a < b => a * step + step <= b * step
<1>1. ASSUME a < b PROVE (b - a - 1) * step >= 0
  BY <1>1 DEF Amounts
<1>2. (b - a - 1) * step = b * step - a * step - step
  BY DEF Amounts
<1> QED BY <1>1, <1>2 DEF Amounts

LEMMA Division ==
  ASSUME NEW m \in Nat, NEW step \in Amounts
  PROVE  /\ m \div step \in Nat
         /\ m = (m \div step) * step + (m % step)
<1>1. m \div step \in Nat /\ m = step * (m \div step) + (m % step)
  BY DEF Amounts
<1>2. step * (m \div step) = (m \div step) * step
  BY <1>1 DEF Amounts
<1> QED BY <1>1, <1>2

(* A fold is made only where a whole one fits.                               *)
LEMMA StartsFit ==
  ASSUME NEW p \in Splits, NEW i \in DOMAIN Folds(p, 1, Days)
  PROVE  /\ i \in Amounts
         /\ (i - 1) * p.step >= 0
         /\ 1 + (i - 1) * p.step + p.train + p.validation + p.test - 1 <= Days
         /\ Folds(p, 1, Days)[i] = Split(p, 1 + (i - 1) * p.step, Days)
<1> DEFINE length == p.train + p.validation + p.test - 1
           starts == {d \in 1..Days : (d - 1) % p.step = 0 /\ d + length <= Days}
           turn == [d \in starts |-> (d - 1) \div p.step]
<1>1. IsFiniteSet(starts) /\ Cardinality(starts) \in Nat
  <2>1. IsFiniteSet(1..Days) /\ starts \subseteq 1..Days
    BY FS_Interval, WalkForwardAssumption
  <2> QED BY <2>1, FS_Subset, FS_CardinalityType
<1>2. Folds(p, 1, Days) = [j \in 1..Cardinality(starts) |-> Split(p, 1 + (j - 1) * p.step, Days)]
  BY DEF Folds
<1> HIDE DEF starts
<1>3. i \in 1..Cardinality(starts) /\ Folds(p, 1, Days)[i] = Split(p, 1 + (i - 1) * p.step, Days)
  BY <1>2
<1>4. p.step \in Amounts /\ length \in Int
  BY WalkForwardAssumption
<1> HIDE DEF length
<1>5. ASSUME 1 + (i - 1) * p.step + length > Days PROVE FALSE
  <2>1. ASSUME NEW d \in starts
        PROVE  /\ d = 1 + ((d - 1) \div p.step) * p.step
               /\ (d - 1) \div p.step \in 0..(i - 2)
    <3> DEFINE q == (d - 1) \div p.step
    <3>1. d \in 1..Days /\ (d - 1) % p.step = 0 /\ d + length <= Days
      BY DEF starts
    <3>2. d - 1 \in Nat /\ (d - 1) % p.step = 0
      BY <3>1, WalkForwardAssumption
    <3>3. q \in Nat /\ d - 1 = q * p.step + 0
      BY <3>2, <1>4, Division
    <3> HIDE DEF q
    <3>4. q * p.step \in Int /\ d = 1 + q * p.step
      <4>1. q * p.step \in Int
        <5>1. q \in Int /\ p.step \in Int
          BY <3>3, <1>4 DEF Amounts
        <5> QED BY <5>1
      <4>2. d \in Int
        BY <3>1
      <4> DEFINE m == q * p.step
      <4>3. d - 1 = m + 0
        BY <3>3
      <4> HIDE DEF m
      <4>4. d = 1 + m
        BY <4>1, <4>2, <4>3 DEF m
      <4> QED BY <4>1, <4>4 DEF m
    <3>5. (i - 1) * p.step \in Int /\ (q >= i - 1 => q * p.step >= (i - 1) * p.step)
      <4>1. (i - 1) * p.step \in Int /\ (i - 1 < q => (i - 1) * p.step + p.step <= q * p.step)
        BY <1>3, <1>4, <3>3, Multiples
      <4> QED BY <4>1, <3>3, <3>4, <1>3, <1>4 DEF Amounts
    <3>6. d + length <= Days /\ d \in Int
      BY <3>1
    <3>7. q < i - 1
      <4> DEFINE m == q * p.step
                 t == (i - 1) * p.step
      <4>1. m \in Int /\ t \in Int /\ d = 1 + m /\ (q >= i - 1 => m >= t)
        BY <3>4, <3>5
      <4>2. 1 + t + length > Days /\ Days \in Int /\ length \in Int /\ i \in Int
        BY <1>3, <1>4, <1>5, WalkForwardAssumption
      <4> HIDE DEF m, t
      <4> QED BY <4>1, <4>2, <3>3, <3>6
    <3>8. q \in 0..(i - 2)
      BY <3>3, <3>7, <1>3
    <3> QED BY <3>4, <3>8 DEF q
  <2>2. turn \in Injection(starts, 0..(i - 2))
    <3>1. turn \in [starts -> 0..(i - 2)]
      BY <2>1
    <3>2. \A c, d \in starts : turn[c] = turn[d] => c = d
      BY <2>1
    <3> QED BY <3>1, <3>2 DEF Injection, IsInjective
  <2>3. IsFiniteSet(0..(i - 2)) /\ Cardinality(0..(i - 2)) = i - 1
    <3>1. i - 2 \in Int /\ i \in Int /\ i >= 1
      BY <1>1, <1>3
    <3>2. IsFiniteSet(0..(i - 2)) /\ Cardinality(0..(i - 2)) = IF 0 > i - 2 THEN 0 ELSE i - 2 - 0 + 1
      BY <3>1, FS_Interval
    <3> QED BY <3>1, <3>2
  <2>4. Cardinality(starts) <= i - 1
    <3> HIDE DEF turn
    <3> QED BY <2>2, <2>3, FS_Injection
  <2> QED BY <2>4, <1>1, <1>3
<1>6. i \in Amounts /\ i - 1 \in Nat
  BY <1>1, <1>3 DEF Amounts
<1>7. (i - 1) * p.step \in Int /\ (i - 1) * p.step >= 0
  <2>1. ASSUME NEW a \in Nat, NEW b \in Nat PROVE a * b \in Nat
    OBVIOUS
  <2> QED BY <2>1, <1>4, <1>6 DEF Amounts
<1>8. 1 + (i - 1) * p.step + length <= Days
  BY <1>4, <1>5, <1>7, WalkForwardAssumption
<1>9. 1 + (i - 1) * p.step + p.train + p.validation + p.test - 1 = 1 + (i - 1) * p.step + length
  BY <1>7, WalkForwardAssumption DEF length
<1> QED BY <1>3, <1>6, <1>7, <1>8, <1>9

(* A fold tests after it validates and validates after it trains, inside the *)
(* days there are.                                                           *)
Span == [first: 1..Days, last: 1..Days]
Phases == {"train", "validation", "test"}

LEMMA FoldsInOrder ==
  ASSUME NEW p \in Splits, NEW i \in DOMAIN Folds(p, 1, Days)
  PROVE  /\ Folds(p, 1, Days)[i] \in [train: Span, validation: Span, test: Span]
         /\ InOrder(Folds(p, 1, Days)[i])
         /\ Folds(p, 1, Days)[i].train.first >= 1
         /\ Folds(p, 1, Days)[i].test.last <= Days
         /\ Folds(p, 1, Days)[i].test.first = (i - 1) * p.step + p.train + p.validation
<1> DEFINE m == (i - 1) * p.step
           d == 1 + m
<1>1. /\ m \in Int /\ m >= 0 /\ d + p.train + p.validation + p.test - 1 <= Days
      /\ Folds(p, 1, Days)[i] = Split(p, d, Days)
  <2>1. i - 1 \in Int /\ p.step \in Amounts
    BY StartsFit, WalkForwardAssumption DEF Amounts
  <2> QED BY <2>1, StartsFit, Multiples
<1>2. /\ p.train \in Nat /\ p.validation \in Nat /\ p.test \in Nat /\ Days \in Nat
      /\ p.train >= 1 /\ p.validation >= 2 /\ p.test >= 2
  BY WalkForwardAssumption DEF Amounts
<1> DEFINE train == d + p.train - 1
           validation == train + p.validation - 1
           test == validation + p.test - 1
<1> SUFFICES /\ Split(p, d, Days) \in [train: Span, validation: Span, test: Span]
             /\ InOrder(Split(p, d, Days))
             /\ Split(p, d, Days).train.first >= 1
             /\ Split(p, d, Days).test.last <= Days
             /\ Split(p, d, Days).test.first = m + p.train + p.validation
  BY <1>1
<1> HIDE DEF m
<1>3. Split(p, d, Days) = Windows(d, train, validation, test)
  <2>1. ~(test - d >= Days - d + 1)
    BY <1>1, <1>2
  <2> QED BY <2>1 DEF Split
<1> QED BY <1>1, <1>2, <1>3 DEF Windows, Window, InOrder, Span

(* The test period of any range that is long enough lies after a training    *)
(* window of the least length, inside the range.                             *)
LEMMA TestPeriodSound ==
  ASSUME NEW p \in Splits, NEW last \in 1..Days, ~TooShort(p, 1, last)
  PROVE  LET w == Split(p, 1, last).test
         IN  MinTrain < w.first /\ w.first <= w.last /\ w.last <= Days
<1> DEFINE train == p.train
           validation == train + p.validation - 1
           test == validation + p.test - 1
           fitted == Max({last - validation + 1, MinTest})
           shifted == last - (p.validation + fitted - 1)
<1>1. /\ p.train \in Nat /\ p.validation \in Nat /\ p.test \in Nat /\ Days \in Nat /\ last \in 1..Days
      /\ p.train >= MinTrain /\ p.validation >= MinValidation /\ p.test >= MinTest
      /\ MinTrain \in Nat /\ MinTrain >= 1
      /\ MinTest \in Nat /\ MinTest >= 2 /\ MinValidation \in Nat /\ MinValidation >= 2
  BY WalkForwardAssumption DEF Amounts
<1>2. fitted \in Int /\ fitted >= MinTest
  BY <1>1, OfTwo
<1>3. Split(p, 1, last) = IF test - 1 >= last THEN Windows(1, shifted, last - fitted + 1, last)
                          ELSE Windows(1, train, validation, test)
  <2>1. 1 + p.train - 1 = train /\ last - 1 + 1 = last
    BY <1>1
  <2> QED BY <2>1 DEF Split
<1>4. ~(Split(p, 1, last).train.last < MinTrain /\ Split(p, 1, last).test.last = last)
  <2>1. Split(p, 1, last).train.last \in Int
    BY <1>1, <1>2, <1>3 DEF Windows, Window
  <2> HIDE DEF fitted
  <2> QED BY <2>1 DEF TooShort
<1> HIDE DEF fitted
<1>5. CASE test - 1 >= last
  BY <1>1, <1>2, <1>3, <1>4, <1>5 DEF Windows, Window
<1>6. CASE ~(test - 1 >= last)
  BY <1>1, <1>3, <1>6 DEF Windows, Window
<1> QED BY <1>5, <1>6

\* The folds are those of the days there are, the test period the one of a range
\* of them.
FoldsInv ==
  /\ split \in Splits
  /\ folds = <<>> \/ folds = Folds(split, 1, Days)
  /\ testPeriod = None
       \/ \E last \in 1..Days : ~TooShort(split, 1, last) /\ testPeriod = <<Split(split, 1, last).test>>

LEMMA FoldsInitially == Init => FoldsInv
BY DEF Init, FoldsInv

LEMMA FoldsStep == FoldsInv /\ [Next]_vars => FoldsInv'
<1> SUFFICES ASSUME FoldsInv, [Next]_vars PROVE FoldsInv'
  OBVIOUS
<1>1. CASE MakeFolds
  BY <1>1 DEF MakeFolds, FoldsInv
<1>2. CASE GetTestPeriod
  BY <1>2 DEF GetTestPeriod, FoldsInv
<1>3. CASE UNCHANGED <<split, folds, testPeriod>>
  BY <1>3 DEF FoldsInv
<1>4. CASE StartPhase \/ ProcessPhaseBar \/ FinishRun \/ Finish \/ CallerStep \/ UNCHANGED vars
  BY <1>3, <1>4 DEF StartPhase, ProcessPhaseBar, FinishRun, Finish, CallerStep, vars, evaluation
<1> QED BY <1>1, <1>2, <1>4 DEF Next

LEMMA FoldsAlways == Spec => []FoldsInv
BY FoldsInitially, FoldsStep, PTL DEF Spec

(* No test day is a day of training or validation, of its own fold or before *)
(* the test of an earlier one: the windows of walk_forward and of            *)
(* get_test_period, whatever the split and the number of days.               *)
THEOREM WindowsAreSeparate == Spec => []WindowsNeverLeak
<1>1. FoldsInv => WindowsNeverLeak
  <2> SUFFICES ASSUME FoldsInv PROVE WindowsNeverLeak
    OBVIOUS
  <2>1. ASSUME NEW i \in DOMAIN folds
        PROVE  /\ InOrder(folds[i]) /\ folds[i].train.first >= 1 /\ folds[i].test.last <= Days
               /\ i \in Int /\ folds = Folds(split, 1, Days)
               /\ folds[i].test.first = (i - 1) * split.step + split.train + split.validation
    <3>1. folds = Folds(split, 1, Days) /\ split \in Splits
      BY DEF FoldsInv
    <3> QED BY <3>1, FoldsInOrder, StartsFit DEF Amounts
  <2>2. ASSUME NEW i \in DOMAIN folds, NEW j \in DOMAIN folds, i < j
        PROVE  folds[i].test.first < folds[j].test.first
    <3> DEFINE m == (i - 1) * split.step
               n == (j - 1) * split.step
               k == split.step
    <3>1. k \in Amounts /\ split.train \in Nat /\ split.validation \in Nat
      BY WalkForwardAssumption DEF FoldsInv
    <3>2. i \in Int /\ j \in Int
      BY <2>1
    <3>3. i - 1 \in Int /\ j - 1 \in Int /\ i - 1 < j - 1
      BY <3>2, <2>2
    <3>4. m \in Int /\ n \in Int /\ m + k <= n
      BY <3>1, <3>3, Multiples
    <3>5. folds[i].test.first = m + split.train + split.validation
          /\ folds[j].test.first = n + split.train + split.validation
      BY <2>1
    <3> HIDE DEF m, n, k
    <3> QED BY <3>1, <3>4, <3>5 DEF Amounts
  <2>3. ASSUME NEW i \in DOMAIN testPeriod
        PROVE  MinTrain < testPeriod[i].first /\ testPeriod[i].first <= testPeriod[i].last
               /\ testPeriod[i].last <= Days
    <3>1. PICK last \in 1..Days : ~TooShort(split, 1, last) /\ testPeriod = <<Split(split, 1, last).test>>
      BY <2>3 DEF FoldsInv, None
    <3>2. testPeriod[i] = Split(split, 1, last).test /\ split \in Splits
      BY <3>1, <2>3 DEF FoldsInv
    <3> QED BY <3>1, <3>2, TestPeriodSound
  <2> QED BY <2>1, <2>2, <2>3 DEF WindowsNeverLeak
<1> QED BY <1>1, FoldsAlways, PTL

-----------------------------------------------------------------------------
(* The signals of a phase.                                                   *)

\* Orders that the bars and the signals there are can bring.
Offers == {o \in Orders : o.price = None \/ o.price[1] \in FillPrices}
Offered == {None} \union [1..1 -> Offers]

Holdings == {None} \union [1..1 -> [quantity: Amounts, days: Nat]]

LengthOf(w) == IF w.first <= w.last THEN w.last - w.first + 1 ELSE 0

\* held is the position before each bar of the window w, and the signals are those
\* made with it.
Holds(held, bars, w) ==
  /\ held \in [0..LengthOf(w) -> Holdings]
  /\ held[0] = None
  /\ \A i \in 1..LengthOf(w) :
       held[i] = HoldingAfter(held[i - 1], GenerateSignal(bars, w.first + i - 1, held[i - 1]))
  /\ SignalsOf(bars, w)
       = [i \in 1..LengthOf(w) |-> GenerateSignal(bars, w.first + i - 1, held[i - 1])]

LEMMA SignalMade ==
  ASSUME NEW bars, NEW now, NEW holding \in Holdings
  PROVE  /\ GenerateSignal(bars, now, holding) \in Offered
         /\ HoldingAfter(holding, GenerateSignal(bars, now, holding)) \in Holdings
<1>1. MinShares \in Amounts
  BY WalkForwardAssumption
<1>2. \A q \in Amounts : Market("BUY", q) \in Offers /\ Market("SELL", q) \in Offers
  BY DEF Market, Orders, Offers
<1>3. holding = None \/ (holding # None /\ holding[1].quantity \in Amounts /\ holding[1].days \in Nat
                          /\ holding = <<holding[1]>>)
  BY DEF Holdings, None
<1>4. \/ GenerateSignal(bars, now, holding) = None
      \/ holding # None /\ GenerateSignal(bars, now, holding) = <<Market("SELL", holding[1].quantity)>>
      \/ holding = None /\ GenerateSignal(bars, now, holding) = <<Market("BUY", MinShares)>>
  BY DEF GenerateSignal
<1>5. /\ \A x : <<x>> # None /\ <<x>>[1] = x
      /\ \A x, S : x \in S => <<x>> \in [1..1 -> S]
  BY DEF None
<1>6. CASE GenerateSignal(bars, now, holding) = None
  <2>1. CASE holding = None
    <3>1. HoldingAfter(None, None) = None
      BY DEF HoldingAfter
    <3> QED BY <2>1, <3>1, <1>6 DEF Holdings, Offered
  <2>2. CASE holding # None
    <3> DEFINE h == [holding[1] EXCEPT !.days = @ + 1]
    <3>1. HoldingAfter(holding, None) = <<h>>
      BY <2>2 DEF HoldingAfter
    <3>2. h \in [quantity: Amounts, days: Nat]
      <4>1. holding[1] \in [quantity: Amounts, days: Nat]
        BY <2>2 DEF Holdings
      <4> QED BY <4>1
    <3> HIDE DEF h
    <3> QED BY <3>1, <3>2, <1>5, <1>6 DEF Holdings, Offered
  <2> QED BY <2>1, <2>2
<1>7. CASE holding # None /\ GenerateSignal(bars, now, holding) = <<Market("SELL", holding[1].quantity)>>
  <2> DEFINE o == Market("SELL", holding[1].quantity)
  <2>1. o \in Offers /\ o.side = "SELL"
    BY <1>2, <1>3, <1>7 DEF Market
  <2> HIDE DEF o
  <2>2. HoldingAfter(holding, <<o>>) = None
    BY <2>1, <1>5 DEF HoldingAfter
  <2> QED BY <2>1, <2>2, <1>5, <1>7 DEF Holdings, Offered, o
<1>8. CASE holding = None /\ GenerateSignal(bars, now, holding) = <<Market("BUY", MinShares)>>
  <2> DEFINE o == Market("BUY", MinShares)
             h == [quantity |-> o.quantity, days |-> 0]
  <2>1. o \in Offers /\ o.side = "BUY" /\ h \in [quantity: Amounts, days: Nat]
    BY <1>1, <1>2 DEF Market
  <2> HIDE DEF o
  <2>2. HoldingAfter(holding, <<o>>) = <<h>>
    BY <2>1, <1>5 DEF HoldingAfter
  <2> HIDE DEF h
  <2> QED BY <2>1, <2>2, <1>5, <1>8 DEF Holdings, Offered, o
<1> QED BY <1>4, <1>6, <1>7, <1>8

LEMMA SignalsHold ==
  ASSUME NEW bars, NEW w \in Span
  PROVE  \E held : Holds(held, bars, w)
<1> DEFINE n == LengthOf(w)
           made(i, h) == GenerateSignal(bars, w.first + i - 1, h)
           Step(held, i) == IF i = 0 THEN None ELSE HoldingAfter(held[i - 1], made(i, held[i - 1]))
           Makes(held) == held = [i \in 0..n |-> Step(held, i)]
           next == [i \in Nat |-> [h \in Holdings |-> HoldingAfter(h, made(i, h))]]
<1>1. n \in Nat
  BY WalkForwardAssumption DEF LengthOf, Span
<1>2. next \in [Nat -> [Holdings -> Holdings]]
      /\ \A i \in Nat, h \in Holdings : next[i][h] = HoldingAfter(h, made(i, h))
  BY SignalMade
<1>3. None \in Holdings
  BY DEF Holdings
<1> HIDE DEF next, n, made
<1>4. PICK g : Unfolds(g, Holdings, None, next, n)
  BY <1>1, <1>2, <1>3, Unfold
<1>5. Makes(g)
  <2>1. ASSUME NEW i \in 1..n PROVE g[i] = Step(g, i)
    <3>1. i \in Nat /\ i # 0 /\ i - 1 \in 0..n
      BY <1>1
    <3>2. g[i - 1] \in Holdings /\ g[i] = next[i][g[i - 1]]
      BY <1>4, <3>1 DEF Unfolds
    <3> QED BY <1>2, <3>1, <3>2
  <2>2. \A i \in 0..n : i = 0 \/ i \in 1..n
    BY <1>1
  <2>3. g \in [0..n -> Holdings] /\ g[0] = None
    BY <1>4 DEF Unfolds
  <2>4. \A i \in 0..n : g[i] = Step(g, i)
    BY <2>1, <2>2, <2>3
  <2> QED BY <2>3, <2>4
<1> DEFINE held == CHOOSE held : Makes(held)
<1>6. Makes(held)
  <2> HIDE DEF Makes
  <2> QED BY <1>5
<1>7. SignalsOf(bars, w) = [i \in 1..n |-> made(i, held[i - 1])]
  BY DEF SignalsOf, n, made, LengthOf
<1> HIDE DEF held
<1>8. held[0] = None /\ \A i \in 1..n : held[i] = HoldingAfter(held[i - 1], made(i, held[i - 1]))
  BY <1>1, <1>6
<1>9. held \in [0..n -> Holdings]
  <2> DEFINE S == {i \in Nat : i <= n => held[i] \in Holdings}
  <2>1. 0 \in S
    BY <1>3, <1>8
  <2>2. ASSUME NEW i \in Nat, i \in S PROVE i + 1 \in S
    <3> SUFFICES ASSUME i + 1 <= n PROVE held[i + 1] \in Holdings
      OBVIOUS
    <3>1. held[i] \in Holdings
      BY <1>1, <2>2
    <3>2. i + 1 \in 1..n /\ (i + 1) - 1 = i
      BY <1>1
    <3>3. held[i + 1] = HoldingAfter(held[i], made(i + 1, held[i]))
      BY <1>8, <3>2
    <3> QED BY <3>1, <3>3, SignalMade DEF made
  <2> HIDE DEF S
  <2>3. \A i \in Nat : i \in S
    BY <2>1, <2>2, Induction
  <2>4. \A i \in 0..n : held[i] \in Holdings
    BY <1>1, <2>3 DEF S
  <2>5. held = [i \in 0..n |-> held[i]]
    BY <1>6
  <2> QED BY <2>4, <2>5
<1> QED BY <1>7, <1>8, <1>9 DEF Holds, n, made

(* A decision before either of two bars of day j has come in does not see    *)
(* which of them it is.                                                      *)
LEMMA DecisionBlind ==
  ASSUME NEW bars \in [1..Days -> Bars], NEW j \in 1..Days, NEW bar \in Bars,
         NEW now \in Int, now < j + Max({0, Min({bar.delay, bars[j].delay})}),
         NEW holding
  PROVE  GenerateSignal([bars EXCEPT ![j] = bar], now, holding) = GenerateSignal(bars, now, holding)
<1> DEFINE other == [bars EXCEPT ![j] = bar]
           seen == Visible(bars, now)
<1>1. /\ Days \in Nat /\ j \in Int /\ bar.delay \in Int /\ bars[j].delay \in Int
      /\ DOMAIN bars = 1..Days /\ DOMAIN other = 1..Days
      /\ other[j] = bar /\ \A k \in 1..Days : k # j => other[k] = bars[k]
  BY WalkForwardAssumption DEF Bars
<1>2. now < j \/ (now < j + bar.delay /\ now < j + bars[j].delay)
  <2> DEFINE a == bar.delay
             b == bars[j].delay
             m == Min({a, b})
  <2>1. a \in Int /\ b \in Int /\ j \in Int
    BY <1>1
  <2> HIDE DEF a, b
  <2>2. m = IF a <= b THEN a ELSE b
    BY <2>1, OfTwo
  <2>3. m \in Int
    BY <2>1, <2>2
  <2> HIDE DEF m
  <2>4. Max({0, m}) = IF 0 <= m THEN m ELSE 0
    BY <2>3, OfTwo
  <2>5. now < j + Max({0, m})
    BY DEF m, a, b
  <2>6. now < j \/ (now < j + a /\ now < j + b)
    BY <2>1, <2>2, <2>3, <2>4, <2>5
  <2> QED BY <2>6 DEF a, b
<1>3. j \notin Visible(bars, now) /\ j \notin Visible(other, now)
  BY <1>1, <1>2 DEF Visible
<1>4. Visible(other, now) = seen
  BY <1>1, <1>3 DEF Visible
<1>5. \A k \in seen : other[k] = bars[k]
  BY <1>1, <1>3 DEF Visible
<1>6. ASSUME NEW S \in SUBSET seen PROVE Total(other, S) = Total(bars, S)
  <2>1. [k \in S |-> other[k].close] = [k \in S |-> bars[k].close]
    BY <1>5
  <2> QED BY <2>1 DEF Total
<1>7. Latest(seen, SlowLength) \in SUBSET seen /\ Latest(seen, FastLength) \in SUBSET seen
  BY DEF Latest
<1> HIDE DEF other, seen
<1>8. /\ Total(other, Latest(seen, SlowLength)) = Total(bars, Latest(seen, SlowLength))
      /\ Total(other, Latest(seen, FastLength)) = Total(bars, Latest(seen, FastLength))
  BY <1>6, <1>7
<1>9. Visible(bars, now) = seen
  BY DEF seen
<1>10. GenerateSignal(other, now, holding) = GenerateSignal(bars, now, holding)
  BY <1>4, <1>8, <1>9 DEF GenerateSignal
<1> QED BY <1>10 DEF other

\* The lists of the window agree on the bars before a day.
AgreeBefore(day, w, list, other) ==
  /\ DOMAIN other = DOMAIN list
  /\ \A i \in DOMAIN other : w.first + i - 1 < day => other[i] = list[i]

(* And so, by way of the positions they lead to, for all the signals before. *)
LEMMA SignalsBlind ==
  ASSUME NEW bars \in [1..Days -> Bars], NEW w \in Span, NEW j \in 1..Days, NEW bar \in Bars,
         NEW arrival, arrival = j + Max({0, Min({bar.delay, bars[j].delay})})
  PROVE  AgreeBefore(arrival, w, SignalsOf(bars, w), SignalsOf([bars EXCEPT ![j] = bar], w))
<1> DEFINE other == [bars EXCEPT ![j] = bar]
           n == LengthOf(w)
<1>1. PICK h : Holds(h, bars, w)
  BY SignalsHold
<1>2. PICK g : Holds(g, other, w)
  BY SignalsHold
<1>3. n \in Nat /\ w.first \in Int
  BY WalkForwardAssumption DEF LengthOf, Span
<1>4. arrival \in Int
  <2>1. bar.delay \in Int /\ bars[j].delay \in Int /\ j \in Int
    BY WalkForwardAssumption DEF Bars
  <2> QED BY <2>1, OfTwo
<1>5. ASSUME NEW now \in Int, now < arrival, NEW holding
      PROVE  GenerateSignal(other, now, holding) = GenerateSignal(bars, now, holding)
  BY <1>5, DecisionBlind
<1> HIDE DEF other, n
<1> DEFINE S == {i \in Nat : i <= n /\ (i = 0 \/ w.first + i - 1 < arrival) => g[i] = h[i]}
<1>6. 0 \in S
  BY <1>1, <1>2 DEF Holds
<1>7. ASSUME NEW i \in Nat, i \in S PROVE i + 1 \in S
  <2> SUFFICES ASSUME i + 1 <= n, w.first + (i + 1) - 1 < arrival PROVE g[i + 1] = h[i + 1]
    BY <1>3
  <2>1. g[i] = h[i]
    BY <1>3, <1>4, <1>7
  <2>2. i + 1 \in 1..n /\ (i + 1) - 1 = i
    BY <1>3
  <2>3. w.first + (i + 1) - 1 \in Int
    BY <1>3
  <2>4. GenerateSignal(other, w.first + (i + 1) - 1, h[i]) = GenerateSignal(bars, w.first + (i + 1) - 1, h[i])
    BY <1>5, <2>3
  <2>5. h[i + 1] = HoldingAfter(h[i], GenerateSignal(bars, w.first + (i + 1) - 1, h[i]))
    BY <1>1, <2>2 DEF Holds, n
  <2>6. g[i + 1] = HoldingAfter(g[i], GenerateSignal(other, w.first + (i + 1) - 1, g[i]))
    BY <1>2, <2>2 DEF Holds, n
  <2> QED BY <2>1, <2>4, <2>5, <2>6
<1> HIDE DEF S
<1>8. \A i \in Nat : i \in S
  BY <1>6, <1>7, Induction
<1>9. /\ SignalsOf(bars, w) = [i \in 1..n |-> GenerateSignal(bars, w.first + i - 1, h[i - 1])]
      /\ SignalsOf(other, w) = [i \in 1..n |-> GenerateSignal(other, w.first + i - 1, g[i - 1])]
  BY <1>1, <1>2 DEF Holds, n
<1>10. ASSUME NEW i \in 1..n, w.first + i - 1 < arrival
       PROVE  SignalsOf(other, w)[i] = SignalsOf(bars, w)[i]
  <2>1. i - 1 \in Nat /\ i - 1 <= n /\ (i - 1 = 0 \/ w.first + (i - 1) - 1 < arrival)
    BY <1>3, <1>4, <1>10
  <2>2. g[i - 1] = h[i - 1]
    BY <1>8, <2>1 DEF S
  <2>3. w.first + i - 1 \in Int
    BY <1>3
  <2>4. GenerateSignal(other, w.first + i - 1, h[i - 1]) = GenerateSignal(bars, w.first + i - 1, h[i - 1])
    BY <1>5, <1>10, <2>3
  <2> QED BY <1>9, <2>2, <2>4
<1>11. AgreeBefore(arrival, w, SignalsOf(bars, w), SignalsOf(other, w))
  BY <1>9, <1>10 DEF AgreeBefore
<1> QED BY <1>11 DEF other

LEMMA FoldsSeq ==
  ASSUME NEW p \in Splits
  PROVE  /\ Len(Folds(p, 1, Days)) \in Nat
         /\ DOMAIN Folds(p, 1, Days) = 1..Len(Folds(p, 1, Days))
<1> DEFINE starts == {d \in 1..Days : (d - 1) % p.step = 0 /\ d + (p.train + p.validation + p.test - 1) <= Days}
           n == Cardinality(starts)
<1>1. n \in Nat
  <2>1. IsFiniteSet(1..Days) /\ starts \subseteq 1..Days
    BY FS_Interval, WalkForwardAssumption
  <2> QED BY <2>1, FS_Subset, FS_CardinalityType
<1>2. Folds(p, 1, Days) = [i \in 1..n |-> Split(p, 1 + (i - 1) * p.step, Days)]
  BY DEF Folds
<1> HIDE DEF n
<1> QED BY <1>1, <1>2

LEMMA SomeSymbol ==
  Cardinality(Symbols) \in Nat /\ Cardinality(Symbols) # 0 /\ Symbols = 1..Cardinality(Symbols)
BY SimulatorAssumption, FS_CardinalityType, FS_EmptySet

\* The signals are those of the window of the fold and the phase evaluated.
PhaseInv ==
  /\ history \in Histories
  /\ phase \in {"folds", "done"} \union Phases
  /\ phase = "folds" => fold = 0
  /\ phase = "done" => fold = 0 \/ Len(results) = Cardinality(Symbols)
  /\ phase \in Phases => /\ fold \in DOMAIN folds
                         /\ signals = [s \in Symbols |-> SignalsOf(history[s], folds[fold][phase])]

LEMMA PhaseInitially == Init => PhaseInv
BY DEF Init, PhaseInv, Phases

LEMMA PhaseStep == FoldsInv /\ PhaseInv /\ [Next]_vars => PhaseInv'
<1> SUFFICES ASSUME FoldsInv, PhaseInv, [Next]_vars PROVE PhaseInv'
  OBVIOUS
<1>1. CASE MakeFolds
  BY <1>1 DEF MakeFolds, PhaseInv, Phases
<1>2. CASE StartPhase
  <2>1. folds # <<>> /\ folds = Folds(split, 1, Days) /\ split \in Splits
    BY <1>2 DEF StartPhase, FoldsInv
  <2>2. Len(folds) \in Nat /\ DOMAIN folds = 1..Len(folds)
    BY <2>1, FoldsSeq
  <2>3. phase' \in Phases
    BY <1>2 DEF StartPhase, Following, Phases
  <2>4. fold' \in DOMAIN folds
    <3>1. CASE phase \in {"folds", "test"}
      BY <1>2, <2>2, <3>1 DEF StartPhase, PhaseInv, Phases
    <3>2. CASE phase \in {"train", "validation"}
      BY <1>2, <2>2, <3>2 DEF StartPhase, PhaseInv, Phases
    <3> QED BY <1>2, <3>1, <3>2 DEF StartPhase
  <2>5. /\ signals' = [s \in Symbols |-> SignalsOf(history[s], folds[fold'][phase'])]
        /\ UNCHANGED <<history, folds>>
    BY <1>2 DEF StartPhase
  <2> QED BY <2>3, <2>4, <2>5 DEF PhaseInv, Phases
<1>3. CASE Finish
  BY <1>3 DEF Finish, PhaseInv, Phases
<1>4. CASE FinishRun
  BY <1>4 DEF FinishRun, PhaseInv, Phases
<1>5. CASE GetTestPeriod \/ ProcessPhaseBar \/ CallerStep \/ UNCHANGED vars
  <2>1. UNCHANGED <<history, folds, fold, phase, signals, results>>
    BY <1>5 DEF GetTestPeriod, ProcessPhaseBar, CallerStep, vars, evaluation
  <2> QED BY <2>1 DEF PhaseInv
<1> QED BY <1>1, <1>2, <1>3, <1>4, <1>5 DEF Next

LEMMA PhaseAlways == Spec => [](FoldsInv /\ PhaseInv)
BY FoldsAlways, PhaseInitially, PhaseStep, PTL DEF Spec

(* No lookahead, for every history, window, day and bar put in the place of  *)
(* one that has not come in: the signals of a phase before it are the same.  *)
THEOREM SignalsAreBlindToTheFuture == Spec => []SignalsUsePastOnly
<1>1. FoldsInv /\ PhaseInv => SignalsUsePastOnly
  <2> SUFFICES ASSUME FoldsInv, PhaseInv, fold > 0, at = 0, results = <<>>,
                      NEW s \in Symbols, NEW j \in 1..Days, NEW bar \in BarShapes
               PROVE  LET w == folds[fold][phase]
                          arrival == j + Max({0, Min({bar.delay, history[s][j].delay})})
                          other == SignalsOf([history[s] EXCEPT ![j] = bar], w)
                      IN  /\ DOMAIN other = DOMAIN signals[s]
                          /\ \A i \in DOMAIN other : w.first + i - 1 < arrival => other[i] = signals[s][i]
    BY DEF SignalsUsePastOnly
  <2> DEFINE w == folds[fold][phase]
             arrival == j + Max({0, Min({bar.delay, history[s][j].delay})})
  <2>1. phase \in Phases
    <3>1. Len(results) = 0
      OBVIOUS
    <3> QED BY <3>1, SomeSymbol DEF PhaseInv
  <2>2. fold \in DOMAIN folds /\ folds = Folds(split, 1, Days) /\ split \in Splits
    BY <2>1 DEF PhaseInv, FoldsInv
  <2>3. w \in Span
    <3>1. folds[fold] \in [train: Span, validation: Span, test: Span]
      BY <2>2, FoldsInOrder
    <3> QED BY <2>1, <3>1 DEF Phases
  <2>4. history[s] \in [1..Days -> Bars] /\ bar \in Bars
    BY SimulatorAssumption, WalkForwardAssumption DEF PhaseInv
  <2>5. signals[s] = SignalsOf(history[s], w)
    BY <2>1 DEF PhaseInv
  <2> DEFINE bars == history[s]
             other == SignalsOf([bars EXCEPT ![j] = bar], w)
  <2> HIDE DEF w, bars, arrival
  <2>6. arrival = j + Max({0, Min({bar.delay, bars[j].delay})})
    BY DEF arrival, bars
  <2>7. bars \in [1..Days -> Bars] /\ signals[s] = SignalsOf(bars, w)
    BY <2>4, <2>5 DEF bars
  <2>8. AgreeBefore(arrival, w, SignalsOf(bars, w), other)
    BY <2>3, <2>4, <2>6, <2>7, SignalsBlind
  <2> HIDE DEF other
  <2>9. /\ DOMAIN other = DOMAIN signals[s]
        /\ \A i \in DOMAIN other : w.first + i - 1 < arrival => other[i] = signals[s][i]
    BY <2>7, <2>8 DEF AgreeBefore
  <2> QED BY <2>9 DEF w, arrival, other, bars
<1> QED BY <1>1, PhaseAlways, PTL

-----------------------------------------------------------------------------
(* The simulator's book.                                                     *)

Setups == [model: DOMAIN Rates, assumption: Assumptions]

LEMMA Products ==
  ASSUME NEW a \in Nat, NEW b \in Nat, NEW r \in Nat, a <= b
  PROVE  a * r \in Nat /\ b * r \in Nat /\ a * r <= b * r
<1>1. a * r \in Nat /\ b * r \in Nat /\ (b - a) \in Nat
  OBVIOUS
<1>2. (b - a) * r \in Nat /\ (b - a) * r = b * r - a * r
  BY <1>1
<1> QED BY <1>1, <1>2

LEMMA Hundredths ==
  ASSUME NEW a \in Nat, NEW b \in Nat, a <= b
  PROVE  a \div 100 \in Nat /\ a \div 100 <= b \div 100 /\ a \div 100 <= a
OBVIOUS

(* A commission is never negative, none is charged for no share, and more    *)
(* shares cost no less.                                                      *)
LEMMA CommissionGrows ==
  ASSUME setup \in Setups, NEW n \in Nat, NEW q \in Nat, n <= q, NEW price \in Amounts
  PROVE  /\ Commission(n, price) \in Nat
         /\ Commission(0, price) = 0
         /\ Commission(n, price) <= Commission(q, price)
<1>1. setup.model \in DOMAIN Rates /\ setup.model \in Models /\ Rates[setup.model] \in Nat
  BY SimulatorAssumption DEF Setups
<1> DEFINE r == Rates[setup.model]
<1>2. r \in Nat /\ price \in Nat
  BY <1>1 DEF Amounts
<1>3. \A m \in Nat : Commission(m, price) = IF m = 0 THEN 0
        ELSE IF setup.model = "fixed" THEN r
        ELSE IF setup.model = "per_share" THEN m * r ELSE (m * price * r) \div 100
  <2>1. ASSUME NEW m \in Nat
        PROVE Commission(m, price) = IF m = 0 THEN 0
                ELSE IF setup.model = "fixed" THEN r
                ELSE IF setup.model = "per_share" THEN m * r ELSE (m * price * r) \div 100
    <3>1. CASE m = 0
      BY <3>1 DEF Commission
    <3>2. CASE m # 0
      <4>1. m > 0 /\ ~(m <= 0)
        BY <3>2
      <4>2. setup.model \in {"fixed", "per_share", "percentage"}
        BY <1>1 DEF Models
      <4> QED BY <4>1, <4>2, <3>2 DEF Commission
    <3> QED BY <3>1, <3>2
  <2> QED BY <2>1
<1> HIDE DEF r
<1>4. n * r \in Nat /\ q * r \in Nat /\ n * r <= q * r
  BY <1>2, Products
<1>5. n * price \in Nat /\ q * price \in Nat /\ n * price <= q * price
  BY <1>2, Products
<1>6. n * price * r \in Nat /\ q * price * r \in Nat /\ n * price * r <= q * price * r
  BY <1>2, <1>5, Products
<1> DEFINE x == n * price * r
           y == q * price * r
<1>7. x \div 100 \in Nat /\ y \div 100 \in Nat /\ x \div 100 <= y \div 100
  <2> HIDE DEF x, y
  <2>1. x \in Nat /\ y \in Nat /\ x <= y
    BY <1>6 DEF x, y
  <2> QED BY <2>1, Hundredths
<1> DEFINE u == n * r
           v == q * r
           x1 == x \div 100
           y1 == y \div 100
<1>8. Commission(0, price) = 0
  BY <1>3
<1>9. /\ Commission(n, price) = IF n = 0 THEN 0 ELSE IF setup.model = "fixed" THEN r
                                ELSE IF setup.model = "per_share" THEN u ELSE x1
      /\ Commission(q, price) = IF q = 0 THEN 0 ELSE IF setup.model = "fixed" THEN r
                                ELSE IF setup.model = "per_share" THEN v ELSE y1
  BY <1>3
<1>10. u \in Nat /\ v \in Nat /\ u <= v /\ x1 \in Nat /\ y1 \in Nat /\ x1 <= y1
  BY <1>4, <1>7
<1> HIDE DEF u, v, x1, y1
<1> QED BY <1>2, <1>8, <1>9, <1>10

(* What is sold earns its commission.                                        *)
LEMMA SaleCoversCommission ==
  ASSUME setup \in Setups, CommissionsCovered, NEW q \in Amounts, NEW price \in FillPrices, price \in Amounts
  PROVE  Commission(q, price) <= q * price
<1>1. setup.model \in DOMAIN Rates /\ setup.model \in Models /\ Rates[setup.model] \in Nat
  BY SimulatorAssumption DEF Setups
<1> DEFINE r == Rates[setup.model]
<1>2. q \in Nat /\ q >= 1 /\ price \in Nat /\ r \in Nat
  BY <1>1 DEF Amounts
<1>3. q * price \in Nat /\ 1 * price <= q * price
  BY <1>2, Products
<1>4. CASE setup.model = "fixed"
  <2>1. Commission(q, price) = r /\ r <= price
    BY <1>1, <1>2, <1>4 DEF Commission, CommissionsCovered
  <2> QED BY <1>2, <1>3, <2>1
<1>5. CASE setup.model = "per_share"
  <2>1. Commission(q, price) = q * r /\ r <= price
    BY <1>1, <1>2, <1>5 DEF Commission, CommissionsCovered
  <2>2. r * q \in Nat /\ r * q <= price * q
    BY <1>2, <2>1, Products
  <2>3. r * q = q * r /\ price * q = q * price
    BY <1>2
  <2> QED BY <2>1, <2>2, <2>3
<1>6. CASE setup.model = "percentage"
  <2> DEFINE v == q * price
  <2>1. Commission(q, price) = (v * r) \div 100 /\ r <= 100
    BY <1>1, <1>2, <1>6 DEF Commission, CommissionsCovered
  <2> HIDE DEF v
  <2>2. v \in Nat
    BY <1>3 DEF v
  <2>3. r * v \in Nat /\ r * v <= 100 * v /\ r * v = v * r
    BY <1>2, <2>1, <2>2, Products
  <2>4. (v * r) \div 100 <= (100 * v) \div 100
    BY <2>2, <2>3, Hundredths
  <2>5. (100 * v) \div 100 = v
    BY <2>2
  <2> QED BY <2>1, <2>4, <2>5 DEF v
<1> QED BY <1>1, <1>4, <1>5, <1>6 DEF Models

LEMMA FillPricesPositive == FillPrices \subseteq Amounts
<1>1. \A bar \in BarShapes : bar.open \in Amounts
  BY SimulatorAssumption DEF Bars
<1>2. \A h \in Histories, s \in Symbols, d \in 1..Days : h[s][d].open \in Amounts
  <2>1. \A h \in Histories, s \in Symbols, d \in 1..Days : h[s][d] \in Bars
    BY WalkForwardAssumption
  <2> QED BY <2>1 DEF Bars
<1>3. \A o \in CallerSignals : o.price # None => o.price[1] \in Amounts
  <2>1. \A o \in CallerSignals : o.price \in {None} \union [1..1 -> Amounts]
    BY SimulatorAssumption DEF Orders
  <2> QED BY <2>1
<1>4. ASSUME NEW price \in FillPrices PROVE price \in Amounts
  <2>1. CASE \E bar \in BarShapes : price = bar.open
    BY <1>1, <2>1
  <2>2. CASE \E h \in Histories, s \in Symbols, d \in 1..Days : price = h[s][d].open
    BY <1>2, <2>2
  <2>3. CASE \E o \in CallerSignals : o.price # None /\ price = o.price[1]
    BY <1>3, <2>3
  <2> QED BY <2>1, <2>2, <2>3 DEF FillPrices
<1> QED BY <1>4

LEMMA FilledAtAPrice ==
  ASSUME NEW o \in Offers, NEW bar, bar.open \in FillPrices, ~LimitWithoutPrice(o)
  PROVE  FillPrice(o, bar) \in FillPrices /\ FillPrice(o, bar) \in Amounts
<1>1. CASE setup.assumption = "limit"
  <2>1. FillPrice(o, bar) = o.price[1] /\ o.price # None
    BY <1>1 DEF FillPrice, LimitWithoutPrice
  <2> QED BY <2>1, FillPricesPositive DEF Offers
<1>2. CASE setup.assumption # "limit" /\ (o.price = None \/ o.type = "MARKET")
  <2>1. FillPrice(o, bar) = bar.open
    BY <1>2 DEF FillPrice
  <2> QED BY <2>1, FillPricesPositive
<1>3. CASE setup.assumption # "limit" /\ o.price # None /\ o.type # "MARKET"
  <2> DEFINE x == bar.open
             y == o.price[1]
  <2>1. FillPrice(o, bar) = Min({x, y}) \/ FillPrice(o, bar) = Max({x, y})
    BY <1>3 DEF FillPrice
  <2>2. x \in FillPrices /\ y \in FillPrices /\ x \in Int /\ y \in Int
    BY <1>3, FillPricesPositive DEF Offers, Amounts
  <2> HIDE DEF x, y
  <2>3. Min({x, y}) \in {x, y} /\ Max({x, y}) \in {x, y}
    BY <2>2, OfTwo
  <2> QED BY <2>1, <2>2, <2>3, FillPricesPositive
<1> QED BY <1>1, <1>2, <1>3

(* What the cash does not pay for is not bought.                             *)
LEMMA PurchaseAffordable ==
  ASSUME setup \in Setups, NEW b, b.cash \in Int, NEW o \in Orders, o.side = "BUY", NEW price \in Amounts
  PROVE  LET n == QuantizeShares(b, o, price)
         IN  n \in Nat /\ (b.cash >= 0 => n * price + Commission(n, price) <= b.cash)
<1> DEFINE q == o.quantity
           c == Commission(q, price)
           cash == b.cash
           affordable == IF cash < c THEN 0 ELSE (cash - c) \div price
<1>1. q \in Nat /\ q >= 1 /\ price \in Nat /\ price >= 1 /\ cash \in Int
  BY DEF Orders, Amounts
<1>2. c \in Nat
  BY <1>1, CommissionGrows
<1>3. q * price \in Nat
  BY <1>1
<1>4. QuantizeShares(b, o, price) = IF cash < q * price + c THEN affordable ELSE q
  <2> DEFINE due == q * price + c
  <2>1. due \in Int /\ QuantizeShares(b, o, price) =
          CASE o.side = "SELL" -> -o.quantity
            [] o.side = "BUY" /\ cash < due -> affordable
            [] o.side = "BUY" /\ cash >= due -> q
    BY <1>2, <1>3 DEF QuantizeShares
  <2> HIDE DEF due, affordable, q, cash
  <2>2. (cash >= due) <=> ~(cash < due)
    BY <1>1, <2>1
  <2>3. QuantizeShares(b, o, price) = IF cash < due THEN affordable ELSE q
    BY <2>1, <2>2
  <2> QED BY <2>3 DEF due
<1>5. CASE ~(cash < q * price + c)
  BY <1>1, <1>2, <1>3, <1>4, <1>5
<1>6. CASE cash < q * price + c /\ cash < c
  <2>1. QuantizeShares(b, o, price) = 0 /\ Commission(0, price) = 0 /\ 0 * price = 0
    BY <1>1, <1>4, <1>6, CommissionGrows
  <2> QED BY <2>1
<1>7. CASE cash < q * price + c /\ ~(cash < c)
  <2> DEFINE m == cash - c
             n == m \div price
  <2>1. m \in Nat
    BY <1>1, <1>2, <1>7
  <2>2. QuantizeShares(b, o, price) = n
    BY <1>4, <1>7
  <2> HIDE DEF m
  <2>3. n \in Nat /\ m = n * price + (m % price) /\ (m % price) \in Nat
    BY <1>1, <2>1, Division
  <2> HIDE DEF n
  <2>4. n * price \in Nat /\ n * price <= m
    BY <1>1, <2>3, Products, <2>1
  <2>5. n <= q
    <3>1. ASSUME q <= n PROVE q * price <= n * price
      BY <1>1, <2>3, <3>1, Products
    <3>2. m < q * price
      BY <1>1, <1>2, <1>3, <1>7 DEF m
    <3> QED BY <1>1, <1>3, <2>1, <2>3, <2>4, <3>1, <3>2
  <2>6. Commission(n, price) \in Nat /\ Commission(n, price) <= c
    BY <1>1, <2>3, <2>5, CommissionGrows
  <2> HIDE DEF c
  <2>7. n * price + Commission(n, price) <= cash
    BY <1>1, <1>2, <2>1, <2>4, <2>6 DEF m
  <2> QED BY <2>2, <2>3, <2>7
<1> QED BY <1>5, <1>6, <1>7

Positions == [quantity: Nat, basis: Int, value: Int, realized: Int]

\* Nothing held, nothing paid for it.
Settled(p) == p \in Positions /\ (p.quantity = 0 => p.basis = 0)

LEMMA Quotient ==
  ASSUME NEW k \in Int, NEW d \in Int, d > 0
  PROVE  k \div d \in Int /\ (k * d) \div d = k
<1> DEFINE m == k * d
           x == m \div d
           r == m % d
           g == k - x
<1>1. m \in Int
  OBVIOUS
<1>2. x \in Int /\ r \in 0..(d - 1) /\ m = d * x + r
  <2> HIDE DEF m
  <2> QED BY <1>1
<1>3. k \div d \in Int
  OBVIOUS
<1>4. g \in Int /\ g * d = r
  <2> HIDE DEF x, r
  <2>1. g * d = k * d - x * d /\ d * x = x * d
    BY <1>2
  <2> QED BY <1>1, <1>2, <2>1
<1> HIDE DEF g
<1>5. g >= 1 => g * d >= d
  BY <1>4
<1>6. g <= -1 => g * d <= -d
  BY <1>4
<1>7. g = 0
  <2> HIDE DEF r
  <2> QED BY <1>2, <1>4, <1>5, <1>6
<1>8. x = k
  <2> HIDE DEF x
  <2> QED BY <1>2, <1>7 DEF g
<1> QED BY <1>3, <1>8

(* A purchase, or the sale of all, moves the cost basis less the realized    *)
(* profit by what is paid.                                                   *)
LEMMA PositionMoves ==
  ASSUME NEW p, Settled(p), NEW price \in Amounts, NEW n \in Int, n >= 0 \/ -n <= p.quantity
  PROVE  LET after == PositionAfter(p, n, price)
         IN  /\ Settled(after)
             /\ after.quantity = p.quantity + n
             /\ n >= 0 \/ after.quantity = 0
                  => after.basis - after.realized = p.basis - p.realized + n * price
<1> DEFINE q == p.quantity
           a == p.basis
           quantity == q + n
           shares == IF n < 0 THEN -n ELSE n
           cost == price * shares
           part == (a * shares) \div q
           basis == CASE n = 0 -> a
                      [] n # 0 /\ q = 0 -> quantity * price
                      [] n # 0 /\ q # 0 -> a + cost
           profit == IF q > 0 /\ n < 0 THEN cost - part ELSE 0
           after == PositionAfter(p, n, price)
<1>1. q \in Nat /\ a \in Int /\ p.realized \in Int /\ (q = 0 => a = 0) /\ price \in Nat /\ shares \in Nat
      /\ quantity \in Nat
  BY DEF Settled, Positions, Amounts
<1>2. after = [quantity |-> quantity, basis |-> IF quantity = 0 THEN 0 ELSE basis,
               value |-> quantity * price, realized |-> p.realized + profit]
  BY DEF PositionAfter
<1>3. cost \in Int /\ quantity * price \in Int /\ n * price \in Int
      /\ (n >= 0 => cost = n * price) /\ (n < 0 => cost = -(n * price))
  <2>1. n >= 0 => price * n = n * price
    BY <1>1
  <2>2. price * (-n) = -(n * price)
    BY <1>1
  <2> QED BY <1>1, <2>1, <2>2
<1>4. q > 0 => part \in Int /\ (shares = q => part = a)
  <2> DEFINE m == a * shares
  <2>1. m \in Int
    BY <1>1
  <2>2. ASSUME NEW k \in Int, NEW d \in Int, d > 0 PROVE k \div d \in Int /\ (k * d) \div d = k
    BY <2>2, Quotient
  <2>3. shares = q => m = a * q
    OBVIOUS
  <2> HIDE DEF m
  <2> QED BY <1>1, <2>1, <2>2, <2>3 DEF m
<1> HIDE DEF cost, part
<1>5. profit \in Int
  BY <1>1, <1>3, <1>4
<1>6. basis \in Int
  <2>1. CASE n = 0
    BY <1>1, <2>1
  <2>2. CASE n # 0 /\ q = 0
    BY <1>3, <2>2
  <2>3. CASE n # 0 /\ q # 0
    BY <1>1, <1>3, <2>3
  <2> QED BY <1>1, <2>1, <2>2, <2>3
<1>7. Settled(after)
  <2> HIDE DEF basis, profit
  <2> QED BY <1>1, <1>2, <1>3, <1>5, <1>6 DEF Settled, Positions
<1>8. ASSUME n >= 0 PROVE after.basis - after.realized = a - p.realized + n * price
  <2>1. profit = 0
    BY <1>1, <1>8
  <2>2. (IF quantity = 0 THEN 0 ELSE basis) = a + n * price
    <3>1. CASE n = 0
      <4>1. n * price = 0 /\ basis = a /\ quantity = q
        BY <1>1, <3>1
      <4> QED BY <1>1, <4>1
    <3>2. CASE n # 0 /\ q = 0
      <4>1. quantity = n /\ quantity # 0 /\ basis = n * price /\ a = 0
        BY <1>1, <1>8, <3>2
      <4> QED BY <1>3, <4>1
    <3>3. CASE n # 0 /\ q # 0
      <4>1. quantity # 0 /\ basis = a + cost
        BY <1>1, <1>8, <3>3
      <4> QED BY <1>1, <1>3, <1>8, <4>1
    <3> QED BY <1>1, <3>1, <3>2, <3>3
  <2> DEFINE v == n * price
  <2>3. after.basis = a + v /\ after.realized = p.realized
    <3> HIDE DEF basis, profit
    <3> QED BY <1>1, <1>2, <2>1, <2>2
  <2> HIDE DEF v, after
  <2>4. v \in Int
    BY <1>3 DEF v
  <2>5. after.basis - after.realized = a - p.realized + v
    BY <1>1, <2>3, <2>4
  <2> QED BY <2>5 DEF v
<1>9. ASSUME n < 0, quantity = 0 PROVE after.basis - after.realized = a - p.realized + n * price
  <2> DEFINE v == n * price
  <2>1. shares = q /\ q > 0 /\ part = a /\ cost = -v /\ v \in Int
    BY <1>1, <1>3, <1>4, <1>9
  <2>2. profit = cost - a
    BY <1>9, <2>1
  <2>3. after.basis = 0 /\ after.realized = p.realized + profit
    <3> HIDE DEF basis, profit
    <3> QED BY <1>2, <1>9
  <2> HIDE DEF v, after, profit
  <2>4. after.basis - after.realized = a - p.realized + v
    BY <1>1, <1>3, <2>1, <2>2, <2>3
  <2> QED BY <2>4 DEF v
<1>10. after.quantity = quantity
  BY <1>2
<1> HIDE DEF after
<1> QED BY <1>7, <1>8, <1>9, <1>10 DEF after

BookFields ==
  {"cash", "positions", "trades", "commission", "slippage", "rejected", "charged", "partial"}

\* What is so of every book, whatever is charged: whole positions that are never
\* short, of no more symbols than may be held.
Kept(b) ==
  /\ DOMAIN b = BookFields
  /\ b.cash \in Int /\ b.charged \in Int
  /\ DOMAIN b.positions \subseteq Symbols
  /\ Cardinality(DOMAIN b.positions) <= MaxPositions
  /\ \A s \in DOMAIN b.positions : Settled(b.positions[s])

\* The profit reported explains the equity reported.
Explained(b) == ~b.partial => b.cash + MarketValue(b) = StartCash + TotalPnl(b) - b.charged

\* c is b with the position p for the symbol s.
Moves(b, c, s, p) ==
  c.positions = [r \in DOMAIN b.positions \union {s} |-> IF r = s THEN p ELSE b.positions[r]]

(* How the profit and the value follow a position.                           *)
LEMMA TotalsMove ==
  ASSUME NEW b, NEW c, Kept(b), NEW s \in Symbols, NEW p, Settled(p), Moves(b, c, s, p)
  PROVE  /\ MarketValue(b) \in Int /\ TotalPnl(b) \in Int
         /\ MarketValue(c) = MarketValue(b) + p.value - Held(b, s).value
         /\ TotalPnl(c) = TotalPnl(b) + (p.value - p.basis + p.realized)
                            - (Held(b, s).value - Held(b, s).basis + Held(b, s).realized)
<1> DEFINE n == Cardinality(Symbols)
           D == DOMAIN b.positions
           f == [r \in D |-> b.positions[r].value]
           g == [r \in D \union {s} |-> IF r = s THEN p.value ELSE b.positions[r].value]
           Worth(q) == Unrealized(q) + q.realized
           u == [r \in D |-> Worth(b.positions[r])]
           v == [r \in D \union {s} |-> IF r = s THEN Worth(p) ELSE Worth(b.positions[r])]
<1>1. n \in Nat /\ s \in 1..n
  BY SomeSymbol
<1>2. /\ p.value \in Int /\ p.basis \in Int /\ p.realized \in Int /\ Worth(p) \in Int
      /\ Worth(p) = p.value - p.basis + p.realized
  BY DEF Settled, Positions, Unrealized
<1>3. \A r \in D : /\ b.positions[r].value \in Int /\ b.positions[r].basis \in Int
                   /\ b.positions[r].realized \in Int /\ Worth(b.positions[r]) \in Int
  BY DEF Kept, Settled, Positions, Unrealized
<1>4. /\ MarketValue(b) = SumTo(f, n) /\ TotalPnl(b) = SumTo(u, n)
  BY DEF MarketValue, TotalPnl, Sum
<1>5. MarketValue(c) = SumTo(g, n) /\ TotalPnl(c) = SumTo(v, n)
  <2>1. [r \in DOMAIN c.positions |-> c.positions[r].value] = g
    BY DEF Moves
  <2>2. [r \in DOMAIN c.positions |-> Unrealized(c.positions[r]) + c.positions[r].realized] = v
    BY DEF Moves
  <2> HIDE DEF g, v
  <2> QED BY <2>1, <2>2 DEF MarketValue, TotalPnl, Sum
<1>6. /\ SumTo(f, n) \in Int
      /\ SumTo(g, n) = SumTo(f, n) + p.value - (IF s \in D THEN f[s] ELSE 0)
  <2>1. \A r \in DOMAIN f : f[r] \in Int
    BY <1>3
  <2>2. \A r \in DOMAIN g : g[r] \in Int
    BY <1>2, <1>3
  <2>3. DOMAIN f = D /\ DOMAIN g = DOMAIN f \union {s} /\ g[s] = p.value /\ \A r \in DOMAIN f \ {s} : g[r] = f[r]
    OBVIOUS
  <2> HIDE DEF f, g, D
  <2>4. SumTo(f, n) \in Int /\ SumTo(g, n) = SumTo(f, n) + g[s] - (IF s \in DOMAIN f THEN f[s] ELSE 0)
    BY <1>1, <2>1, <2>2, <2>3, SumChanges
  <2> QED BY <2>3, <2>4
<1>7. /\ SumTo(u, n) \in Int
      /\ SumTo(v, n) = SumTo(u, n) + Worth(p) - (IF s \in D THEN u[s] ELSE 0)
  <2>1. \A r \in DOMAIN u : u[r] \in Int
    BY <1>3
  <2>2. \A r \in DOMAIN v : v[r] \in Int
    BY <1>2, <1>3
  <2>3. DOMAIN u = D /\ DOMAIN v = DOMAIN u \union {s} /\ v[s] = Worth(p) /\ \A r \in DOMAIN u \ {s} : v[r] = u[r]
    OBVIOUS
  <2> HIDE DEF u, v, D, Worth
  <2>4. SumTo(u, n) \in Int /\ SumTo(v, n) = SumTo(u, n) + v[s] - (IF s \in DOMAIN u THEN u[s] ELSE 0)
    BY <1>1, <2>1, <2>2, <2>3, SumChanges
  <2> QED BY <2>3, <2>4
<1>8. /\ Held(b, s).value = IF s \in D THEN f[s] ELSE 0
      /\ Held(b, s).value - Held(b, s).basis + Held(b, s).realized = IF s \in D THEN u[s] ELSE 0
  <2>1. CASE s \in D
    BY <1>3, <2>1 DEF Held, Unrealized
  <2>2. CASE s \notin D
    BY <2>2 DEF Held, NoPosition
  <2> QED BY <2>1, <2>2
<1> HIDE DEF f, g, u, v, D, n
<1> QED BY <1>2, <1>4, <1>5, <1>6, <1>7, <1>8

LEMMA HeldSettled ==
  ASSUME NEW b, Kept(b), NEW s
  PROVE  Settled(Held(b, s))
BY DEF Kept, Held, NoPosition, Settled, Positions

(* What an order that passed the risk check is filled with.                  *)
LEMMA OrderFilled ==
  ASSUME setup \in Setups, NEW b, Kept(b), NEW s \in Symbols, NEW o \in Offers,
         NEW bar, bar.open \in FillPrices, ~Rejected(b, s, o, bar), ~LimitWithoutPrice(o),
         NEW price, price = FillPrice(o, bar), NEW n, n = QuantizeShares(b, o, price)
  PROVE  LET shares == IF n < 0 THEN -n ELSE n
             before == Held(b, s)
             after == PositionAfter(before, n, price)
         IN  /\ price \in FillPrices /\ price \in Amounts
             /\ n \in Int /\ shares \in Nat /\ n * price \in Int
             /\ Commission(shares, price) \in Nat
             /\ Settled(before) /\ Settled(after)
             /\ after.quantity = before.quantity + n
             /\ o.side = "BUY" => n >= 0 /\ (b.cash >= 0 => n * price + Commission(n, price) <= b.cash)
             /\ o.side = "SELL" => n = -o.quantity /\ o.quantity <= before.quantity
             /\ n >= 0 \/ after.quantity = 0
                  => after.basis - after.realized = before.basis - before.realized + n * price
<1> DEFINE shares == IF n < 0 THEN -n ELSE n
           before == Held(b, s)
           after == PositionAfter(before, n, price)
<1>1. price \in FillPrices /\ price \in Amounts /\ o \in Orders
  BY FilledAtAPrice DEF Offers
<1>2. b.cash \in Int /\ o.quantity \in Amounts /\ o.side \in {"BUY", "SELL"}
  BY <1>1 DEF Kept, Orders
<1>3. Settled(before) /\ before.quantity \in Nat
  BY HeldSettled DEF Settled, Positions
<1>4. o.side = "BUY" => n \in Nat /\ (b.cash >= 0 => n * price + Commission(n, price) <= b.cash)
  BY <1>1, <1>2, PurchaseAffordable
<1>5. o.side = "SELL" => n = -o.quantity /\ o.quantity <= before.quantity
  <2>1. o.side = "SELL" => ~(before.quantity < o.quantity)
    BY DEF Rejected
  <2>2. o.side = "SELL" => n = -o.quantity
    BY DEF QuantizeShares
  <2> QED BY <1>2, <1>3, <2>1, <2>2 DEF Amounts
<1>6. n \in Int /\ (n >= 0 \/ -n <= before.quantity) /\ shares \in Nat
  <2> HIDE DEF before
  <2> QED BY <1>2, <1>3, <1>4, <1>5 DEF Amounts
<1>7. Commission(shares, price) \in Nat /\ n * price \in Int
  <2>1. Commission(shares, price) \in Nat
    <3> HIDE DEF shares
    <3> QED BY <1>1, <1>6, CommissionGrows
  <2> QED BY <1>1, <1>6, <2>1 DEF Amounts
<1>8. /\ Settled(after)
      /\ after.quantity = before.quantity + n
      /\ n >= 0 \/ after.quantity = 0 => after.basis - after.realized = before.basis - before.realized + n * price
  <2> HIDE DEF before, shares
  <2>1. Settled(before) /\ price \in Amounts /\ n \in Int /\ (n >= 0 \/ -n <= before.quantity)
    BY <1>1, <1>3, <1>6
  <2> QED BY <2>1, PositionMoves
<1> HIDE DEF shares, before, after
<1>9. o.side = "BUY" => n >= 0 /\ (b.cash >= 0 => n * price + Commission(n, price) <= b.cash)
  BY <1>4
<1>10. /\ price \in FillPrices /\ price \in Amounts
       /\ n \in Int /\ shares \in Nat /\ n * price \in Int
       /\ Commission(shares, price) \in Nat
       /\ Settled(before) /\ Settled(after)
       /\ after.quantity = before.quantity + n
       /\ o.side = "BUY" => n >= 0 /\ (b.cash >= 0 => n * price + Commission(n, price) <= b.cash)
       /\ o.side = "SELL" => n = -o.quantity /\ o.quantity <= before.quantity
       /\ n >= 0 \/ after.quantity = 0
            => after.basis - after.realized = before.basis - before.realized + n * price
  BY <1>1, <1>3, <1>5, <1>6, <1>7, <1>8, <1>9
<1> QED BY <1>10 DEF shares, before, after

(* An order that passed the risk check leaves a sound book.                  *)
LEMMA ExecuteKeeps ==
  ASSUME setup \in Setups, NEW b, Kept(b), NEW s \in Symbols, NEW o \in Offers,
         NEW bar, bar.open \in FillPrices, ~Rejected(b, s, o, bar), ~LimitWithoutPrice(o)
  PROVE  LET c == ExecuteOrder(b, s, o, bar)
         IN  /\ Kept(c)
             /\ Explained(b) => Explained(c)
             /\ CommissionsCovered /\ b.cash >= 0 => c.cash >= 0
<1> DEFINE price == FillPrice(o, bar)
           n == QuantizeShares(b, o, price)
           shares == IF n < 0 THEN -n ELSE n
           commission == Commission(shares, price)
           before == Held(b, s)
           after == PositionAfter(before, n, price)
           paid == n * price
           c == ExecuteOrder(b, s, o, bar)
<1>1. /\ price \in FillPrices /\ price \in Amounts
      /\ n \in Int /\ shares \in Nat /\ paid \in Int /\ commission \in Nat
      /\ Settled(before) /\ Settled(after)
      /\ after.quantity = before.quantity + n
      /\ o.side = "BUY" => n >= 0 /\ (b.cash >= 0 => n * price + Commission(n, price) <= b.cash)
      /\ o.side = "SELL" => n = -o.quantity /\ o.quantity <= before.quantity
      /\ n >= 0 \/ after.quantity = 0
           => after.basis - after.realized = before.basis - before.realized + n * price
  <2> HIDE DEF price, n
  <2>1. price = FillPrice(o, bar) /\ n = QuantizeShares(b, o, price)
    BY DEF price, n
  <2> QED BY <2>1, OrderFilled
<1>2. b.cash \in Int /\ b.charged \in Int /\ o.quantity \in Amounts /\ o.side \in {"BUY", "SELL"}
  BY DEF Kept, Offers, Orders
<1>3. before.quantity \in Nat /\ before.basis \in Int /\ before.realized \in Int /\ before.value \in Int
  BY <1>1 DEF Settled, Positions
<1>4. o.side = "BUY" => n \in Nat /\ (b.cash >= 0 => n * price + Commission(n, price) <= b.cash)
  <2> HIDE DEF n, price
  <2> QED BY <1>1
<1>5. o.side = "SELL" => n = -o.quantity /\ o.quantity <= before.quantity
  BY <1>1
<1>6. n \in Int /\ (o.side = "SELL" => n < 0 /\ shares = o.quantity) /\ shares \in Nat
  <2> HIDE DEF n
  <2> QED BY <1>1, <1>2, <1>5 DEF Amounts
<1>7. commission \in Nat /\ paid \in Int
  BY <1>1
<1>8. /\ DOMAIN c = DOMAIN b
      /\ "cash" \in DOMAIN b => c.cash = b.cash - paid - commission
      /\ "positions" \in DOMAIN b =>
           c.positions = [r \in DOMAIN b.positions \union {s} |-> IF r = s THEN after ELSE b.positions[r]]
      /\ "charged" \in DOMAIN b => c.charged = b.charged + commission
      /\ "partial" \in DOMAIN b => c.partial = (b.partial \/ (n < 0 /\ after.quantity # 0))
  BY DEF ExecuteOrder
<1>9. /\ Settled(after)
      /\ n >= 0 \/ after.quantity = 0 => after.basis - after.realized = before.basis - before.realized + paid
  BY <1>1
<1>10. /\ c.cash = b.cash - paid - commission /\ c.charged = b.charged + commission
       /\ c.positions = [r \in DOMAIN b.positions \union {s} |-> IF r = s THEN after ELSE b.positions[r]]
       /\ c.partial = (b.partial \/ (n < 0 /\ after.quantity # 0))
       /\ DOMAIN c = BookFields
  BY <1>8 DEF Kept, BookFields
<1> HIDE DEF c
<1>11. Cardinality(DOMAIN c.positions) <= MaxPositions
  <2> DEFINE D == DOMAIN b.positions
  <2>1. DOMAIN c.positions = D \union {s}
    BY <1>10
  <2>2. IsFiniteSet(D) /\ Cardinality(D) \in Nat /\ Cardinality(D) <= MaxPositions
    <3>1. D \in SUBSET Symbols /\ IsFiniteSet(Symbols)
      BY SimulatorAssumption DEF Kept
    <3> QED BY <3>1, FS_Subset, FS_CardinalityType DEF Kept
  <2>3. CASE s \in D
    <3>1. D \union {s} = D
      BY <2>3
    <3> QED BY <2>1, <2>2, <3>1
  <2>4. CASE s \notin D
    <3>1. before.quantity = 0
      BY <2>4 DEF Held, NoPosition
    <3>2. o.side = "BUY"
      BY <1>2, <1>5, <3>1 DEF Amounts
    <3>3. ~(Cardinality(D) >= MaxPositions)
      BY <3>1, <3>2 DEF Rejected
    <3>4. Cardinality(D \union {s}) = Cardinality(D) + 1
      BY <2>2, <2>4, FS_AddElement
    <3>5. MaxPositions \in Nat
      BY SimulatorAssumption DEF Amounts
    <3> HIDE DEF D
    <3> QED BY <2>1, <2>2, <3>3, <3>4, <3>5
  <2> QED BY <2>3, <2>4
<1>12. Kept(c)
  <2>1. c.cash \in Int /\ c.charged \in Int
    <3> HIDE DEF paid, commission
    <3> QED BY <1>2, <1>7, <1>10
  <2>2. DOMAIN c.positions \subseteq Symbols
    BY <1>10 DEF Kept
  <2>3. ASSUME NEW r \in DOMAIN c.positions PROVE Settled(c.positions[r])
    <3> HIDE DEF after
    <3> QED BY <1>9, <1>10 DEF Kept
  <2> QED BY <1>10, <1>11, <2>1, <2>2, <2>3 DEF Kept
<1>13. ASSUME Explained(b), ~c.partial PROVE c.cash + MarketValue(c) = StartCash + TotalPnl(c) - c.charged
  <2>1. b.cash + MarketValue(b) = StartCash + TotalPnl(b) - b.charged
    BY <1>10, <1>13 DEF Explained
  <2>2. after.basis - after.realized = before.basis - before.realized + paid
    <3> HIDE DEF n, paid, before, after
    <3>1. ~(n < 0 /\ after.quantity # 0)
      BY <1>10, <1>13, Zenon
    <3>2. n >= 0 \/ after.quantity = 0
      BY <1>6, <3>1
    <3> QED BY <1>9, <3>2
  <2>3. /\ MarketValue(b) \in Int /\ TotalPnl(b) \in Int
        /\ MarketValue(c) = MarketValue(b) + after.value - before.value
        /\ TotalPnl(c) = TotalPnl(b) + (after.value - after.basis + after.realized)
                           - (before.value - before.basis + before.realized)
    <3>1. Moves(b, c, s, after)
      BY <1>10 DEF Moves
    <3> HIDE DEF after
    <3> QED BY <1>9, <3>1, TotalsMove
  <2>4. after.value \in Int /\ after.basis \in Int /\ after.realized \in Int /\ StartCash \in Int
    BY <1>9, SimulatorAssumption DEF Settled, Positions
  <2>5. c.cash = b.cash - paid - commission /\ c.charged = b.charged + commission
    BY <1>10
  <2> DEFINE vb == MarketValue(b)
             vc == MarketValue(c)
             tb == TotalPnl(b)
             tc == TotalPnl(c)
  <2>6. /\ vb \in Int /\ tb \in Int /\ vc = vb + after.value - before.value
        /\ tc = tb + (after.value - after.basis + after.realized)
                 - (before.value - before.basis + before.realized)
        /\ b.cash + vb = StartCash + tb - b.charged
    BY <2>1, <2>3
  <2> HIDE DEF paid, commission, after, before, vb, vc, tb, tc
  <2>7. c.cash + vc = StartCash + tc - c.charged
    <3>1. vc - tc = vb - tb + paid /\ vc \in Int /\ tc \in Int
      BY <1>3, <1>7, <2>2, <2>4, <2>6
    <3>2. c.cash + paid + commission = b.cash /\ c.cash \in Int /\ c.charged \in Int
      BY <1>2, <1>7, <2>5
    <3>3. c.charged - commission = b.charged
      BY <1>2, <1>7, <2>5
    <3>4. b.cash + (vb - tb) + b.charged = StartCash
      <4> DEFINE x == b.cash
                 y == b.charged
      <4>1. x \in Int /\ y \in Int /\ x + vb = StartCash + tb - y
        BY <1>2, <2>6
      <4> HIDE DEF x, y
      <4>2. x + (vb - tb) + y = StartCash
        BY <2>4, <2>6, <4>1
      <4> QED BY <4>2 DEF x, y
    <3> QED BY <1>2, <1>7, <2>4, <2>6, <3>1, <3>2, <3>3, <3>4
  <2> QED BY <2>7 DEF vc, tc
<1>14. ASSUME CommissionsCovered, b.cash >= 0 PROVE c.cash >= 0
  <2>1. CASE o.side = "BUY"
    <3>1. shares = n /\ n * price + Commission(n, price) <= b.cash
      BY <1>4, <1>14, <2>1
    <3>2. paid + commission <= b.cash
      BY <3>1
    <3> HIDE DEF paid, commission
    <3> QED BY <1>2, <1>7, <1>10, <3>2
  <2>2. CASE o.side = "SELL"
    <3> DEFINE earned == o.quantity * price
    <3>1. shares = o.quantity /\ n = -o.quantity
      BY <1>5, <1>6, <2>2
    <3>2. paid = -earned /\ earned \in Int
      <4>1. o.quantity \in Int /\ price \in Int
        BY <1>1, <1>2 DEF Amounts
      <4> HIDE DEF price
      <4> QED BY <3>1, <4>1
    <3>3. commission <= earned
      <4> HIDE DEF price, n
      <4> QED BY <1>1, <1>2, <1>14, <3>1, SaleCoversCommission
    <3> HIDE DEF paid, commission, earned
    <3> QED BY <1>2, <1>7, <1>10, <1>14, <3>2, <3>3
  <2> QED BY <1>2, <2>1, <2>2
<1> QED BY <1>12, <1>13, <1>14 DEF Explained, c

\* The book is sound and its profit explained; what waits can be filled.
MoneyInv ==
  /\ setup \in Setups
  /\ sym \in Symbols /\ at \in Nat
  /\ pending \in Offered
  /\ Kept(book) /\ Explained(book)
  /\ CommissionsCovered => book.cash >= 0

LEMMA FreshBookSound ==
  Kept(FreshBook) /\ Explained(FreshBook) /\ FreshBook.cash >= 0
<1>1. StartCash \in Nat /\ MaxPositions \in Nat
  BY SimulatorAssumption DEF Amounts
<1>2. /\ DOMAIN FreshBook = BookFields /\ FreshBook.cash = StartCash /\ FreshBook.charged = 0
      /\ FreshBook.positions = Flat
  BY DEF FreshBook, BookFields
<1>3. DOMAIN Flat = {}
  BY DEF Flat
<1>4. Cardinality({}) = 0
  BY FS_EmptySet
<1>5. Kept(FreshBook)
  BY <1>1, <1>2, <1>3, <1>4 DEF Kept
<1>6. MarketValue(FreshBook) = 0 /\ TotalPnl(FreshBook) = 0
  <2> DEFINE f == [s \in DOMAIN Flat |-> Flat[s].value]
             g == [s \in DOMAIN Flat |-> Unrealized(Flat[s]) + Flat[s].realized]
  <2>1. MarketValue(FreshBook) = SumTo(f, Cardinality(Symbols)) /\ TotalPnl(FreshBook) = SumTo(g, Cardinality(Symbols))
    BY <1>2 DEF MarketValue, TotalPnl, Sum
  <2>2. DOMAIN f = {} /\ DOMAIN g = {}
    BY <1>3
  <2> HIDE DEF f, g
  <2> QED BY <2>1, <2>2, SumOfNone, SomeSymbol
<1> QED BY <1>1, <1>2, <1>5, <1>6 DEF Explained

LEMMA CarryBookSound ==
  ASSUME NEW b, Kept(b)
  PROVE  /\ Kept(CarryBook(b))
         /\ Explained(b) => Explained(CarryBook(b))
         /\ CarryBook(b).cash = b.cash
<1> DEFINE c == CarryBook(b)
<1>1. /\ DOMAIN c = BookFields /\ c.cash = b.cash /\ c.charged = b.charged /\ c.positions = b.positions
      /\ c.partial = b.partial
  BY DEF Kept, BookFields, CarryBook
<1> HIDE DEF c
<1>2. MarketValue(c) = MarketValue(b) /\ TotalPnl(c) = TotalPnl(b)
  BY <1>1 DEF MarketValue, TotalPnl
<1>3. Kept(c)
  BY <1>1 DEF Kept
<1>4. Explained(b) => Explained(c)
  BY <1>1, <1>2 DEF Explained
<1> QED BY <1>1, <1>3, <1>4 DEF c

LEMMA ProcessKeeps ==
  ASSUME setup \in Setups, NEW b, Kept(b), NEW s \in Symbols, NEW waiting \in Offered,
         NEW bar, bar.open \in FillPrices, ~Raises(b, s, waiting, bar), bar.delay \in Int
  PROVE  LET c == ProcessBar(b, s, waiting, bar)
         IN  /\ Kept(c)
             /\ Explained(b) => Explained(c)
             /\ CommissionsCovered /\ b.cash >= 0 => c.cash >= 0
<1> DEFINE o == waiting[1]
           c == ProcessBar(b, s, waiting, bar)
<1>1. CASE bar.delay > 0 \/ waiting = None
  BY <1>1 DEF ProcessBar
<1>2. CASE ~(bar.delay > 0 \/ waiting = None)
  <2>1. o \in Offers /\ c = HandleSignal(b, s, o, bar)
    BY <1>2 DEF Offered, ProcessBar
  <2>2. CASE Rejected(b, s, o, bar)
    <3>1. c = [b EXCEPT !.rejected = @ + 1]
      BY <2>1, <2>2 DEF HandleSignal
    <3>2. /\ DOMAIN c = BookFields /\ c.cash = b.cash /\ c.charged = b.charged
          /\ c.positions = b.positions /\ c.partial = b.partial
      BY <3>1 DEF Kept, BookFields
    <3> HIDE DEF c
    <3>3. MarketValue(c) = MarketValue(b) /\ TotalPnl(c) = TotalPnl(b)
      BY <3>2 DEF MarketValue, TotalPnl
    <3>4. Kept(c)
      BY <3>2 DEF Kept
    <3>5. Explained(b) => Explained(c)
      BY <3>2, <3>3 DEF Explained
    <3> QED BY <3>2, <3>4, <3>5 DEF c
  <2>3. CASE ~Rejected(b, s, o, bar) /\ ~IsOrderEligible(o, bar)
    <3>1. c = b
      BY <2>1, <2>3 DEF HandleSignal
    <3> QED BY <3>1
  <2>4. CASE ~Rejected(b, s, o, bar) /\ IsOrderEligible(o, bar)
    <3>1. c = ExecuteOrder(b, s, o, bar)
      BY <2>1, <2>4 DEF HandleSignal
    <3>2. ~LimitWithoutPrice(o)
      BY <1>2, <2>4 DEF Raises
    <3> HIDE DEF o, c
    <3>3. /\ Kept(c)
          /\ Explained(b) => Explained(c)
          /\ CommissionsCovered /\ b.cash >= 0 => c.cash >= 0
      BY <2>1, <2>4, <3>1, <3>2, ExecuteKeeps
    <3> QED BY <3>3 DEF c
  <2> QED BY <2>2, <2>3, <2>4
<1> QED BY <1>1, <1>2

(* The bar and the signal of a turn of a phase.                              *)
LEMMA PhaseTurn ==
  ASSUME FoldsInv, PhaseInv, sym \in Symbols, NEW d \in Nat, fold > 0, Len(results) < Cardinality(Symbols),
         d < Len(PhaseBars(sym))
  PROVE  /\ PhaseBars(sym)[d + 1].open \in FillPrices
         /\ PhaseBars(sym)[d + 1].delay \in Int
         /\ signals[sym][d + 1] \in Offered
<1> DEFINE w == folds[fold][phase]
           h == history[sym]
           N == Len(PhaseBars(sym))
<1>1. phase \in Phases
  BY SomeSymbol DEF PhaseInv
<1>2. fold \in DOMAIN folds /\ folds = Folds(split, 1, Days) /\ split \in Splits
  BY <1>1 DEF PhaseInv, FoldsInv
<1>3. w \in Span /\ w.first <= w.last
  <2>1. folds[fold] \in [train: Span, validation: Span, test: Span] /\ InOrder(folds[fold])
    BY <1>2, FoldsInOrder
  <2> QED BY <1>1, <2>1 DEF Phases, InOrder
<1>4. history \in Histories /\ h \in [1..Days -> Bars] /\ signals[sym] = SignalsOf(h, w)
  BY <1>1, WalkForwardAssumption DEF PhaseInv
<1>5. w.first \in 1..Days /\ w.last \in 1..Days /\ Days \in Nat
  BY <1>3, WalkForwardAssumption DEF Span
<1>6. PhaseBars(sym) = SubSeq(h, w.first, w.last)
  BY DEF PhaseBars
<1> HIDE DEF w, h
<1>7. N = w.last - w.first + 1 /\ \A i \in 1..N : PhaseBars(sym)[i] = h[w.first + i - 1]
  <2>1. w.first \in Int /\ w.last \in Int /\ \A i \in w.first .. w.last : h[i] \in Bars
    BY <1>4, <1>5
  <2>2. /\ Len(SubSeq(h, w.first, w.last)) = IF w.first <= w.last THEN w.last - w.first + 1 ELSE 0
        /\ \A i \in 1 .. w.last - w.first + 1 : SubSeq(h, w.first, w.last)[i] = h[w.first + i - 1]
    BY <2>1, SubSeqProperties
  <2> QED BY <1>3, <1>6, <2>2
<1> DEFINE day == w.first + (d + 1) - 1
<1>8. d + 1 \in 1..N /\ day \in 1..Days
  <2>1. d < N /\ N \in Nat
    BY <1>3, <1>5, <1>7
  <2> HIDE DEF N
  <2> QED BY <1>3, <1>5, <1>7, <2>1
<1>9. PhaseBars(sym)[d + 1] = h[day] /\ h[day] \in Bars
  BY <1>4, <1>7, <1>8
<1>10. h[day].open \in FillPrices
  BY <1>4, <1>8 DEF FillPrices, h
<1>11. signals[sym][d + 1] \in Offered
  <2>1. PICK held : Holds(held, h, w)
    BY <1>3, SignalsHold
  <2>2. d + 1 \in 1..LengthOf(w) /\ (d + 1) - 1 \in 0..LengthOf(w)
    BY <1>3, <1>5, <1>7, <1>8 DEF LengthOf
  <2>3. held[(d + 1) - 1] \in Holdings
    BY <2>1, <2>2 DEF Holds
  <2>4. signals[sym][d + 1] = GenerateSignal(h, w.first + (d + 1) - 1, held[(d + 1) - 1])
    BY <1>4, <2>1, <2>2 DEF Holds
  <2> QED BY <2>3, <2>4, SignalMade
<1> QED BY <1>9, <1>10, <1>11 DEF Bars

LEMMA TurnKeeps ==
  ASSUME MoneyInv, NEW bar, bar.open \in FillPrices, bar.delay \in Int, NEW signal \in Offered,
         Turn(bar, signal)
  PROVE  MoneyInv'
<1>1. UNCHANGED <<setup, sym>> /\ at' \in Nat
  BY DEF Turn, MoneyInv
<1>2. CASE Raises(book, sym, pending, bar)
  <2>1. UNCHANGED <<book, pending>>
    BY <1>2 DEF Turn
  <2> QED BY <1>1, <2>1 DEF MoneyInv, Kept, Explained, MarketValue, TotalPnl
<1>3. CASE ~Raises(book, sym, pending, bar)
  <2> DEFINE c == ProcessBar(book, sym, pending, bar)
  <2>1. book' = c /\ pending' = signal
    BY <1>3 DEF Turn
  <2>2. /\ Kept(c)
        /\ Explained(book) => Explained(c)
        /\ CommissionsCovered /\ book.cash >= 0 => c.cash >= 0
    BY <1>3, ProcessKeeps DEF MoneyInv
  <2> HIDE DEF c
  <2>3. Kept(c) /\ Explained(c) /\ (CommissionsCovered => c.cash >= 0)
    BY <2>2 DEF MoneyInv
  <2>4. Kept(book') /\ Explained(book') /\ (CommissionsCovered => book'.cash >= 0)
    BY <2>1, <2>3
  <2> QED BY <1>1, <2>1, <2>4 DEF MoneyInv
<1> QED BY <1>2, <1>3

LEMMA FirstSymbol == Min(Symbols) \in Symbols
<1>1. 1 \in Symbols /\ \A s \in Symbols : 1 <= s
  BY SomeSymbol
<1> QED BY <1>1 DEF Min

LEMMA MoneyInitially == Init => MoneyInv
<1> SUFFICES ASSUME Init PROVE MoneyInv
  OBVIOUS
<1>1. setup \in Setups /\ sym = Min(Symbols) /\ at = 0 /\ pending = None /\ book = FreshBook
  BY DEF Init, SimulatorInit, Setups
<1> QED BY <1>1, FirstSymbol, FreshBookSound DEF MoneyInv, Offered

LEMMA MoneyStep == FoldsInv /\ PhaseInv /\ MoneyInv /\ [Next]_vars => MoneyInv'
<1> SUFFICES ASSUME FoldsInv, PhaseInv, MoneyInv, [Next]_vars PROVE MoneyInv'
  OBVIOUS
<1>1. ASSUME UNCHANGED simulator PROVE MoneyInv'
  <2>1. UNCHANGED <<setup, sym, pending, book, at>>
    BY <1>1 DEF simulator
  <2> QED BY <2>1 DEF MoneyInv, Kept, Explained, MarketValue, TotalPnl
<1>2. ASSUME NextRun PROVE MoneyInv'
  <2>1. sym' \in Symbols /\ at' = 0 /\ pending' = None /\ book' = CarryBook(book) /\ setup' = setup
    BY <1>2 DEF NextRun
  <2>2. /\ Kept(CarryBook(book)) /\ Explained(CarryBook(book))
        /\ CommissionsCovered => CarryBook(book).cash >= 0
    BY CarryBookSound DEF MoneyInv
  <2>3. Kept(book') /\ Explained(book') /\ (CommissionsCovered => book'.cash >= 0)
    BY <2>1, <2>2
  <2> QED BY <2>1, <2>3 DEF MoneyInv, Offered
<1>3. CASE StartPhase
  <2>1. sym' = Min(Symbols) /\ at' = 0 /\ pending' = None /\ book' = FreshBook /\ setup' = setup
    BY <1>3 DEF StartPhase, StartBook
  <2>2. Kept(book') /\ Explained(book') /\ book'.cash >= 0
    BY <2>1, FreshBookSound
  <2> QED BY <2>1, <2>2, FirstSymbol DEF MoneyInv, Offered
<1>4. CASE ProcessPhaseBar
  <2>1. /\ fold > 0 /\ Len(results) < Cardinality(Symbols) /\ at < Len(PhaseBars(sym))
        /\ Turn(PhaseBars(sym)[at + 1], signals[sym][at + 1])
    BY <1>4 DEF ProcessPhaseBar
  <2>2. /\ PhaseBars(sym)[at + 1].open \in FillPrices
        /\ PhaseBars(sym)[at + 1].delay \in Int
        /\ signals[sym][at + 1] \in Offered
    <3>1. sym \in Symbols /\ at \in Nat
      BY DEF MoneyInv
    <3> QED BY <2>1, <3>1, PhaseTurn
  <2> QED BY <2>1, <2>2, TurnKeeps
<1>5. CASE FinishRun
  BY <1>1, <1>2, <1>5 DEF FinishRun
<1>6. CASE CallerStep
  <2>1. CASE CallerBar
    <3>1. PICK bar \in BarShapes, signal \in {None} \union {<<o>> : o \in CallerSignals} : Turn(bar, signal)
      BY <2>1 DEF CallerBar
    <3>2. bar.open \in FillPrices /\ bar.delay \in Int
      BY SimulatorAssumption DEF FillPrices, Bars
    <3>3. signal \in Offered
      <4>1. \A o \in CallerSignals : o \in Offers
        BY SimulatorAssumption DEF Offers, FillPrices
      <4>2. \A x : x \in Offers => <<x>> \in [1..1 -> Offers]
        OBVIOUS
      <4> QED BY <4>1, <4>2 DEF Offered
    <3> QED BY <3>1, <3>2, <3>3, TurnKeeps
  <2>2. CASE CallerRun
    BY <1>2, <2>2 DEF CallerRun
  <2> QED BY <1>6, <2>1, <2>2 DEF CallerStep
<1>7. CASE MakeFolds \/ GetTestPeriod \/ Finish \/ UNCHANGED vars
  <2>1. UNCHANGED simulator
    BY <1>7 DEF MakeFolds, GetTestPeriod, Finish, vars
  <2> QED BY <1>1, <2>1
<1> QED BY <1>3, <1>4, <1>5, <1>6, <1>7 DEF Next

LEMMA MoneyAlways == Spec => []MoneyInv
BY PhaseAlways, MoneyInitially, MoneyStep, PTL DEF Spec

\* Whole positions, never short, of no more symbols than max_positions.
HoldingsBounded ==
  /\ \A s \in DOMAIN book.positions : book.positions[s].quantity \in Nat
  /\ Cardinality({s \in DOMAIN book.positions : book.positions[s].quantity > 0}) <= MaxPositions

(* The holdings stay bounded for every sequence of bars and orders, whatever *)
(* commission they are charged.                                              *)
THEOREM HoldingsAreBounded == Spec => []HoldingsBounded
<1>1. MoneyInv => HoldingsBounded
  <2> SUFFICES ASSUME MoneyInv PROVE HoldingsBounded
    OBVIOUS
  <2> DEFINE D == DOMAIN book.positions
             H == {s \in D : book.positions[s].quantity > 0}
  <2>1. Kept(book)
    BY DEF MoneyInv
  <2>2. IsFiniteSet(D) /\ Cardinality(D) \in Nat /\ Cardinality(D) <= MaxPositions
    <3>1. D \in SUBSET Symbols /\ IsFiniteSet(Symbols)
      BY <2>1, SimulatorAssumption DEF Kept
    <3> QED BY <2>1, <3>1, FS_Subset, FS_CardinalityType DEF Kept
  <2>3. IsFiniteSet(H) /\ Cardinality(H) <= Cardinality(D) /\ Cardinality(H) \in Nat
    <3>1. H \in SUBSET D
      OBVIOUS
    <3> HIDE DEF H, D
    <3> QED BY <2>2, <3>1, FS_Subset, FS_CardinalityType
  <2>4. Cardinality(H) <= MaxPositions
    <3>1. MaxPositions \in Nat
      BY SimulatorAssumption DEF Amounts
    <3> HIDE DEF H, D
    <3> QED BY <2>2, <2>3, <3>1
  <2> QED BY <2>1, <2>4 DEF Kept, Settled, Positions, HoldingsBounded
<1> QED BY <1>1, MoneyAlways, PTL

(* The simulated account is a cash account, as long as no fill is worth less *)
(* than its commission: the risk check lets a sale of less through.          *)
THEOREM BookStaysSound ==
  ASSUME CommissionsCovered
  PROVE  Spec => []BookIsSound
<1>1. MoneyInv /\ HoldingsBounded => BookIsSound
  BY DEF MoneyInv, HoldingsBounded, BookIsSound
<1> QED BY <1>1, MoneyAlways, HoldingsAreBounded, PTL

(* What the simulator reports as profit is what its equity gained.           *)
THEOREM ProfitExplainsEquity == Spec => []PnlExplainsEquity
<1>1. MoneyInv => PnlExplainsEquity
  BY DEF MoneyInv, Explained, PnlExplainsEquity
<1> QED BY <1>1, MoneyAlways, PTL

-----------------------------------------------------------------------------
(* The money and the shares of a run.                                        *)

Trades == [quantity: Int, price: Int, pnl: Int]

LEMMA Appended ==
  ASSUME NEW S, NEW list \in Seq(S), NEW e \in S
  PROVE  /\ Len(list) \in Nat /\ DOMAIN list = 1..Len(list)
         /\ Append(list, e) \in Seq(S)
         /\ Len(Append(list, e)) = Len(list) + 1 /\ DOMAIN Append(list, e) = 1..(Len(list) + 1)
         /\ Append(list, e)[Len(list) + 1] = e
         /\ \A i \in 1..Len(list) : Append(list, e)[i] = list[i]
<1>1. Len(list) \in Nat /\ DOMAIN list = 1..Len(list)
  BY LenProperties
<1>2. Append(list, e) \in Seq(S) /\ Len(Append(list, e)) = Len(list) + 1
  BY AppendProperties
<1>3. DOMAIN Append(list, e) = 1..(Len(list) + 1)
  BY <1>2, LenProperties
<1> QED BY <1>1, <1>2, <1>3, AppendProperties

(* What a trade adds to the sums over the trades.                            *)
LEMMA TradesGrow ==
  ASSUME NEW trades \in Seq(Trades), NEW trade \in Trades
  PROVE  LET more == Append(trades, trade)
             n == trade.quantity
         IN  /\ {Spent(trades), Bought(trades), Sold(trades)} \subseteq Int
             /\ Spent(more) = Spent(trades) + n * trade.price
             /\ Bought(more) - Sold(more) = Bought(trades) - Sold(trades) + n
             /\ {Spent(more), Bought(more), Sold(more)} \subseteq Int
<1> DEFINE more == Append(trades, trade)
           m == Len(trades)
           n == trade.quantity
<1>1. /\ m \in Nat /\ DOMAIN trades = 1..m
      /\ more \in Seq(Trades) /\ Len(more) = m + 1 /\ DOMAIN more = 1..(m + 1) /\ more[m + 1] = trade
      /\ \A i \in 1..m : more[i] = trades[i]
  BY Appended
<1>2. n \in Int /\ trade.price \in Int
  BY DEF Trades
<1>3. /\ \A i \in 1..m : trades[i] \in Trades
      /\ \A i \in 1..(m + 1) : more[i] \in Trades
  <2> HIDE DEF more, m
  <2>1. \A i \in DOMAIN more : more[i] \in Trades
    BY <1>1, ElementOfSeq
  <2>2. \A i \in DOMAIN trades : trades[i] \in Trades
    BY ElementOfSeq, <1>1
  <2> QED BY <2>1, <2>2, <1>1
<1> HIDE DEF more, m
<1>4. /\ \A i \in 1..m : trades[i].quantity \in Int /\ trades[i].price \in Int
      /\ \A i \in 1..(m + 1) : more[i].quantity \in Int /\ more[i].price \in Int
  BY <1>3 DEF Trades
<1>5. Spent(trades) \in Int /\ Spent(more) = Spent(trades) + n * trade.price
  <2> DEFINE f == [i \in DOMAIN trades |-> trades[i].quantity * trades[i].price]
             g == [i \in DOMAIN more |-> more[i].quantity * more[i].price]
  <2>1. /\ \A i \in DOMAIN f : f[i] \in Int
        /\ \A i \in DOMAIN g : g[i] \in Int
    <3>1. \A a, b \in Int : a * b \in Int
      OBVIOUS
    <3> QED BY <1>1, <1>4, <3>1
  <2>2. \A i \in 1..m : (i \in DOMAIN g <=> i \in DOMAIN f) /\ (i \in DOMAIN f => g[i] = f[i])
    BY <1>1
  <2>3. m + 1 \in DOMAIN g /\ g[m + 1] = n * trade.price
    BY <1>1
  <2>4. Spent(trades) = SumTo(f, m) /\ Spent(more) = SumTo(g, m + 1)
    BY <1>1 DEF Spent, m
  <2> HIDE DEF f, g, n
  <2>5. SumTo(f, m) \in Int /\ SumTo(g, m + 1) = SumTo(f, m) + (IF m + 1 \in DOMAIN g THEN g[m + 1] ELSE 0)
    BY <1>1, <2>1, <2>2, SumExtends
  <2> QED BY <2>3, <2>4, <2>5
<1>6. /\ Bought(trades) \in Int /\ Bought(more) \in Int
      /\ Bought(more) = Bought(trades) + (IF n > 0 THEN n ELSE 0)
  <2> DEFINE f == [i \in {j \in DOMAIN trades : trades[j].quantity > 0} |-> trades[i].quantity]
             g == [i \in {j \in DOMAIN more : more[j].quantity > 0} |-> more[i].quantity]
  <2>1. /\ \A i \in DOMAIN f : f[i] \in Int
        /\ \A i \in DOMAIN g : g[i] \in Int
    BY <1>1, <1>4
  <2>2. \A i \in 1..m : (i \in DOMAIN g <=> i \in DOMAIN f) /\ (i \in DOMAIN f => g[i] = f[i])
    BY <1>1
  <2>3. (m + 1 \in DOMAIN g <=> n > 0) /\ (n > 0 => g[m + 1] = n)
    BY <1>1
  <2>4. Bought(trades) = SumTo(f, m) /\ Bought(more) = SumTo(g, m + 1)
    BY <1>1 DEF Bought, m
  <2> HIDE DEF f, g, n
  <2>5. SumTo(f, m) \in Int /\ SumTo(g, m + 1) = SumTo(f, m) + (IF m + 1 \in DOMAIN g THEN g[m + 1] ELSE 0)
    BY <1>1, <2>1, <2>2, SumExtends
  <2> QED BY <1>2, <2>3, <2>4, <2>5
<1>7. /\ Sold(trades) \in Int /\ Sold(more) \in Int
      /\ Sold(more) = Sold(trades) + (IF n < 0 THEN -n ELSE 0)
  <2> DEFINE f == [i \in {j \in DOMAIN trades : trades[j].quantity < 0} |-> -trades[i].quantity]
             g == [i \in {j \in DOMAIN more : more[j].quantity < 0} |-> -more[i].quantity]
  <2>1. /\ \A i \in DOMAIN f : f[i] \in Int
        /\ \A i \in DOMAIN g : g[i] \in Int
    BY <1>1, <1>4
  <2>2. \A i \in 1..m : (i \in DOMAIN g <=> i \in DOMAIN f) /\ (i \in DOMAIN f => g[i] = f[i])
    BY <1>1
  <2>3. (m + 1 \in DOMAIN g <=> n < 0) /\ (n < 0 => g[m + 1] = -n)
    BY <1>1
  <2>4. Sold(trades) = SumTo(f, m) /\ Sold(more) = SumTo(g, m + 1)
    BY <1>1 DEF Sold, m
  <2> HIDE DEF f, g, n
  <2>5. SumTo(f, m) \in Int /\ SumTo(g, m + 1) = SumTo(f, m) + (IF m + 1 \in DOMAIN g THEN g[m + 1] ELSE 0)
    BY <1>1, <2>1, <2>2, SumExtends
  <2> QED BY <1>2, <2>3, <2>4, <2>5
<1> DEFINE d == n * trade.price
<1>8. d \in Int
  BY <1>2
<1>9. /\ {Spent(trades), Bought(trades), Sold(trades)} \subseteq Int
      /\ Spent(more) = Spent(trades) + d
      /\ Bought(more) - Sold(more) = Bought(trades) - Sold(trades) + n
      /\ {Spent(more), Bought(more), Sold(more)} \subseteq Int
  <2>1. Spent(trades) \in Int /\ Spent(more) = Spent(trades) + d
    BY <1>5
  <2> HIDE DEF d, n
  <2> QED BY <1>2, <1>6, <1>7, <1>8, <2>1
<1> QED BY <1>9 DEF more

LEMMA NoTrades == Spent(<<>>) = 0 /\ Bought(<<>>) = 0 /\ Sold(<<>>) = 0
<1> DEFINE f == [i \in DOMAIN <<>> |-> <<>>[i].quantity * <<>>[i].price]
           g == [i \in {j \in DOMAIN <<>> : <<>>[j].quantity > 0} |-> <<>>[i].quantity]
           h == [i \in {j \in DOMAIN <<>> : <<>>[j].quantity < 0} |-> -<<>>[i].quantity]
<1>1. DOMAIN f = {} /\ DOMAIN g = {} /\ DOMAIN h = {} /\ Len(<<>>) = 0
  OBVIOUS
<1>2. Spent(<<>>) = SumTo(f, Len(<<>>)) /\ Bought(<<>>) = SumTo(g, Len(<<>>)) /\ Sold(<<>>) = SumTo(h, Len(<<>>))
  BY DEF Spent, Bought, Sold
<1> HIDE DEF f, g, h
<1>3. SumTo(f, 0) = 0 /\ SumTo(g, 0) = 0 /\ SumTo(h, 0) = 0
  BY <1>1, SumOfNone
<1> QED BY <1>1, <1>2, <1>3
(* How the shares held follow a position.                                    *)
LEMMA SharesMove ==
  ASSUME NEW b, Kept(b), NEW s \in Symbols, NEW p, Settled(p), NEW moved,
         moved = [r \in DOMAIN b.positions \union {s} |-> IF r = s THEN p ELSE b.positions[r]]
  PROVE  SharesOf(b.positions) \in Int /\ SharesOf(moved) = SharesOf(b.positions) + p.quantity - Held(b, s).quantity
<1> DEFINE n == Cardinality(Symbols)
           D == DOMAIN b.positions
           f == [r \in D |-> b.positions[r].quantity]
           g == [r \in D \union {s} |-> IF r = s THEN p.quantity ELSE b.positions[r].quantity]
<1>1. n \in Nat /\ s \in 1..n
  BY SomeSymbol
<1>2. p.quantity \in Int /\ \A r \in D : b.positions[r].quantity \in Int
  BY DEF Kept, Settled, Positions
<1>3. SharesOf(b.positions) = SumTo(f, n)
  BY DEF SharesOf, Sum
<1>4. SharesOf(moved) = SumTo(g, n)
  <2>1. [r \in DOMAIN moved |-> moved[r].quantity] = g
    OBVIOUS
  <2> HIDE DEF g
  <2> QED BY <2>1 DEF SharesOf, Sum
<1>5. /\ \A r \in DOMAIN f : f[r] \in Int
      /\ \A r \in DOMAIN g : g[r] \in Int
      /\ DOMAIN g = DOMAIN f \union {s} /\ g[s] = p.quantity
      /\ \A r \in DOMAIN f \ {s} : g[r] = f[r]
  BY <1>2
<1>6. Held(b, s).quantity = IF s \in DOMAIN f THEN f[s] ELSE 0
  BY DEF Held, NoPosition
<1> HIDE DEF f, g, n
<1>7. SumTo(f, n) \in Int /\ SumTo(g, n) = SumTo(f, n) + g[s] - (IF s \in DOMAIN f THEN f[s] ELSE 0)
  BY <1>1, <1>5, SumChanges
<1> QED BY <1>3, <1>4, <1>5, <1>6, <1>7

\* The money and the shares of a book or a result: what the one before it left,
\* and the trades and commissions since.
Follows(r, before) ==
  /\ before.cash \in Int /\ SharesOf(before.positions) \in Int
  /\ r.cash \in Int /\ SharesOf(r.positions) \in Int
  /\ r.commission \in Int /\ r.trades \in Seq(Trades)
  /\ r.cash = before.cash - r.commission - Spent(r.trades)
  /\ SharesOf(r.positions) = SharesOf(before.positions) + (Bought(r.trades) - Sold(r.trades))

LEMMA ExecuteFollows ==
  ASSUME setup \in Setups, NEW b, Kept(b), NEW s \in Symbols, NEW o \in Offers,
         NEW bar, bar.open \in FillPrices, ~Rejected(b, s, o, bar), ~LimitWithoutPrice(o),
         NEW start, Follows(b, start)
  PROVE  Follows(ExecuteOrder(b, s, o, bar), start)
<1> DEFINE price == FillPrice(o, bar)
           n == QuantizeShares(b, o, price)
           shares == IF n < 0 THEN -n ELSE n
           commission == Commission(shares, price)
           before == Held(b, s)
           after == PositionAfter(before, n, price)
           trade == [quantity |-> n, price |-> price, pnl |-> after.realized - before.realized]
           c == ExecuteOrder(b, s, o, bar)
<1>1. /\ price \in Amounts /\ n \in Int /\ n * price \in Int /\ commission \in Nat
      /\ Settled(before) /\ Settled(after) /\ after.quantity = before.quantity + n
  <2> HIDE DEF price, n
  <2>1. price = FillPrice(o, bar) /\ n = QuantizeShares(b, o, price)
    BY DEF price, n
  <2> QED BY <2>1, OrderFilled
<1>2. /\ DOMAIN c = DOMAIN b
      /\ "cash" \in DOMAIN b => c.cash = b.cash - n * price - commission
      /\ "positions" \in DOMAIN b =>
           c.positions = [r \in DOMAIN b.positions \union {s} |-> IF r = s THEN after ELSE b.positions[r]]
      /\ "commission" \in DOMAIN b => c.commission = b.commission + commission
      /\ "trades" \in DOMAIN b => c.trades = IF n = 0 THEN b.trades ELSE Append(b.trades, trade)
  BY DEF ExecuteOrder
<1>3. /\ c.cash = b.cash - n * price - commission
      /\ c.positions = [r \in DOMAIN b.positions \union {s} |-> IF r = s THEN after ELSE b.positions[r]]
      /\ c.commission = b.commission + commission
      /\ c.trades = IF n = 0 THEN b.trades ELSE Append(b.trades, trade)
  BY <1>2 DEF Kept, BookFields
<1>4. trade \in Trades
  <2>1. after.realized \in Int /\ before.realized \in Int /\ price \in Int
    BY <1>1 DEF Settled, Positions, Amounts
  <2> HIDE DEF after, before, price, n
  <2> QED BY <1>1, <2>1 DEF Trades
<1>5. SharesOf(b.positions) \in Int /\ SharesOf(c.positions) = SharesOf(b.positions) + n
  <2>1. /\ SharesOf(b.positions) \in Int
        /\ SharesOf(c.positions) = SharesOf(b.positions) + after.quantity - before.quantity
    <3>1. Settled(after) /\ c.positions = [r \in DOMAIN b.positions \union {s} |-> IF r = s THEN after ELSE b.positions[r]]
      BY <1>1, <1>3
    <3>2. ASSUME NEW p, Settled(p), NEW moved,
                 moved = [r \in DOMAIN b.positions \union {s} |-> IF r = s THEN p ELSE b.positions[r]]
          PROVE  /\ SharesOf(b.positions) \in Int
                 /\ SharesOf(moved) = SharesOf(b.positions) + p.quantity - Held(b, s).quantity
      BY <3>2, SharesMove
    <3> HIDE DEF c, after
    <3> QED BY <3>1, <3>2
  <2>2. before.quantity \in Int
    BY <1>1 DEF Settled, Positions
  <2> HIDE DEF c, after, before, n
  <2> QED BY <1>1, <2>1, <2>2
<1> DEFINE paid == n * price
<1>6. trade.quantity = n /\ trade.price = price
  OBVIOUS
<1>7. /\ c.trades \in Seq(Trades)
      /\ {Spent(c.trades), Bought(c.trades), Sold(c.trades)} \subseteq Int
      /\ {Spent(b.trades), Bought(b.trades), Sold(b.trades)} \subseteq Int
      /\ Spent(c.trades) = Spent(b.trades) + paid
      /\ Bought(c.trades) - Sold(c.trades) = Bought(b.trades) - Sold(b.trades) + n
  <2>1. b.trades \in Seq(Trades)
    BY DEF Follows
  <2>2. Append(b.trades, trade) \in Seq(Trades)
    <3> HIDE DEF trade
    <3> QED BY <1>4, <2>1, Appended
  <2>3. LET more == Append(b.trades, trade)
        IN  /\ {Spent(b.trades), Bought(b.trades), Sold(b.trades)} \subseteq Int
            /\ Spent(more) = Spent(b.trades) + trade.quantity * trade.price
            /\ Bought(more) - Sold(more) = Bought(b.trades) - Sold(b.trades) + trade.quantity
            /\ {Spent(more), Bought(more), Sold(more)} \subseteq Int
    <3> HIDE DEF trade
    <3> QED BY <1>4, <2>1, TradesGrow
  <2>4. n = 0 => paid = 0
    <3>1. \A m \in Int, x \in Amounts : m = 0 => m * x = 0
      BY DEF Amounts
    <3> HIDE DEF n, price
    <3> QED BY <1>1, <3>1
  <2>5. CASE n = 0
    <3>1. c.trades = b.trades
      BY <1>3, <2>5
    <3> HIDE DEF paid, n, c
    <3> QED BY <2>1, <2>3, <2>4, <2>5, <3>1
  <2>6. CASE n # 0
    <3>1. c.trades = Append(b.trades, trade)
      BY <1>3, <2>6
    <3> HIDE DEF trade, n, c, price
    <3> QED BY <1>6, <2>2, <2>3, <3>1
  <2> QED BY <2>5, <2>6
<1> HIDE DEF paid, commission, n, c, trade
<1>8. c.cash = b.cash - paid - commission
  BY <1>3 DEF paid
<1>9. paid \in Int
  BY <1>1 DEF paid
<1>10. c.commission \in Int /\ c.cash \in Int
  BY <1>1, <1>3, <1>8, <1>9 DEF Follows
<1>11. c.cash = start.cash - c.commission - Spent(c.trades)
  <2>1. b.cash = start.cash - b.commission - Spent(b.trades) /\ b.cash \in Int /\ b.commission \in Int /\ start.cash \in Int
    BY DEF Follows
  <2>2. c.commission = b.commission + commission /\ commission \in Int
    BY <1>1, <1>3
  <2>3. Spent(c.trades) = Spent(b.trades) + paid /\ Spent(b.trades) \in Int
    BY <1>7
  <2> QED BY <1>8, <1>9, <2>1, <2>2, <2>3
<1>12. SharesOf(c.positions) = SharesOf(start.positions) + (Bought(c.trades) - Sold(c.trades))
  <2>1. SharesOf(b.positions) = SharesOf(start.positions) + (Bought(b.trades) - Sold(b.trades))
        /\ SharesOf(start.positions) \in Int
    BY DEF Follows
  <2> QED BY <1>1, <1>5, <1>7, <2>1
<1>13. Follows(c, start)
  <2>1. start.cash \in Int /\ SharesOf(start.positions) \in Int
    BY DEF Follows
  <2> QED BY <1>1, <1>5, <1>7, <1>10, <1>11, <1>12, <2>1 DEF Follows
<1> QED BY <1>13 DEF c
LEMMA ProcessFollows ==
  ASSUME setup \in Setups, NEW b, Kept(b), NEW s \in Symbols, NEW waiting \in Offered,
         NEW bar, bar.open \in FillPrices, ~Raises(b, s, waiting, bar), bar.delay \in Int,
         NEW start, Follows(b, start)
  PROVE  Follows(ProcessBar(b, s, waiting, bar), start)
<1> DEFINE o == waiting[1]
           c == ProcessBar(b, s, waiting, bar)
<1>1. CASE bar.delay > 0 \/ waiting = None
  BY <1>1 DEF ProcessBar
<1>2. CASE ~(bar.delay > 0 \/ waiting = None)
  <2>1. o \in Offers /\ c = HandleSignal(b, s, o, bar)
    BY <1>2 DEF Offered, ProcessBar
  <2>2. CASE Rejected(b, s, o, bar)
    <3>1. c = [b EXCEPT !.rejected = @ + 1]
      BY <2>1, <2>2 DEF HandleSignal
    <3>2. /\ c.cash = b.cash /\ c.positions = b.positions
          /\ c.commission = b.commission /\ c.trades = b.trades
      BY <3>1 DEF Kept, BookFields
    <3> HIDE DEF c
    <3>3. Follows(c, start)
      BY <3>2 DEF Follows
    <3> QED BY <3>3 DEF c
  <2>3. CASE ~Rejected(b, s, o, bar) /\ ~IsOrderEligible(o, bar)
    <3>1. c = b
      BY <2>1, <2>3 DEF HandleSignal
    <3> QED BY <3>1
  <2>4. CASE ~Rejected(b, s, o, bar) /\ IsOrderEligible(o, bar)
    <3>1. c = ExecuteOrder(b, s, o, bar)
      BY <2>1, <2>4 DEF HandleSignal
    <3>2. ~LimitWithoutPrice(o)
      BY <1>2, <2>4 DEF Raises
    <3> HIDE DEF o, c
    <3>3. Follows(c, start)
      BY <2>1, <2>4, <3>1, <3>2, ExecuteFollows
    <3> QED BY <3>3 DEF c
  <2> QED BY <2>2, <2>3, <2>4
<1> QED BY <1>1, <1>2

(* A run begins with the money and the shares it is given, and its result    *)
(* ends with those of the book.                                              *)
LEMMA RunFollows ==
  /\ Follows(FreshBook, Result(FreshBook))
  /\ \A b, start : DOMAIN b = BookFields /\ Follows(b, start) =>
       Follows(CarryBook(b), Result(b)) /\ Follows(Result(b), start)
<1>1. Follows(FreshBook, Result(FreshBook))
  <2> DEFINE f == [s \in DOMAIN Flat |-> Flat[s].quantity]
  <2>1. DOMAIN f = {} /\ SharesOf(Flat) = SumTo(f, Cardinality(Symbols))
    BY DEF Flat, SharesOf, Sum
  <2> HIDE DEF f
  <2>2. SharesOf(Flat) = 0
    BY <2>1, SumOfNone, SomeSymbol
  <2>3. /\ FreshBook.cash = StartCash /\ FreshBook.positions = Flat /\ FreshBook.commission = 0
        /\ FreshBook.trades = <<>>
        /\ Result(FreshBook).cash = StartCash /\ Result(FreshBook).positions = Flat
    BY DEF FreshBook, Result
  <2>4. StartCash \in Int /\ <<>> \in Seq(Trades)
    BY SimulatorAssumption
  <2> QED BY <2>2, <2>3, <2>4, NoTrades DEF Follows
<1>2. ASSUME NEW b, NEW start, DOMAIN b = BookFields, Follows(b, start)
      PROVE  Follows(CarryBook(b), Result(b)) /\ Follows(Result(b), start)
  <2>1. /\ CarryBook(b).cash = b.cash /\ CarryBook(b).positions = b.positions
        /\ CarryBook(b).commission = 0 /\ CarryBook(b).trades = <<>>
    BY <1>2 DEF CarryBook, BookFields
  <2>2. /\ Result(b).cash = b.cash /\ Result(b).positions = b.positions
        /\ Result(b).commission = b.commission /\ Result(b).trades = b.trades
    BY DEF Result
  <2>3. <<>> \in Seq(Trades) /\ b.cash \in Int /\ SharesOf(b.positions) \in Int
    BY <1>2 DEF Follows
  <2> DEFINE c == CarryBook(b)
             r == Result(b)
  <2> HIDE DEF c, r
  <2>4. Follows(c, r)
    BY <2>1, <2>2, <2>3, NoTrades DEF Follows, c, r
  <2>5. Follows(r, start)
    BY <1>2, <2>2 DEF Follows, r
  <2> QED BY <2>4, <2>5 DEF c, r
<1> QED BY <1>1, <1>2

-----------------------------------------------------------------------------
(* The run again.                                                            *)

LEMMA CommissionFixed ==
  ASSUME setup' = setup
  PROVE  \A q, price : Commission(q, price)' = Commission(q, price)
BY DEF Commission

LEMMA FillPriceFixed ==
  ASSUME setup' = setup
  PROVE  \A o, bar : FillPrice(o, bar)' = FillPrice(o, bar)
BY DEF FillPrice

LEMMA QuantizeFixed ==
  ASSUME setup' = setup
  PROVE  \A b, o, price : QuantizeShares(b, o, price)' = QuantizeShares(b, o, price)
BY CommissionFixed DEF QuantizeShares

LEMMA RejectedFixed ==
  ASSUME setup' = setup
  PROVE  \A b, s, o, bar : Rejected(b, s, o, bar)' = Rejected(b, s, o, bar)
BY CommissionFixed DEF Rejected

LEMMA ExecuteFixed ==
  ASSUME setup' = setup
  PROVE  \A b, s, o, bar : ExecuteOrder(b, s, o, bar)' = ExecuteOrder(b, s, o, bar)
<1> SUFFICES ASSUME NEW b, NEW s, NEW o, NEW bar
             PROVE  ExecuteOrder(b, s, o, bar)' = ExecuteOrder(b, s, o, bar)
  OBVIOUS
<1>1. FillPrice(o, bar)' = FillPrice(o, bar)
  BY FillPriceFixed
<1>2. QuantizeShares(b, o, FillPrice(o, bar))' = QuantizeShares(b, o, FillPrice(o, bar))
  BY <1>1, QuantizeFixed
<1> QED BY <1>1, <1>2, CommissionFixed DEF ExecuteOrder

LEMMA AdvanceFixed ==
  ASSUME setup' = setup
  PROVE  \A turn, s, bar, signal : Advance(turn, s, bar, signal)' = Advance(turn, s, bar, signal)
<1>1. \A b, s, o, bar : HandleSignal(b, s, o, bar)' = HandleSignal(b, s, o, bar)
  BY ExecuteFixed, RejectedFixed DEF HandleSignal, IsOrderEligible, Above, Below
<1>2. \A b, s, waiting, bar : ProcessBar(b, s, waiting, bar)' = ProcessBar(b, s, waiting, bar)
  BY <1>1 DEF ProcessBar
<1> QED BY <1>2 DEF Advance

\* b and c are the same but for what only the properties read.
Same(b, c) ==
  /\ DOMAIN b = BookFields /\ DOMAIN c = BookFields
  /\ b.cash = c.cash /\ b.positions = c.positions /\ b.trades = c.trades
  /\ b.commission = c.commission /\ b.slippage = c.slippage /\ b.rejected = c.rejected

LEMMA SameProcessed ==
  ASSUME NEW b, NEW c, Same(b, c), NEW s, NEW waiting, NEW bar
  PROVE  Same(ProcessBar(b, s, waiting, bar), ProcessBar(c, s, waiting, bar))
<1> DEFINE o == waiting[1]
<1>1. b.cash = c.cash /\ b.positions = c.positions
  BY DEF Same
<1>2. Held(b, s) = Held(c, s)
  BY <1>1 DEF Held
<1>3. Rejected(b, s, o, bar) = Rejected(c, s, o, bar)
  BY <1>1, <1>2 DEF Rejected
<1>4. Same([b EXCEPT !.rejected = @ + 1], [c EXCEPT !.rejected = @ + 1])
  BY DEF Same, BookFields
<1>5. Same(ExecuteOrder(b, s, o, bar), ExecuteOrder(c, s, o, bar))
  <2> DEFINE price == FillPrice(o, bar)
             n == QuantizeShares(b, o, price)
             shares == IF n < 0 THEN -n ELSE n
             commission == Commission(shares, price)
             before == Held(b, s)
             after == PositionAfter(before, n, price)
             trade == [quantity |-> n, price |-> price, pnl |-> after.realized - before.realized]
             filled(d) == [d EXCEPT !.cash = @ - n * price - commission,
                                    !.positions = [r \in DOMAIN @ \union {s} |-> IF r = s THEN after ELSE @[r]],
                                    !.commission = @ + commission,
                                    !.slippage = @ + Slippage(o, price),
                                    !.trades = IF n = 0 THEN @ ELSE Append(@, trade),
                                    !.charged = @ + commission,
                                    !.partial = @ \/ (n < 0 /\ after.quantity # 0)]
  <2>1. QuantizeShares(c, o, price) = n
    BY <1>1 DEF QuantizeShares
  <2>2. ExecuteOrder(b, s, o, bar) = filled(b)
    BY DEF ExecuteOrder
  <2>3. ExecuteOrder(c, s, o, bar) = filled(c)
    BY <1>2, <2>1 DEF ExecuteOrder
  <2> HIDE DEF price, n, commission, before, after, trade
  <2>4. Same(filled(b), filled(c))
    BY DEF Same, BookFields
  <2> QED BY <2>2, <2>3, <2>4
<1> QED BY <1>3, <1>4, <1>5 DEF ProcessBar, HandleSignal

LEMMA SameResult ==
  ASSUME NEW b, NEW c, Same(b, c)
  PROVE  Result(b) = Result(c)
<1>1. TotalPnl(b) = TotalPnl(c)
  BY DEF Same, TotalPnl
<1> QED BY <1>1 DEF Same, Result

LEMMA SameCarried ==
  ASSUME NEW b, DOMAIN b = BookFields
  PROVE  Same(CarryBook(b), Continue(Result(b)))
BY DEF Same, BookFields, CarryBook, Continue, Result, FreshBook

\* t is what the bars leave, one by one, up to the n-th.
Plays(t, s, bars, list, start, n) ==
  /\ t[0] = [book |-> start, waiting |-> None]
  /\ \A i \in 1..n : t[i] = Advance(t[i - 1], s, bars[i], list[i])

LEMMA TurnsPlayed ==
  ASSUME NEW t, NEW s, NEW bars, NEW list, NEW start, Len(bars) \in Nat,
         Plays(t, s, bars, list, start, Len(bars))
  PROVE  Run(s, bars, list, start) = Result(t[Len(bars)].book)
<1> DEFINE n == Len(bars)
           Step(turns, i) == IF i = 0 THEN [book |-> start, waiting |-> None]
                             ELSE Advance(turns[i - 1], s, bars[i], list[i])
           Makes(turns) == turns = [i \in 0..n |-> Step(turns, i)]
           g == [i \in 0..n |-> t[i]]
<1>1. Makes(g)
  <2>1. ASSUME NEW i \in 0..n PROVE t[i] = Step(g, i)
    <3>1. CASE i = 0
      BY <3>1 DEF Plays
    <3>2. CASE i # 0
      <4>1. i \in 1..n /\ i - 1 \in 0..n
        BY <3>2
      <4>2. g[i - 1] = t[i - 1]
        BY <4>1
      <4> HIDE DEF g
      <4> QED BY <3>2, <4>1, <4>2 DEF Plays
    <3> QED BY <3>1, <3>2
  <2>2. g = [i \in 0..n |-> Step(g, i)]
    <3>1. \A i \in 0..n : g[i] = Step(g, i)
      BY <2>1
    <3> HIDE DEF Step
    <3> QED BY <3>1
  <2> QED BY <2>2
<1> DEFINE turns == CHOOSE turns : Makes(turns)
<1>2. Makes(turns)
  <2> HIDE DEF Makes
  <2> QED BY <1>1
<1>3. Turns(s, bars, list, start) = turns
  BY DEF Turns
<1> HIDE DEF turns, g
<1>4. turns[0] = t[0] /\ \A i \in 1..n : turns[i] = Advance(turns[i - 1], s, bars[i], list[i])
  <2>1. \A i \in 0..n : turns[i] = Step(turns, i)
    <3> HIDE DEF Step
    <3> QED BY <1>2
  <2>2. \A i \in 1..n : i \in 0..n /\ i # 0
    OBVIOUS
  <2>3. 0 \in 0..n
    OBVIOUS
  <2> QED BY <2>1, <2>2, <2>3 DEF Plays
<1> DEFINE S == {i \in Nat : i <= n => turns[i] = t[i]}
<1>5. 0 \in S
  BY <1>4
<1>6. ASSUME NEW i \in Nat, i \in S PROVE i + 1 \in S
  <2> SUFFICES ASSUME i + 1 <= n PROVE turns[i + 1] = t[i + 1]
    OBVIOUS
  <2>1. turns[i] = t[i] /\ i + 1 \in 1..n /\ (i + 1) - 1 = i
    BY <1>6
  <2> QED BY <1>4, <2>1 DEF Plays
<1> HIDE DEF S
<1>7. n \in S
  BY <1>5, <1>6, Induction
<1>8. turns[n] = t[n]
  BY <1>7 DEF S
<1> QED BY <1>3, <1>8 DEF Run

\* What the run of a symbol starts from.
Before(n) == IF n = 1 THEN Result(FreshBook) ELSE results[n - 1]

LEMMA RerunIsRun ==
  ASSUME results = [n \in Symbols |-> results[n]],
         \A n \in Symbols : results[n] = Run(n, PhaseBars(n), signals[n], Continue(Before(n)))
  PROVE  results = Rerun
<1> DEFINE N == Cardinality(Symbols)
           Step(runs, n) == IF n = 0 THEN Result(FreshBook)
                            ELSE Run(n, PhaseBars(n), signals[n], Continue(runs[n - 1]))
           Makes(runs) == runs = [n \in 0..N |-> Step(runs, n)]
           g == [n \in 0..N |-> IF n = 0 THEN Result(FreshBook) ELSE results[n]]
<1>1. N \in Nat /\ Symbols = 1..N
  BY SomeSymbol
<1>2. ASSUME NEW n \in 1..N PROVE g[n - 1] = Before(n)
  BY <1>1 DEF Before
<1>3. Makes(g)
  <2>1. ASSUME NEW n \in 0..N PROVE g[n] = Step(g, n)
    <3>1. CASE n = 0
      BY <3>1
    <3>2. CASE n # 0
      <4>1. n \in 1..N /\ n \in Symbols
        BY <1>1, <3>2
      <4>2. g[n] = results[n]
        BY <3>2
      <4> HIDE DEF g
      <4> QED BY <1>2, <3>2, <4>1, <4>2
    <3> QED BY <3>1, <3>2
  <2> HIDE DEF Step
  <2> QED BY <2>1
<1> DEFINE runs == CHOOSE runs : Makes(runs)
<1>4. Makes(runs)
  <2> HIDE DEF Makes
  <2> QED BY <1>3
<1>5. Rerun = [n \in Symbols |-> runs[n]]
  BY DEF Rerun
<1> HIDE DEF runs
<1>6. runs[0] = Result(FreshBook) /\ \A n \in 1..N : runs[n] = Run(n, PhaseBars(n), signals[n], Continue(runs[n - 1]))
  <2>1. \A n \in 0..N : runs[n] = Step(runs, n)
    <3> HIDE DEF Step
    <3> QED BY <1>4
  <2>2. 0 \in 0..N /\ \A n \in 1..N : n \in 0..N /\ n # 0
    BY <1>1
  <2> QED BY <2>1, <2>2
<1> DEFINE S == {n \in Nat : n <= N => runs[n] = g[n]}
<1>7. 0 \in S
  BY <1>1, <1>6
<1>8. ASSUME NEW n \in Nat, n \in S PROVE n + 1 \in S
  <2> SUFFICES ASSUME n + 1 <= N PROVE runs[n + 1] = g[n + 1]
    OBVIOUS
  <2>1. runs[n] = g[n] /\ n + 1 \in 1..N /\ (n + 1) - 1 = n /\ n + 1 \in Symbols
    BY <1>1, <1>8
  <2>2. g[n] = Before(n + 1)
    BY <1>2, <2>1
  <2>3. g[n + 1] = results[n + 1]
    BY <2>1
  <2> HIDE DEF g
  <2> QED BY <1>6, <2>1, <2>2, <2>3
<1> HIDE DEF S, g
<1>9. \A n \in Nat : n \in S
  BY <1>7, <1>8, Induction
<1>10. ASSUME NEW n \in Symbols PROVE runs[n] = results[n]
  <2>1. n \in Nat /\ n <= N /\ n # 0 /\ n \in 0..N
    BY <1>1
  <2>2. runs[n] = g[n]
    BY <1>9, <2>1 DEF S
  <2>3. g[n] = results[n]
    BY <2>1 DEF g
  <2> QED BY <2>2, <2>3
<1> QED BY <1>5, <1>10

(* The runs of a phase follow one another: the commissions and the trades of *)
(* all of them lead from the starting cash to what the last one leaves.      *)
LEMMA ReportAdds ==
  ASSUME results = [n \in Symbols |-> results[n]],
         \A n \in Symbols : Follows(results[n], Before(n))
  PROVE  LET final == Last(results) IN
         /\ Metrics.bought - Metrics.sold = SharesOf(final.positions)
         /\ final.cash = StartCash - Metrics.commission - Sum([i \in DOMAIN results |-> Spent(results[i].trades)])
<1> DEFINE N == Cardinality(Symbols)
           fees == [i \in DOMAIN results |-> results[i].commission]
           spent == [i \in DOMAIN results |-> Spent(results[i].trades)]
           bought == [i \in DOMAIN results |-> Bought(results[i].trades)]
           sold == [i \in DOMAIN results |-> Sold(results[i].trades)]
           left(k) == IF k = 0 THEN Result(FreshBook) ELSE results[k]
<1>1. N \in Nat /\ N # 0 /\ Symbols = 1..N /\ DOMAIN results = 1..N
  BY SomeSymbol
<1>2. /\ Metrics.commission = SumTo(fees, N) /\ Metrics.bought = SumTo(bought, N)
      /\ Metrics.sold = SumTo(sold, N)
      /\ Sum([i \in DOMAIN results |-> Spent(results[i].trades)]) = SumTo(spent, N)
  BY DEF Metrics, Sum
<1>3. Last(results) = results[N]
  <2>1. results = [n \in 1..N |-> results[n]]
    BY <1>1
  <2> HIDE DEF N
  <2>2. Len(results) = N
    BY <1>1, <2>1
  <2> QED BY <2>2 DEF Last
<1>4. ASSUME NEW i \in 1..N
      PROVE  /\ results[i].commission \in Int /\ Spent(results[i].trades) \in Int
             /\ Bought(results[i].trades) \in Int /\ Sold(results[i].trades) \in Int
  <2>1. results[i].commission \in Int /\ results[i].trades \in Seq(Trades)
    BY <1>1 DEF Follows
  <2>2. [quantity |-> 0, price |-> 0, pnl |-> 0] \in Trades
    BY DEF Trades
  <2> QED BY <2>1, <2>2, TradesGrow
<1>5. /\ \A i \in DOMAIN fees : fees[i] \in Int
      /\ \A i \in DOMAIN spent : spent[i] \in Int
      /\ \A i \in DOMAIN bought : bought[i] \in Int
      /\ \A i \in DOMAIN sold : sold[i] \in Int
  BY <1>1, <1>4
<1>6. \A i \in 1..N : /\ i \in DOMAIN fees /\ fees[i] = results[i].commission
                      /\ i \in DOMAIN spent /\ spent[i] = Spent(results[i].trades)
                      /\ i \in DOMAIN bought /\ bought[i] = Bought(results[i].trades)
                      /\ i \in DOMAIN sold /\ sold[i] = Sold(results[i].trades)
  BY <1>1
<1> HIDE DEF fees, spent, bought, sold, N
<1>7. PICK tf : Totals(tf, fees, N) /\ SumTo(fees, N) = tf[N]
  BY <1>1, <1>5, SumTotals
<1>8. PICK ts : Totals(ts, spent, N) /\ SumTo(spent, N) = ts[N]
  BY <1>1, <1>5, SumTotals
<1>9. PICK tb : Totals(tb, bought, N) /\ SumTo(bought, N) = tb[N]
  BY <1>1, <1>5, SumTotals
<1>10. PICK td : Totals(td, sold, N) /\ SumTo(sold, N) = td[N]
  BY <1>1, <1>5, SumTotals
<1> DEFINE S == {k \in Nat : k <= N => /\ left(k).cash = StartCash - tf[k] - ts[k]
                                       /\ SharesOf(left(k).positions) = tb[k] - td[k]}
<1>11. 0 \in S
  <2>1. left(0).cash = StartCash /\ SharesOf(left(0).positions) = 0
    <3>1. Result(FreshBook).cash = StartCash /\ Result(FreshBook).positions = Flat
      BY DEF Result, FreshBook
    <3>2. Follows(FreshBook, Result(FreshBook)) /\ FreshBook.positions = Flat /\ FreshBook.trades = <<>>
      BY RunFollows DEF FreshBook
    <3> DEFINE f == [s \in DOMAIN Flat |-> Flat[s].quantity]
    <3>3. DOMAIN f = {} /\ SharesOf(Flat) = SumTo(f, Cardinality(Symbols))
      BY DEF Flat, SharesOf, Sum
    <3> HIDE DEF f
    <3>4. SharesOf(Flat) = 0
      BY <3>3, SumOfNone, SomeSymbol
    <3> QED BY <3>1, <3>4
  <2>2. tf[0] = 0 /\ ts[0] = 0 /\ tb[0] = 0 /\ td[0] = 0
    BY <1>7, <1>8, <1>9, <1>10 DEF Totals
  <2>3. StartCash \in Int
    BY SimulatorAssumption
  <2> HIDE DEF left
  <2> QED BY <2>1, <2>2, <2>3
<1>12. ASSUME NEW k \in Nat, k \in S PROVE k + 1 \in S
  <2> SUFFICES ASSUME k + 1 <= N
               PROVE  /\ left(k + 1).cash = StartCash - tf[k + 1] - ts[k + 1]
                      /\ SharesOf(left(k + 1).positions) = tb[k + 1] - td[k + 1]
    OBVIOUS
  <2> DEFINE r == results[k + 1]
  <2>1. k + 1 \in 1..N /\ (k + 1) - 1 = k /\ k \in 0..N /\ k + 1 # 0
    BY <1>1
  <2>2. left(k + 1) = r /\ left(k) = Before(k + 1)
    BY <2>1 DEF Before
  <2>3. Follows(r, Before(k + 1))
    BY <1>1, <2>1
  <2>4. left(k).cash = StartCash - tf[k] - ts[k] /\ SharesOf(left(k).positions) = tb[k] - td[k]
    BY <1>1, <1>12
  <2>5. /\ tf[k + 1] = tf[k] + r.commission /\ ts[k + 1] = ts[k] + Spent(r.trades)
        /\ tb[k + 1] = tb[k] + Bought(r.trades) /\ td[k + 1] = td[k] + Sold(r.trades)
        /\ tf[k] \in Int /\ ts[k] \in Int /\ tb[k] \in Int /\ td[k] \in Int
    <3>1. tf[k + 1] = tf[k] + r.commission /\ tf[k] \in Int
      BY <1>6, <1>7, <2>1 DEF Totals
    <3>2. ts[k + 1] = ts[k] + Spent(r.trades) /\ ts[k] \in Int
      BY <1>6, <1>8, <2>1 DEF Totals
    <3>3. tb[k + 1] = tb[k] + Bought(r.trades) /\ tb[k] \in Int
      BY <1>6, <1>9, <2>1 DEF Totals
    <3>4. td[k + 1] = td[k] + Sold(r.trades) /\ td[k] \in Int
      BY <1>6, <1>10, <2>1 DEF Totals
    <3> QED BY <3>1, <3>2, <3>3, <3>4
  <2>6. /\ r.commission \in Int /\ Spent(r.trades) \in Int
        /\ Bought(r.trades) \in Int /\ Sold(r.trades) \in Int
    BY <1>4, <2>1
  <2>7. /\ r.cash = left(k).cash - r.commission - Spent(r.trades)
        /\ SharesOf(r.positions) = SharesOf(left(k).positions) + (Bought(r.trades) - Sold(r.trades))
    BY <2>2, <2>3 DEF Follows
  <2>8. StartCash \in Int
    BY SimulatorAssumption
  <2> HIDE DEF left, r
  <2> QED BY <2>2, <2>4, <2>5, <2>6, <2>7, <2>8
<1> HIDE DEF S
<1>13. N \in S
  BY <1>1, <1>11, <1>12, Induction
<1>14. results[N].cash = StartCash - tf[N] - ts[N] /\ SharesOf(results[N].positions) = tb[N] - td[N]
  BY <1>1, <1>13 DEF S
<1> QED BY <1>2, <1>3, <1>7, <1>8, <1>9, <1>10, <1>14

-----------------------------------------------------------------------------
(* The results of a phase.                                                   *)

LEMMA PlaysFixed ==
  ASSUME setup' = setup
  PROVE  \A t, s, bars, list, start, n : Plays(t, s, bars, list, start, n)' = Plays(t, s, bars, list, start, n)
BY AdvanceFixed DEF Plays

(* A run starts, and goes on by a bar.                                       *)
LEMMA PlayBegins ==
  ASSUME NEW s, NEW bars, NEW list, NEW start
  PROVE  \E t : Plays(t, s, bars, list, start, 0) /\ t[0] = [book |-> start, waiting |-> None]
<1> DEFINE t == [i \in {0} |-> [book |-> start, waiting |-> None]]
<1>1. t[0] = [book |-> start, waiting |-> None] /\ 1..0 = {}
  OBVIOUS
<1> HIDE DEF t
<1>2. Plays(t, s, bars, list, start, 0)
  BY <1>1 DEF Plays
<1> QED BY <1>1, <1>2

LEMMA PlayGoesOn ==
  ASSUME NEW s, NEW bars, NEW list, NEW start, NEW n \in Nat, NEW t, Plays(t, s, bars, list, start, n)
  PROVE  \E u : /\ Plays(u, s, bars, list, start, n + 1)
                /\ u[n + 1] = Advance(t[n], s, bars[n + 1], list[n + 1])
<1> DEFINE last == Advance(t[n], s, bars[n + 1], list[n + 1])
           u == [i \in 0..(n + 1) |-> IF i = n + 1 THEN last ELSE t[i]]
<1>1. u[n + 1] = last /\ \A i \in 0..n : u[i] = t[i]
  OBVIOUS
<1> HIDE DEF u
<1>2. u[0] = [book |-> start, waiting |-> None]
  BY <1>1 DEF Plays
<1>3. ASSUME NEW i \in 1..(n + 1) PROVE u[i] = Advance(u[i - 1], s, bars[i], list[i])
  <2>1. i - 1 \in 0..n /\ u[i - 1] = t[i - 1]
    BY <1>1
  <2>2. CASE i = n + 1
    <3>1. i - 1 = n
      BY <2>2
    <3> QED BY <1>1, <2>1, <2>2, <3>1
  <2>3. CASE i # n + 1
    <3>1. i \in 1..n /\ i \in 0..n
      BY <2>3
    <3>2. t[i] = Advance(t[i - 1], s, bars[i], list[i])
      BY <3>1 DEF Plays
    <3> QED BY <1>1, <2>1, <3>1, <3>2
  <2> QED BY <2>2, <2>3
<1>4. Plays(u, s, bars, list, start, n + 1)
  BY <1>2, <1>3 DEF Plays
<1> QED BY <1>1, <1>4

LEMMA AppendedAny ==
  ASSUME NEW S, NEW list \in Seq(S), NEW e
  PROVE  /\ Len(list) \in Nat /\ \E T : Append(list, e) \in Seq(T)
         /\ Len(Append(list, e)) = Len(list) + 1
         /\ Append(list, e)[Len(list) + 1] = e
         /\ \A i \in 1..Len(list) : Append(list, e)[i] = list[i]
<1>1. S \in SUBSET (S \union {e}) /\ e \in S \union {e}
  OBVIOUS
<1>2. list \in Seq(S \union {e})
  <2>1. Len(list) \in Nat /\ list \in [1..Len(list) -> S]
    BY LenProperties
  <2>2. list \in [1..Len(list) -> S \union {e}]
    BY <2>1
  <2> QED BY <2>1, <2>2, SeqDef
<1> DEFINE T == S \union {e}
<1> HIDE DEF T
<1>3. list \in Seq(T) /\ e \in T
  BY <1>1, <1>2 DEF T
<1> QED BY <1>3, Appended

\* The run of the n-th symbol left its result.
Ended(n) ==
  /\ Len(PhaseBars(n)) \in Nat
  /\ \E t : /\ Plays(t, n, PhaseBars(n), signals[n], Continue(Before(n)), Len(PhaseBars(n)))
            /\ results[n] = Result(t[Len(PhaseBars(n))].book)

\* The run of the next symbol, as far as the book has it.
Underway ==
  /\ sym = Len(results) + 1
  /\ Follows(book, Before(sym))
  /\ \E t : /\ Plays(t, sym, PhaseBars(sym), signals[sym], Continue(Before(sym)), at)
            /\ Same(book, t[at].book) /\ pending = t[at].waiting

\* The results of a phase are those of runs of its bars and signals, each from what
\* the one before it left.
RunsInv ==
  phase \in Phases =>
    /\ origin = "evaluator"
    /\ \E S : results \in Seq(S)
    /\ \A n \in 1..Len(results) : Ended(n) /\ Follows(results[n], Before(n))
    /\ ~raised /\ Len(results) < Cardinality(Symbols) => Underway

LEMMA RunsInitially == Init => RunsInv
BY DEF Init, RunsInv, Phases

(* The runs that ended stay as they are.                                     *)
LEMMA EndedStays ==
  ASSUME UNCHANGED <<setup, folds, fold, phase, history, signals>>,
         NEW n \in Nat, results'[n] = results[n], n # 1 => results'[n - 1] = results[n - 1],
         Ended(n), Follows(results[n], Before(n))
  PROVE  Ended(n)' /\ Follows(results[n], Before(n))'
<1>1. Before(n)' = Before(n) /\ PhaseBars(n)' = PhaseBars(n)
  BY DEF Before, PhaseBars
<1>2. Continue(Before(n))' = Continue(Before(n))
  BY <1>1 DEF Continue
<1>3. PICK t : /\ Plays(t, n, PhaseBars(n), signals[n], Continue(Before(n)), Len(PhaseBars(n)))
               /\ results[n] = Result(t[Len(PhaseBars(n))].book)
  BY DEF Ended
<1>4. Plays(t, n, PhaseBars(n), signals[n], Continue(Before(n)), Len(PhaseBars(n)))'
  BY <1>1, <1>2, <1>3, PlaysFixed
<1>5. Ended(n)'
  BY <1>1, <1>3, <1>4 DEF Ended
<1>6. Follows(results[n], Before(n))'
  BY <1>1 DEF Follows
<1> QED BY <1>5, <1>6

LEMMA RunsStart == RunsInv /\ StartPhase => RunsInv'
<1> SUFFICES ASSUME StartPhase PROVE RunsInv'
  OBVIOUS
<1>1. /\ results' = <<>> /\ sym' = Min(Symbols) /\ at' = 0 /\ pending' = None /\ book' = FreshBook
      /\ setup' = setup /\ origin' = "evaluator"
  BY DEF StartPhase, StartBook
<1>2. results' \in Seq({}) /\ Len(results') = 0
  BY <1>1
<1>3. Min(Symbols) = 1
  <2>1. 1 \in Symbols /\ \A s \in Symbols : s \in Int /\ 1 <= s
    BY SomeSymbol
  <2>2. Min(Symbols) \in Symbols /\ \A s \in Symbols : Min(Symbols) <= s
    BY <2>1 DEF Min
  <2> QED BY <2>1, <2>2
<1>4. Underway'
  <2> DEFINE start == Continue(Result(FreshBook))
  <2>1. Before(1)' = Result(FreshBook) /\ sym' = 1
    BY <1>1, <1>3 DEF Before
  <2>2. Continue(Before(1))' = start
    BY <2>1 DEF Continue
  <2>3. PICK t : /\ Plays(t, 1, PhaseBars(1)', signals'[1], start, 0)
                 /\ t[0] = [book |-> start, waiting |-> None]
    BY PlayBegins
  <2>4. Plays(t, 1, PhaseBars(1), signals[1], Continue(Before(1)), 0)'
    BY <1>1, <2>2, <2>3, PlaysFixed
  <2>5. Same(FreshBook, start)
    BY DEF Same, BookFields, Continue, Result, FreshBook
  <2>6. Follows(FreshBook, Result(FreshBook))
    BY RunFollows
  <2> HIDE DEF start
  <2>7. Same(book', t[0].book) /\ pending' = t[0].waiting
    BY <1>1, <2>3, <2>5
  <2>8. Follows(book, Before(sym))'
    BY <1>1, <2>1, <2>6
  <2>9. sym' = Len(results') + 1
    BY <1>2, <2>1
  <2>10. Plays(t, sym, PhaseBars(sym), signals[sym], Continue(Before(sym)), at)' /\ Same(book', t[at'].book)
         /\ pending' = t[at'].waiting
    BY <1>1, <2>1, <2>4, <2>7
  <2> QED BY <2>8, <2>9, <2>10 DEF Underway, Same
<1>5. \A n \in 1..Len(results') : FALSE
  BY <1>2
<1> QED BY <1>1, <1>2, <1>4, <1>5 DEF RunsInv

LEMMA RunsGoOn == FoldsInv /\ PhaseInv /\ MoneyInv /\ RunsInv /\ ProcessPhaseBar => RunsInv'
<1> SUFFICES ASSUME FoldsInv, PhaseInv, MoneyInv, RunsInv, ProcessPhaseBar, phase \in Phases PROVE RunsInv'
  BY DEF ProcessPhaseBar, evaluation, RunsInv
<1> DEFINE bar == PhaseBars(sym)[at + 1]
           signal == signals[sym][at + 1]
<1>1. /\ ~raised /\ Len(results) < Cardinality(Symbols) /\ at < Len(PhaseBars(sym)) /\ fold > 0
      /\ Turn(bar, signal) /\ UNCHANGED <<origin, history, folds, fold, phase, signals, results>>
  BY DEF ProcessPhaseBar, evaluation
<1>2. UNCHANGED <<setup, sym>> /\ at' = at + 1 /\ at \in Nat /\ sym \in Symbols /\ setup \in Setups
  BY <1>1 DEF Turn, MoneyInv
<1>3. PICK S : results \in Seq(S)
  BY DEF RunsInv
<1>4. ASSUME NEW n \in 1..Len(results) PROVE Ended(n)' /\ Follows(results[n], Before(n))'
  <2>1. n \in Nat /\ Ended(n) /\ Follows(results[n], Before(n))
    BY <1>3, LenProperties DEF RunsInv
  <2> QED BY <1>1, <1>2, <2>1, EndedStays
<1>5. ASSUME ~raised' PROVE Underway'
  <2> DEFINE c == ProcessBar(book, sym, pending, bar)
             start == Before(sym)
             list == signals[sym]
  <2>1. ~Raises(book, sym, pending, bar) /\ book' = c /\ pending' = signal
    BY <1>1, <1>5 DEF Turn
  <2>2. Underway
    BY <1>1 DEF RunsInv
  <2>3. sym = Len(results) + 1 /\ Follows(book, start)
    BY <2>2 DEF Underway
  <2>4. PICK t : /\ Plays(t, sym, PhaseBars(sym), list, Continue(start), at)
                 /\ Same(book, t[at].book) /\ pending = t[at].waiting
    BY <2>2 DEF Underway
  <2>5. PICK u : /\ Plays(u, sym, PhaseBars(sym), list, Continue(start), at + 1)
                 /\ u[at + 1] = Advance(t[at], sym, PhaseBars(sym)[at + 1], list[at + 1])
    BY <1>2, <2>4, PlayGoesOn
  <2>6. /\ bar.open \in FillPrices /\ bar.delay \in Int
        /\ signal \in Offered
    BY <1>1, <1>2, PhaseTurn
  <2>7. Follows(c, start)
    <3>1. Kept(book) /\ pending \in Offered
      BY DEF MoneyInv
    <3> HIDE DEF bar, start
    <3> QED BY <1>2, <2>1, <2>3, <2>6, <3>1, ProcessFollows
  <2>8. Same(c, u[at + 1].book) /\ signal = u[at + 1].waiting
    <3>1. u[at + 1].book = ProcessBar(t[at].book, sym, t[at].waiting, bar) /\ u[at + 1].waiting = signal
      BY <2>5 DEF Advance
    <3> HIDE DEF bar
    <3> QED BY <2>4, <3>1, SameProcessed
  <2>9. Before(sym)' = start /\ PhaseBars(sym)' = PhaseBars(sym)
    BY <1>1, <1>2 DEF Before, PhaseBars
  <2>10. Continue(Before(sym))' = Continue(start)
    BY <2>9 DEF Continue
  <2> HIDE DEF bar, c, start, signal
  <2>11. Plays(u, sym, PhaseBars(sym), signals[sym], Continue(Before(sym)), at)'
    BY <1>1, <1>2, <2>5, <2>9, <2>10, PlaysFixed
  <2>12. Follows(book, Before(sym))'
    BY <2>1, <2>7, <2>9 DEF Follows
  <2>13. Same(book, u[at].book)' /\ pending' = u[at'].waiting
    BY <1>2, <2>1, <2>8 DEF Same
  <2> QED BY <1>1, <1>2, <2>3, <2>11, <2>12, <2>13 DEF Underway
<1>6. origin' = "evaluator" /\ results' \in Seq(S)
  BY <1>1, <1>3 DEF RunsInv
<1> QED BY <1>1, <1>4, <1>5, <1>6 DEF RunsInv

LEMMA RunsEnd == FoldsInv /\ PhaseInv /\ MoneyInv /\ RunsInv /\ FinishRun => RunsInv'
<1> SUFFICES ASSUME FoldsInv, PhaseInv, MoneyInv, RunsInv, FinishRun, phase \in Phases PROVE RunsInv'
  BY DEF FinishRun, RunsInv
<1> DEFINE r == Result(book)
           N == Cardinality(Symbols)
           m == Len(results)
           n == Len(PhaseBars(sym))
<1>1. /\ ~raised /\ m < N /\ at = n /\ results' = Append(results, r)
      /\ NextRun \/ (sym = Max(Symbols) /\ UNCHANGED simulator)
      /\ UNCHANGED <<origin, history, folds, fold, phase, signals>>
  BY DEF FinishRun
<1>2. setup' = setup /\ at \in Nat /\ sym \in Symbols /\ DOMAIN book = BookFields
  BY <1>1 DEF NextRun, simulator, MoneyInv, Kept
<1>3. PICK S : results \in Seq(S)
  BY DEF RunsInv
<1>4. /\ m \in Nat /\ Len(results') = m + 1 /\ results'[m + 1] = r
      /\ \A i \in 1..m : results'[i] = results[i]
      /\ \E T : results' \in Seq(T)
  BY <1>1, <1>3, AppendedAny
<1>5. Underway /\ origin = "evaluator"
  BY <1>1 DEF RunsInv
<1>6. sym = m + 1 /\ Follows(book, Before(sym))
  BY <1>5 DEF Underway
<1>7. PICK t : /\ Plays(t, sym, PhaseBars(sym), signals[sym], Continue(Before(sym)), at)
               /\ Same(book, t[at].book)
  BY <1>5 DEF Underway
<1> HIDE DEF r, m, N
<1>9. ASSUME NEW i \in 1..m PROVE Ended(i)' /\ Follows(results[i], Before(i))'
  <2>1. i \in Nat /\ Ended(i) /\ Follows(results[i], Before(i))
    BY <1>4 DEF RunsInv, m
  <2>2. results'[i] = results[i] /\ (i # 1 => results'[i - 1] = results[i - 1])
    BY <1>4
  <2> QED BY <1>1, <1>2, <2>1, <2>2, EndedStays
<1>10. ASSUME NEW s, s = sym PROVE Ended(s)' /\ Follows(results[s], Before(s))'
  <2>1. Before(s)' = Before(s)
    <3>1. s # 1 => s - 1 \in 1..m
      BY <1>4, <1>6, <1>10
    <3> QED BY <1>4, <3>1 DEF Before
  <2>2. PhaseBars(s)' = PhaseBars(s)
    BY <1>1 DEF PhaseBars
  <2>3. Continue(Before(s))' = Continue(Before(s))
    BY <2>1 DEF Continue
  <2>4. Plays(t, s, PhaseBars(s), signals[s], Continue(Before(s)), at)
    BY <1>7, <1>10
  <2> DEFINE k == Len(PhaseBars(s))
  <2>5. Plays(t, s, PhaseBars(s), signals[s], Continue(Before(s)), k)'
    BY <1>1, <1>2, <1>10, <2>2, <2>3, <2>4, PlaysFixed
  <2>6. results'[s] = Result(t[k].book)
    BY <1>1, <1>4, <1>6, <1>7, <1>10, SameResult DEF r
  <2>7. k' = k /\ k \in Nat
    BY <1>1, <1>2, <1>10, <2>2
  <2>8. Ended(s)'
    BY <2>5, <2>6, <2>7 DEF Ended
  <2>9. Follows(r, Before(s))
    BY <1>2, <1>6, <1>10, RunFollows DEF r
  <2>10. Follows(results[s], Before(s))'
    <3>1. results'[s] = r
      BY <1>4, <1>6, <1>10
    <3> QED BY <2>1, <2>9, <3>1 DEF Follows
  <2> QED BY <2>8, <2>10
<1>11. ASSUME Len(results') < N PROVE Underway'
  <2>1. NextRun
    <3>1. Max(Symbols) = N
      <4>1. N \in Symbols /\ \A s \in Symbols : s \in Int /\ N >= s
        BY SomeSymbol DEF N
      <4>2. Max(Symbols) \in Symbols /\ \A s \in Symbols : Max(Symbols) >= s
        BY <4>1 DEF Max
      <4> QED BY <4>1, <4>2
    <3>2. N \in Nat
      BY SomeSymbol DEF N
    <3> QED BY <1>1, <1>4, <1>6, <1>11, <3>1, <3>2
  <2>2. sym' = sym + 1 /\ at' = 0 /\ pending' = None /\ book' = CarryBook(book)
    BY <2>1 DEF NextRun
  <2>3. sym' = Len(results') + 1 /\ sym' # 1
    BY <1>4, <1>6, <2>2
  <2>4. Before(sym)' = r
    BY <1>4, <1>6, <2>2, <2>3 DEF Before
  <2>5. Continue(Before(sym))' = Continue(r)
    BY <2>4 DEF Continue
  <2>6. PICK u : /\ Plays(u, sym', PhaseBars(sym)', signals'[sym'], Continue(r), 0)
                 /\ u[0] = [book |-> Continue(r), waiting |-> None]
    BY PlayBegins
  <2>7. Plays(u, sym, PhaseBars(sym), signals[sym], Continue(Before(sym)), at)'
    BY <1>2, <2>2, <2>5, <2>6, PlaysFixed
  <2>8. Same(book', u[0].book) /\ pending' = u[0].waiting
    BY <1>2, <2>2, <2>6, SameCarried DEF r
  <2>9. Follows(book', r)
    BY <1>2, <1>6, <2>2, RunFollows DEF r
  <2>10. Follows(book, Before(sym))'
    BY <2>4, <2>9 DEF Follows
  <2>11. Same(book, u[at].book)' /\ pending' = u[at'].waiting
    BY <2>2, <2>8 DEF Same
  <2> QED BY <2>3, <2>7, <2>10, <2>11 DEF Underway
<1>12. ASSUME NEW i \in 1..Len(results') PROVE Ended(i)' /\ Follows(results[i], Before(i))'
  <2>1. i \in 1..m \/ i = sym
    BY <1>4, <1>6
  <2> QED BY <1>9, <1>10, <2>1
<1>13. origin' = "evaluator"
  BY <1>1, <1>5
<1> QED BY <1>4, <1>11, <1>12, <1>13 DEF RunsInv, N

LEMMA RunsStep == FoldsInv /\ PhaseInv /\ MoneyInv /\ RunsInv /\ [Next]_vars => RunsInv'
<1> SUFFICES ASSUME FoldsInv, PhaseInv, MoneyInv, RunsInv, [Next]_vars PROVE RunsInv'
  OBVIOUS
<1>1. CASE MakeFolds
  BY <1>1 DEF MakeFolds, RunsInv, Phases
<1>2. CASE GetTestPeriod
  BY <1>2 DEF GetTestPeriod, RunsInv, Phases
<1>3. CASE Finish
  BY <1>3 DEF Finish, RunsInv, Phases
<1>4. CASE CallerStep
  BY <1>4 DEF CallerStep, evaluation, RunsInv
<1>5. CASE UNCHANGED vars
  <2> SUFFICES ASSUME phase \in Phases PROVE RunsInv'
    BY <1>5 DEF vars, evaluation, RunsInv
  <2>1. /\ UNCHANGED <<setup, sym, at, pending, book, raised, origin, results>>
        /\ UNCHANGED <<folds, fold, phase, history, signals>>
    BY <1>5 DEF vars, simulator, evaluation
  <2>2. PICK S : results \in Seq(S)
    BY DEF RunsInv
  <2>3. ASSUME NEW n \in 1..Len(results) PROVE Ended(n)' /\ Follows(results[n], Before(n))'
    <3>1. n \in Nat /\ Ended(n) /\ Follows(results[n], Before(n))
      BY <2>2, LenProperties DEF RunsInv
    <3> QED BY <2>1, <3>1, EndedStays
  <2>4. ASSUME Underway PROVE Underway'
    <3>1. Before(sym)' = Before(sym) /\ PhaseBars(sym)' = PhaseBars(sym)
      BY <2>1 DEF Before, PhaseBars
    <3>2. Continue(Before(sym))' = Continue(Before(sym))
      BY <3>1 DEF Continue
    <3>3. PICK t : /\ Plays(t, sym, PhaseBars(sym), signals[sym], Continue(Before(sym)), at)
                   /\ Same(book, t[at].book) /\ pending = t[at].waiting
      BY <2>4 DEF Underway
    <3>4. Plays(t, sym, PhaseBars(sym), signals[sym], Continue(Before(sym)), at)'
      BY <2>1, <3>1, <3>2, <3>3, PlaysFixed
    <3>5. Same(book, t[at].book)' /\ pending' = t[at'].waiting
      BY <2>1, <3>3 DEF Same
    <3>6. Follows(book, Before(sym))'
      BY <2>1, <2>4, <3>1 DEF Follows, Underway
    <3>7. sym' = Len(results') + 1
      BY <2>1, <2>4 DEF Underway
    <3> QED BY <3>4, <3>5, <3>6, <3>7 DEF Underway
  <2>5. (~raised /\ Len(results) < Cardinality(Symbols) => Underway) /\ origin = "evaluator"
    BY DEF RunsInv
  <2>6. (~raised' /\ Len(results') < Cardinality(Symbols) => Underway') /\ origin' = "evaluator"
    BY <2>1, <2>4, <2>5
  <2>7. results' \in Seq(S) /\ Len(results') = Len(results)
    BY <2>1, <2>2
  <2> QED BY <2>3, <2>6, <2>7 DEF RunsInv
<1> QED BY <1>1, <1>2, <1>3, <1>4, <1>5, RunsStart, RunsGoOn, RunsEnd DEF Next

LEMMA RunsAlways == Spec => []RunsInv
BY PhaseAlways, MoneyAlways, RunsInitially, RunsStep, PTL DEF Spec

(* A phase reports what a run of its recorded bars and signals gives again,  *)
(* for every history, split, setup and number of symbols: nothing an earlier *)
(* phase left in the shared simulator shows in it, and its trades and        *)
(* commissions lead from the starting cash to what its last run leaves.      *)
THEOREM PhasesAreReproducible == Spec => []PhaseReportIsReproducible
<1>1. RunsInv => PhaseReportIsReproducible
  <2> SUFFICES ASSUME RunsInv, PhaseComplete PROVE PhaseReportIsReproducible
    BY DEF PhaseReportIsReproducible
  <2> DEFINE N == Cardinality(Symbols)
  <2>1. phase \in Phases /\ Len(results) = N /\ N \in Nat /\ Symbols = 1..N
    BY SomeSymbol DEF PhaseComplete, Phases
  <2>2. \A n \in Symbols : Ended(n) /\ Follows(results[n], Before(n))
    BY <2>1 DEF RunsInv
  <2>3. results = [n \in Symbols |-> results[n]]
    <3>1. PICK S : results \in Seq(S)
      BY <2>1 DEF RunsInv
    <3>2. results \in [1..Len(results) -> S]
      BY <3>1, LenProperties
    <3> QED BY <2>1, <3>2
  <2>4. ASSUME NEW n \in Symbols
        PROVE  results[n] = Run(n, PhaseBars(n), signals[n], Continue(Before(n)))
    <3>1. Ended(n)
      BY <2>2
    <3>2. PICK t : /\ Plays(t, n, PhaseBars(n), signals[n], Continue(Before(n)), Len(PhaseBars(n)))
                   /\ results[n] = Result(t[Len(PhaseBars(n))].book)
      BY <3>1 DEF Ended
    <3>3. Len(PhaseBars(n)) \in Nat
      BY <3>1 DEF Ended
    <3> QED BY <3>2, <3>3, TurnsPlayed
  <2>5. results = Rerun
    BY <2>3, <2>4, RerunIsRun
  <2>6. LET final == Last(results) IN
        /\ Metrics.bought - Metrics.sold = SharesOf(final.positions)
        /\ final.cash = StartCash - Metrics.commission - Sum([i \in DOMAIN results |-> Spent(results[i].trades)])
    BY <2>2, <2>3, ReportAdds
  <2> QED BY <2>5, <2>6 DEF PhaseReportIsReproducible
<1> QED BY <1>1, RunsAlways, PTL
=============================================================================
