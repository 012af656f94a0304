--------------------------- MODULE SequenceLemmas ---------------------------
(***************************************************************************)
(* What the proofs need to know of lists, and of functions that are        *)
(* defined by recursion over the positions of a list: induction, that such *)
(* a function exists, and that it stays where each of its steps stays.     *)
(* Everything is said of sets, so that a lemma can be cited by name.  Then *)
(* what the sum of an array is made of.                                    *)
(***************************************************************************)
EXTENDS Totals, Sequences, SequencesExt, WellFoundedInduction, TLAPS

\* A list with one more element holds that one and those before.
LEMMA ToSetAppend ==
  ASSUME NEW S, NEW s \in Seq(S), NEW x \in S
  PROVE  ToSet(Append(s, x)) = ToSet(s) \cup {x}
<1>1. ToSet(Append(s, x)) \subseteq ToSet(s) \cup {x}
  BY DEF ToSet
<1>2. ToSet(s) \subseteq ToSet(Append(s, x))
  <2> SUFFICES ASSUME NEW i \in DOMAIN s PROVE s[i] \in ToSet(Append(s, x))
    BY DEF ToSet
  <2>1. i \in DOMAIN Append(s, x) /\ Append(s, x)[i] = s[i]
    OBVIOUS
  <2> QED BY <2>1 DEF ToSet
<1>3. x \in ToSet(Append(s, x))
  <2>1. Len(s) + 1 \in DOMAIN Append(s, x) /\ Append(s, x)[Len(s) + 1] = x
    OBVIOUS
  <2> QED BY <2>1 DEF ToSet
<1> QED BY <1>1, <1>2, <1>3

-----------------------------------------------------------------------------
\* The pairs of naturals of which the first is smaller.
Smaller == {p \in Nat \X Nat : p[1] < p[2]}

\* Going down from a natural ends.
LEMMA SmallerWellFounded == IsWellFoundedOn(Smaller, Nat)
<1>1. Smaller = OpToRel(<, Nat)
  BY DEF Smaller, OpToRel
<1> QED BY <1>1, NatLessThanWellFounded

\* A set that holds 0, and with every natural the next, holds them all.
LEMMA Induction ==
  ASSUME NEW S, 0 \in S, \A n \in Nat : n \in S => n + 1 \in S
  PROVE  Nat \subseteq S
<1> SUFFICES ASSUME Nat \ S # {} PROVE FALSE
  OBVIOUS
<1>1. PICK x \in Nat \ S : \A y \in Nat \ S : <<y, x>> \notin Smaller
  BY SmallerWellFounded, WFMin
<1>2. x # 0 /\ x - 1 \in Nat /\ <<x - 1, x>> \in Smaller
  BY DEF Smaller
<1>3. x - 1 \in S
  BY <1>1, <1>2
<1> QED BY <1>1, <1>2, <1>3

\* A set of naturals that is not empty has a least element.
LEMMA Least ==
  ASSUME NEW S \in SUBSET Nat, S # {}
  PROVE  \E m \in S : \A k \in S : m <= k
<1>1. PICK m \in S : \A k \in S : <<k, m>> \notin Smaller
  BY SmallerWellFounded, WFMin
<1>2. ASSUME NEW k \in S, ~ (m <= k) PROVE FALSE
  <2>1. k \in Nat /\ m \in Nat /\ k < m
    BY <1>2
  <2>2. <<k, m>> \in Smaller
    BY <2>1 DEF Smaller
  <2> QED BY <1>1, <2>2
<1> QED BY <1>2

\* What holds of V[a] and of every next one up to V[n] holds along the way.
LEMMA StaysAlong ==
  ASSUME NEW a \in Nat, NEW n \in Nat, NEW V, NEW f,
         f[a] \in V[a], \A i \in (a + 1)..n : f[i - 1] \in V[i - 1] => f[i] \in V[i]
  PROVE  \A i \in a..n : f[i] \in V[i]
<1> DEFINE S == {i \in Nat : a + i <= n => f[a + i] \in V[a + i]}
<1>1. 0 \in S
  OBVIOUS
<1>2. ASSUME NEW i \in Nat, i \in S PROVE i + 1 \in S
  <2>1. CASE a + i + 1 <= n
    <3>1. a + i + 1 \in (a + 1)..n /\ (a + i + 1) - 1 = a + i /\ f[a + i] \in V[a + i]
      BY <1>2, <2>1
    <3>2. f[a + i + 1] \in V[a + i + 1]
      BY <3>1
    <3>3. a + (i + 1) = a + i + 1
      OBVIOUS
    <3> QED BY <3>2, <3>3
  <2>2. CASE ~ (a + i + 1 <= n)
    BY <2>2
  <2> QED BY <2>1, <2>2
<1> HIDE DEF S
<1>3. Nat \subseteq S
  BY <1>1, <1>2, Induction
<1> SUFFICES ASSUME NEW i \in a..n PROVE f[i] \in V[i]
  OBVIOUS
<1>4. i - a \in Nat /\ a + (i - a) = i
  OBVIOUS
<1>5. i - a \in S
  BY <1>3, <1>4
<1> QED BY <1>4, <1>5 DEF S

\* What holds first and survives every step up to n holds from there on.
LEMMA Stays ==
  ASSUME NEW a \in Nat, NEW n \in Nat, NEW V, NEW f,
         f[a] \in V, \A i \in (a + 1)..n : f[i - 1] \in V => f[i] \in V
  PROVE  \A i \in a..n : f[i] \in V
<1> DEFINE W == [i \in Nat |-> V]
<1>1. \A i \in Nat : W[i] = V
  OBVIOUS
<1>2. \A i \in (a + 1)..n : i \in Nat /\ i - 1 \in Nat
  OBVIOUS
<1>3. \A i \in a..n : i \in Nat
  OBVIOUS
<1> HIDE DEF W
<1>4. f[a] \in W[a] /\ \A i \in (a + 1)..n : f[i - 1] \in W[i - 1] => f[i] \in W[i]
  BY <1>1, <1>2
<1>5. \A i \in a..n : f[i] \in W[i]
  BY <1>4, StaysAlong
<1> QED BY <1>1, <1>3, <1>5

\* step[1], ..., step[n] each take V to V; applied in turn they give a run.
StepsIn(step, n, V) == step \in [1..n -> [V -> V]]

HasRun(step, n, V, base) ==
  \E g \in [0..n -> V] : g[0] = base /\ \A i \in 1..n : g[i] = step[i][g[i - 1]]

\* A recursion whose every step ends in V has a solution, with values in V.
LEMMA Recursion ==
  ASSUME NEW n \in Nat, NEW V, NEW base \in V, NEW step, StepsIn(step, n, V)
  PROVE  HasRun(step, n, V, base)
<1> DEFINE upTo(m) == \E g \in [0..m -> V] :
                         g[0] = base /\ \A i \in 1..m : g[i] = step[i][g[i - 1]]
           S == {m \in Nat : m <= n => upTo(m)}
<1>1. 0 \in S
  <2> DEFINE g == [i \in 0..0 |-> base]
  <2>1. g \in [0..0 -> V] /\ g[0] = base /\ \A i \in 1..0 : FALSE
    OBVIOUS
  <2> HIDE DEF g
  <2> QED BY <2>1
<1>2. ASSUME NEW m \in Nat, m \in S, m + 1 <= n PROVE upTo(m + 1)
  <2>1. PICK g \in [0..m -> V] : g[0] = base /\ \A i \in 1..m : g[i] = step[i][g[i - 1]]
    BY <1>2
  <2> DEFINE h == [i \in 0..(m + 1) |-> IF i = m + 1 THEN step[m + 1][g[m]] ELSE g[i]]
  <2>2. step[m + 1][g[m]] \in V
    <3>1. g[m] \in V /\ m + 1 \in 1..n
      BY <1>2
    <3> QED BY <3>1 DEF StepsIn
  <2>3. h \in [0..(m + 1) -> V] /\ h[0] = base
    BY <2>1, <2>2
  <2>4. ASSUME NEW i \in 1..(m + 1) PROVE h[i] = step[i][h[i - 1]]
    <3>1. CASE i = m + 1
      <4>1. i - 1 = m /\ i - 1 \in 0..(m + 1) /\ i - 1 # m + 1
        BY <3>1
      <4>2. h[i] = step[m + 1][g[m]] /\ h[i - 1] = g[m]
        BY <3>1, <4>1
      <4> QED BY <3>1, <4>2
    <3>2. CASE i # m + 1
      <4>1. i \in 1..m /\ i - 1 \in 0..m
        BY <3>2
      <4>2. h[i] = g[i] /\ h[i - 1] = g[i - 1]
        BY <4>1
      <4> QED BY <2>1, <4>1, <4>2
    <3> QED BY <3>1, <3>2
  <2> HIDE DEF h
  <2> QED BY <2>3, <2>4
<1> HIDE DEF upTo
<1>3. \A m \in Nat : m \in S => m + 1 \in S
  BY <1>2
<1> HIDE DEF S
<1>4. n \in S
  BY <1>1, <1>3, Induction
<1>5. upTo(n)
  BY <1>4 DEF S
<1> QED BY <1>5 DEF upTo, HasRun

-----------------------------------------------------------------------------
(***************************************************************************)
(* Sums of naturals: the last term, and what changing one term does.       *)
(***************************************************************************)
Sums(f, n) == {s \in [0..n -> Nat] : s[0] = 0 /\ \A i \in 1..n : s[i] = s[i - 1] + f[i]}

\* A total is the end of its partial sums.
LEMMA TotalSums ==
  ASSUME NEW n \in Nat, NEW f, \A i \in 1..n : f[i] \in Nat
  PROVE  \E s \in Sums(f, n) : Total(f, n) = s[n]
<1> DEFINE solves(g) == g = [i \in 0..n |-> IF i = 0 THEN 0 ELSE g[i - 1] + f[i]]
           sum == CHOOSE g : solves(g)
<1>1. Total(f, n) = sum[n]
  BY DEF Total
<1>2. \E g : solves(g)
  <2> DEFINE step == [i \in 1..n |-> [x \in Nat |-> x + f[i]]]
  <2>1. StepsIn(step, n, Nat)
    BY DEF StepsIn
  <2>2. \A x \in Nat, i \in 1..n : step[i][x] = x + f[i]
    OBVIOUS
  <2> HIDE DEF step
  <2>3. HasRun(step, n, Nat, 0)
    BY <2>1, Recursion
  <2>4. PICK g \in [0..n -> Nat] : g[0] = 0 /\ \A i \in 1..n : g[i] = step[i][g[i - 1]]
    BY <2>3 DEF HasRun
  <2>5. \A i \in 1..n : g[i] = g[i - 1] + f[i]
    <3>1. \A i \in 1..n : i - 1 \in 0..n
      OBVIOUS
    <3>2. QED
      BY <2>2, <2>4, <3>1
  <2>6. solves(g)
    BY <2>4, <2>5
  <2>7. QED
    BY <2>6
<1>3. solves(sum)
  BY <1>2
<1> HIDE DEF sum
<1>4. sum[0] = 0 /\ \A i \in 1..n : sum[i] = sum[i - 1] + f[i]
  BY <1>3
<1>5. \A i \in 0..n : sum[i] \in Nat
  <2>1. \A i \in (0 + 1)..n : sum[i - 1] \in Nat => sum[i] \in Nat
    BY <1>4
  <2>2. 0 \in Nat /\ sum[0] \in Nat
    BY <1>4
  <2>3. QED
    BY <2>1, <2>2, Stays
<1>6. sum \in [0..n -> Nat]
  BY <1>3, <1>5
<1>7. QED
  BY <1>1, <1>4, <1>6 DEF Sums

\* Two lists of numbers that differ in place k only.
LEMMA TotalChange ==
  ASSUME NEW n \in Nat, NEW f, NEW g, NEW k \in Nat \ {0},
         \A i \in 1..n : f[i] \in Nat /\ g[i] \in Nat,
         \A i \in 1..n : i # k => f[i] = g[i]
  PROVE  /\ Total(f, n) \in Nat /\ Total(g, n) \in Nat
         /\ Total(g, n) = Total(f, n) + (IF k <= n THEN g[k] - f[k] ELSE 0)
<1>1. PICK s \in Sums(f, n) : Total(f, n) = s[n]
  BY TotalSums
<1>2. PICK r \in Sums(g, n) : Total(g, n) = r[n]
  BY TotalSums
<1>3. /\ s \in [0..n -> Nat] /\ s[0] = 0 /\ \A i \in 1..n : s[i] = s[i - 1] + f[i]
      /\ r \in [0..n -> Nat] /\ r[0] = 0 /\ \A i \in 1..n : r[i] = r[i - 1] + g[i]
  BY DEF Sums
<1> DEFINE gap == [i \in 0..n |-> r[i] - s[i]]
           V   == [i \in 0..n |-> {IF k <= i THEN g[k] - f[k] ELSE 0}]
<1>4. gap[0] \in V[0]
  BY <1>3
<1>5. ASSUME NEW i \in 1..n, gap[i - 1] \in V[i - 1]  PROVE gap[i] \in V[i]
  <2>1. i - 1 \in 0..n /\ i \in 0..n
    OBVIOUS
  <2>2. r[i - 1] - s[i - 1] = IF k <= i - 1 THEN g[k] - f[k] ELSE 0
    BY <1>5, <2>1
  <2>3. r[i] = r[i - 1] + g[i] /\ s[i] = s[i - 1] + f[i]
        /\ r[i - 1] \in Nat /\ s[i - 1] \in Nat /\ g[i] \in Nat /\ f[i] \in Nat
    BY <1>3, <2>1
  <2>4. r[i] - s[i] = IF k <= i THEN g[k] - f[k] ELSE 0
    <3>1. CASE i < k
      BY <2>2, <2>3, <3>1
    <3>2. CASE i = k
      BY <2>2, <2>3, <3>2
    <3>3. CASE k < i
      <4>1. f[i] = g[i] /\ k <= i - 1 /\ k <= i /\ k \in 1..n
        BY <3>3
      <4>2. f[k] \in Nat /\ g[k] \in Nat
        BY <4>1
      <4>3. QED
        BY <2>2, <2>3, <4>1, <4>2
    <3>4. QED
      BY <3>1, <3>2, <3>3
  <2>5. QED
    BY <2>1, <2>4
<1>6. gap[n] \in V[n]
  <2> HIDE DEF gap, V
  <2>1. 0 \in Nat /\ 0 + 1 = 1 /\ n \in 0..n
    OBVIOUS
  <2>2. \A i \in 0..n : gap[i] \in V[i]
    BY <1>4, <1>5, <2>1, StaysAlong
  <2>3. QED
    BY <2>1, <2>2
<1>7. r[n] - s[n] = (IF k <= n THEN g[k] - f[k] ELSE 0) /\ r[n] \in Nat /\ s[n] \in Nat
  BY <1>3, <1>6
<1>8. QED
  BY <1>1, <1>2, <1>7

\* One term more.
LEMMA TotalMore ==
  ASSUME NEW n \in Nat, NEW f, \A i \in 1..n + 1 : f[i] \in Nat
  PROVE  Total(f, n + 1) = Total(f, n) + f[n + 1] /\ Total(f, n) \in Nat
<1>1. n + 1 \in Nat /\ \A i \in 1..n : i \in 1..n + 1
  OBVIOUS
<1>2. PICK s \in Sums(f, n) : Total(f, n) = s[n]
  BY <1>1, TotalSums
<1>3. PICK r \in Sums(f, n + 1) : Total(f, n + 1) = r[n + 1]
  BY <1>1, TotalSums
<1>4. /\ s \in [0..n -> Nat] /\ s[0] = 0 /\ \A i \in 1..n : s[i] = s[i - 1] + f[i]
      /\ r \in [0..n + 1 -> Nat] /\ r[0] = 0 /\ \A i \in 1..n + 1 : r[i] = r[i - 1] + f[i]
  BY DEF Sums
<1> DEFINE V == [i \in 0..n |-> {s[i]}]
<1>5. \A i \in (0 + 1)..n : r[i - 1] \in V[i - 1] => r[i] \in V[i]
  <2> SUFFICES ASSUME NEW i \in (0 + 1)..n, r[i - 1] \in V[i - 1]  PROVE r[i] \in V[i]
    OBVIOUS
  <2>1. i \in 1..n /\ i - 1 \in 0..n /\ i \in 0..n /\ i \in 1..n + 1
    OBVIOUS
  <2>2. r[i - 1] = s[i - 1]
    BY <2>1
  <2>3. r[i] = s[i]
    BY <1>4, <2>1, <2>2
  <2>4. QED
    BY <2>1, <2>3
<1>6. r[0] \in V[0] /\ 0 \in Nat
  BY <1>4
<1>7. r[n] = s[n]
  <2>1. n \in 0..n /\ (r[n] \in V[n] => r[n] = s[n])
    OBVIOUS
  <2> HIDE DEF V
  <2>2. \A i \in 0..n : r[i] \in V[i]
    BY <1>5, <1>6, StaysAlong
  <2>3. QED
    BY <2>1, <2>2
<1>8. r[n + 1] = r[n] + f[n + 1] /\ s[n] \in Nat
  <2>1. n + 1 \in 1..n + 1 /\ (n + 1) - 1 = n /\ n \in 0..n
    OBVIOUS
  <2>2. QED
    BY <1>4, <2>1
<1>9. QED
  BY <1>2, <1>3, <1>7, <1>8
=============================================================================
