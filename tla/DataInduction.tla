--------------------------- MODULE DataInduction ---------------------------
(***************************************************************************)
(* Induction over the natural numbers, and definition by recursion up to a *)
(* number, in a form without operators as parameters: a property is given  *)
(* by the set of the numbers that have it, and a step by a function.  The  *)
(* proofs about the recursive functions and the lists of the models rest   *)
(* on it.                                                                  *)
(***************************************************************************)
EXTENDS Integers, SequencesExt, SequenceTheorems, WellFoundedInduction, TLAPS

\* Every set of natural numbers that is not empty has a least element.
LEMMA NatMin ==
  ASSUME NEW T \in SUBSET Nat, T # {}
  PROVE  \E x \in T : \A y \in T : x <= y
<1> DEFINE R == OpToRel(<, Nat)
<1>1. IsWellFoundedOn(R, Nat)
  BY NatLessThanWellFounded
<1>2. \A x, y \in Nat : <<y, x>> \in R <=> y < x
  BY DEF OpToRel
<1> HIDE DEF R
<1>3. PICK x \in T : \A y \in T : <<y, x>> \notin R
  BY <1>1, WFMin
<1>4. \A y \in T : ~(y < x)
  BY <1>2, <1>3
<1>5. x \in T /\ \A y \in T : x <= y
  BY <1>4
<1> QED
  BY <1>5

\* One that has a bound has a greatest element.
LEMMA NatMax ==
  ASSUME NEW n \in Nat, NEW T \in SUBSET (0..n), T # {}
  PROVE  \E x \in T : \A y \in T : y <= x
<1> DEFINE U == {n - x : x \in T}
<1>1. U \in SUBSET Nat /\ U # {}
  <2>1. \A x \in T : n - x \in Nat
    OBVIOUS
  <2>2. PICK x \in T : TRUE
    OBVIOUS
  <2>3. n - x \in U
    BY <2>2
  <2> QED
    BY <2>1, <2>3
<1> HIDE DEF U
<1>2. PICK u \in U : \A v \in U : u <= v
  BY <1>1, NatMin
<1>3. PICK x \in T : u = n - x
  BY <1>2 DEF U
<1>4. \A y \in T : u <= n - y
  BY <1>2 DEF U
<1>5. \A y \in T : y <= x
  BY <1>3, <1>4
<1> QED
  BY <1>3, <1>5

\* What holds of 0, and of n + 1 whenever it holds of n, holds of every number.
LEMMA SetInduction ==
  ASSUME NEW S \in SUBSET Nat, 0 \in S, \A n \in S : n + 1 \in S
  PROVE  S = Nat
<1> SUFFICES ASSUME Nat \ S # {} PROVE FALSE
  OBVIOUS
<1>1. PICK x \in Nat \ S : \A y \in Nat \ S : x <= y
  BY NatMin
<1>2. x - 1 \in Nat /\ x - 1 \in S
  BY <1>1
<1> QED
  BY <1>1, <1>2

\* The same up to n.
LEMMA IntervalInduction ==
  ASSUME NEW n \in Nat, NEW S, 0 \in S, \A i \in 0..(n - 1) : i \in S => i + 1 \in S
  PROVE  \A i \in 0..n : i \in S
<1> DEFINE T == {i \in Nat : i <= n => i \in S}
<1>1. 0 \in T
  OBVIOUS
<1>2. \A i \in T : i + 1 \in T
  OBVIOUS
<1> HIDE DEF T
<1>3. T = Nat
  BY <1>1, <1>2, SetInduction DEF T
<1> QED
  BY <1>3 DEF T

\* A function is defined by its value at 0 and by a step for each number up to n.
Steps(f, n, v0, G) == f[0] = v0 /\ \A i \in 1..n : f[i] = G[i][f[i - 1]]
LEMMA Recursion ==
  ASSUME NEW n \in Nat, NEW V, NEW v0 \in V, NEW G \in [1..n -> [V -> V]]
  PROVE  \E f \in [0..n -> V] : Steps(f, n, v0, G)
<1> DEFINE P(m) == \E f \in [0..m -> V] :
                      f[0] = v0 /\ \A i \in 1..m : f[i] = G[i][f[i - 1]]
           S == {m \in 0..n : P(m)}
<1>1. 0 \in S
  <2> DEFINE f == [i \in 0..0 |-> v0]
  <2>1. f \in [0..0 -> V] /\ f[0] = v0 /\ \A i \in 1..0 : f[i] = G[i][f[i - 1]]
    OBVIOUS
  <2>2. P(0)
    BY <2>1
  <2> QED
    BY <2>2
<1>2. \A m \in 0..(n - 1) : m \in S => m + 1 \in S
  <2> SUFFICES ASSUME NEW m \in 0..(n - 1), m \in S PROVE m + 1 \in S
    OBVIOUS
  <2>1. PICK f \in [0..m -> V] : f[0] = v0 /\ \A i \in 1..m : f[i] = G[i][f[i - 1]]
    OBVIOUS
  <2> DEFINE g == [i \in 0..(m + 1) |-> IF i <= m THEN f[i] ELSE G[m + 1][f[m]]]
  <2>2. G[m + 1] \in [V -> V] /\ f[m] \in V
    OBVIOUS
  <2>3. g \in [0..(m + 1) -> V]
    BY <2>2
  <2>4. g[0] = v0
    BY <2>1
  <2>5. ASSUME NEW i \in 1..(m + 1) PROVE g[i] = G[i][g[i - 1]]
    <3>1. CASE i <= m
      <4>1. i \in 1..m /\ i - 1 \in 0..m
        BY <3>1
      <4>2. g[i] = f[i] /\ g[i - 1] = f[i - 1]
        BY <4>1
      <4> QED
        BY <2>1, <4>1, <4>2
    <3>2. CASE i = m + 1
      BY <3>2
    <3> QED
      BY <3>1, <3>2
  <2>6. P(m + 1)
    BY <2>3, <2>4, <2>5
  <2>7. m + 1 \in 0..n
    OBVIOUS
  <2> HIDE DEF P, g
  <2> QED
    BY <2>6, <2>7
<1> HIDE DEF S, P
<1>3. \A i \in 0..n : i \in S
  BY <1>1, <1>2, IntervalInduction
<1>4. P(n)
  BY <1>3 DEF S
<1> QED
  BY <1>4 DEF P, Steps

\* What is removed from a list without repetitions is gone, and only that.
LEMMA RemovedAt ==
  ASSUME NEW S, NEW s \in Seq(S), IsInjective(s), NEW k \in 1..Len(s)
  PROVE  /\ RemoveAt(s, k) \in Seq(S) /\ IsInjective(RemoveAt(s, k))
         /\ ToSet(RemoveAt(s, k)) = ToSet(s) \ {s[k]}
<1> DEFINE n == Len(s)
           A == SubSeq(s, 1, k - 1)
           B == SubSeq(s, k + 1, n)
           w == A \o B
<1>1. n \in Nat /\ DOMAIN s = 1..n /\ \A i \in 1..n : s[i] \in S
  OBVIOUS
<1>2. k \in 1..n
  OBVIOUS
<1>3. RemoveAt(s, k) = w
  BY DEF RemoveAt
<1> HIDE DEF n
<1>4. /\ A \in Seq(S) /\ Len(A) = k - 1
      /\ \A i \in 1..(k - 1) : A[i] = s[i]
  <2>1. \A i \in 1..(k - 1) : s[i] \in S
    BY <1>1, <1>2
  <2>2. /\ A \in Seq(S) /\ Len(A) = IF 1 <= k - 1 THEN (k - 1) - 1 + 1 ELSE 0
        /\ \A i \in 1..((k - 1) - 1 + 1) : A[i] = s[1 + i - 1]
    BY <1>1, <1>2, <2>1, SubSeqProperties
  <2> QED
    BY <1>2, <1>1, <2>2
<1>5. /\ B \in Seq(S) /\ Len(B) = n - k
      /\ \A i \in 1..(n - k) : B[i] = s[k + i]
  <2>1. \A i \in (k + 1)..n : s[i] \in S
    BY <1>1, <1>2
  <2>2. /\ B \in Seq(S) /\ Len(B) = IF k + 1 <= n THEN n - (k + 1) + 1 ELSE 0
        /\ \A i \in 1..(n - (k + 1) + 1) : B[i] = s[(k + 1) + i - 1]
    BY <1>1, <1>2, <2>1, SubSeqProperties
  <2> QED
    BY <1>2, <1>1, <2>2
<1> HIDE DEF A, B
<1>6. /\ w \in Seq(S) /\ Len(w) = n - 1 /\ DOMAIN w = 1..(n - 1)
      /\ \A i \in 1..(n - 1) : w[i] = IF i < k THEN s[i] ELSE s[i + 1]
  <2>1. /\ w \in Seq(S) /\ Len(w) = Len(A) + Len(B)
        /\ \A i \in 1..(Len(A) + Len(B)) :
             w[i] = IF i <= Len(A) THEN A[i] ELSE B[i - Len(A)]
    BY <1>4, <1>5, ConcatProperties
  <2> HIDE DEF w
  <2>2. Len(w) = n - 1
    BY <1>1, <1>2, <1>4, <1>5, <2>1
  <2>3. ASSUME NEW i \in 1..(n - 1)
        PROVE  w[i] = IF i < k THEN s[i] ELSE s[i + 1]
    <3>1. i \in 1..(Len(A) + Len(B))
      BY <1>1, <1>2, <1>4, <1>5
    <3>2. CASE i < k
      BY <1>1, <1>2, <1>4, <2>1, <3>1, <3>2
    <3>3. CASE ~(i < k)
      <4>1. i - Len(A) \in 1..(n - k) /\ k + (i - Len(A)) = i + 1 /\ ~(i <= Len(A))
        BY <1>1, <1>2, <1>4, <3>3
      <4> QED
        BY <1>5, <2>1, <3>1, <3>3, <4>1
    <3> QED
      BY <3>2, <3>3
  <2>4. DOMAIN w = 1..Len(w)
    BY <2>1
  <2> QED
    BY <2>1, <2>2, <2>3, <2>4
<1> HIDE DEF w
<1>7. \A i, j \in 1..n : s[i] = s[j] => i = j
  BY <1>1 DEF IsInjective
<1>8. IsInjective(w)
  <2> SUFFICES ASSUME NEW i \in 1..(n - 1), NEW j \in 1..(n - 1), w[i] = w[j] PROVE i = j
    BY <1>6 DEF IsInjective
  <2> DEFINE at(x) == IF x < k THEN x ELSE x + 1
  <2>1. \A x \in 1..(n - 1) : at(x) \in 1..n /\ w[x] = s[at(x)]
    BY <1>1, <1>2, <1>6
  <2>2. at(i) = at(j)
    <3> HIDE DEF at
    <3> QED
      BY <1>7, <2>1
  <2> QED
    BY <1>2, <2>2
<1>9. \A i \in 1..(n - 1) : w[i] \in ToSet(s) \ {s[k]}
  <2> SUFFICES ASSUME NEW i \in 1..(n - 1) PROVE w[i] \in ToSet(s) \ {s[k]}
    OBVIOUS
  <2>1. i \in 1..n /\ i + 1 \in 1..n
    BY <1>1
  <2>2. \A j \in 1..n : s[j] \in ToSet(s) /\ (j # k => s[j] # s[k])
    BY <1>1, <1>2, <1>7 DEF ToSet
  <2>3. (i < k => i # k) /\ (~(i < k) => i + 1 # k)
    BY <1>2
  <2> QED
    BY <1>6, <2>1, <2>2, <2>3
<1>10. ASSUME NEW t \in ToSet(s), t # s[k] PROVE \E i \in 1..(n - 1) : w[i] = t
  <2>1. PICK j \in 1..n : s[j] = t
    BY <1>1, <1>10 DEF ToSet
  <2>2. j # k
    BY <1>2, <1>10, <2>1
  <2>3. CASE j < k
    <3>1. j \in 1..(n - 1)
      BY <1>1, <1>2, <2>3
    <3> QED
      BY <1>6, <2>1, <2>3, <3>1
  <2>4. CASE j > k
    <3>1. j - 1 \in 1..(n - 1) /\ ~(j - 1 < k) /\ (j - 1) + 1 = j
      BY <1>1, <1>2, <2>4
    <3> QED
      BY <1>6, <2>1, <3>1
  <2> QED
    BY <1>2, <2>2, <2>3, <2>4
<1>11. ToSet(w) = ToSet(s) \ {s[k]}
  <2>1. ToSet(w) = {w[i] : i \in 1..(n - 1)}
    BY <1>6 DEF ToSet
  <2> QED
    BY <1>9, <1>10, <2>1
<1> QED
  BY <1>3, <1>6, <1>8, <1>11
=============================================================================
