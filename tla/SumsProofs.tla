----------------------------- MODULE SumsProofs -----------------------------
(***************************************************************************)
(* What Sums computes, for every list of natural numbers.  The library has *)
(* induction as a fact about any formula, which no prover here can apply;  *)
(* these proofs take the least counterexample instead: a set of numbers    *)
(* has a least one, which follows from the order being well-founded.       *)
(***************************************************************************)
EXTENDS Sums, WellFoundedInduction, TLAPS

\* A set of natural numbers has a least one.
LEMMA LeastNumber ==
    ASSUME NEW T \in SUBSET Nat, T # {}
    PROVE  \E x \in T : \A y \in T : x <= y
<1> DEFINE R == OpToRel(<, Nat)
<1>1. IsWellFoundedOn(R, Nat)
  BY NatLessThanWellFounded, Zenon
<1>2. \A x, y \in Nat : x < y => <<x, y>> \in R
  BY DEF OpToRel
<1> HIDE DEF R
<1>3. PICK x \in T : \A y \in T : <<y, x>> \notin R
  BY <1>1, WFMin
<1>4. ASSUME NEW y \in T PROVE x <= y
  <2>1. x \in Nat /\ y \in Nat /\ ~(y < x)
    BY <1>2, <1>3
  <2> QED
    BY <2>1
<1> QED
  BY <1>4

\* Adding up a list of natural numbers, one after the other.
AddsUp(f, s, n) ==
    /\ f[0] = 0
    /\ \A i \in 1..n : f[i] = f[i - 1] + s[i]

\* What adds up, adds up to natural numbers.
LEMMA AddsUpType ==
    ASSUME NEW s \in Seq(Nat), NEW n \in 0..Len(s), NEW f, AddsUp(f, s, n)
    PROVE  \A i \in 0..n : f[i] \in Nat
<1> DEFINE Bad == {i \in 0..n : f[i] \notin Nat}
<1>1. ASSUME NEW k \in Bad, \A j \in Bad : k <= j
      PROVE  FALSE
  <2>1. n \in Nat /\ k \in 0..n /\ \A i \in 1..n : s[i] \in Nat
    OBVIOUS
  <2>2. k # 0
    BY <1>1 DEF AddsUp
  <2>3. k - 1 \in 0..n /\ k - 1 \notin Bad /\ k \in 1..n
    BY <1>1, <2>1, <2>2
  <2>4. f[k - 1] \in Nat /\ f[k] = f[k - 1] + s[k] /\ s[k] \in Nat
    BY <2>1, <2>3 DEF AddsUp
  <2> QED
    BY <2>4
<1> HIDE DEF Bad
<1>2. Bad \subseteq Nat
  BY DEF Bad
<1>3. Bad = {}
  BY <1>1, <1>2, LeastNumber
<1> QED
  BY <1>3 DEF Bad

\* There is a function that adds up.
LEMMA AddsUpExists ==
    ASSUME NEW s \in Seq(Nat), NEW n \in 0..Len(s)
    PROVE  \E f \in [0..n -> Nat] : AddsUp(f, s, n)
<1> DEFINE Without ==
        {k \in 0..Len(s) : ~ \E f \in [0..k -> Nat] : AddsUp(f, s, k)}
<1>1. ASSUME NEW k \in Without, \A j \in Without : k <= j
      PROVE  FALSE
  <2>0. Len(s) \in Nat /\ \A i \in 1..Len(s) : s[i] \in Nat
    OBVIOUS
  <2>1. CASE k = 0
    <3>1. AddsUp([i \in 0..0 |-> 0], s, 0)
      BY DEF AddsUp
    <3>2. [i \in 0..0 |-> 0] \in [0..0 -> Nat]
      OBVIOUS
    <3> QED
      BY <2>1, <3>1, <3>2
  <2>2. CASE k # 0
    <3>a. k \in 1..Len(s) /\ k - 1 \in 0..Len(s) /\ ~(k <= k - 1)
      BY <2>0, <2>2
    <3>1. k \in 1..Len(s) /\ k - 1 \in 0..Len(s) /\ k - 1 \notin Without
      BY <1>1, <3>a
    <3>2. PICK g \in [0..k - 1 -> Nat] : AddsUp(g, s, k - 1)
      BY <3>1
    <3> DEFINE f == [i \in 0..k |-> IF i < k THEN g[i] ELSE g[k - 1] + s[k]]
    <3>3. s[k] \in Nat /\ k \in Nat /\ k > 0
      BY <2>0, <3>1
    <3>4. f \in [0..k -> Nat]
      BY <3>2, <3>3
    <3>5. f[0] = 0
      BY <3>2, <3>3 DEF AddsUp
    <3>6. ASSUME NEW i \in 1..k PROVE f[i] = f[i - 1] + s[i]
      BY <3>2, <3>3 DEF AddsUp
    <3> QED
      BY <3>4, <3>5, <3>6 DEF AddsUp
  <2> QED
    BY <2>1, <2>2
<1>2. Without = {}
  <2> HIDE DEF Without
  <2>1. Without \subseteq Nat
    BY DEF Without
  <2> QED
    BY <1>1, <2>1, LeastNumber
<1> QED
  BY <1>2

\* Partial sums are what their recursive definition says.
LEMMA PartialSumsDef ==
    ASSUME NEW s \in Seq(Nat)
    PROVE  /\ PartialSums(s) \in [0..Len(s) -> Nat]
           /\ PartialSums(s)[0] = 0
           /\ \A i \in 1..Len(s) :
                  PartialSums(s)[i] = PartialSums(s)[i - 1] + s[i]
<1>0. Len(s) \in Nat
  OBVIOUS
<1>1. PICK f \in [0..Len(s) -> Nat] : AddsUp(f, s, Len(s))
  BY <1>0, AddsUpExists
<1> DEFINE Body(g) == [n \in 0..Len(s) |-> IF n = 0 THEN 0 ELSE g[n - 1] + s[n]]
           h == PartialSums(s)
<1>2. f = Body(f)
  BY <1>0, <1>1 DEF AddsUp
<1>3. h = CHOOSE g : g = Body(g)
  BY DEF PartialSums
<1>4. h = Body(h)
  BY <1>2, <1>3
<1> HIDE DEF h
<1>5. AddsUp(h, s, Len(s))
  BY <1>0, <1>4 DEF AddsUp
<1>6. \A i \in 0..Len(s) : h[i] \in Nat
  BY <1>0, <1>5, AddsUpType
<1> QED
  BY <1>0, <1>4, <1>5, <1>6 DEF AddsUp, h

\* Partial sums do not get smaller.
LEMMA PartialSumsGrow ==
    ASSUME NEW s \in Seq(Nat), NEW i \in 0..Len(s), NEW j \in i..Len(s)
    PROVE  PartialSums(s)[i] <= PartialSums(s)[j]
<1> DEFINE P == PartialSums(s)
           Bad == {k \in i..Len(s) : ~(P[i] <= P[k])}
<1>0. /\ Len(s) \in Nat /\ i \in Nat /\ \A k \in 1..Len(s) : s[k] \in Nat
      /\ P \in [0..Len(s) -> Nat]
      /\ \A k \in 1..Len(s) : P[k] = P[k - 1] + s[k]
  BY PartialSumsDef
<1> HIDE DEF P
<1>1. ASSUME NEW k \in Bad, \A m \in Bad : k <= m
      PROVE  FALSE
  <2>1. k # i
    BY <1>0
  <2>2. k \in 1..Len(s) /\ k - 1 \in i..Len(s) /\ ~(k <= k - 1)
    BY <1>0, <2>1
  <2>3. P[i] <= P[k - 1]
    BY <1>1, <2>2
  <2>4. i \in 0..Len(s) /\ k - 1 \in 0..Len(s)
    BY <1>0, <2>2
  <2>5. /\ P[i] \in Nat /\ P[k - 1] \in Nat /\ s[k] \in Nat
        /\ P[k] = P[k - 1] + s[k]
    BY <1>0, <2>2, <2>4
  <2> QED
    BY <1>1, <2>2, <2>3, <2>5
<1> HIDE DEF Bad
<1>2. Bad \subseteq Nat
  BY <1>0 DEF Bad
<1>3. Bad = {}
  BY <1>1, <1>2, LeastNumber
<1> QED
  BY <1>3 DEF Bad, P

\* Partial sums divide what is below the sum: each number lies in one block.
LEMMA BlockExists ==
    ASSUME NEW s \in Seq(Nat), NEW l \in Nat, l < SumOf(s)
    PROVE  \E i \in 1..Len(s) :
               PartialSums(s)[i - 1] <= l /\ l < PartialSums(s)[i]
<1> DEFINE P == PartialSums(s)
           Past == {k \in 0..Len(s) : l < P[k]}
<1>0. Len(s) \in Nat /\ P \in [0..Len(s) -> Nat] /\ P[0] = 0
  BY PartialSumsDef
<1>1. Past # {} /\ Past \subseteq Nat
  BY <1>0 DEF SumOf
<1> HIDE DEF P
<1>2. PICK k \in Past : \A m \in Past : k <= m
  <2> HIDE DEF Past
  <2> QED
    BY <1>1, LeastNumber
<1>3. k \in 0..Len(s) /\ l < P[k] /\ k # 0
  BY <1>0
<1>4. k \in 1..Len(s) /\ k - 1 \in 0..Len(s) /\ ~(k <= k - 1)
  BY <1>0, <1>3
<1>5. ~(l < P[k - 1]) /\ P[k - 1] \in Nat
  BY <1>0, <1>2, <1>4
<1> QED
  BY <1>3, <1>4, <1>5 DEF P

\* And in no other.
LEMMA BlocksAreApart ==
    ASSUME NEW s \in Seq(Nat), NEW i \in 1..Len(s), NEW j \in 1..Len(s),
           NEW l \in Nat,
           PartialSums(s)[i - 1] <= l, l < PartialSums(s)[i],
           PartialSums(s)[j - 1] <= l, l < PartialSums(s)[j]
    PROVE  i = j
<1> DEFINE P == PartialSums(s)
<1>0. Len(s) \in Nat /\ P \in [0..Len(s) -> Nat]
  BY PartialSumsDef
<1>1. ASSUME NEW a \in 1..Len(s), NEW b \in 1..Len(s), a < b
      PROVE  P[a] <= P[b - 1]
  <2>1. a \in 0..Len(s) /\ b - 1 \in a..Len(s)
    BY <1>0, <1>1
  <2> QED
    BY <2>1, PartialSumsGrow
<1>2. /\ i \in 0..Len(s) /\ i - 1 \in 0..Len(s)
      /\ j \in 0..Len(s) /\ j - 1 \in 0..Len(s)
  BY <1>0
<1> HIDE DEF P
<1>3. /\ P[i - 1] <= l /\ l < P[i] /\ P[j - 1] <= l /\ l < P[j]
  BY DEF P
<1>4. ~(i < j) /\ ~(j < i)
  <2>1. /\ P[i] \in Nat /\ P[j] \in Nat /\ P[i - 1] \in Nat
        /\ P[j - 1] \in Nat
    BY <1>0, <1>2
  <2> QED
    BY <1>1, <1>3, <2>1
<1> QED
  BY <1>0, <1>4
=============================================================================
