---------------------------- MODULE SetInduction ----------------------------
(***************************************************************************)
(* Induction over the natural numbers for a set instead of a predicate:    *)
(* what the proofs about recursive functions and sequences rest on.        *)
(***************************************************************************)
EXTENDS WellFoundedInduction, TLAPS

\* There is a well-founded relation that orders the naturals by size.
LEMMA NatOrder ==
  \E R : IsWellFoundedOn(R, Nat) /\ \A x, y \in Nat : <<x, y>> \in R <=> x < y
<1>1. IsWellFoundedOn({ss \in Nat \X Nat : ss[1] < ss[2]}, Nat)
  BY NatLessThanWellFounded DEF OpToRel
<1>2. \A x, y \in Nat : <<x, y>> \in {ss \in Nat \X Nat : ss[1] < ss[2]} <=> x < y
  OBVIOUS
<1> QED
  BY <1>1, <1>2

\* A set of naturals that is not empty has a least element.
LEMMA LeastElement ==
  ASSUME NEW T \in SUBSET Nat, T # {}
  PROVE  \E n \in T : \A m \in T : n <= m
<1>1. PICK R : IsWellFoundedOn(R, Nat) /\ \A x, y \in Nat : <<x, y>> \in R <=> x < y
  BY NatOrder
<1>2. IsWellFoundedOn(R, Nat) /\ T \subseteq Nat
  BY <1>1
<1>3. PICK n \in T : \A m \in T : ~ (<<m, n>> \in R)
  BY <1>2, WFMin
<1>4. ASSUME NEW m \in T PROVE n <= m
  <2>1. n \in Nat /\ m \in Nat
    BY <1>2
  <2>2. ~ (m < n)
    BY <1>1, <1>3, <2>1
  <2> QED
    BY <2>1, <2>2
<1> QED
  BY <1>4

\* A set that has 0 in it, and with each natural the next one, has them all.
LEMMA SetInduction ==
  ASSUME NEW T, 0 \in T, \A n \in Nat : n \in T => n + 1 \in T
  PROVE  Nat \subseteq T
<1> SUFFICES ASSUME NEW k \in Nat, k \notin T PROVE FALSE
  OBVIOUS
<1> DEFINE Missing == {n \in Nat : n \notin T}
<1>1. Missing \in SUBSET Nat /\ Missing # {}
  OBVIOUS
<1>2. PICK n \in Missing : \A m \in Missing : n <= m
  <2> HIDE DEF Missing
  <2> QED
    BY <1>1, LeastElement
<1>3. n - 1 \in Nat /\ n - 1 \in T
  BY <1>2
<1> QED
  BY <1>2, <1>3

\* A set of naturals that is not empty and has a bound has a greatest element.
LEMMA GreatestElement ==
  ASSUME NEW m \in Nat, NEW T \in SUBSET (0..m), T # {}
  PROVE  \E n \in T : \A k \in T : k <= n
<1> DEFINE Rest == {m - k : k \in T}
<1>1. Rest \in SUBSET Nat /\ Rest # {}
  <2>1. \A k \in T : m - k \in Nat
    OBVIOUS
  <2>2. PICK k \in T : TRUE
    OBVIOUS
  <2>3. m - k \in Rest
    OBVIOUS
  <2> QED
    BY <2>1, <2>3
<1>2. PICK r \in Rest : \A q \in Rest : r <= q
  <2> HIDE DEF Rest
  <2> QED
    BY <1>1, LeastElement
<1>3. PICK n \in T : r = m - n
  BY <1>2
<1>4. ASSUME NEW k \in T PROVE k <= n
  <2>1. r <= m - k
    BY <1>2
  <2>2. n \in 0..m /\ k \in 0..m
    OBVIOUS
  <2> QED
    BY <1>3, <2>1, <2>2
<1> QED
  BY <1>4

\* What is defined by what it is for the number before exists.
Stepwise(S, base, m, step) == base \in S /\ m \in Nat /\ step \in [1..m -> [S -> S]]
Follows(f, base, m, step) == f = [n \in 0..m |-> IF n = 0 THEN base ELSE step[n][f[n - 1]]]

LEMMA Recursion ==
  ASSUME NEW S, NEW base, NEW m, NEW step, Stepwise(S, base, m, step)
  PROVE  \E f \in [0..m -> S] : Follows(f, base, m, step)
<1> USE DEF Stepwise
<1> DEFINE Defined(k, f) == /\ f \in [0..k -> S]
                            /\ f = [n \in 0..k |-> IF n = 0 THEN base ELSE step[n][f[n - 1]]]
           T == {k \in Nat : k <= m => \E f : Defined(k, f)}
<1>1. 0 \in T
  <2> DEFINE f == [n \in 0..0 |-> base]
  <2>1. Defined(0, f)
    OBVIOUS
  <2> QED
    BY <2>1
<1>2. ASSUME NEW k \in Nat, k \in T PROVE k + 1 \in T
  <2> SUFFICES ASSUME k + 1 <= m PROVE \E f : Defined(k + 1, f)
    OBVIOUS
  <2>1. PICK g : Defined(k, g)
    <3>1. k <= m
      OBVIOUS
    <3> QED
      BY <1>2, <3>1
  <2> DEFINE next == step[k + 1][g[k]]
             f == [n \in 0..k + 1 |-> IF n = k + 1 THEN next ELSE g[n]]
  <2>2. next \in S
    <3>1. k + 1 \in 1..m /\ k \in 0..k
      OBVIOUS
    <3>2. step[k + 1] \in [S -> S] /\ g[k] \in S
      BY <2>1, <3>1
    <3> QED
      BY <3>2
  <2>3. ASSUME NEW n \in 0..k + 1
        PROVE  f[n] \in S /\ f[n] = IF n = 0 THEN base ELSE step[n][f[n - 1]]
    <3>1. CASE n = k + 1
      <4>1. f[n] = next /\ f[n - 1] = g[k] /\ n # 0
        BY <3>1
      <4> HIDE DEF f
      <4> QED
        BY <2>2, <3>1, <4>1
    <3>2. CASE n # k + 1
      <4>1. n \in 0..k
        BY <3>2
      <4>2. f[n] = g[n] /\ (n # 0 => f[n - 1] = g[n - 1])
        BY <3>2, <4>1
      <4>3. g[n] \in S /\ g[n] = IF n = 0 THEN base ELSE step[n][g[n - 1]]
        BY <2>1, <4>1
      <4> HIDE DEF f
      <4> QED
        BY <4>2, <4>3
    <3> QED
      BY <3>1, <3>2
  <2>4. f = [n \in 0..k + 1 |-> f[n]]
    OBVIOUS
  <2> HIDE DEF f
  <2>5. Defined(k + 1, f)
    BY <2>3, <2>4
  <2> QED
    BY <2>5
<1> HIDE DEF T
<1>3. m \in T
  BY <1>1, <1>2, SetInduction
<1> QED
  BY <1>3 DEF T, Follows
=============================================================================
