----------------------------- MODULE Induction -----------------------------
(***************************************************************************)
(* Induction over the naturals, stated with sets and functions in place of *)
(* operators, for the recursive functions of the other modules.            *)
(***************************************************************************)
EXTENDS Integers, WellFoundedInduction, TLAPS

\* Every set of naturals that is not empty has a least element.
LEMMA LeastNatural ==
    ASSUME NEW T \in SUBSET Nat, T # {}
    PROVE  \E n \in T : \A k \in T : n <= k
  <1>1. PICK R : IsWellFoundedOn(R, Nat) /\ \A x, y \in Nat : x < y => <<x, y>> \in R
    <2>1. \A x, y \in Nat : x < y => <<x, y>> \in OpToRel(<, Nat)
      BY DEF OpToRel
    <2> QED
      BY <2>1, NatLessThanWellFounded
  <1>2. IsWellFoundedOn(R, Nat) /\ T \subseteq Nat /\ T # {}
    BY <1>1
  <1>3. \E n \in T : \A k \in T : ~(<<k, n>> \in R)
    BY <1>2, WFMin, Zenon
  <1>4. PICK n \in T : \A k \in T : ~(<<k, n>> \in R)
    BY <1>3
  <1>5. \A k \in T : ~(k < n)
    BY <1>1, <1>4
  <1> QED
    BY <1>5

\* A set of naturals that holds zero and every successor is all of them.
LEMMA AllNaturals ==
    ASSUME NEW A, 0 \in A, \A n \in Nat : n \in A => n + 1 \in A
    PROVE  Nat \subseteq A
  <1> SUFFICES ASSUME NEW m \in Nat, m \notin A PROVE FALSE
    OBVIOUS
  <1>1. PICK n \in Nat \ A : \A k \in Nat \ A : n <= k
    <2>1. Nat \ A \in SUBSET Nat /\ Nat \ A # {}
      OBVIOUS
    <2> QED
      BY <2>1, LeastNatural
  <1>2. n # 0 /\ n - 1 \in Nat
    OBVIOUS
  <1>3. n - 1 \in A
    BY <1>1, <1>2
  <1> QED
    BY <1>1, <1>2, <1>3

\* The same with the naturals before each one.
LEMMA AllNaturalsStrong ==
    ASSUME NEW A, \A n \in Nat : (\A k \in 0 .. n - 1 : k \in A) => n \in A
    PROVE  Nat \subseteq A
  <1> SUFFICES ASSUME NEW m \in Nat, m \notin A PROVE FALSE
    OBVIOUS
  <1>1. PICK n \in Nat \ A : \A k \in Nat \ A : n <= k
    <2>1. Nat \ A \in SUBSET Nat /\ Nat \ A # {}
      OBVIOUS
    <2> QED
      BY <2>1, LeastNatural
  <1>2. \A k \in 0 .. n - 1 : k \in A
    BY <1>1
  <1> QED
    BY <1>1, <1>2

\* f starts with a and goes on by the steps.
Iterates(f, a, step, n) == f[0] = a /\ \A i \in 1 .. n : f[i] = step[i][f[i - 1]]

\* A function can be defined by its value at zero and a step.
LEMMA Recursion ==
    ASSUME NEW S, NEW a \in S, NEW step \in [Nat -> [S -> S]], NEW n \in Nat
    PROVE  \E f \in [0 .. n -> S] : Iterates(f, a, step, n)
  <1> DEFINE Fits(f, m) == f[0] = a /\ \A i \in 1 .. m : f[i] = step[i][f[i - 1]]
             A == {m \in Nat : \E f \in [0 .. m -> S] : Fits(f, m)}
  <1>1. 0 \in A
    <2>1. [i \in 0 .. 0 |-> a] \in [0 .. 0 -> S] /\ Fits([i \in 0 .. 0 |-> a], 0)
      OBVIOUS
    <2> QED
      BY <2>1
  <1>2. ASSUME NEW m \in Nat, m \in A PROVE m + 1 \in A
    <2>1. PICK f \in [0 .. m -> S] : Fits(f, m)
      BY <1>2
    <2> DEFINE g == [i \in 0 .. m + 1 |-> IF i = m + 1 THEN step[m + 1][f[m]] ELSE f[i]]
    <2>2. g \in [0 .. m + 1 -> S]
      BY <2>1
    <2>3. \A i \in 0 .. m : g[i] = f[i]
      OBVIOUS
    <2>4. g[m + 1] = step[m + 1][g[m]]
      BY <2>3
    <2>5. ASSUME NEW i \in 1 .. m PROVE g[i] = step[i][g[i - 1]]
      BY <2>1, <2>3
    <2>6. Fits(g, m + 1)
      <3> HIDE DEF g
      <3> QED
        BY <2>1, <2>3, <2>4, <2>5
    <2> HIDE DEF g, Fits
    <2> QED
      BY <2>2, <2>6
  <1> HIDE DEF A
  <1>3. n \in A
    BY <1>1, <1>2, AllNaturals
  <1> QED
    BY <1>3 DEF A, Iterates
=============================================================================
