----------------------------- MODULE Induction -----------------------------
(***************************************************************************)
(* Induction on bounded natural numbers, from the fact that a set of       *)
(* natural numbers has a least element, in a form that takes a set and not *)
(* an operator: a property holds of 0 .. n when the set of the numbers it  *)
(* holds of contains 0 and is closed under adding 1.  The proofs use it    *)
(* for the loops of the code, which the models write as functions defined  *)
(* by recursion on the index of the iteration.                             *)
(***************************************************************************)
EXTENDS Integers, WellFoundedInduction, TLAPS

\* A set of natural numbers that is not empty has a least element.
LEMMA LeastNumber ==
  ASSUME NEW T, T \subseteq Nat, T # {}
  PROVE  \E x \in T : \A y \in T : x <= y
<1>1. IsWellFoundedOn(OpToRel(<,Nat), Nat)
  BY NatLessThanWellFounded
<1>2. PICK x \in T : \A y \in T : <<y, x>> \notin OpToRel(<,Nat)
  BY <1>1, WFMin
<1>3. \A y \in T : ~(y < x)
  BY <1>2 DEF OpToRel
<1> QED
  BY <1>3

\* Induction: what holds before a loop and is kept by each iteration holds after it.
LEMMA UpTo ==
  ASSUME NEW n \in Nat, NEW S, 0 \in S, \A i \in 0 .. n - 1 : i \in S => i + 1 \in S
  PROVE  0 .. n \subseteq S
<1> SUFFICES ASSUME ~(0 .. n \subseteq S) PROVE FALSE
  OBVIOUS
<1> DEFINE T == (0 .. n) \ S
<1>1. PICK x \in T : \A y \in T : x <= y
  <2>1. T \subseteq Nat /\ T # {}
    OBVIOUS
  <2> HIDE DEF T
  <2> QED
    BY <2>1, LeastNumber
<1>2. x # 0 /\ x - 1 \in 0 .. n - 1 /\ x - 1 \in S
  BY <1>1
<1> QED
  BY <1>1, <1>2

\* The bodies of the iterations 1 .. n of a loop over values of S.
Bodies(n, S) == [1 .. n -> [S -> S]]

\* g gives the value before the loop and after each iteration.
Runs(g, n, S, a, F) ==
  g \in [0 .. n -> S] /\ g[0] = a /\ \A i \in 1 .. n : g[i] = F[i][g[i - 1]]

\* A loop of n iterations has a value after each of them: the recursive definition
\* of these values has a solution.
LEMMA Recursion ==
  ASSUME NEW n \in Nat, NEW S, NEW a \in S, NEW F \in Bodies(n, S)
  PROVE  \E g : Runs(g, n, S, a, F)
<1> DEFINE Eq(g, m) == g[0] = a /\ \A i \in 1 .. m : g[i] = F[i][g[i - 1]]
           D == {m \in 0 .. n : \E g \in [0 .. m -> S] : Eq(g, m)}
<1>1. 0 \in D
  <2>1. [i \in 0 .. 0 |-> a] \in [0 .. 0 -> S] /\ Eq([i \in 0 .. 0 |-> a], 0)
    OBVIOUS
  <2> HIDE DEF Eq
  <2> QED
    BY <2>1
<1>2. ASSUME NEW m \in 0 .. n - 1, m \in D PROVE m + 1 \in D
  <2>1. PICK g \in [0 .. m -> S] : Eq(g, m)
    BY <1>2
  <2> DEFINE h == [i \in 0 .. m + 1 |-> IF i <= m THEN g[i] ELSE F[m + 1][g[m]]]
  <2>2. h \in [0 .. m + 1 -> S]
    <3>1. F[m + 1] \in [S -> S] /\ g[m] \in S
      BY <1>2 DEF Bodies
    <3> QED
      BY <3>1
  <2>3. ASSUME NEW i \in 1 .. m + 1 PROVE h[i] = F[i][h[i - 1]]
    <3>1. CASE i \in 1 .. m
      <4>1. h[i] = g[i] /\ h[i - 1] = g[i - 1] /\ g[i] = F[i][g[i - 1]]
        BY <2>1, <3>1
      <4> QED
        BY <4>1
    <3>2. CASE i = m + 1
      <4>1. h[i] = F[m + 1][g[m]] /\ h[i - 1] = g[m]
        BY <3>2
      <4> QED
        BY <3>2, <4>1
    <3> QED
      BY <3>1, <3>2
  <2>4. h[0] = a
    BY <2>1
  <2> HIDE DEF h
  <2>5. Eq(h, m + 1)
    BY <2>3, <2>4
  <2> HIDE DEF Eq
  <2> QED
    BY <2>2, <2>5
<1>3. n \in D
  <2> HIDE DEF D
  <2>1. 0 .. n \subseteq D
    BY <1>1, <1>2, UpTo
  <2> QED
    BY <2>1
<1> QED
  BY <1>3 DEF Runs
=============================================================================
