------------------------------ MODULE NatFacts ------------------------------
(***************************************************************************)
(* Induction and recursion on natural numbers, for the proofs of the other *)
(* modules.  Induction is stated with a set instead of a predicate, so     *)
(* that a proof can cite it; recursion for the function with the value     *)
(* Base at 0 and Step(n, value at n - 1) at n, the parameters of this      *)
(* module: a proof about a recursive function instantiates it with the     *)
(* base and the step of that function.                                     *)
(***************************************************************************)
EXTENDS Integers, WellFoundedInduction, TLAPS

CONSTANTS Base, Step(_, _)

Rec == CHOOSE f : f = [n \in Nat |-> IF n = 0 THEN Base ELSE Step(n, f[n - 1])]

\* A set of natural numbers has a least element.
LEMMA LeastNat ==
    ASSUME NEW T \in SUBSET Nat, T # {}
    PROVE  \E n \in T : \A m \in T : n <= m
  <1>1. PICK x \in T : \A y \in T : ~(<<y, x>> \in OpToRel(<, Nat))
    BY NatLessThanWellFounded, WFMin
  <1>2. \A y \in T : ~(y < x)
    BY <1>1 DEF OpToRel
  <1> QED
    BY <1>2

\* Induction, on a set instead of a predicate.
LEMMA AllNat ==
    ASSUME NEW T \in SUBSET Nat, 0 \in T, \A n \in T : n + 1 \in T
    PROVE  T = Nat
  <1> SUFFICES ASSUME Nat \ T # {} PROVE FALSE
    OBVIOUS
  <1>1. PICK n \in Nat \ T : \A m \in Nat \ T : n <= m
    <2>1. Nat \ T \in SUBSET Nat
      OBVIOUS
    <2> QED
      BY <2>1, LeastNat
  <1>2. n # 0 /\ n - 1 \in Nat /\ n = (n - 1) + 1
    BY <1>1
  <1>3. n - 1 \in T
    BY <1>1, <1>2
  <1> QED
    BY <1>1, <1>2, <1>3

\* The recursion has a solution, which Rec therefore is.
LEMMA Unfold ==
    \A n \in Nat : Rec[n] = IF n = 0 THEN Base ELSE Step(n, Rec[n - 1])
  <1> DEFINE Upto(k, g) == g = [n \in 0 .. k |-> IF n = 0 THEN Base ELSE Step(n, g[n - 1])]
  <1>1. \A k \in Nat : \E g : Upto(k, g)
    <2> DEFINE T == {k \in Nat : \E g : Upto(k, g)}
    <2>1. 0 \in T
      <3>1. Upto(0, [n \in 0 .. 0 |-> Base])
        OBVIOUS
      <3> QED
        BY <3>1
    <2>2. ASSUME NEW k \in T PROVE k + 1 \in T
      <3>1. PICK g : Upto(k, g)
        OBVIOUS
      <3> DEFINE h == [n \in 0 .. k + 1 |-> IF n = k + 1 THEN Step(n, g[k]) ELSE g[n]]
      <3>2. ASSUME NEW n \in 0 .. k + 1 PROVE h[n] = IF n = 0 THEN Base ELSE Step(n, h[n - 1])
        <4>1. CASE n = k + 1
          BY <3>1, <4>1
        <4>2. CASE n # k + 1
          BY <3>1, <4>2
        <4> QED
          BY <4>1, <4>2
      <3>3. h = [n \in 0 .. k + 1 |-> h[n]]
        OBVIOUS
      <3>4. Upto(k + 1, h)
        <4> HIDE DEF h
        <4> QED
          BY <3>2, <3>3
      <3> HIDE DEF Upto, h
      <3> QED
        BY <3>4
    <2> HIDE DEF Upto
    <2>3. T \in SUBSET Nat
      OBVIOUS
    <2> HIDE DEF T
    <2>4. T = Nat
      BY <2>1, <2>2, <2>3, AllNat
    <2> QED
      BY <2>4 DEF T
  <1>2. ASSUME NEW a \in Nat, NEW b \in Nat, NEW g, NEW h, Upto(a, g), Upto(b, h), a <= b
        PROVE  \A n \in 0 .. a : g[n] = h[n]
    <2> DEFINE T == {n \in Nat : n <= a => g[n] = h[n]}
    <2>1. 0 \in T
      BY <1>2
    <2>2. ASSUME NEW n \in T PROVE n + 1 \in T
      BY <1>2
    <2>3. T = Nat
      <3>1. T \in SUBSET Nat
        OBVIOUS
      <3> HIDE DEF T
      <3> QED
        BY <2>1, <2>2, <3>1, AllNat
    <2> QED
      BY <2>3
  <1> DEFINE A(k) == CHOOSE g : Upto(k, g)
             F == [n \in Nat |-> A(n)[n]]
  <1>3. \A k \in Nat : Upto(k, A(k))
    <2> HIDE DEF Upto
    <2> QED
      BY <1>1
  <1>4. \A k \in Nat : \A n \in 0 .. k :
           A(k)[n] = IF n = 0 THEN Base ELSE Step(n, A(k)[n - 1])
    <2> TAKE k \in Nat
    <2>1. Upto(k, A(k))
      BY <1>3
    <2> HIDE DEF A
    <2> QED
      BY <2>1
  <1>5. ASSUME NEW n \in Nat, n # 0 PROVE F[n] = Step(n, F[n - 1])
    <2>1. A(n)[n] = Step(n, A(n)[n - 1])
      <3> HIDE DEF A
      <3> QED
        BY <1>4, <1>5
    <2>2. A(n)[n - 1] = A(n - 1)[n - 1]
      <3>1. n - 1 \in Nat /\ n - 1 <= n /\ n - 1 \in 0 .. n - 1
        BY <1>5
      <3>2. Upto(n, A(n)) /\ Upto(n - 1, A(n - 1))
        BY <1>3, <3>1
      <3> HIDE DEF Upto, A
      <3> QED
        BY <1>2, <3>1, <3>2
    <2>3. n - 1 \in Nat
      BY <1>5
    <2>4. F[n] = A(n)[n] /\ F[n - 1] = A(n - 1)[n - 1]
      <3> HIDE DEF A
      <3> QED
        BY <2>3
    <2> HIDE DEF A, F
    <2> QED
      BY <2>1, <2>2, <2>4
  <1>6. F[0] = Base
    <2> HIDE DEF A
    <2> QED
      BY <1>4
  <1>7. F = [n \in Nat |-> IF n = 0 THEN Base ELSE Step(n, F[n - 1])]
    <2>1. F = [n \in Nat |-> F[n]]
      OBVIOUS
    <2> HIDE DEF F
    <2>2. \A n \in Nat : F[n] = IF n = 0 THEN Base ELSE Step(n, F[n - 1])
      BY <1>5, <1>6
    <2> QED
      BY <2>1, <2>2
  <1>8. Rec = [n \in Nat |-> IF n = 0 THEN Base ELSE Step(n, Rec[n - 1])]
    <2> HIDE DEF F
    <2> QED
      BY <1>7, Zenon DEF Rec
  <1> HIDE DEF F
  <1> QED
    BY <1>8
=============================================================================
