--------------------------- MODULE DataInduction ---------------------------
(***************************************************************************)
(* Induction over the natural numbers in a form that first-order provers   *)
(* can use: the induction theorems of the library take a predicate, these  *)
(* take the set of the numbers that have it.                               *)
(***************************************************************************)
EXTENDS Integers, FiniteSets, FiniteSetTheorems, WellFoundedInduction, TLAPS

(* A set of natural numbers has a least element: of the intervals 0 .. n   *)
(* that end in the set, one contains no other.                             *)
LEMMA LeastNatural ==
  ASSUME NEW A \in SUBSET Nat, A # {}
  PROVE  \E m \in A : \A k \in A : m <= k
<1> DEFINE T == {0 .. n : n \in A}
<1>1. ASSUME NEW n \in A  PROVE 0 .. n \in FiniteSubsetsOf(Nat)
  <2>1. IsFiniteSet(0 .. n)
    BY FS_Interval
  <2> QED  BY <2>1 DEF FiniteSubsetsOf
<1>2. T \subseteq FiniteSubsetsOf(Nat) /\ T # {}
  BY <1>1
<1>3. IsWellFoundedOn(StrictSubsetOrdering(Nat), FiniteSubsetsOf(Nat))
  BY FS_StrictSubsetOrderingWellFounded
<1> HIDE DEF T
<1>4. PICK x \in T : \A y \in T : <<y, x>> \notin StrictSubsetOrdering(Nat)
  BY <1>2, <1>3, WFMin
<1>5. PICK m \in A : x = 0 .. m
  BY DEF T
<1>6. ASSUME NEW k \in A, k < m  PROVE FALSE
  <2>1. 0 .. k \in T
    BY DEF T
  <2>2. m \in 0 .. m /\ m \notin 0 .. k
    BY <1>6
  <2>3. <<0 .. k, 0 .. m>> \in StrictSubsetOrdering(Nat)
    BY <1>6, <2>2 DEF StrictSubsetOrdering
  <2> QED  BY <1>4, <1>5, <2>1, <2>3
<1> QED  BY <1>6

LEMMA SetInduction ==
  ASSUME NEW A, 0 \in A, \A n \in Nat : n \in A => n + 1 \in A
  PROVE  Nat \subseteq A
<1> SUFFICES ASSUME Nat \ A # {}  PROVE FALSE
  OBVIOUS
<1>1. PICK m \in Nat \ A : \A k \in Nat \ A : m <= k
  BY LeastNatural
<1>2. m # 0 /\ m - 1 \in Nat /\ m - 1 \in A
  BY <1>1
<1>3. (m - 1) + 1 = m
  OBVIOUS
<1> QED  BY <1>2, <1>3
=============================================================================
