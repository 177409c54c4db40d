----------------------------- MODULE LeastNumber -----------------------------
(***************************************************************************)
(* The principle that the proofs about recursive functions of the models   *)
(* use in place of an induction: the least counterexample.                 *)
(***************************************************************************)
EXTENDS Integers, FiniteSetTheorems, WellFoundedInduction, TLAPS

\* A set of numbers that is not empty has a least one: in place of an induction, the
\* least counterexample.
LEMMA LeastNat == ASSUME NEW T \in SUBSET Nat, T # {} PROVE \E m \in T : \A k \in T : m <= k
<1> DEFINE I == {1..n : n \in T}
           R == StrictSubsetOrdering(Nat)
<1>1. \A n \in T : IsFiniteSet(1..n)
  BY FS_Interval
<1>2. I \subseteq FiniteSubsetsOf(Nat) /\ I # {}
  <2>1. ASSUME NEW n \in T PROVE 1..n \in FiniteSubsetsOf(Nat)
    <3>1. 1..n \in SUBSET Nat
      OBVIOUS
    <3>2. QED
      BY <1>1, <3>1 DEF FiniteSubsetsOf
  <2>2. QED
    BY <2>1
<1>3. \E x \in I : \A y \in I : ~(<<y, x>> \in R)
  <2> HIDE DEF I
  <2>1. QED
    BY <1>2, WFMin, FS_StrictSubsetOrderingWellFounded
<1>4. PICK m \in T : \A k \in T : ~(<<1..k, 1..m>> \in R)
  <2> HIDE DEF R
  <2>1. QED
    BY <1>3
<1>5. ASSUME NEW k \in T PROVE m <= k
  <2>1. ~(1..k \subseteq 1..m /\ 1..k # 1..m)
    <3>1. 1..k \in SUBSET Nat /\ 1..m \in SUBSET Nat
      OBVIOUS
    <3>2. <<1..k, 1..m>> \in (SUBSET Nat) \X (SUBSET Nat)
      BY <3>1
    <3>3. <<1..k, 1..m>>[1] = 1..k /\ <<1..k, 1..m>>[2] = 1..m
      OBVIOUS
    <3>4. QED
      BY <1>4, <3>2, <3>3 DEF StrictSubsetOrdering
  <2>2. ASSUME k < m PROVE FALSE
    <3>1. m \in 1..m /\ m \notin 1..k
      BY <2>2
    <3>2. 1..k \subseteq 1..m
      BY <2>2
    <3>3. QED
      BY <2>1, <3>1, <3>2
  <2>3. QED
    BY <2>2
<1>6. QED
  BY <1>5
=============================================================================
