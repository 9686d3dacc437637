----------------------------- MODULE Induction -----------------------------
(***************************************************************************)
(* Induction over the natural numbers for a set of numbers instead of a    *)
(* predicate.  The provers cannot instantiate a theorem with an operator   *)
(* parameter; a set is a value like any other, so what a recursive         *)
(* function computes can be proved with these.                             *)
(***************************************************************************)
EXTENDS Integers, WellFoundedInduction, TLAPS

LEMMA LessIsWellFounded ==
  IsWellFoundedOn({p \in Nat \X Nat : p[1] < p[2]}, Nat)
BY NatLessThanWellFounded DEF OpToRel

(* A set of natural numbers that is not empty has a least element.         *)
LEMMA LeastNatural ==
  ASSUME NEW T \in SUBSET Nat, T # {}
  PROVE  \E x \in T : \A y \in T : x <= y
<1> DEFINE R == {p \in Nat \X Nat : p[1] < p[2]}
<1>1. PICK x \in T : \A y \in T : <<y, x>> \notin R
  <2>1. IsWellFoundedOn(R, Nat)
    BY LessIsWellFounded
  <2> HIDE DEF R
  <2> QED BY <2>1, WFMin
<1>2. ASSUME NEW y \in T PROVE x <= y
  <2>1. <<y, x>> \notin R
    BY <1>1
  <2> QED BY <2>1
<1> QED BY <1>2

(* What holds of 0, and of n + 1 when it holds of n, holds of all numbers. *)
LEMMA SetInduction ==
  ASSUME NEW I, 0 \in I, \A n \in Nat : n \in I => n + 1 \in I
  PROVE  \A n \in Nat : n \in I
<1> DEFINE T == {n \in Nat : n \notin I}
<1>1. SUFFICES ASSUME T # {} PROVE FALSE
  OBVIOUS
<1>2. PICK x \in T : \A y \in T : x <= y
  BY <1>1, LeastNatural
<1>3. x # 0 /\ x - 1 \in Nat /\ x - 1 \in I
  BY <1>2
<1> QED BY <1>3

(* The same up to a bound.                                                 *)
LEMMA BoundedInduction ==
  ASSUME NEW m \in Nat, NEW I, 0 \in I,
         \A n \in Nat : n < m /\ n \in I => n + 1 \in I
  PROVE  \A n \in 0 .. m : n \in I
<1> DEFINE J == {n \in Nat : n <= m => n \in I}
<1>1. 0 \in J
  OBVIOUS
<1>2. \A n \in Nat : n \in J => n + 1 \in J
  OBVIOUS
<1>3. \A n \in Nat : n \in J
  <2> HIDE DEF J
  <2> QED BY <1>1, <1>2, SetInduction
<1> QED BY <1>3
=============================================================================
