------------------------------ MODULE NatLemmas ------------------------------
(***************************************************************************)
(* Facts about the natural numbers that the proofs of several components  *)
(* use.  The least-element lemma stands in for induction: the library's   *)
(* induction theorems take an operator parameter, which the installed     *)
(* provers cannot instantiate, so a proof by induction picks the least    *)
(* counterexample instead.                                                 *)
(***************************************************************************)
EXTENDS WellFoundedInduction, TLAPS

(***************************************************************************)
(* Every non-empty set of naturals has a least element (from the          *)
(* well-foundedness of < on Nat).                                          *)
(***************************************************************************)
LEMMA LeastExists ==
    ASSUME NEW S \in SUBSET Nat, S # {}
    PROVE  \E m \in S : \A j \in S : m <= j
<1>. DEFINE R == OpToRel(<, Nat)
<1>1. \E x \in S : \A y \in S : ~(<<y, x>> \in R)
  BY NatLessThanWellFounded, WFMin
<1>2. \A x, y \in Nat : y < x => <<y, x>> \in R
  BY Zenon DEF OpToRel
<1>. HIDE DEF R
<1>3. PICK x \in S : \A y \in S : ~(<<y, x>> \in R)
  BY <1>1
<1>4. ASSUME NEW y \in S PROVE x <= y
  <2>1. ~(y < x)
    BY <1>2, <1>3
  <2>. QED  BY <2>1
<1>. QED  BY <1>4
=============================================================================
