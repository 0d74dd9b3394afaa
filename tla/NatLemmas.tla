----------------------------- MODULE NatLemmas -----------------------------
(***************************************************************************)
(* The least number principle, which stands in for induction in the proofs *)
(* of this project.                                                        *)
(***************************************************************************)
EXTENDS Integers, SequenceTheorems, WellFoundedInduction, TLAPS

(* A nonempty set of natural numbers has a least element.  Used wherever   *)
(* the code searches for the nearest or the first of several blocks.       *)
LEMMA LeastNumber ==
  ASSUME NEW S \in SUBSET Nat, S # {}
  PROVE  \E n \in S : \A m \in S : n <= m
<1> DEFINE R == OpToRel(<, Nat)
<1>1. IsWellFoundedOn(R, Nat)
  BY NatLessThanWellFounded
<1>2. PICK n \in S : \A m \in S : ~ (<<m, n>> \in R)
  BY <1>1, WFMin
<1>3. \A m \in S : ~ (m < n)
  BY <1>2 DEF OpToRel
<1> QED BY <1>3
=============================================================================
