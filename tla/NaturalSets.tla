---------------------------- MODULE NaturalSets ----------------------------
(* A fact about Min of the community modules that the proofs need wherever  *)
(* the code takes sources or patches in their order.                        *)
EXTENDS Naturals, FiniteSetsExt, WellFoundedInduction, TLAPS

\* Every set of naturals that is not empty holds its minimum: `sorted`
\* always has a first element.
LEMMA MinIsIn ==
  ASSUME NEW S \in SUBSET Nat, S # {}
  PROVE  Min(S) \in S
<1> DEFINE R == {ss \in Nat \X Nat : ss[1] < ss[2]}
<1>1. R = OpToRel(<, Nat) BY Zenon DEF OpToRel
<1>2. IsWellFoundedOn(R, Nat) BY <1>1, NatLessThanWellFounded, Zenon
<1>3. \A x, y \in Nat : <<y, x>> \notin R => x <= y OBVIOUS
<1> HIDE DEF R
<1>4. PICK x \in S : \A y \in S : <<y, x>> \notin R BY <1>2, WFMin
<1>5. \A y \in S : x <= y BY <1>3, <1>4
<1> QED BY <1>5 DEF Min
=============================================================================
