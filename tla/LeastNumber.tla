------------------------------ MODULE LeastNumber ------------------------------
(* Facts about sets of numbers that the proofs of several components cite. *)
EXTENDS Naturals, FiniteSets, FiniteSetTheorems, WellFoundedInduction, TLAPS

\* A set of naturals that is not empty has a least element.
LEMMA Least ==
  ASSUME NEW T \in SUBSET Nat, T # {}
  PROVE  \E x \in T : \A y \in T : x <= y
<1> DEFINE R == {ss \in Nat \X Nat : ss[1] < ss[2]}
<1>1. IsWellFoundedOn(R, Nat)
  BY NatLessThanWellFounded, Zenon DEF OpToRel
<1>2. T \subseteq Nat
  OBVIOUS
<1>3. \E x \in T : \A y \in T : ~ (<<y, x>> \in R)
  <2> HIDE DEF R
  <2> QED BY <1>1, <1>2, WFMin, Zenon
<1>4. PICK x \in T : \A y \in T : ~ (<<y, x>> \in R)
  BY <1>3
<1>5. ASSUME NEW y \in T PROVE x <= y
  <2>1. x \in Nat /\ y \in Nat
    OBVIOUS
  <2>2. <<y, x>> \notin R
    BY <1>4
  <2> QED BY <2>1, <2>2
<1> QED BY <1>5

\* A finite set is smaller without the members that one of its own is among.
LEMMA SmallerWithout ==
  ASSUME NEW S, IsFiniteSet(S), NEW D, NEW x \in S \cap D
  PROVE  IsFiniteSet(S \ D) /\ Cardinality(S \ D) <= Cardinality(S) - 1
<1>1. IsFiniteSet(S \ {x}) /\ Cardinality(S \ {x}) = Cardinality(S) - 1
  BY FS_RemoveElement
<1>2. S \ D \in SUBSET (S \ {x})
  OBVIOUS
<1> QED BY <1>1, <1>2, FS_Subset
==============================================================================
