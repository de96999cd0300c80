-------------------------- MODULE SelectionLemmas --------------------------
(***************************************************************************)
(* What "the first element that ..." rests on: every nonempty set of       *)
(* naturals has a least element, so Min finds it.                          *)
(***************************************************************************)
EXTENDS Naturals, FiniteSetsExt, WellFoundedInduction, TLAPS

\* The order of the naturals, as a relation, is well-founded.
LEMMA LessThanWellFounded ==
    IsWellFoundedOn({ss \in Nat \X Nat : ss[1] < ss[2]}, Nat)
BY NatLessThanWellFounded, Zenon DEF OpToRel

\* Min of a nonempty set of naturals is its least element.
LEMMA MinProperties ==
    ASSUME NEW S \in SUBSET Nat, S # {}
    PROVE  Min(S) \in S /\ \A y \in S : Min(S) <= y
<1> DEFINE R == {ss \in Nat \X Nat : ss[1] < ss[2]}
<1>1. IsWellFoundedOn(R, Nat)
  BY LessThanWellFounded
<1> HIDE DEF R
<1>2. PICK x \in S : \A y \in S : ~ (<<y, x>> \in R)
  BY <1>1, WFMin, Zenon
<1>3. ASSUME NEW y \in S PROVE x <= y
  <2>1. <<y, x>> \notin R /\ x \in Nat /\ y \in Nat
    BY <1>2
  <2>2. <<y, x>> \in R <=> y < x
    BY <2>1 DEF R
  <2>3. QED
    BY <2>1, <2>2
<1>4. QED
  BY <1>3 DEF Min

\* The position SequencesExt!SelectInSeq settles on, given the set of positions
\* that pass its test: the first of them, or 0.
LEMMA FirstPosition ==
    ASSUME NEW n \in Nat, NEW I \in SUBSET (1..n), NEW k,
           k = IF I # {} THEN Min(I) ELSE 0
    PROVE  /\ k \in 0..n
           /\ k # 0 => k \in I
           /\ \A j \in I : k # 0 /\ k <= j
<1>1. CASE I = {}
  BY <1>1
<1>2. CASE I # {}
  <2>1. I \in SUBSET Nat
    OBVIOUS
  <2>2. k \in I /\ \A j \in I : k <= j
    BY <1>2, <2>1, MinProperties
  <2>3. QED
    BY <2>2
<1>3. QED
  BY <1>1, <1>2
=============================================================================
