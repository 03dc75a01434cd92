------------------------------- MODULE Descent --------------------------------
(***************************************************************************)
(* Why a run comes to an end: a measure, a tuple of numbers, comes down    *)
(* with every step, compared from left to right, and no sequence of tuples *)
(* comes down forever.                                                     *)
(***************************************************************************)
EXTENDS Naturals, WellFoundedInduction, TLAPS

\* a is below b: smaller where the tuples of n numbers first differ.
IsBelow(n, a, b) == <<a, b>> \in LexProductOrdering(OpToRel(<, Nat), Nat, n)

\* No infinite sequence of tuples comes down at each place.
THEOREM DescentEnds ==
  ASSUME NEW n \in Nat, NEW f \in [Nat -> [1 .. n -> Nat]]
  PROVE  \E i \in Nat : ~IsBelow(n, f[i + 1], f[i])
<1> DEFINE R == LexProductOrdering(OpToRel(<, Nat), Nat, n)
<1>1. IsWellFoundedOn(R, [1 .. n -> Nat])
  BY NatLessThanWellFounded, WFLexProductOrdering
<1>2. ~ \E g \in [Nat -> [1 .. n -> Nat]] : \A i \in Nat : <<g[i + 1], g[i]>> \in R
  BY <1>1 DEF IsWellFoundedOn
<1>3. QED
  BY <1>2 DEF IsBelow

\* The first place where the tuples differ decides.
LEMMA FirstDifference ==
  ASSUME NEW n \in Nat, NEW a \in [1 .. n -> Nat], NEW b \in [1 .. n -> Nat],
         NEW k \in 1 .. n, a[k] < b[k], \A i \in 1 .. k - 1 : a[i] = b[i]
  PROVE  IsBelow(n, a, b)
<1>1. <<a[k], b[k]>> \in OpToRel(<, Nat)
  BY DEF OpToRel
<1>2. QED
  BY <1>1 DEF IsBelow, LexProductOrdering

===============================================================================
