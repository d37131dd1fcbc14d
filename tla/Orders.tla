------------------------------- MODULE Orders -------------------------------
(***************************************************************************)
(* Sorting and filtering by position.  An order is given as a set of       *)
(* pairs, not as an operator, so that what Sorted returns can be stated    *)
(* and proved once for every order (DataInduction); SetToSortSeq and       *)
(* SelectSeq of the libraries take operators.                              *)
(***************************************************************************)
EXTENDS Naturals, FiniteSets, Sequences

\* A strict total order on S.
StrictOrder(S, R) ==
    /\ \A x \in S : <<x, x>> \notin R
    /\ \A x, y, z \in S : <<x, y>> \in R /\ <<y, z>> \in R => <<x, z>> \in R
    /\ \A x, y \in S : x = y \/ <<x, y>> \in R \/ <<y, x>> \in R

\* How many elements of S come before x.
Rank(S, R, x) == Cardinality({y \in S : <<y, x>> \in R})

\* The elements of S in the order R.
Sorted(S, R) == [n \in 1 .. Cardinality(S) |-> CHOOSE x \in S : Rank(S, R, x) = n - 1]

\* The sequence s rearranged by an order R on its positions.
Arranged(s, R) == LET order == Sorted(DOMAIN s, R) IN [n \in DOMAIN s |-> s[order[n]]]

Ascending(I) == {ij \in I \X I : ij[1] < ij[2]}

\* What s has at the positions I, in the order of s.
AtPositions(s, I) ==
    LET order == Sorted(I, Ascending(I)) IN [n \in 1 .. Cardinality(I) |-> s[order[n]]]
=============================================================================
