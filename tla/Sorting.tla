------------------------------ MODULE Sorting ------------------------------
(***************************************************************************)
(* What the code's sort and sort_by_key do to a list without two equal     *)
(* elements, said by rank: the first element is the one that none is       *)
(* before, the second the one that one is before, and so on.  (SortSeq     *)
(* means the same, but the proof system has no definition of it.)          *)
(***************************************************************************)
EXTENDS Integers, FiniteSets

\* `before` orders S strictly and totally, as a set of pairs.
InOrder(S, before) ==
  [k \in 1 .. Cardinality(S) |->
     CHOOSE x \in S : Cardinality({y \in S : <<y, x>> \in before}) = k - 1]
=============================================================================
