------------------------------- MODULE MCRace -------------------------------
(* Instances of Race for TLC. *)
EXTENDS RaceSnapshot, TLC

CONSTANTS doublezero, public, helius

ThreeLanes == {doublezero, public, helius}
TwoLanes   == {doublezero, public}

\* Signatures are interchangeable.  The lanes are not: one of them is the
\* reference, and one has a channel of its own.
Symmetry == Permutations(Sigs)
=============================================================================
