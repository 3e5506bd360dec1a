----------------------------- MODULE MCExecutor -----------------------------
(* Instances of Executor for TLC. *)
EXTENDS Executor, TLC

\* Every lane has the same limits and the same executor.
Symmetry == Permutations(Lanes)
=============================================================================
