---------------------------- MODULE MCRunLimiter ----------------------------
(***************************************************************************)
(* The values of the constants of RunLimiter come from the .cfg files.      *)
(***************************************************************************)
EXTENDS RunLimiter, TLC

\* Every goroutine and every key behaves alike.
Symmetry == Permutations(Workers) \cup Permutations(Tasks) \cup Permutations(Wans)
=============================================================================
