------------------------------ MODULE MCClient ------------------------------
(* Small instances of the meter client for TLC. *)
EXTENDS Client, TLC

\* The callers run the same code.
CallerSymmetry == Permutations(Callers)
=============================================================================
