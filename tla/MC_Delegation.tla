--------------------------- MODULE MC_Delegation ---------------------------
(* Delegation with interchangeable memory keys. *)
EXTENDS Delegation, TLC

Symmetry == Permutations(Keys)
=============================================================================
