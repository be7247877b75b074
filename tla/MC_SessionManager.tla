--------------------------- MODULE MC_SessionManager ---------------------------
(***************************************************************************)
(* SessionManager for TLC: the two handlers are interchangeable.             *)
(***************************************************************************)
EXTENDS SessionManager, TLC

Symmetry == Permutations(Handler)
=============================================================================
