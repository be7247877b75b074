--------------------------- MODULE MC_RunLifecycle ---------------------------
(* The run lifecycle on small sets of requests.  Requests are interchangeable *)
(* for the safety runs; the liveness runs declare no symmetry.                *)
EXTENDS RunLifecycle, TLC

Symmetry == Permutations(Request)
=============================================================================
