---------------------------- MODULE MC_Sources ----------------------------
(* Sources, with the requests interchangeable.                             *)
EXTENDS Sources, TLC

Symmetry == Permutations(Procs)

=============================================================================
