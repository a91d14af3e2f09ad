------------------------------- MODULE MCSessions -------------------------------
(* Sessions with five session objects and room for two sessions. *)
EXTENDS Sessions, TLC

Symmetry == Permutations(Ids)
================================================================================
