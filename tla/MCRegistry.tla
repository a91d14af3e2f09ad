------------------------------ MODULE MCRegistry ------------------------------
(* Registry on small tables: two servers of one configuration. *)
EXTENDS Registry, TLC

Symmetry == Permutations(Names)
===============================================================================
