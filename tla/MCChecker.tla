------------------------------- MODULE MCChecker -------------------------------
(* Checker with times of a few ticks. *)
EXTENDS Checker
===============================================================================
