------------------------------ MODULE MCScheduler ------------------------------
(* Scheduler with three servers; the other numbers are in the cfg file. *)
EXTENDS Scheduler

MCNames == 1 .. 3
===============================================================================
