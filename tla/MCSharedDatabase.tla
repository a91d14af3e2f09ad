--------------------------- MODULE MCSharedDatabase ----------------------------
(* Two processes, one server, files of every age with up to two rows of one   *)
(* build.                                                                     *)
EXTENDS SharedDatabase
================================================================================
