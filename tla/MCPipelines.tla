------------------------------ MODULE MCPipelines ------------------------------
(* Pipelines with two pipelines of one group in one project, one of which may *)
(* move to another project, and two builds of the one that is watched most.   *)
EXTENDS Pipelines

CONSTANTS g, ci, pub, a, b

MCListed == [s \in Sources |-> IF s = a THEN {ci, pub} ELSE {ci}]

MCRegistrations ==
    {[group |-> g, source |-> a, names |-> {ci, pub}],
     [group |-> g, source |-> b, names |-> {ci}]}

MCMaxBuild == [d \in Definitions |-> IF d = <<a, ci>> THEN 1 ELSE 0]
===============================================================================
