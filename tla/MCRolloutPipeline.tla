------------------------- MODULE MCRolloutPipeline -------------------------
(* Small instances of RolloutPipeline: two nodes to choose from.           *)
EXTENDS RolloutPipeline

CONSTANTS n1, n2, s1, s2

(* Idle, and for one of them the limit of the postrun backlog.             *)
Idle == [total |-> 0, post |-> 0]
MCLoads == [n \in Nodes |->
  IF n = n1 THEN {Idle, [total |-> PostLimit, post |-> PostLimit]} ELSE {Idle}]
=============================================================================
