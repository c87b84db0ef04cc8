---------------------------- MODULE MCPlanBoard ----------------------------
(* Instances of PlanBoard for TLC. *)
EXTENDS PlanBoard, TLC

CONSTANTS p1, p2, h1, h2

Same == Permutations(Handlers)
=============================================================================
