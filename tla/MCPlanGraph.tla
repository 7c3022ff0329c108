---------------------------- MODULE MCPlanGraph ----------------------------
(* A small instance of PlanGraph for TLC. *)
EXTENDS PlanGraph

CONSTANTS t1, t2

MCTrips == {t1, t2}
=============================================================================
