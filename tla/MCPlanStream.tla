---------------------------- MODULE MCPlanStream ----------------------------
(* A small instance of PlanStream for TLC. *)
EXTENDS PlanStream

CONSTANTS t1, t2

MCTrips == {t1, t2}
=============================================================================
