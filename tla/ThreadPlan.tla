----------------------------- MODULE ThreadPlan -----------------------------
(***************************************************************************)
(* What a thread promises its callers: the plan its state shows is the     *)
(* plan of its latest run, complete for the trip this run was asked for.   *)
(* While a run is in progress, or when it failed, no plan is shown, not    *)
(* even that of an earlier run.                                            *)
(***************************************************************************)
CONSTANTS Trips, None

VARIABLES
    phase,   \* "idle", "running", "planned" or "failed"
    wanted,  \* the trip of the latest run
    shown    \* the trip whose plan the thread's state shows

Init == phase = "idle" /\ wanted \in Trips /\ shown = None

Begin(t) ==
    /\ phase # "running"
    /\ phase' = "running"
    /\ wanted' = t
    /\ shown' = None

Succeed ==
    /\ phase = "running"
    /\ phase' = "planned"
    /\ shown' = wanted
    /\ UNCHANGED wanted

Fail ==
    /\ phase = "running"
    /\ phase' = "failed"
    /\ UNCHANGED <<wanted, shown>>

Next == (\E t \in Trips : Begin(t)) \/ Succeed \/ Fail

Spec == Init /\ [][Next]_<<phase, wanted, shown>>
=============================================================================
