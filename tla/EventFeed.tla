------------------------------ MODULE EventFeed ------------------------------
(***************************************************************************)
(* What a plan stream promises its client, who sees no producer, queue or  *)
(* mapper: each connection starts with run_started, its events are         *)
(* numbered without gap, and unless the client leaves it ends with one     *)
(* terminal event - a plan for the trip this connection asked for, or an   *)
(* error.                                                                  *)
(***************************************************************************)
EXTENDS Naturals, Sequences

CONSTANTS Trips, None

VARIABLES
    phase,    \* "none", "open", "ended" or "left"
    wanted,   \* the trip this connection asked for
    log       \* the events it has yielded

\* An event; plan is the trip of the plan it carries.
Event(number, kind, plan) == [number |-> number, kind |-> kind, plan |-> plan]

News == {"progress", "review_completed", "revision_started"}

Init == phase = "none" /\ wanted \in Trips /\ log = <<>>

Open(t) ==
    /\ phase # "open"
    /\ phase' = "open"
    /\ wanted' = t
    /\ log' = <<Event(1, "run_started", None)>>

Yield(kind, plan) ==
    /\ phase = "open"
    /\ log' = Append(log, Event(Len(log) + 1, kind, plan))
    /\ UNCHANGED wanted

Tell == \E kind \in News : Yield(kind, None) /\ UNCHANGED phase

Complete == Yield("plan_completed", wanted) /\ phase' = "ended"

Fail == Yield("error", None) /\ phase' = "ended"

Leave ==
    /\ phase = "open"
    /\ phase' = "left"
    /\ UNCHANGED <<wanted, log>>

Next == (\E t \in Trips : Open(t)) \/ Tell \/ Complete \/ Fail \/ Leave

Spec == Init /\ [][Next]_<<phase, wanted, log>>
=============================================================================
