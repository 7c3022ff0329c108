---------------------------- MODULE TripLifecycle ----------------------------
(***************************************************************************)
(* What a conversation promises a caller that sends one mutation at a time *)
(* and waits for it: each change of the trip is one of five, moves the     *)
(* version on by one, and a trip is planned only with its own plan.        *)
(***************************************************************************)
EXTENDS Naturals

CONSTANTS Drafts, Complete, EmptyDraft, NoPlan

VARIABLES
    status,    \* of the trip; "absent" before the first message
    draft,     \* the trip as described so far
    version,   \* the number of changes
    plan       \* the draft whose plan the conversation presents

Init == status = "absent" /\ draft = EmptyDraft /\ version = 0 /\ plan = NoPlan

Change(newStatus, newDraft, newPlan) ==
    /\ status' = newStatus
    /\ draft' = newDraft
    /\ version' = version + 1
    /\ plan' = newPlan

\* A trip that is being planned or is planned takes no messages.
Talk ==
    /\ status \in {"absent", "collecting", "awaiting"}
    /\ \/ \E d \in Drafts : Change("collecting", d, NoPlan)
       \/ \E d \in Complete : Change("awaiting", d, NoPlan)

StartOver == Change("collecting", EmptyDraft, NoPlan)

Confirm == status = "awaiting" /\ Change("planning", draft, NoPlan)

Succeed == status = "planning" /\ Change("planned", draft, draft)

GiveUp == status = "planning" /\ Change("awaiting", draft, NoPlan)

Next == Talk \/ StartOver \/ Confirm \/ Succeed \/ GiveUp

Spec == Init /\ [][Next]_<<status, draft, version, plan>>
=============================================================================
