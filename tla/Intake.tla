------------------------------- MODULE Intake -------------------------------
(***************************************************************************)
(* Conversational trip intake of one user and thread: the stored draft     *)
(* (app/intake), the four mutating conversation routes                     *)
(* (app/api/routes/conversation.py) and the direct planning route that     *)
(* shares the thread's graph checkpoint (app/api/routes/persistence.py).   *)
(*                                                                         *)
(* The intake store has no compare-and-swap, so a handler is a sequence of *)
(* atomic steps cut at its awaits: a load, an LLM call, a save, a graph    *)
(* run.  Every call keeps what it read in a local record and writes it     *)
(* back later, whatever the store holds by then.                           *)
(*                                                                         *)
(* A draft stands for its SHA-256 fingerprint: draft_fingerprint hashes    *)
(* the effective content, so two drafts with one fingerprint are the same  *)
(* trip.                                                                   *)
(***************************************************************************)
EXTENDS Naturals

CONSTANTS
    Requests,         \* HTTP calls that can be in flight at once
    Partial,          \* drafts with a missing or an invalid field
    Complete,         \* drafts the domain model TripRequirements accepts
    WithNationality,  \* the drafts that carry a guest nationality
    EmptyDraft,       \* the draft of a new conversation
    Envs,             \* the environments to consider, sets of EnvEvents
    MaxVersion        \* bound per environment: no new mutation from this version on

Drafts == Partial \union Complete

\* overlap: callers do not serialise their mutations; store_error: a Store
\* call raises; cancel: a request task is cancelled at one of its awaits;
\* restart: the server process stops and starts again; long_preferences: a
\* confirmation remembers a preference of 201 to 300 characters;
\* direct_plans: POST /plans is used on the same thread.
EnvEvents == {"overlap", "store_error", "cancel", "restart",
              "long_preferences", "direct_plans"}

ASSUME IntakeAssumption ==
    /\ EmptyDraft \in Partial
    /\ Partial \intersect Complete = {}
    /\ WithNationality \subseteq Drafts
    /\ Envs \subseteq SUBSET EnvEvents
    /\ MaxVersion \in [Envs -> Nat]

VARIABLES
    stored,           \* the intake record in the PostgreSQL store
    call,             \* each request's handler: where it is, what it holds
    needNationality,  \* settings.requires_guest_nationality of this process
    checkpoint,       \* the plan the thread's newest checkpoint is complete for
    succeeded,        \* history: drafts some graph run has completed
    env               \* what the environment may do in this behaviour

vars == <<stored, call, needNationality, checkpoint, succeeded, env>>

-----------------------------------------------------------------------------
(* State.                                                                   *)

Statuses == {"absent", "collecting", "awaiting", "planning", "planned"}

Record == [status: Statuses, draft: Drafts, invalid: BOOLEAN,
           version: Nat, plan: BOOLEAN]

\* aget returned None; the values are those of a new ConversationIntakeState.
NoIntake == [status |-> "absent", draft |-> EmptyDraft, invalid |-> FALSE,
             version |-> 0, plan |-> FALSE]

\* new_intake_state(...) with version = existing.version + 1, or 1.
FreshIntake(existing) == [NoIntake EXCEPT !.status = "collecting",
                                          !.version = existing.version + 1]

NoPlan == "no plan"

Confirming == {"confirm", "stream"}
Ops == {"none", "message", "new_trip", "reset", "direct"} \union Confirming

LoadPoints == {"load", "reset_load", "begin_load", "planned_load", "undo_load"}
SavePoints == {"save", "reset_save", "begin_save", "planned_save", "undo_save"}
Points == {"idle", "extract", "prepare", "running", "deliver"}
              \union LoadPoints \union SavePoints

\* draft: the fingerprint a confirmation names; long: it remembers a text the
\* planning request will not accept; gone: its client has disconnected;
\* again: the rollback was interrupted and will be repeated; rec: the record
\* that was loaded, then the one to be saved.
Call == [op: Ops, pc: Points, draft: Drafts, long: BOOLEAN,
         gone: BOOLEAN, again: BOOLEAN, rec: Record]

IdleCall == [op |-> "none", pc |-> "idle", draft |-> EmptyDraft, long |-> FALSE,
             gone |-> FALSE, again |-> FALSE, rec |-> NoIntake]

TypeOK ==
    /\ stored \in Record
    /\ call \in [Requests -> Call]
    /\ needNationality \in BOOLEAN
    /\ checkpoint \in Drafts \union {NoPlan}
    /\ succeeded \in SUBSET Drafts
    /\ env \in Envs

Init ==
    /\ stored = NoIntake
    /\ call = [r \in Requests |-> IdleCall]
    /\ needNationality \in BOOLEAN
    /\ checkpoint = NoPlan
    /\ succeeded = {}
    /\ env \in Envs

-----------------------------------------------------------------------------
(* Helpers.                                                                 *)

At(r, pc) == call[r].pc = pc
Goto(r, pc) == call' = [call EXCEPT ![r].pc = pc]
GotoWith(r, pc, rec) == call' = [call EXCEPT ![r].pc = pc, ![r].rec = rec]
End(r) == call' = [call EXCEPT ![r] = IdleCall]

OnlyCall == UNCHANGED <<stored, needNationality, checkpoint, succeeded, env>>
OnlyStore == UNCHANGED <<needNationality, checkpoint, succeeded, env>>

\* No missing field, no invalid field, under this process's settings.
Ready(d) == d \in Complete /\ (needNationality => d \in WithNationality)

\* Mutant of Turn: a draft that misses fields is offered for confirmation.
TurnWithMissing(current, d, badNationality) ==
    [status |-> IF (needNationality => d \in WithNationality) /\ ~badNationality
                THEN "awaiting" ELSE "collecting",
     draft |-> d, invalid |-> badNationality,
     version |-> current.version + 1, plan |-> FALSE]

\* One accepted turn: process_message replaces the draft and recomputes status.
Turn(current, d, badNationality) ==
    [status |-> IF Ready(d) /\ ~badNationality THEN "awaiting" ELSE "collecting",
     draft |-> d, invalid |-> badNationality,
     version |-> current.version + 1, plan |-> FALSE]

\* A serialising caller starts a mutation only when no other is outstanding;
\* one it has disconnected from is no longer outstanding for it.
MayStart(r) ==
    /\ At(r, "idle")
    /\ stored.version < MaxVersion[env]
    /\ \/ "overlap" \in env
       \/ \A q \in Requests : At(q, "idle") \/ call[q].gone

Begin(r, op, pc, d, long) ==
    /\ MayStart(r)
    /\ call' = [call EXCEPT ![r] = [IdleCall EXCEPT !.op = op, !.pc = pc,
                                                    !.draft = d, !.long = long]]
    /\ OnlyCall

-----------------------------------------------------------------------------
(* POST .../conversation/messages and .../conversation/reset                *)

StartMessage(r) == Begin(r, "message", "load", EmptyDraft, FALSE)
StartNewTrip(r) == Begin(r, "new_trip", "reset_load", EmptyDraft, FALSE)
StartReset(r) == Begin(r, "reset", "reset_load", EmptyDraft, FALSE)

\* A planned or planning trip answers 409.
MessageLoad(r) ==
    /\ At(r, "load")
    /\ \/ stored.status \in {"planned", "planning"} /\ End(r)
       \/ stored.status \notin {"planned", "planning"} /\ GotoWith(r, "extract", stored)
    /\ OnlyCall

\* reset, and the first half of a message with start_new_trip.
ResetLoad(r) ==
    /\ At(r, "reset_load")
    /\ GotoWith(r, "reset_save", FreshIntake(stored))
    /\ OnlyCall

\* A new trip goes on with the fresh record it saved, without loading it again.
ResetSave(r) ==
    /\ At(r, "reset_save")
    /\ stored' = call[r].rec
    /\ \/ call[r].op = "new_trip" /\ Goto(r, "extract")
       \/ call[r].op # "new_trip" /\ End(r)
    /\ OnlyStore

\* An answer to the nationality question needs no LLM: a country sets the
\* nationality only, anything else marks it invalid and keeps the draft.
AnswerCountry(r) ==
    LET current == call[r].rec IN
    /\ At(r, "extract")
    /\ \/ GotoWith(r, "save", Turn(current, current.draft, TRUE))
       \/ \E d \in WithNationality :
            /\ d \in Complete <=> current.draft \in Complete
            /\ GotoWith(r, "save", Turn(current, d, FALSE))
    /\ OnlyCall

\* The LLM's patch may change every field but may not introduce a nationality;
\* an invalid nationality stays invalid until it is answered or cleared.
ExtractPatch(r) ==
    LET current == call[r].rec IN
    /\ At(r, "extract")
    /\ \E d \in Drafts, cleared \in BOOLEAN :
         /\ d \in WithNationality => current.draft \in WithNationality /\ ~cleared
         /\ GotoWith(r, "save", Turn(current, d, current.invalid /\ ~cleared))
    /\ OnlyCall

\* No provider, an LLM error, or a patch that does not merge: 503.
ExtractFails(r) ==
    /\ At(r, "extract")
    /\ End(r)
    /\ OnlyCall

MessageSave(r) ==
    /\ At(r, "save")
    /\ stored' = call[r].rec
    /\ End(r)
    /\ OnlyStore

-----------------------------------------------------------------------------
(* POST .../conversation/confirm and .../conversation/confirm/stream        *)

StartConfirm(r) ==
    \E op \in Confirming, d \in Drafts, long \in BOOLEAN :
        /\ long => "long_preferences" \in env
        /\ Begin(r, op, "begin_load", d, long)

\* Mutant of MayConfirm: the fingerprint is not compared.
MayConfirmAny(r) ==
    /\ stored.status = "awaiting"
    /\ Ready(stored.draft)

\* begin_confirmation: 404, the four 409s, or the planning record to save.
MayConfirm(r) ==
    /\ stored.draft = call[r].draft
    /\ stored.status = "awaiting"
    /\ Ready(stored.draft)

\* Mutant of BeginLoad: the record keeps its status awaiting_confirmation.
BeginLoadSilent(r) ==
    /\ At(r, "begin_load")
    /\ \/ ~MayConfirm(r) /\ End(r)
       \/ MayConfirm(r) /\ GotoWith(r, "begin_save", [stored EXCEPT !.version = @ + 1])
    /\ OnlyCall

BeginLoad(r) ==
    /\ At(r, "begin_load")
    /\ \/ ~MayConfirm(r) /\ End(r)
       \/ /\ MayConfirm(r)
          /\ GotoWith(r, "begin_save", [stored EXCEPT !.status = "planning",
                                                      !.version = @ + 1])
    /\ OnlyCall

\* The plain route builds ThreadPlanRequest before its try block: a preference
\* that request rejects ends the call here, and nothing restores the draft.
BeginSave(r) ==
    /\ At(r, "begin_save")
    /\ stored' = call[r].rec
    /\ \/ call[r].op = "stream" /\ Goto(r, "prepare")
       \/ call[r].op = "confirm" /\ ~call[r].long /\ Goto(r, "running")
       \/ call[r].op = "confirm" /\ call[r].long /\ End(r)
    /\ OnlyStore

\* The stream route builds the request and probes the backend inside its try
\* block; every Exception there restores the draft.
Prepare(r) ==
    /\ At(r, "prepare")
    /\ \/ ~call[r].long /\ Goto(r, "running")
       \/ Goto(r, "undo_load")
    /\ OnlyCall

\* The stream's client has taken the plan_completed event.
Deliver(r) ==
    /\ At(r, "deliver")
    /\ Goto(r, "planned_load")
    /\ OnlyCall

\* Mutant of PlannedLoad: any stored draft is marked as planned.
PlannedLoadAny(r) ==
    /\ At(r, "planned_load")
    /\ GotoWith(r, "planned_save",
                [stored EXCEPT !.status = "planned", !.plan = TRUE, !.version = @ + 1])
    /\ OnlyCall

\* mark_planned checks the fingerprint but not the status; its 404 and its
\* conflict lead to the rollback.
PlannedLoad(r) ==
    LET found == stored.status # "absent" /\ stored.draft = call[r].draft IN
    /\ At(r, "planned_load")
    /\ \/ ~found /\ Goto(r, "undo_load")
       \/ /\ found
          /\ GotoWith(r, "planned_save",
                      [stored EXCEPT !.status = "planned", !.plan = TRUE,
                                     !.version = @ + 1])
    /\ OnlyCall

PlannedSave(r) ==
    /\ At(r, "planned_save")
    /\ stored' = call[r].rec
    /\ End(r)
    /\ OnlyStore

\* The rollback is over; an interrupted one is repeated by the next finally.
EndUndo(r) ==
    \/ call[r].again /\ call' = [call EXCEPT ![r].pc = "undo_load", ![r].again = FALSE]
    \/ ~call[r].again /\ End(r)

\* Mutant of UndoLoad: the status test is inverted.
UndoLoadInverted(r) ==
    LET other == stored.status # "planning" /\ stored.draft = call[r].draft IN
    /\ At(r, "undo_load")
    /\ \/ ~other /\ EndUndo(r)
       \/ /\ other
          /\ GotoWith(r, "undo_save", [stored EXCEPT !.status = "awaiting",
                                                     !.version = @ + 1])
    /\ OnlyCall

\* mark_confirmation_failed does nothing unless this draft is still planning.
UndoLoad(r) ==
    LET planning == stored.status = "planning" /\ stored.draft = call[r].draft IN
    /\ At(r, "undo_load")
    /\ \/ ~planning /\ EndUndo(r)
       \/ /\ planning
          /\ GotoWith(r, "undo_save", [stored EXCEPT !.status = "awaiting",
                                                     !.version = @ + 1])
    /\ OnlyCall

UndoSave(r) ==
    /\ At(r, "undo_save")
    /\ stored' = call[r].rec
    /\ EndUndo(r)
    /\ OnlyStore

-----------------------------------------------------------------------------
(* The planning graph, seen from its callers, and POST .../plans            *)

StartDirect(r) ==
    /\ "direct_plans" \in env
    /\ \E d \in Complete : 
         /\ Ready(d)
         /\ MayStart(r)
         /\ call' = [call EXCEPT ![r] = [IdleCall EXCEPT !.op = "direct",
                        !.pc = "running", !.draft = d, !.rec.draft = d]]
    /\ OnlyCall

\* Every superstep before the last writes a checkpoint that has no plan.
Superstep(r) ==
    /\ At(r, "running")
    /\ checkpoint' = NoPlan
    /\ UNCHANGED <<stored, call, needNationality, succeeded, env>>

\* The run ends in a validated plan for the requirements it was given; its
\* first superstep, at the latest here, has cleared what was there before.
GraphSucceeds(r) ==
    /\ At(r, "running")
    /\ checkpoint' = call[r].rec.draft
    /\ succeeded' = succeeded \union {call[r].rec.draft}
    /\ \/ call[r].op = "stream" /\ Goto(r, "deliver")
       \/ call[r].op = "confirm" /\ Goto(r, "planned_load")
       \/ call[r].op = "direct" /\ End(r)
    /\ UNCHANGED <<stored, needNationality, env>>

\* Mutants of GraphFails: the draft is not restored; the error is not noticed.
GraphFailsSilently(r) ==
    /\ At(r, "running")
    /\ checkpoint' \in {checkpoint, NoPlan}
    /\ End(r)
    /\ UNCHANGED <<stored, needNationality, succeeded, env>>

GraphFailsAsPlanned(r) ==
    /\ At(r, "running")
    /\ checkpoint' \in {checkpoint, NoPlan}
    /\ \/ call[r].op \in Confirming /\ Goto(r, "planned_load")
       \/ call[r].op = "direct" /\ End(r)
    /\ UNCHANGED <<stored, needNationality, succeeded, env>>

\* An error in the final state, an exception or the recursion limit; a run
\* that was refused before its first superstep leaves the checkpoint alone.
GraphFails(r) ==
    /\ At(r, "running")
    /\ checkpoint' \in {checkpoint, NoPlan}
    /\ \/ call[r].op \in Confirming /\ Goto(r, "undo_load")
       \/ call[r].op = "direct" /\ End(r)
    /\ UNCHANGED <<stored, needNationality, succeeded, env>>

-----------------------------------------------------------------------------
(* Failures.                                                                *)

\* A Store call raises.  A save that raised may or may not have been applied.
StoreError(r) ==
    /\ "store_error" \in env
    /\ call[r].pc \in LoadPoints \union SavePoints
    /\ \/ UNCHANGED stored
       \/ call[r].pc \in SavePoints /\ stored' = call[r].rec
    /\ \/ call[r].pc \in {"planned_load", "planned_save"} /\ Goto(r, "undo_load")
       \/ call[r].pc \in {"undo_load", "undo_save"} /\ EndUndo(r)
       \/ /\ call[r].pc \notin {"planned_load", "planned_save", "undo_load", "undo_save"}
          /\ End(r)
    /\ OnlyStore

\* A confirmation rolls back from its first graph step on ...
Restored == {"running", "deliver", "planned_load", "planned_save"}

\* ... and only from there: a cancelled begin_confirmation or a cancelled
\* backend probe passes the except Exception clauses and just ends.
Cancel(r) ==
    /\ "cancel" \in env
    /\ call[r].pc \notin {"idle", "undo_load", "undo_save"}
    /\ \/ UNCHANGED stored
       \/ call[r].pc \in SavePoints /\ stored' = call[r].rec
    /\ \/ /\ call[r].pc \in Restored /\ call[r].op \in Confirming
          /\ call' = [call EXCEPT ![r].pc = "undo_load", ![r].gone = TRUE]
       \/ ~(call[r].pc \in Restored /\ call[r].op \in Confirming) /\ End(r)
    /\ OnlyStore

\* _restore_retryable shields the rollback, waits for it and raises again: the
\* stream's next finally then repeats it.  A further cancellation reaches the
\* rollback itself.
CancelUndo(r) ==
    /\ "cancel" \in env
    /\ call[r].pc \in {"undo_load", "undo_save"}
    /\ \/ call' = [call EXCEPT ![r].gone = TRUE, ![r].again = (call[r].op = "stream")]
       \/ /\ call[r].gone
          /\ call[r].op = "stream"
          /\ call' = [call EXCEPT ![r].pc = "undo_load", ![r].again = FALSE]
       \/ call[r].gone /\ End(r)
    /\ OnlyCall

\* The process stops; the store and the checkpoints survive, the handlers do
\* not, and the new process may run with other settings.
Restart ==
    /\ "restart" \in env
    /\ call' = [r \in Requests |-> IdleCall]
    /\ needNationality' \in BOOLEAN
    /\ UNCHANGED <<stored, checkpoint, succeeded, env>>

-----------------------------------------------------------------------------
Start(r) ==
    \/ StartMessage(r) \/ StartNewTrip(r) \/ StartReset(r)
    \/ StartConfirm(r) \/ StartDirect(r)

\* The steps a live server takes on its own.
Progress(r) ==
    \/ MessageLoad(r) \/ ResetLoad(r) \/ ResetSave(r)
    \/ AnswerCountry(r) \/ ExtractPatch(r) \/ ExtractFails(r) \/ MessageSave(r)
    \/ BeginLoad(r) \/ BeginSave(r) \/ Prepare(r)
    \/ GraphSucceeds(r) \/ GraphFails(r)
    \/ Deliver(r) \/ PlannedLoad(r) \/ PlannedSave(r)
    \/ UndoLoad(r) \/ UndoSave(r)

Next ==
    \/ \E r \in Requests :
         \/ Start(r) \/ Progress(r) \/ Superstep(r)
         \/ StoreError(r) \/ Cancel(r) \/ CancelUndo(r)
    \/ Restart

Spec == Init /\ [][Next]_vars

\* Handlers run to completion: Store and LLM calls are bounded by timeouts and
\* a graph run by its recursion limit.  Nothing is assumed of the callers.
FairSpec == Spec /\ \A r \in Requests : WF_vars(Progress(r))

-----------------------------------------------------------------------------
(* Properties.                                                              *)

\* A trip is stored as planned only for a draft that some graph run has
\* completed, whatever calls overlapped with the run (mark_planned).
PlannedIsBacked ==
    stored.status = "planned" => stored.plan /\ stored.draft \in succeeded

\* A confirmed graph run plans the very draft its client confirmed, and one
\* that is complete for this process's settings (begin_confirmation).
RunsAreConsented ==
    \A r \in Requests :
        At(r, "running") /\ call[r].op \in Confirming =>
            call[r].rec.draft = call[r].draft /\ Ready(call[r].draft)

\* What a handler holds between two of its awaits: where the record it is about
\* to save comes from, and which draft its run was for.
Provenance(r) ==
    LET c == call[r] IN
    /\ c.pc \in {"save", "reset_save"} => c.rec.status \in {"collecting", "awaiting"}
    /\ c.pc = "begin_save" => c.rec.status = "planning"
    /\ c.pc = "undo_save" => c.rec.status = "awaiting"
    /\ c.pc = "planned_save" =>
         c.rec.status = "planned" /\ c.rec.plan /\ c.rec.draft \in succeeded
    /\ c.pc \in {"deliver", "planned_load"} => c.draft \in succeeded
    /\ c.pc \in {"begin_save", "prepare"} \/ (c.pc = "running" /\ c.op \in Confirming) =>
         c.rec.draft = c.draft /\ Ready(c.draft)
    /\ c.pc \in {"begin_load", "begin_save", "prepare", "deliver", "planned_load",
                 "planned_save", "undo_load", "undo_save"} => c.op \in Confirming
    /\ c.long => "long_preferences" \in env

\* The inductive invariant behind PlannedIsBacked and RunsAreConsented.
Backing == TypeOK /\ PlannedIsBacked /\ \A r \in Requests : Provenance(r)

\* The points from which a confirmation still writes the outcome of its run.
Holding(r) ==
    /\ call[r].op \in Confirming
    /\ call[r].pc \in {"prepare", "running", "deliver", "planned_load",
                       "planned_save", "undo_load", "undo_save"}

\* Handlers are neither cancelled nor stopped, and the store works.
Undisturbed == env \intersect {"store_error", "cancel", "restart"} = {}

\* Callers wait for their own calls and stay, and only confirmations plan.
Serialised == env \subseteq {"store_error", "restart"}

\* docs/22: "planning: an explicit confirmation is currently using the existing
\* planning workflow" - a stored planning status has a handler that ends it.
PlanningHasWorkflow ==
    Undisturbed /\ stored.status = "planning" =>
        \E r \in Requests : Holding(r) /\ call[r].draft = stored.draft

\* docs/22: when the client disconnects before completion the draft returns to
\* awaiting_confirmation - no planning status is left once its handler is gone.
DisconnectIsRetryable ==
    stored.status = "planning" => \E r \in Requests : Holding(r)

\* While a confirmed run is in progress the store says so, and so refuses
\* messages and further confirmations of the draft it plans.
RunningIsVisible ==
    Serialised =>
        \A r \in Requests :
            At(r, "running") /\ call[r].op \in Confirming =>
                stored.status = "planning" /\ stored.draft = call[r].draft

\* docs/22: "planned: planning completed and the existing graph checkpoint
\* contains the plan" - and it is the plan of the stored draft.
PlannedHasPlan ==
    Serialised /\ stored.status = "planned" => checkpoint = stored.draft

\* docs/22: "P15 increments version on each mutation", for callers that
\* serialise their mutations as it asks.
VersionAdvances ==
    [][env \subseteq {"store_error", "restart", "cancel"} =>
         stored'.version > stored.version]_stored

\* A planned trip is left only by a reset: no late handler of an earlier call
\* reopens it or moves it to another draft.
PlannedIsFinal ==
    [][Serialised /\ stored.status = "planned" => stored' = FreshIntake(stored)]_stored

\* What a serialising caller sees of its trip; others are promised nothing.
Seen(value, unseen) == IF Serialised THEN value ELSE unseen

Trip == INSTANCE TripLifecycle WITH
    status <- Seen(stored.status, "absent"),
    draft <- Seen(stored.draft, EmptyDraft),
    version <- Seen(stored.version, 0),
    plan <- Seen(IF stored.status = "planned" THEN checkpoint ELSE NoPlan, NoPlan)

\* docs/22: to a caller that serialises its mutations, handlers that load, wait
\* and save beside restarts and a failing store look like single changes of one
\* trip, in the order of TripLifecycle.
KeepsLifecycle == Trip!Spec

\* Every planning status is resolved: the draft gets its plan or is retryable.
PlanningEnds ==
    Undisturbed /\ stored.status = "planning" ~> stored.status # "planning"

=============================================================================
