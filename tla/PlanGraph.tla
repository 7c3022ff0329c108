------------------------------ MODULE PlanGraph ------------------------------
(***************************************************************************)
(* The planning graph (app/graphs): the supersteps of one thread's runs    *)
(* and the state channels the thread's checkpoint carries from one run to  *)
(* the next.                                                               *)
(*                                                                         *)
(* LangGraph runs the nodes in supersteps and writes a checkpoint after    *)
(* each; the five search workers share one superstep and their updates are *)
(* merged by the channels' reducers.  A run that is cancelled, crashes or  *)
(* exceeds its recursion limit leaves the channels of its last checkpoint; *)
(* the next run on the thread starts from them.                            *)
(*                                                                         *)
(* A draft stands for its fingerprint.  It is identified by what it was    *)
(* made from: the trip, the search results, the revision policy and its    *)
(* author.                                                                 *)
(***************************************************************************)
EXTENDS Naturals

CONSTANTS
    None,       \* Python's None, and an absent channel
    Trips,      \* validated trip requirements a run can be asked for
    Critical,   \* search kinds a plan cannot do without
    Optional,   \* search kinds a plan can do without
    Rounds,     \* values of settings.review_max_rounds
    Budgets,    \* node supersteps settings.graph_recursion_limit allows
    MaxRuns     \* bound: runs on the thread

Route == "route"
Kinds == Critical \union Optional \union {Route}

ASSUME PlanGraphAssumption ==
    /\ Route \notin Critical
    /\ Rounds \subseteq Nat \ {0}
    /\ Budgets \subseteq Nat
    /\ MaxRuns \in Nat

VARIABLES
    settings,   \* the settings the graph was built with
    run,        \* the number of the latest run on the thread
    trip,       \* what the latest run was asked for
    pc,         \* the node of the next superstep, or how the run ended
    steps,      \* supersteps the run has taken
    drafted,    \* drafts its Planner has produced
    state       \* TravelPlanState, the channels of the newest checkpoint

vars == <<settings, run, trip, pc, steps, drafted, state>>

-----------------------------------------------------------------------------
(* State.                                                                   *)

\* reasoning_mode, the LLM provider, allow_deterministic_fallback, and whether
\* the advanced retriever replaced the plain one.
Settings == [qwen: BOOLEAN, provider: BOOLEAN, fallback: BOOLEAN,
             advanced: BOOLEAN, rounds: Rounds, budget: Budgets]

Nodes == {"memory_context", "router", "retriever", "prepare_search_tasks",
          "search_worker", "aggregate_search_results",
          "initialize_review_cycle", "planner", "reviewer", "finalize_plan"}

\* end: the graph returned; raised: the run ended in an exception; exhausted:
\* that exception was GraphRecursionError.
Stopped == {"idle", "end", "raised", "exhausted"}

RetrievalFailed == "Travel knowledge retrieval failed."
CriticalFailed == "critical_search_failed:"
LLMErrors == {"llm_not_configured", "llm_provider_error", "llm_grounding_violation"}
ReviewErrors == {"reviewer_failed", "review_output_invalid"}
Errors == {"store_unavailable", RetrievalFailed, CriticalFailed,
           "plan_assembly_failed", "revision_failed"}
              \union LLMErrors \union ReviewErrors

Runs == 1 .. MaxRuns
Task == [kind: Kinds, trip: Trips]
\* run: the run whose worker produced it.
Envelope == [kind: Kinds, trip: Trips, run: Runs]
\* The policy derived from one review: which run's, which round's.
Policy == [run: Runs, round: Nat]
Draft == [trip: Trips, results: SUBSET Envelope, policy: Policy \union {None},
          author: {"rules", "llm"}]
Decisions == {"accept", "revise", "forced_finalize"}
\* A PlanReview and its history entry; run marks whose review it was.
Review == [run: Runs, round: Nat, draft: Draft, decision: Decisions]
Plan == [draft: Draft, quality: {"unavailable", "accepted", "forced_finalized"}]
Reasons == {"threshold_reached", "max_review_rounds_reached",
            "critical_search_failure", "reviewer_failure"}

Channels ==
    [requirements: Trips \union {None},
     next_agent: {"planner", None},
     error: Errors \union {None},
     search_tasks: SUBSET Task,
     search_results: SUBSET Envelope,
     tool_errors: SUBSET Envelope,
     found: SUBSET Kinds,
     draft_plan: Draft \union {None},
     current_review: Review \union {None},
     review_history: SUBSET Review,
     review_round: Nat,
     revision_policy: Policy \union {None},
     review_status: {"pending", "accepted", "forced_finalized", "failed"},
     finalization_reason: Reasons \union {None},
     travel_plan: Plan \union {None}]

ASSUME NoneAssumption ==
    None \notin Trips \union Draft \union Review \union Policy \union Plan
                   \union Errors \union Reasons \union {"planner"}

\* A thread without checkpoint: every channel is absent.  found stands for
\* search_summary: the kinds whose entry has status ok.
NoChannels ==
    [requirements |-> None, next_agent |-> None, error |-> None,
     search_tasks |-> {}, search_results |-> {}, tool_errors |-> {},
     found |-> {}, draft_plan |-> None, current_review |-> None,
     review_history |-> {}, review_round |-> 0, revision_policy |-> None,
     review_status |-> "pending", finalization_reason |-> None,
     travel_plan |-> None]

Init ==
    /\ settings \in Settings
    /\ ~settings.qwen => ~settings.provider /\ ~settings.fallback
    /\ run = 0
    /\ trip \in Trips
    /\ pc = "idle"
    /\ steps = 0
    /\ drafted = 0
    /\ state = NoChannels

-----------------------------------------------------------------------------
(* Reducers and helpers.                                                    *)

\* merge_search_results, merge_tool_errors: one envelope per task id, which
\* digests the kind and the requirements; canonical order decides.
MergeEnvelopes(left, right) ==
    {e \in left \union right :
        \A f \in left \union right :
            f.kind = e.kind /\ f.trip = e.trip => e.run <= f.run}

\* merge_review_history: one entry per round and draft fingerprint.
MergeHistory(left, right) ==
    {e \in left \union right :
        \A f \in left \union right :
            f.round = e.round /\ f.draft = e.draft => e.run <= f.run}

\* A superstep of this node, within the recursion limit.
Superstep(node, next) ==
    /\ pc = node
    /\ steps < settings.budget
    /\ steps' = steps + 1
    /\ pc' = next
    /\ UNCHANGED <<settings, run, trip>>

-----------------------------------------------------------------------------
(* A run starts: _make_initial_state passes through the channels' reducers, *)
(* so the empty lists of the four merged channels clear nothing.            *)

\* Mutant of StartRun: the plan of the last run stays until the review cycle.
StartRunKeepsPlan(t) ==
    /\ pc \in Stopped
    /\ run < MaxRuns
    /\ run' = run + 1
    /\ trip' = t
    /\ pc' = "memory_context"
    /\ steps' = 0
    /\ drafted' = 0
    /\ state' = [state EXCEPT !.requirements = t, !.next_agent = None, !.error = None]
    /\ UNCHANGED settings

StartRun(t) ==
    /\ pc \in Stopped
    /\ run < MaxRuns
    /\ run' = run + 1
    /\ trip' = t
    /\ pc' = "memory_context"
    /\ steps' = 0
    /\ drafted' = 0
    /\ state' = [NoChannels EXCEPT
                    !.requirements = t,
                    !.search_tasks = state.search_tasks,
                    !.search_results = state.search_results,
                    !.tool_errors = state.tool_errors,
                    !.review_history = state.review_history]
    /\ UNCHANGED settings

\* The run has its store, user and thread id, so only the store itself can fail.
MemoryContext ==
    /\ Superstep("memory_context", "router")
    /\ \E error \in {None, "store_unavailable"} : state' = [state EXCEPT !.error = error]
    /\ UNCHANGED drafted

\* The request _make_initial_state writes always names a trip.
Router ==
    /\ Superstep("router", "retriever")
    /\ state' = [state EXCEPT !.next_agent = IF state.error = None THEN "planner" ELSE None]
    /\ UNCHANGED drafted

\* Only the plain retriever's failure is the run's failure.
Retriever ==
    /\ Superstep("retriever", "prepare_search_tasks")
    /\ \/ state' = state
       \/ /\ state.next_agent = "planner"
          /\ ~settings.advanced
          /\ state' = [state EXCEPT !.error = RetrievalFailed]
    /\ UNCHANGED drafted

\* Mutant of SearchReset: the empty result list goes through its reducer.
SearchResetMerged == [state EXCEPT !.search_tasks = {}, !.tool_errors = {},
                                   !.found = {}]

\* Overwrite bypasses the reducers: nothing of an earlier run is left.
SearchReset == [state EXCEPT !.search_tasks = {}, !.search_results = {},
                             !.tool_errors = {}, !.found = {}]

\* prepare_search_tasks and dispatch_search_tasks.
PrepareSearchTasks ==
    /\ \/ /\ state.error = None
          /\ Superstep("prepare_search_tasks", "search_worker")
          /\ state' = [SearchReset EXCEPT
                        !.search_tasks = [kind: Kinds, trip: {state.requirements}]]
       \/ /\ state.error # None
          /\ Superstep("prepare_search_tasks", "aggregate_search_results")
          /\ state' = SearchReset
    /\ UNCHANGED drafted

\* The envelopes this run's workers write for a set of tasks.
Written(tasks) == {[kind |-> t.kind, trip |-> t.trip, run |-> run] : t \in tasks}

\* One worker per task, in one superstep.  Each finds something or writes a
\* tool error; a route is never found.
SearchWorkers ==
    /\ Superstep("search_worker", "aggregate_search_results")
    /\ \E found \in SUBSET {t \in state.search_tasks : t.kind # Route} :
         state' = [state EXCEPT
                    !.search_results = MergeEnvelopes(@, Written(found)),
                    !.tool_errors = MergeEnvelopes(@, Written(state.search_tasks \ found))]
    /\ UNCHANGED drafted

KindsOf(envelopes) == {e.kind : e \in envelopes}

AggregateSearchResults ==
    /\ Superstep("aggregate_search_results", "initialize_review_cycle")
    /\ state' = [state EXCEPT !.found = KindsOf(state.search_results)
                                            \ KindsOf(state.tool_errors)]
    /\ UNCHANGED drafted

\* Mutant of InitializeReviewCycle: the empty history goes through its reducer.
InitializeReviewCycleMerged ==
    /\ Superstep("initialize_review_cycle", "planner")
    /\ state' = [state EXCEPT
                    !.draft_plan = None, !.current_review = None, !.review_round = 0,
                    !.revision_policy = None, !.review_status = "pending",
                    !.finalization_reason = None, !.travel_plan = None]
    /\ UNCHANGED drafted

\* Overwrite again: no draft, review, policy or plan of an earlier run is left.
InitializeReviewCycle ==
    /\ Superstep("initialize_review_cycle", "planner")
    /\ state' = [state EXCEPT
                    !.draft_plan = None, !.current_review = None,
                    !.review_history = {}, !.review_round = 0,
                    !.revision_policy = None, !.review_status = "pending",
                    !.finalization_reason = None, !.travel_plan = None]
    /\ UNCHANGED drafted

-----------------------------------------------------------------------------
(* Planner.                                                                 *)

\* _available_result_data: summary, results and tool errors agree.
Available == {e \in state.search_results :
                 e.kind \in state.found \ KindsOf(state.tool_errors)}

\* Who may draft: the LLM, when its choice is grounded at once or after one
\* repair; the rules, in deterministic mode or as the allowed fallback.
Authors ==
    (IF ~settings.qwen \/ settings.fallback THEN {"rules"} ELSE {})
        \union (IF settings.provider THEN {"llm"} ELSE {})

\* What ends the Planner instead: a rejected choice always does, the other LLM
\* errors only without fallback.
LLMFailures ==
    (IF settings.provider THEN {"llm_grounding_violation"} ELSE {})
        \union (IF ~settings.qwen \/ settings.fallback THEN {}
                ELSE IF settings.provider THEN {"llm_provider_error"}
                     ELSE {"llm_not_configured"})

PlannerFails(error, reason) ==
    /\ Superstep("planner", "end")
    /\ state' = [state EXCEPT !.draft_plan = None, !.travel_plan = None,
                              !.review_status = "failed",
                              !.finalization_reason = reason, !.error = error]
    /\ UNCHANGED drafted

\* An earlier node's error, in its own words; _prepare_planning_inputs.
PlannerNotSelected ==
    /\ state.error # None
    /\ PlannerFails(state.error, state.finalization_reason)

PlannerMissesData ==
    /\ state.error = None
    /\ ~(Critical \subseteq KindsOf(Available))
    /\ PlannerFails(CriticalFailed, "critical_search_failure")

\* The LLM gives no usable choice, or the assembly raises PlanningServiceError.
PlannerCannotPlan ==
    /\ state.error = None
    /\ Critical \subseteq KindsOf(Available)
    /\ \/ \E error \in LLMFailures : PlannerFails(error, state.finalization_reason)
       \/ /\ Authors # {}
          /\ PlannerFails(IF state.review_round > 0 THEN "revision_failed"
                                                    ELSE "plan_assembly_failed",
                          state.finalization_reason)

\* route_after_planner sends a draft to the Reviewer.
PlannerDrafts ==
    /\ state.error = None
    /\ Critical \subseteq KindsOf(Available)
    /\ Superstep("planner", "reviewer")
    /\ \E author \in Authors :
         state' = [state EXCEPT
                    !.draft_plan = [trip |-> state.requirements,
                                    results |-> Available,
                                    policy |-> state.revision_policy,
                                    author |-> author],
                    !.travel_plan = None]
    /\ drafted' = drafted + 1

-----------------------------------------------------------------------------
(* Reviewer and the end of the loop.                                        *)

\* Mutant of DecideReview: one round too many.
DecideReviewLate(passed, round) ==
    IF passed THEN "accept"
    ELSE IF round > settings.rounds THEN "forced_finalize" ELSE "revise"

DecideReview(passed, round) ==
    IF passed THEN "accept"
    ELSE IF round >= settings.rounds THEN "forced_finalize" ELSE "revise"

StatusOf(decision) ==
    CASE decision = "accept" -> "accepted"
      [] decision = "forced_finalize" -> "forced_finalized"
      [] OTHER -> "pending"

ReasonOf(decision) ==
    CASE decision = "accept" -> "threshold_reached"
      [] decision = "forced_finalize" -> "max_review_rounds_reached"
      [] OTHER -> None

\* Mutants of Reviewed: the first review is kept; the policy is not replaced.
ReviewedOnce(passed) ==
    LET round == state.review_round + 1
        decision == DecideReview(passed, round)
        review == [run |-> run, round |-> round, draft |-> state.draft_plan,
                   decision |-> decision]
    IN  /\ Superstep("reviewer", IF decision = "revise" THEN "planner" ELSE "finalize_plan")
        /\ state' = [state EXCEPT
                      !.current_review = IF @ = None THEN review ELSE @,
                      !.review_history = MergeHistory(@, {review}),
                      !.review_round = round,
                      !.revision_policy = [run |-> run, round |-> round],
                      !.review_status = StatusOf(decision),
                      !.finalization_reason = ReasonOf(decision)]
        /\ UNCHANGED drafted

ReviewedWithoutPolicy(passed) ==
    LET round == state.review_round + 1
        decision == DecideReview(passed, round)
        review == [run |-> run, round |-> round, draft |-> state.draft_plan,
                   decision |-> decision]
    IN  /\ Superstep("reviewer", IF decision = "revise" THEN "planner" ELSE "finalize_plan")
        /\ state' = [state EXCEPT
                      !.current_review = review,
                      !.review_history = MergeHistory(@, {review}),
                      !.review_round = round,
                      !.revision_policy = IF @ = None THEN [run |-> run, round |-> round] ELSE @,
                      !.review_status = StatusOf(decision),
                      !.finalization_reason = ReasonOf(decision)]
        /\ UNCHANGED drafted

\* reviewer_node, then route_after_review: only a revise decision goes back.
Reviewed(passed) ==
    LET round == state.review_round + 1
        decision == DecideReview(passed, round)
        review == [run |-> run, round |-> round, draft |-> state.draft_plan,
                   decision |-> decision]
    IN  /\ Superstep("reviewer", IF decision = "revise" THEN "planner" ELSE "finalize_plan")
        /\ state' = [state EXCEPT
                      !.current_review = review,
                      !.review_history = MergeHistory(@, {review}),
                      !.review_round = round,
                      !.revision_policy = [run |-> run, round |-> round],
                      !.review_status = StatusOf(decision),
                      !.finalization_reason = ReasonOf(decision)]
        /\ UNCHANGED drafted

\* The round that failed is not counted.  An LLM error reaches the node only
\* when no deterministic reviewer stands in.
ReviewFails ==
    \E error \in ReviewErrors \union
                   (IF settings.provider /\ ~settings.fallback
                    THEN {"llm_provider_error"} ELSE {}) :
        /\ Superstep("reviewer", "finalize_plan")
        /\ state' = [state EXCEPT
                      !.current_review = None, !.revision_policy = None,
                      !.review_status = "failed",
                      !.finalization_reason = "reviewer_failure", !.error = error]
        /\ UNCHANGED drafted

\* present_plan: the quality is the review's only if status, reason, decision,
\* round and error all agree; otherwise it is unavailable.
QualityOf(s) ==
    IF /\ s.current_review # None
       /\ s.error = None
       /\ s.current_review.round = s.review_round
       /\ s.current_review.decision \in {"accept", "forced_finalize"}
       /\ s.review_status = StatusOf(s.current_review.decision)
       /\ s.finalization_reason = ReasonOf(s.current_review.decision)
    THEN s.review_status
    ELSE "unavailable"

\* Mutant of FinalizePlan: the exposed plan clears the error.
FinalizePlanClearsError ==
    /\ Superstep("finalize_plan", "end")
    /\ state' = [state EXCEPT !.error = None,
                              !.travel_plan = [draft |-> state.draft_plan,
                                               quality |-> QualityOf(state)]]
    /\ UNCHANGED drafted

\* The last draft is exposed even when its review failed; the error stays.
FinalizePlan ==
    /\ Superstep("finalize_plan", "end")
    /\ state' = [state EXCEPT !.travel_plan = [draft |-> state.draft_plan,
                                               quality |-> QualityOf(state)]]
    /\ UNCHANGED drafted

-----------------------------------------------------------------------------
(* Runs that end early.                                                     *)

\* GraphRecursionError: the budget is used up and a node is still due.
OutOfSteps ==
    /\ pc \in Nodes
    /\ steps >= settings.budget
    /\ pc' = "exhausted"
    /\ UNCHANGED <<settings, run, trip, steps, drafted, state>>

\* A cancelled request, a crash, or a checkpoint that cannot be written.
Interrupt ==
    /\ pc \in Nodes
    /\ pc' = "raised"
    /\ UNCHANGED <<settings, run, trip, steps, drafted, state>>

\* One superstep of the run in progress, or its end.
RunStep ==
    \/ MemoryContext \/ Router \/ Retriever
    \/ PrepareSearchTasks \/ SearchWorkers \/ AggregateSearchResults
    \/ InitializeReviewCycle
    \/ PlannerNotSelected \/ PlannerMissesData \/ PlannerCannotPlan \/ PlannerDrafts
    \/ \E passed \in BOOLEAN : Reviewed(passed)
    \/ ReviewFails \/ FinalizePlan
    \/ OutOfSteps \/ Interrupt

Next == (\E t \in Trips : StartRun(t)) \/ RunStep

Spec == Init /\ [][Next]_vars

-----------------------------------------------------------------------------
(* What the callers make of the end of a run.                               *)

\* Mutant of RefusedErrors: the reviewer's codes are forgotten.
RefusedErrorsOfPlanner ==
    {"store_unavailable", CriticalFailed, "plan_assembly_failed", "revision_failed"}
        \union LLMErrors

\* The codes execute_thread_plan answers with an error.
RefusedErrors ==
    {"store_unavailable", CriticalFailed, "plan_assembly_failed", "revision_failed"}
        \union LLMErrors \union ReviewErrors

\* execute_thread_plan: an error it knows, or no plan, is a 503.
PlainAnswer ==
    IF state.error \in RefusedErrors \/ state.travel_plan = None
    THEN None ELSE state.travel_plan

\* TravelPlanStream: plan_completed needs no error and a plan for this request.
StreamAnswer ==
    IF \/ state.error # None
       \/ state.travel_plan = None
       \/ state.travel_plan.draft.trip # trip
    THEN None ELSE state.travel_plan

\* get_thread_state: the plan of the newest checkpoint, unless it has an error.
StateAnswer == IF state.error # None THEN None ELSE state.travel_plan

-----------------------------------------------------------------------------
(* Properties.                                                              *)

TypeOK ==
    /\ settings \in Settings
    /\ run \in 0 .. MaxRuns
    /\ trip \in Trips
    /\ pc \in Nodes \union Stopped
    /\ steps \in Nat
    /\ drafted \in Nat
    /\ state \in Channels

\* The plan a run ends with is for the trip it was asked for and made only of
\* what its own workers found, every critical kind among it, whatever earlier
\* or interrupted runs left in the thread's channels.
PlanIsFresh ==
    pc = "end" /\ state.travel_plan # None =>
        LET draft == state.travel_plan.draft IN
        /\ draft.trip = trip
        /\ \A e \in draft.results : e.run = run /\ e.trip = trip
        /\ Critical \subseteq KindsOf(draft.results)

\* A run that returns has a plan or an error to show, and one without error was
\* accepted or forced: no run ends in silence (API routes, mapper fallback).
OutcomeIsHonest ==
    pc = "end" =>
        \/ state.error # None /\ state.review_status = "failed"
        \/ /\ state.error = None
           /\ state.travel_plan # None
           /\ state.travel_plan.quality = state.review_status
           /\ state.review_status \in {"accepted", "forced_finalized"}

\* The plan shown is the draft of the last review, and its quality that
\* review's decision; a plan whose review failed claims no quality.
PlanIsReviewed ==
    pc = "end" /\ state.travel_plan # None =>
        \/ state.error # None /\ state.travel_plan.quality = "unavailable"
        \/ \E review \in state.review_history :
             /\ review = state.current_review
             /\ review.round = state.review_round
             /\ review.draft = state.travel_plan.draft
             /\ review.decision # "revise"

\* docs/16: Reviewer can run at most REVIEW_MAX_ROUNDS times, and a plan is
\* forced only in the last of them; the Planner never drafts more often.
RoundsAreBounded ==
    /\ state.review_round <= settings.rounds
    /\ pc \in Nodes => drafted <= settings.rounds
    /\ pc = "end" /\ state.review_status = "forced_finalized" =>
         state.review_round = settings.rounds

\* From the Planner on, the history holds this run's rounds 1 to review_round,
\* each once, all but the last of them sent back for revision.
HistoryIsOfThisRun ==
    pc \in {"planner", "reviewer", "finalize_plan"} =>
        /\ \A review \in state.review_history : review.run = run
        /\ \A n \in 1 .. state.review_round :
             \E review \in state.review_history : review.round = n
        /\ \A a, b \in state.review_history :
             /\ a.round \in 1 .. state.review_round
             /\ a.round = b.round => a = b
             /\ a.round < state.review_round => a.decision = "revise"

\* A draft applies the feedback of the review just before it, and the first
\* draft of a run none: no policy of an earlier round or run is applied again.
FeedbackIsApplied ==
    pc = "reviewer" =>
        state.draft_plan.policy =
            IF drafted = 1 THEN None ELSE [run |-> run, round |-> drafted - 1]

\* docs/16: the recursion limit is a second safety layer - with room for all
\* rounds, a run is never ended by it.
LimitIsSecond ==
    pc = "exhausted" => settings.budget < 8 + 2 * settings.rounds

\* The thread keeps the promise of ThreadPlan: interrupted, exhausted and failed
\* runs show no plan, and no run shows the plan of an earlier one.
Promise == INSTANCE ThreadPlan WITH
    phase <- CASE pc = "idle" -> "idle"
               [] pc \in Nodes -> "running"
               [] pc = "end" /\ state.error = None -> "planned"
               [] OTHER -> "failed",
    wanted <- trip,
    shown <- IF StateAnswer = None THEN None ELSE StateAnswer.draft.trip

KeepsPromise == Promise!Spec

\* The plain route, the stream and the thread's state show the same plan, or
\* none, for the same run.
AnswersAgree ==
    pc = "end" => PlainAnswer = StreamAnswer /\ StreamAnswer = StateAnswer


-----------------------------------------------------------------------------
(* The inductive invariants behind these properties.                        *)

\* Made in this run, for its trip, of what its own workers found.
Fresh(draft) ==
    /\ draft # None
    /\ draft.trip = trip
    /\ \A e \in draft.results : e.run = run /\ e.trip = trip
    /\ Critical \subseteq KindsOf(draft.results)

\* The two ways a run reaches finalize_plan.
Verdict ==
    \/ /\ state.error \in ReviewErrors \union LLMErrors
       /\ state.review_status = "failed"
       /\ state.current_review = None
    \/ LET review == state.current_review IN
       /\ state.error = None
       /\ review # None
       /\ review \in state.review_history
       /\ review.round = state.review_round
       /\ review.draft = state.draft_plan
       /\ review.decision \in {"accept", "forced_finalize"}
       /\ state.review_status = StatusOf(review.decision)
       /\ state.finalization_reason = ReasonOf(review.decision)

\* What the channels hold at each node of a run.
Coherent ==
    /\ pc = "idle" => run = 0
    /\ pc # "idle" => run > 0
    /\ pc # "end" => state.travel_plan = None
    /\ pc \in Nodes => state.requirements = trip
    /\ pc = "search_worker" =>
         state.search_results = {} /\ \A t \in state.search_tasks : t.trip = trip
    /\ pc \in {"aggregate_search_results", "initialize_review_cycle",
               "planner", "reviewer"} =>
         \A e \in state.search_results : e.run = run /\ e.trip = trip
    /\ pc \in {"planner", "reviewer", "finalize_plan"} =>
         \A review \in state.review_history : review.run = run
    /\ pc = "reviewer" => state.error = None
    /\ pc \in {"reviewer", "finalize_plan"} => Fresh(state.draft_plan)
    /\ pc = "finalize_plan" => Verdict
    /\ pc = "end" /\ state.travel_plan # None =>
         /\ Fresh(state.travel_plan.draft)
         /\ state.error # None => state.error \in ReviewErrors \union LLMErrors
    /\ OutcomeIsHonest /\ PlanIsReviewed

\* How far the loop is: rounds, drafts and supersteps go together.
Paced ==
    /\ pc = "memory_context" => steps = 0
    /\ pc = "router" => steps <= 1
    /\ pc = "retriever" => steps <= 2
    /\ pc = "prepare_search_tasks" => steps <= 3
    /\ pc = "search_worker" => steps <= 4
    /\ pc = "aggregate_search_results" => steps <= 5
    /\ pc = "initialize_review_cycle" => steps <= 6
    /\ pc \in Nodes \ {"planner", "reviewer", "finalize_plan"} =>
         drafted = 0 /\ state.review_round = 0
    /\ pc = "planner" =>
         /\ drafted = state.review_round
         /\ state.review_round < settings.rounds
         /\ steps <= 7 + 2 * state.review_round
    /\ pc = "reviewer" =>
         /\ drafted = state.review_round + 1
         /\ state.review_round < settings.rounds
         /\ steps <= 8 + 2 * state.review_round
    /\ pc = "finalize_plan" => drafted <= settings.rounds /\ steps <= 7 + 2 * settings.rounds
    /\ state.review_round <= settings.rounds
    /\ state.review_status = "forced_finalized" => state.review_round = settings.rounds
    /\ LimitIsSecond

\* The feedback the Planner owes its next draft: the last review's, if any.
Feedback ==
    IF state.review_round = 0 THEN None ELSE [run |-> run, round |-> state.review_round]

\* What the loop has been told, and what the draft under review was made from.
Informed ==
    /\ HistoryIsOfThisRun
    /\ pc \in {"planner", "reviewer"} =>
         /\ state.revision_policy = Feedback
         /\ \A review \in state.review_history : review.decision = "revise"
    /\ pc = "reviewer" => state.draft_plan.policy = Feedback

=============================================================================
