--------------------------- MODULE PlanGraphProofs ---------------------------
(* Theorems about PlanGraph, for every set of trips, kinds and settings.     *)
EXTENDS PlanGraph, TLAPS

Typed == TypeOK /\ Coherent

-----------------------------------------------------------------------------
(* The operators the channels are built from.                               *)

\* A reducer returns only what one of its arguments holds.
LEMMA MergesAreBounded ==
    ASSUME NEW left, NEW right
    PROVE  /\ MergeEnvelopes(left, right) \subseteq left \union right
           /\ MergeHistory(left, right) \subseteq left \union right
BY DEF MergeEnvelopes, MergeHistory

\* The workers' envelopes carry the run and the trip of their tasks.
LEMMA WrittenEnvelopes ==
    ASSUME run \in Runs, NEW tasks, tasks \subseteq Task
    PROVE  /\ Written(tasks) \subseteq Envelope
           /\ \A e \in Written(tasks) :
                e.run = run /\ \E t \in tasks : e.trip = t.trip /\ e.kind = t.kind
BY DEF Written, Task, Envelope

\* A decision has a status, and a final one is the quality of its plan.
LEMMA Decided ==
    ASSUME NEW decision \in Decisions
    PROVE  /\ StatusOf(decision) \in {"pending", "accepted", "forced_finalized"}
           /\ ReasonOf(decision) \in Reasons \union {None}
           /\ decision \in {"accept", "forced_finalize"} =>
                StatusOf(decision) \in {"accepted", "forced_finalized"}
           /\ StatusOf(decision) = "forced_finalized" <=> decision = "forced_finalize"
BY DEF Decisions, StatusOf, ReasonOf, Reasons

LEMMA NoneIsNoValue ==
    None \notin Draft /\ None \notin Review /\ None \notin Plan /\ None \notin Errors
    /\ None \notin Policy
BY NoneAssumption

-----------------------------------------------------------------------------
(* Type correctness and what the channels hold.                             *)

LEMMA InitIsTyped == Init => Typed
<1> SUFFICES ASSUME Init PROVE Typed
  OBVIOUS
<1>1. state \in Channels
  BY DEF Init, NoChannels, Channels
<1>2. TypeOK
  BY <1>1, PlanGraphAssumption DEF Init, TypeOK, Stopped, Nodes
<1>3. Coherent
  BY DEF Init, NoChannels, Nodes, Coherent, OutcomeIsHonest, PlanIsReviewed
<1> QED
  BY <1>2, <1>3 DEF Typed

\* A run starts without plan, for the trip it is asked for.
LEMMA StartIsTyped ==
    ASSUME Typed, NEW t \in Trips, StartRun(t)
    PROVE  Typed'
<1>a. state \in Channels /\ run \in 0 .. MaxRuns /\ settings \in Settings
  BY DEF Typed, TypeOK
<1>1. state' \in Channels
  BY <1>a DEF StartRun, NoChannels, Channels
<1>2. run' \in 0 .. MaxRuns /\ run' > 0
  BY <1>a, PlanGraphAssumption DEF StartRun
<1>3. TypeOK'
  BY <1>a, <1>1, <1>2 DEF StartRun, TypeOK, Nodes
<1>4. state'.travel_plan = None /\ state'.requirements = trip'
  BY <1>a DEF StartRun, NoChannels
<1>5. Coherent'
  BY <1>2, <1>4 DEF StartRun, Coherent, OutcomeIsHonest, PlanIsReviewed
<1> QED
  BY <1>3, <1>5 DEF Typed

\* What every superstep of a typed run may rely on.
LEMMA InRun ==
    ASSUME Typed, NEW node \in Nodes, NEW next, Superstep(node, next)
    PROVE  /\ state \in Channels /\ run \in Runs /\ steps' \in Nat
           /\ settings' = settings /\ run' = run /\ trip' = trip
           /\ pc = node /\ pc' = next
           /\ state.requirements = trip /\ state.travel_plan = None /\ trip \in Trips
           /\ run > 0
<1>1. pc = node /\ pc # "idle" /\ pc # "end"
  BY DEF Superstep, Nodes
<1>2. run \in Runs
  BY <1>1, PlanGraphAssumption DEF Typed, TypeOK, Coherent, Runs
<1> QED
  BY <1>1, <1>2 DEF Typed, TypeOK, Coherent, Superstep, Runs

\* Preparation and search leave a run without plan and with its own results.
LEMMA SearchIsTyped ==
    ASSUME Typed,
           \/ MemoryContext \/ Router \/ Retriever
           \/ PrepareSearchTasks \/ SearchWorkers \/ AggregateSearchResults
    PROVE  Typed'
<1>o. ASSUME NEW node \in Nodes, NEW next \in Nodes, Superstep(node, next), drafted' = drafted,
             state' \in Channels, state'.requirements = state.requirements,
             state'.travel_plan = state.travel_plan,
             next \notin {"planner", "reviewer", "finalize_plan"},
             next = "search_worker" =>
                state'.search_results = {} /\ \A t \in state'.search_tasks : t.trip = trip,
             next \in {"aggregate_search_results", "initialize_review_cycle"} =>
                \A e \in state'.search_results : e.run = run /\ e.trip = trip
      PROVE  Typed'
  <2>1. /\ run \in Runs /\ run > 0 /\ steps' \in Nat /\ settings' = settings
        /\ run' = run /\ trip' = trip /\ pc' = next
        /\ state.requirements = trip /\ state.travel_plan = None
    BY <1>o, InRun
  <2>2. TypeOK'
    BY <1>o, <2>1 DEF Typed, TypeOK
  <2>3. pc' # "idle" /\ pc' # "end"
    BY <2>1, <1>o DEF Nodes
  <2>4. Coherent'
    BY <1>o, <2>1, <2>3 DEF Coherent, OutcomeIsHonest, PlanIsReviewed
  <2> QED
    BY <2>2, <2>4 DEF Typed
<1>n. /\ "memory_context" \in Nodes /\ "router" \in Nodes /\ "retriever" \in Nodes
      /\ "prepare_search_tasks" \in Nodes /\ "search_worker" \in Nodes
      /\ "aggregate_search_results" \in Nodes /\ "initialize_review_cycle" \in Nodes
  BY DEF Nodes
<1>a. state \in Channels
  BY DEF Typed, TypeOK
<1>1. CASE MemoryContext
  <2>1. PICK error \in {None, "store_unavailable"} : state' = [state EXCEPT !.error = error]
    BY <1>1 DEF MemoryContext
  <2>2. state' \in Channels /\ state'.requirements = state.requirements
        /\ state'.travel_plan = state.travel_plan
    BY <2>1, <1>a DEF Channels, Errors
  <2> QED
    BY <1>1, <1>n, <1>o, <2>2 DEF MemoryContext
<1>2. CASE Router
  <2>1. state' \in Channels /\ state'.requirements = state.requirements
        /\ state'.travel_plan = state.travel_plan
    BY <1>2, <1>a DEF Router, Channels
  <2> QED
    BY <1>2, <1>n, <1>o, <2>1 DEF Router
<1>3. CASE Retriever
  <2>1. state' \in Channels /\ state'.requirements = state.requirements
        /\ state'.travel_plan = state.travel_plan
    BY <1>3, <1>a DEF Retriever, Channels, Errors
  <2> QED
    BY <1>3, <1>n, <1>o, <2>1 DEF Retriever
<1>4. CASE PrepareSearchTasks
  <2>1. SearchReset \in Channels /\ SearchReset.requirements = state.requirements
        /\ SearchReset.travel_plan = state.travel_plan
        /\ SearchReset.search_results = {}
    BY <1>a DEF SearchReset, Channels
  <2>2. CASE Superstep("prepare_search_tasks", "aggregate_search_results") /\ state' = SearchReset
    BY <1>4, <1>n, <1>o, <2>1, <2>2 DEF PrepareSearchTasks
  <2>3. CASE /\ Superstep("prepare_search_tasks", "search_worker")
             /\ state' = [SearchReset EXCEPT
                            !.search_tasks = [kind: Kinds, trip: {state.requirements}]]
    <3> DEFINE tasks == [kind: Kinds, trip: {state.requirements}]
    <3>1. state.requirements = trip /\ trip \in Trips
      BY <2>3, <1>n, InRun
    <3>2. tasks \subseteq Task /\ \A t \in tasks : t.trip = trip
      BY <3>1 DEF Task
    <3> HIDE DEF tasks
    <3>3. /\ state' \in Channels /\ state'.requirements = state.requirements
          /\ state'.travel_plan = state.travel_plan
          /\ state'.search_results = {} /\ state'.search_tasks = tasks
      BY <2>1, <2>3, <3>2 DEF Channels, tasks
    <3> QED
      BY <1>4, <1>n, <1>o, <2>3, <3>2, <3>3 DEF PrepareSearchTasks
  <2> QED
    BY <1>4, <2>2, <2>3 DEF PrepareSearchTasks
<1>5. CASE SearchWorkers
  <2>1. PICK found \in SUBSET {t \in state.search_tasks : t.kind # Route} :
            state' = [state EXCEPT
                        !.search_results = MergeEnvelopes(state.search_results, Written(found)),
                        !.tool_errors = MergeEnvelopes(state.tool_errors,
                                                       Written(state.search_tasks \ found))]
    BY <1>5, Zenon DEF SearchWorkers
  <2>2. /\ pc = "search_worker" /\ run \in Runs /\ pc \in Nodes
    BY <1>5, <1>n, InRun DEF SearchWorkers
  <2>3. /\ state.search_tasks \subseteq Task /\ found \subseteq state.search_tasks
        /\ state.search_results = {} /\ state.tool_errors \subseteq Envelope
        /\ \A t \in state.search_tasks : t.trip = trip
    BY <1>a, <2>2 DEF Channels, Typed, Coherent
  <2>4. /\ Written(found) \subseteq Envelope
        /\ Written(state.search_tasks \ found) \subseteq Envelope
        /\ \A e \in Written(found) : e.run = run /\ e.trip = trip
    BY <2>2, <2>3, WrittenEnvelopes
  <2> DEFINE results == MergeEnvelopes(state.search_results, Written(found))
             failures == MergeEnvelopes(state.tool_errors, Written(state.search_tasks \ found))
  <2>5. /\ results \subseteq Envelope /\ failures \subseteq Envelope
        /\ \A e \in results : e.run = run /\ e.trip = trip
    <3>1. results \subseteq state.search_results \union Written(found)
      BY DEF MergeEnvelopes
    <3>2. failures \subseteq state.tool_errors \union Written(state.search_tasks \ found)
      BY DEF MergeEnvelopes
    <3> QED
      BY <2>3, <2>4, <3>1, <3>2
  <2>6. state' = [state EXCEPT !.search_results = results, !.tool_errors = failures]
    BY <2>1, Zenon
  <2> HIDE DEF results, failures
  <2>7. /\ state' \in Channels /\ state'.requirements = state.requirements
        /\ state'.travel_plan = state.travel_plan /\ state'.search_results = results
    BY <1>a, <2>5, <2>6 DEF Channels
  <2> QED
    BY <1>5, <1>n, <1>o, <2>5, <2>7 DEF SearchWorkers
<1>6. CASE AggregateSearchResults
  <2>1. KindsOf(state.search_results) \subseteq Kinds
    BY <1>a DEF KindsOf, Channels, Envelope
  <2>2. /\ state' \in Channels /\ state'.requirements = state.requirements
        /\ state'.travel_plan = state.travel_plan
        /\ state'.search_results = state.search_results
    BY <1>6, <1>a, <2>1 DEF AggregateSearchResults, Channels
  <2>3. \A e \in state.search_results : e.run = run /\ e.trip = trip
    BY <1>6 DEF AggregateSearchResults, Superstep, Typed, Coherent
  <2> QED
    BY <1>6, <1>n, <1>o, <2>2, <2>3 DEF AggregateSearchResults
<1> QED
  BY <1>1, <1>2, <1>3, <1>4, <1>5, <1>6

\* The review cycle starts without draft, review or policy.
LEMMA CycleIsTyped ==
    ASSUME Typed, InitializeReviewCycle
    PROVE  Typed'
<1>n. "initialize_review_cycle" \in Nodes /\ "planner" \in Nodes
  BY DEF Nodes
<1>1. /\ state \in Channels /\ run \in Runs /\ run > 0 /\ steps' \in Nat /\ settings' = settings
      /\ run' = run /\ trip' = trip /\ pc = "initialize_review_cycle" /\ pc' = "planner"
      /\ state.requirements = trip /\ trip \in Trips
  BY <1>n, InRun DEF InitializeReviewCycle
<1>2. /\ state' \in Channels /\ state'.requirements = state.requirements
      /\ state'.search_results = state.search_results
      /\ state'.travel_plan = None /\ state'.review_history = {}
  BY <1>1 DEF InitializeReviewCycle, Channels, Reasons
<1>3. TypeOK'
  BY <1>1, <1>2, <1>n DEF InitializeReviewCycle, Typed, TypeOK
<1>4. \A e \in state.search_results : e.run = run /\ e.trip = trip
  BY <1>1 DEF Typed, Coherent
<1>5. Coherent'
  BY <1>1, <1>2, <1>4 DEF Coherent, OutcomeIsHonest, PlanIsReviewed
<1> QED
  BY <1>3, <1>5 DEF Typed

\* A Planner that gives up ends the run with an error and no plan.
LEMMA PlannerFailsTyped ==
    ASSUME Typed, NEW error \in Errors, NEW reason \in Reasons \union {None},
           PlannerFails(error, reason)
    PROVE  Typed'
<1>n. "planner" \in Nodes /\ "end" \notin Nodes
  BY DEF Nodes
<1>1. /\ state \in Channels /\ run \in Runs /\ run > 0 /\ steps' \in Nat /\ settings' = settings
      /\ run' = run /\ trip' = trip /\ pc' = "end" /\ trip \in Trips
  BY <1>n, InRun DEF PlannerFails
<1>2. /\ state' \in Channels /\ state'.error = error /\ state'.review_status = "failed"
      /\ state'.travel_plan = None
  BY <1>1 DEF PlannerFails, Channels
<1>3. TypeOK'
  BY <1>1, <1>2 DEF PlannerFails, Typed, TypeOK, Stopped
<1>4. error # None
  BY NoneIsNoValue
<1>5. Coherent'
  BY <1>1, <1>2, <1>4, <1>n DEF Coherent, OutcomeIsHonest, PlanIsReviewed
<1> QED
  BY <1>3, <1>5 DEF Typed

LEMMA PlannerEndsTyped ==
    ASSUME Typed, PlannerNotSelected \/ PlannerMissesData \/ PlannerCannotPlan
    PROVE  Typed'
<1>1. state.error \in Errors \union {None}
      /\ state.finalization_reason \in Reasons \union {None}
  BY DEF Typed, TypeOK, Channels
<1>2. /\ CriticalFailed \in Errors /\ "critical_search_failure" \in Reasons
      /\ "revision_failed" \in Errors /\ "plan_assembly_failed" \in Errors
  BY DEF Errors, Reasons
<1>3. LLMFailures \subseteq Errors
  BY DEF LLMFailures, Errors, LLMErrors
<1>4. CASE PlannerNotSelected
  BY <1>1, <1>4, PlannerFailsTyped DEF PlannerNotSelected
<1>5. CASE PlannerMissesData
  BY <1>2, <1>5, PlannerFailsTyped DEF PlannerMissesData
<1>6. CASE PlannerCannotPlan
  <2>1. CASE \E error \in LLMFailures : PlannerFails(error, state.finalization_reason)
    BY <1>1, <1>3, <2>1, PlannerFailsTyped
  <2>2. CASE PlannerFails(IF state.review_round > 0 THEN "revision_failed"
                                                    ELSE "plan_assembly_failed",
                          state.finalization_reason)
    BY <1>1, <1>2, <2>2, PlannerFailsTyped
  <2> QED
    BY <1>6, <2>1, <2>2 DEF PlannerCannotPlan
<1> QED
  BY <1>4, <1>5, <1>6

\* A draft is made of this run's results for this run's trip.
LEMMA DraftIsTyped ==
    ASSUME Typed, PlannerDrafts
    PROVE  Typed'
<1>n. "planner" \in Nodes /\ "reviewer" \in Nodes
  BY DEF Nodes
<1>1. /\ state \in Channels /\ run \in Runs /\ run > 0 /\ steps' \in Nat /\ settings' = settings
      /\ run' = run /\ trip' = trip /\ pc = "planner" /\ pc' = "reviewer"
      /\ state.requirements = trip /\ trip \in Trips
      /\ state.error = None /\ Critical \subseteq KindsOf(Available)
  BY <1>n, InRun DEF PlannerDrafts
<1>2. PICK author \in Authors :
          state' = [state EXCEPT
                     !.draft_plan = [trip |-> state.requirements, results |-> Available,
                                     policy |-> state.revision_policy, author |-> author],
                     !.travel_plan = None]
  BY Zenon DEF PlannerDrafts
<1> DEFINE draft == [trip |-> state.requirements, results |-> Available,
                     policy |-> state.revision_policy, author |-> author]
<1>3. Available \subseteq state.search_results
  BY DEF Available
<1>4. /\ state.search_results \subseteq Envelope
      /\ state.revision_policy \in Policy \union {None}
  BY <1>1 DEF Channels
<1>5. \A e \in state.search_results : e.run = run /\ e.trip = trip
  BY <1>1 DEF Typed, Coherent
<1>6. author \in {"rules", "llm"}
  BY DEF Authors
<1>7. draft \in Draft
  BY <1>1, <1>3, <1>4, <1>6 DEF Draft
<1>8. draft # None
  BY <1>7, NoneIsNoValue
<1>9. draft.trip = trip /\ draft.results = Available
  BY <1>1
<1>10. state' = [state EXCEPT !.draft_plan = draft, !.travel_plan = None]
  BY <1>2, Zenon
<1> HIDE DEF draft
<1>11. /\ state' \in Channels /\ state'.requirements = state.requirements
       /\ state'.search_results = state.search_results
       /\ state'.review_history = state.review_history
       /\ state'.travel_plan = None /\ state'.draft_plan = draft
       /\ state'.error = None
  <2>1. state' \in Channels
    <3>1. state \in Channels
      BY <1>1
    <3> QED
      BY <3>1, <1>7, <1>10 DEF Channels
  <2>2. state'.travel_plan = None /\ state'.draft_plan = draft
    BY <1>1, <1>10 DEF Channels
  <2>3. /\ state'.requirements = state.requirements /\ state'.error = state.error
        /\ state'.search_results = state.search_results
        /\ state'.review_history = state.review_history
    BY <1>1, <1>10 DEF Channels
  <2> QED
    BY <1>1, <2>1, <2>2, <2>3
<1>12. TypeOK'
  <2>1. drafted' \in Nat
    BY DEF PlannerDrafts, Typed, TypeOK
  <2> QED
    BY <1>1, <1>11, <1>n, <2>1 DEF Typed, TypeOK
<1>13. Critical \subseteq KindsOf(draft.results)
  BY <1>1, <1>9
<1>14. Fresh(state.draft_plan)'
  <2>1. \A e \in draft.results : e.run = run /\ e.trip = trip
    BY <1>3, <1>5, <1>9
  <2> QED
    BY <1>1, <1>8, <1>9, <1>11, <1>13, <2>1 DEF Fresh, KindsOf
<1>15. \A review \in state.review_history : review.run = run
  BY <1>1 DEF Typed, Coherent
<1>16. Coherent'
  BY <1>1, <1>5, <1>11, <1>14, <1>15 DEF Coherent, OutcomeIsHonest, PlanIsReviewed
<1> QED
  BY <1>12, <1>16 DEF Typed

\* What a review starts from.
LEMMA AtReviewer ==
    ASSUME Typed, NEW next \in Nodes, Superstep("reviewer", next)
    PROVE  /\ state \in Channels /\ run \in Runs /\ run > 0 /\ steps' \in Nat
           /\ settings' = settings /\ run' = run /\ trip' = trip
           /\ pc = "reviewer" /\ pc' = next /\ trip \in Trips
           /\ state.requirements = trip /\ state.travel_plan = None
           /\ state.error = None /\ state.draft_plan \in Draft /\ Fresh(state.draft_plan)
           /\ \A e \in state.search_results : e.run = run /\ e.trip = trip
           /\ state.review_history \subseteq Review
           /\ \A review \in state.review_history : review.run = run
<1>1. "reviewer" \in Nodes
  BY DEF Nodes
<1>2. /\ state \in Channels /\ run \in Runs /\ run > 0 /\ steps' \in Nat
      /\ settings' = settings /\ run' = run /\ trip' = trip
      /\ pc = "reviewer" /\ pc' = next /\ trip \in Trips
      /\ state.requirements = trip /\ state.travel_plan = None
  BY <1>1, InRun
<1>3. /\ state.error = None /\ Fresh(state.draft_plan)
      /\ \A e \in state.search_results : e.run = run /\ e.trip = trip
      /\ \A review \in state.review_history : review.run = run
  BY <1>2 DEF Typed, Coherent
<1>4. state.draft_plan \in Draft /\ state.review_history \subseteq Review
  BY <1>2, <1>3 DEF Channels, Fresh
<1> QED
  BY <1>2, <1>3, <1>4

\* A review enters the history and settles the outcome, or asks for a revision.
LEMMA ReviewedIsTyped ==
    ASSUME Typed, NEW passed \in BOOLEAN, Reviewed(passed)
    PROVE  Typed'
<1> DEFINE round == state.review_round + 1
           decision == DecideReview(passed, round)
           review == [run |-> run, round |-> round, draft |-> state.draft_plan,
                      decision |-> decision]
           policy == [run |-> run, round |-> round]
           history == MergeHistory(state.review_history, {review})
           next == IF decision = "revise" THEN "planner" ELSE "finalize_plan"
<1>n. next \in Nodes /\ next \in {"planner", "finalize_plan"}
  BY DEF Nodes
<1>d. decision \in Decisions
  BY DEF DecideReview, Decisions
<1>1. Superstep("reviewer", next) /\ drafted' = drafted
  BY Zenon DEF Reviewed
<1>2. state' = [state EXCEPT
                 !.current_review = review,
                 !.review_history = history,
                 !.review_round = round,
                 !.revision_policy = policy,
                 !.review_status = StatusOf(decision),
                 !.finalization_reason = ReasonOf(decision)]
  BY Zenon DEF Reviewed
<1>3. /\ state \in Channels /\ run \in Runs /\ run > 0 /\ steps' \in Nat
      /\ settings' = settings /\ run' = run /\ trip' = trip
      /\ pc' = next /\ trip \in Trips
      /\ state.requirements = trip /\ state.travel_plan = None
      /\ state.error = None /\ state.draft_plan \in Draft /\ Fresh(state.draft_plan)
      /\ \A e \in state.search_results : e.run = run /\ e.trip = trip
      /\ state.review_history \subseteq Review
      /\ \A r \in state.review_history : r.run = run
  BY <1>n, <1>1, AtReviewer
<1>4. round \in Nat
  BY <1>3 DEF Channels
<1> HIDE DEF decision
<1>5. review \in Review /\ policy \in Policy
  BY <1>3, <1>4, <1>d DEF Review, Policy
<1>6. /\ history \subseteq Review /\ review \in history
      /\ \A r \in history : r.run = run
  <2>1. history \subseteq state.review_history \union {review}
    BY DEF MergeHistory
  <2>2. run <= run
    BY <1>3 DEF Runs
  <2>3. review \in history
    BY <1>3, <2>2 DEF MergeHistory
  <2>4. review.run = run
    OBVIOUS
  <2> HIDE DEF review, history
  <2> QED
    BY <1>3, <1>5, <2>1, <2>3, <2>4
<1>7. review.round = round /\ review.draft = state.draft_plan /\ review.decision = decision
  OBVIOUS
<1> HIDE DEF round, review, policy, history, next
<1>8. state' \in Channels
  <2>1. StatusOf(decision) \in {"pending", "accepted", "forced_finalized"}
        /\ ReasonOf(decision) \in Reasons \union {None}
    BY <1>d, Decided
  <2>2. state \in Channels
    BY <1>3
  <2> QED
    BY <2>1, <2>2, <1>2, <1>4, <1>5, <1>6 DEF Channels
<1>9. /\ state'.current_review = review /\ state'.review_history = history
      /\ state'.review_round = round
      /\ state'.review_status = StatusOf(decision)
      /\ state'.finalization_reason = ReasonOf(decision)
  BY <1>2, <1>3 DEF Channels
<1>10. /\ state'.requirements = state.requirements /\ state'.travel_plan = state.travel_plan
       /\ state'.error = state.error /\ state'.draft_plan = state.draft_plan
       /\ state'.search_results = state.search_results
  BY <1>2, <1>3 DEF Channels
<1>11. TypeOK'
  BY <1>1, <1>3, <1>8, <1>n DEF Typed, TypeOK
<1>12. Fresh(state.draft_plan)'
  BY <1>3, <1>10 DEF Fresh, KindsOf
<1>13. next = "finalize_plan" => decision \in {"accept", "forced_finalize"}
  BY <1>d DEF next, Decisions
<1>14. pc' = "finalize_plan" => Verdict'
  <2> SUFFICES ASSUME pc' = "finalize_plan" PROVE Verdict'
    OBVIOUS
  <2>1. decision \in {"accept", "forced_finalize"}
    BY <1>3, <1>13
  <2>2. review # None
    BY <1>5, NoneIsNoValue
  <2>3. /\ state'.error = None
        /\ state'.current_review # None
        /\ state'.current_review \in state'.review_history
        /\ state'.current_review.round = state'.review_round
        /\ state'.current_review.draft = state'.draft_plan
        /\ state'.current_review.decision \in {"accept", "forced_finalize"}
        /\ state'.review_status = StatusOf(state'.current_review.decision)
        /\ state'.finalization_reason = ReasonOf(state'.current_review.decision)
    BY <1>3, <1>6, <1>7, <1>9, <1>10, <2>1, <2>2
  <2> QED
    BY <2>3 DEF Verdict, StatusOf, ReasonOf
<1>15. Coherent'
  BY <1>3, <1>6, <1>9, <1>10, <1>12, <1>14, <1>n DEF Coherent, OutcomeIsHonest, PlanIsReviewed
<1> QED
  BY <1>11, <1>15 DEF Typed

\* A failed review leaves the draft, with an error and no review.
LEMMA ReviewFailsTyped ==
    ASSUME Typed, ReviewFails
    PROVE  Typed'
<1>n. "finalize_plan" \in Nodes
  BY DEF Nodes
<1>1. PICK error \in ReviewErrors \union
                   (IF settings.provider /\ ~settings.fallback
                    THEN {"llm_provider_error"} ELSE {}) :
        /\ Superstep("reviewer", "finalize_plan")
        /\ state' = [state EXCEPT
                      !.current_review = None, !.revision_policy = None,
                      !.review_status = "failed",
                      !.finalization_reason = "reviewer_failure", !.error = error]
        /\ UNCHANGED drafted
  BY Zenon DEF ReviewFails
<1>2. error \in ReviewErrors \union LLMErrors /\ error \in Errors
  BY DEF LLMErrors, Errors
<1>3. /\ state \in Channels /\ run \in Runs /\ run > 0 /\ steps' \in Nat
      /\ settings' = settings /\ run' = run /\ trip' = trip
      /\ pc' = "finalize_plan" /\ trip \in Trips
      /\ state.requirements = trip /\ state.travel_plan = None
      /\ Fresh(state.draft_plan)
      /\ \A r \in state.review_history : r.run = run
  BY <1>n, <1>1, AtReviewer
<1>4. "reviewer_failure" \in Reasons
  BY DEF Reasons
<1>5. state' \in Channels
  <2>1. state \in Channels
    BY <1>3
  <2> QED
    BY <1>1, <1>2, <1>4, <2>1 DEF Channels
<1>6. /\ state'.current_review = None /\ state'.review_status = "failed"
      /\ state'.error = error
  BY <1>1, <1>3 DEF Channels
<1>7. /\ state'.requirements = state.requirements /\ state'.travel_plan = state.travel_plan
      /\ state'.draft_plan = state.draft_plan
      /\ state'.review_history = state.review_history
  BY <1>1, <1>3 DEF Channels
<1>8. TypeOK'
  BY <1>1, <1>3, <1>5, <1>n DEF Typed, TypeOK
<1>9. Fresh(state.draft_plan)'
  BY <1>3, <1>7 DEF Fresh, KindsOf
<1>10. Verdict'
  BY <1>2, <1>6 DEF Verdict, ReviewErrors, LLMErrors
<1>11. Coherent'
  BY <1>3, <1>7, <1>9, <1>10 DEF Coherent, OutcomeIsHonest, PlanIsReviewed
<1> QED
  BY <1>8, <1>11 DEF Typed

\* finalize_plan shows the draft, with the quality its review gave it or none.
LEMMA FinalizeIsTyped ==
    ASSUME Typed, FinalizePlan
    PROVE  Typed'
<1>n. "finalize_plan" \in Nodes /\ "end" \notin Nodes
  BY DEF Nodes
<1> DEFINE plan == [draft |-> state.draft_plan, quality |-> QualityOf(state)]
<1>1. /\ state \in Channels /\ run \in Runs /\ run > 0 /\ steps' \in Nat
      /\ settings' = settings /\ run' = run /\ trip' = trip
      /\ pc = "finalize_plan" /\ pc' = "end" /\ trip \in Trips
  BY <1>n, InRun DEF FinalizePlan
<1>2. Fresh(state.draft_plan) /\ Verdict
  BY <1>1 DEF Typed, Coherent
<1>3. state.draft_plan \in Draft
  BY <1>1, <1>2 DEF Channels, Fresh
<1>4. \/ /\ state.error \in ReviewErrors \union LLMErrors
         /\ state.error # None
         /\ state.review_status = "failed"
         /\ QualityOf(state) = "unavailable"
      \/ /\ state.error = None
         /\ state.current_review # None
         /\ state.current_review \in state.review_history
         /\ state.current_review.round = state.review_round
         /\ state.current_review.draft = state.draft_plan
         /\ state.current_review.decision \in {"accept", "forced_finalize"}
         /\ state.review_status \in {"accepted", "forced_finalized"}
         /\ QualityOf(state) = state.review_status
  <2>1. CASE /\ state.error \in ReviewErrors \union LLMErrors
             /\ state.review_status = "failed"
             /\ state.current_review = None
    <3>1. state.error \in Errors
      BY <2>1 DEF Errors
    <3> QED
      BY <2>1, <3>1, NoneIsNoValue DEF QualityOf
  <2>2. CASE /\ state.error = None
             /\ state.current_review # None
             /\ state.current_review \in state.review_history
             /\ state.current_review.round = state.review_round
             /\ state.current_review.draft = state.draft_plan
             /\ state.current_review.decision \in {"accept", "forced_finalize"}
             /\ state.review_status = StatusOf(state.current_review.decision)
             /\ state.finalization_reason = ReasonOf(state.current_review.decision)
    <3>1. state.current_review.decision \in Decisions
      BY <2>2 DEF Decisions
    <3>2. state.review_status \in {"accepted", "forced_finalized"}
      BY <2>2, <3>1, Decided
    <3>3. QualityOf(state) = state.review_status
      BY <2>2 DEF QualityOf
    <3> QED
      BY <2>2, <3>2, <3>3
  <2> QED
    BY <1>2, <2>1, <2>2 DEF Verdict
<1>5. plan \in Plan /\ plan.draft = state.draft_plan /\ plan.quality = QualityOf(state)
  BY <1>3, <1>4 DEF Plan
<1>6. state' = [state EXCEPT !.travel_plan = plan]
  BY Zenon DEF FinalizePlan
<1> HIDE DEF plan
<1>7. state' \in Channels
  <2>1. state \in Channels
    BY <1>1
  <2> QED
    BY <1>5, <1>6, <2>1 DEF Channels
<1>8. /\ state'.travel_plan = plan /\ state'.error = state.error
      /\ state'.review_status = state.review_status
      /\ state'.current_review = state.current_review
      /\ state'.review_history = state.review_history
      /\ state'.review_round = state.review_round
  BY <1>1, <1>6 DEF Channels
<1>9. TypeOK'
  BY <1>1, <1>7 DEF FinalizePlan, Typed, TypeOK, Stopped
<1>10. plan # None
  BY <1>5, NoneIsNoValue
<1>11. Fresh(state.travel_plan.draft)'
  BY <1>1, <1>2, <1>5, <1>8 DEF Fresh, KindsOf
<1>12. OutcomeIsHonest'
  BY <1>4, <1>5, <1>8, <1>10 DEF OutcomeIsHonest
<1>13. PlanIsReviewed'
  BY <1>4, <1>5, <1>8 DEF PlanIsReviewed
<1>14. state'.error # None => state'.error \in ReviewErrors \union LLMErrors
  BY <1>4, <1>8
<1>15. (pc = "end" /\ state.travel_plan # None =>
          /\ Fresh(state.travel_plan.draft)
          /\ state.error # None => state.error \in ReviewErrors \union LLMErrors)'
  BY <1>11, <1>14 DEF ReviewErrors, LLMErrors
<1>16. Coherent'
  BY <1>1, <1>12, <1>13, <1>15, <1>n DEF Coherent
<1> QED
  BY <1>9, <1>16 DEF Typed

\* A run that ends early shows no plan.
LEMMA EarlyEndIsTyped ==
    ASSUME Typed, OutOfSteps \/ Interrupt
    PROVE  Typed'
<1>1. /\ pc \in Nodes /\ pc' \in {"exhausted", "raised"}
      /\ UNCHANGED <<settings, run, trip, steps, drafted, state>>
  BY DEF OutOfSteps, Interrupt
<1>2. pc # "idle" /\ pc # "end"
  BY <1>1 DEF Nodes
<1>3. state.travel_plan = None /\ run > 0
  BY <1>2 DEF Typed, Coherent
<1>4. TypeOK'
  BY <1>1 DEF Typed, TypeOK, Stopped
<1>5. pc' \notin Nodes /\ pc' # "end" /\ pc' # "idle"
  BY <1>1 DEF Nodes
<1>6. Coherent'
  BY <1>1, <1>3, <1>5 DEF Coherent, OutcomeIsHonest, PlanIsReviewed, Nodes
<1> QED
  BY <1>4, <1>6 DEF Typed

LEMMA StepIsTyped ==
    ASSUME Typed, [Next]_vars
    PROVE  Typed'
<1>1. CASE \E t \in Trips : StartRun(t)
  BY <1>1, StartIsTyped
<1>2. CASE \/ MemoryContext \/ Router \/ Retriever
           \/ PrepareSearchTasks \/ SearchWorkers \/ AggregateSearchResults
  BY <1>2, SearchIsTyped
<1>3. CASE InitializeReviewCycle
  BY <1>3, CycleIsTyped
<1>4. CASE PlannerNotSelected \/ PlannerMissesData \/ PlannerCannotPlan
  BY <1>4, PlannerEndsTyped
<1>5. CASE PlannerDrafts
  BY <1>5, DraftIsTyped
<1>6. CASE \E passed \in BOOLEAN : Reviewed(passed)
  BY <1>6, ReviewedIsTyped
<1>7. CASE ReviewFails
  BY <1>7, ReviewFailsTyped
<1>8. CASE FinalizePlan
  BY <1>8, FinalizeIsTyped
<1>9. CASE OutOfSteps \/ Interrupt
  BY <1>9, EarlyEndIsTyped
<1>10. CASE UNCHANGED vars
  BY <1>10 DEF vars, Typed, TypeOK, Coherent, OutcomeIsHonest, PlanIsReviewed,
               Fresh, Verdict, KindsOf, StatusOf, ReasonOf
<1> QED
  BY <1>1, <1>2, <1>3, <1>4, <1>5, <1>6, <1>7, <1>8, <1>9, <1>10 DEF Next, RunStep

LEMMA AlwaysTyped == Spec => []Typed
<1>1. Init => Typed
  BY InitIsTyped
<1>2. Typed /\ [Next]_vars => Typed'
  BY StepIsTyped
<1> QED
  BY <1>1, <1>2, PTL DEF Spec

\* The channels of a thread keep their types through every run, whatever the
\* runs before it left behind (TravelPlanState and its reducers).
THEOREM GraphTypeCorrect == Spec => []TypeOK
<1>1. Typed => TypeOK
  BY DEF Typed
<1> QED
  BY <1>1, AlwaysTyped, PTL

\* The plan of a finished run is for its own trip and of its own search results:
\* nothing of an earlier or interrupted run on the thread reaches it.
THEOREM PlansAreFresh == Spec => []PlanIsFresh
<1>1. Typed => PlanIsFresh
  BY DEF Typed, Coherent, PlanIsFresh, Fresh
<1> QED
  BY <1>1, AlwaysTyped, PTL

\* A run that returns has an error, or a plan that was accepted or forced.
THEOREM OutcomesAreHonest == Spec => []OutcomeIsHonest
<1>1. Typed => OutcomeIsHonest
  BY DEF Typed, Coherent
<1> QED
  BY <1>1, AlwaysTyped, PTL

\* The plan shown is the draft its last review decided on, with that decision's
\* quality, or claims no quality because its review failed.
THEOREM PlansAreReviewed == Spec => []PlanIsReviewed
<1>1. Typed => PlanIsReviewed
  BY DEF Typed, Coherent
<1> QED
  BY <1>1, AlwaysTyped, PTL

\* The plain route, the stream and the stored state answer the same plan or none.
THEOREM CallersAgree == Spec => []AnswersAgree
<1>1. ASSUME Typed, pc = "end"
      PROVE  PlainAnswer = StreamAnswer /\ StreamAnswer = StateAnswer
  <2>1. state.travel_plan # None =>
          /\ state.travel_plan.draft.trip = trip
          /\ state.error # None => state.error \in ReviewErrors \union LLMErrors
    BY <1>1 DEF Typed, Coherent, Fresh
  <2>2. None \notin RefusedErrors
    <3>1. RefusedErrors \subseteq Errors
      BY DEF RefusedErrors, Errors
    <3> QED
      BY <3>1, NoneIsNoValue
  <2>3. ReviewErrors \union LLMErrors \subseteq RefusedErrors
    BY DEF RefusedErrors
  <2> QED
    BY <2>1, <2>2, <2>3 DEF PlainAnswer, StreamAnswer, StateAnswer
<1>2. Typed => AnswersAgree
  BY <1>1 DEF AnswersAgree
<1> QED
  BY <1>2, AlwaysTyped, PTL

-----------------------------------------------------------------------------
(* Rounds, drafts and supersteps.                                           *)

\* The numbers a step of a typed run computes with.
LEMMA Numbers ==
    ASSUME Typed
    PROVE  /\ settings.rounds \in Nat /\ settings.rounds > 0 /\ settings.budget \in Nat
           /\ steps \in Nat /\ drafted \in Nat
           /\ state \in Channels /\ state.review_round \in Nat
<1>1. settings.rounds \in Rounds /\ settings.budget \in Budgets
  BY DEF Typed, TypeOK, Settings
<1>2. settings.rounds \in Nat /\ settings.rounds > 0 /\ settings.budget \in Nat
  <2>1. Rounds \subseteq Nat \ {0} /\ Budgets \subseteq Nat
    BY PlanGraphAssumption
  <2>2. settings.rounds \in Nat /\ settings.rounds # 0
    BY <1>1, <2>1
  <2>3. \A n \in Nat : n # 0 => n > 0
    OBVIOUS
  <2>4. settings.budget \in Nat
    BY <1>1, <2>1
  <2> QED
    BY <2>2, <2>3, <2>4
<1>3. state.review_round \in Nat
  BY DEF Typed, TypeOK, Channels
<1> QED
  BY <1>2, <1>3 DEF Typed, TypeOK

\* Before the Planner nothing is drafted or reviewed.
LEMMA SearchIsPaced ==
    ASSUME Typed, Paced,
           \/ \E t \in Trips : StartRun(t)
           \/ MemoryContext \/ Router \/ Retriever
           \/ PrepareSearchTasks \/ SearchWorkers \/ AggregateSearchResults
    PROVE  Paced'
<1>0. /\ settings.rounds \in Nat /\ settings.rounds > 0 /\ settings.budget \in Nat
      /\ steps \in Nat /\ drafted \in Nat
      /\ state \in Channels /\ state.review_round \in Nat
  BY Numbers
<1>o. ASSUME NEW node, NEW next, Superstep(node, next), drafted' = drafted,
             <<node, next>> \in
                {<<"memory_context", "router">>, <<"router", "retriever">>,
                 <<"retriever", "prepare_search_tasks">>,
                 <<"prepare_search_tasks", "search_worker">>,
                 <<"prepare_search_tasks", "aggregate_search_results">>,
                 <<"search_worker", "aggregate_search_results">>,
                 <<"aggregate_search_results", "initialize_review_cycle">>},
             state'.review_round = state.review_round,
             state'.review_status = state.review_status
      PROVE  Paced'
  <2>1. /\ pc = node /\ pc' = next /\ steps' = steps + 1 /\ settings' = settings
    BY <1>o DEF Superstep
  <2>2. drafted' = 0 /\ state'.review_round = 0
    BY <1>o, <2>1 DEF Paced, Nodes
  <2>3. /\ pc' = "router" => steps' <= 1
        /\ pc' = "retriever" => steps' <= 2
        /\ pc' = "prepare_search_tasks" => steps' <= 3
        /\ pc' = "search_worker" => steps' <= 4
        /\ pc' = "aggregate_search_results" => steps' <= 5
        /\ pc' = "initialize_review_cycle" => steps' <= 6
    BY <1>0, <1>o, <2>1 DEF Paced
  <2>4. pc' \notin {"memory_context", "planner", "reviewer", "finalize_plan", "exhausted"}
    BY <1>o, <2>1
  <2>5. state'.review_status = "forced_finalized" => state'.review_round = settings'.rounds
    BY <1>o, <2>1 DEF Paced
  <2> QED
    BY <1>0, <2>1, <2>2, <2>3, <2>4, <2>5 DEF Paced, LimitIsSecond
<1>1. ASSUME NEW t \in Trips, StartRun(t) PROVE Paced'
  <2>1. /\ pc' = "memory_context" /\ steps' = 0 /\ drafted' = 0 /\ settings' = settings
        /\ state'.review_round = 0 /\ state'.review_status = "pending"
    BY <1>1 DEF StartRun, NoChannels
  <2> QED
    BY <1>0, <2>1 DEF Paced, LimitIsSecond
<1>2. CASE MemoryContext
  <2>1. /\ state'.review_round = state.review_round /\ state'.review_status = state.review_status
    BY <1>0, <1>2 DEF MemoryContext, Channels
  <2> QED
    BY <1>2, <1>o, <2>1 DEF MemoryContext
<1>3. CASE Router
  <2>1. /\ state'.review_round = state.review_round /\ state'.review_status = state.review_status
    BY <1>0, <1>3 DEF Router, Channels
  <2> QED
    BY <1>3, <1>o, <2>1 DEF Router
<1>4. CASE Retriever
  <2>1. /\ state'.review_round = state.review_round /\ state'.review_status = state.review_status
    BY <1>0, <1>4 DEF Retriever, Channels
  <2> QED
    BY <1>4, <1>o, <2>1 DEF Retriever
<1>5. CASE PrepareSearchTasks
  <2>1. /\ state'.review_round = state.review_round /\ state'.review_status = state.review_status
    BY <1>0, <1>5 DEF PrepareSearchTasks, SearchReset, Channels
  <2> QED
    BY <1>5, <1>o, <2>1 DEF PrepareSearchTasks
<1>6. CASE SearchWorkers
  <2>1. /\ state'.review_round = state.review_round /\ state'.review_status = state.review_status
    BY <1>0, <1>6 DEF SearchWorkers, Channels
  <2> QED
    BY <1>6, <1>o, <2>1 DEF SearchWorkers
<1>7. CASE AggregateSearchResults
  <2>1. /\ state'.review_round = state.review_round /\ state'.review_status = state.review_status
    BY <1>0, <1>7 DEF AggregateSearchResults, Channels
  <2> QED
    BY <1>7, <1>o, <2>1 DEF AggregateSearchResults
<1> QED
  BY <1>1, <1>2, <1>3, <1>4, <1>5, <1>6, <1>7

\* A step into the review loop, or out of it.
LEMMA LoopIsPaced ==
    ASSUME Typed, Paced,
           \/ InitializeReviewCycle
           \/ PlannerNotSelected \/ PlannerMissesData \/ PlannerCannotPlan \/ PlannerDrafts
           \/ FinalizePlan \/ OutOfSteps \/ Interrupt
    PROVE  Paced'
<1>0. /\ settings.rounds \in Nat /\ settings.rounds > 0 /\ settings.budget \in Nat
      /\ steps \in Nat /\ drafted \in Nat
      /\ state \in Channels /\ state.review_round \in Nat
  BY Numbers
<1>1. CASE InitializeReviewCycle
  <2>1. /\ pc = "initialize_review_cycle" /\ pc' = "planner" /\ steps' = steps + 1
        /\ drafted' = drafted /\ settings' = settings
        /\ state'.review_round = 0 /\ state'.review_status = "pending"
    BY <1>0, <1>1 DEF InitializeReviewCycle, Superstep, Channels
  <2>2. drafted = 0 /\ steps <= 6
    BY <2>1 DEF Paced, Nodes
  <2> QED
    BY <1>0, <2>1, <2>2 DEF Paced, LimitIsSecond, Nodes
<1>2. CASE PlannerNotSelected \/ PlannerMissesData \/ PlannerCannotPlan
  <2>1. PICK error, reason : PlannerFails(error, reason)
    BY <1>2 DEF PlannerNotSelected, PlannerMissesData, PlannerCannotPlan
  <2>2. /\ pc' = "end" /\ settings' = settings
        /\ state'.review_round = state.review_round /\ state'.review_status = "failed"
    BY <1>0, <2>1 DEF PlannerFails, Superstep, Channels
  <2> QED
    BY <1>0, <2>2 DEF Paced, LimitIsSecond, Nodes
<1>3. CASE PlannerDrafts
  <2>1. /\ pc = "planner" /\ pc' = "reviewer" /\ steps' = steps + 1
        /\ drafted' = drafted + 1 /\ settings' = settings
        /\ state'.review_round = state.review_round
        /\ state'.review_status = state.review_status
    BY <1>0, <1>3 DEF PlannerDrafts, Superstep, Channels
  <2>2. /\ drafted = state.review_round /\ state.review_round < settings.rounds
        /\ steps <= 7 + 2 * state.review_round
    BY <2>1 DEF Paced
  <2>3. state'.review_status = "forced_finalized" => state'.review_round = settings'.rounds
    BY <2>1 DEF Paced
  <2> QED
    BY <1>0, <2>1, <2>2, <2>3 DEF Paced, LimitIsSecond, Nodes
<1>4. CASE FinalizePlan
  <2>1. /\ pc' = "end" /\ settings' = settings
        /\ state'.review_round = state.review_round
        /\ state'.review_status = state.review_status
    BY <1>0, <1>4 DEF FinalizePlan, Superstep, Channels
  <2> QED
    BY <1>0, <2>1 DEF Paced, LimitIsSecond, Nodes
<1>5. CASE Interrupt
  BY <1>0, <1>5 DEF Interrupt, Paced, LimitIsSecond, Nodes
<1>6. CASE OutOfSteps
  <2>1. /\ pc \in Nodes /\ pc' = "exhausted" /\ settings.budget <= steps
        /\ UNCHANGED <<settings, steps, drafted, state>>
    BY <1>0, <1>6 DEF OutOfSteps
  <2>2. steps < 8 + 2 * settings.rounds
    BY <1>0, <2>1 DEF Paced, Nodes
  <2>3. LimitIsSecond'
    BY <1>0, <2>1, <2>2 DEF LimitIsSecond
  <2>4. /\ state'.review_round <= settings'.rounds
        /\ state'.review_status = "forced_finalized" => state'.review_round = settings'.rounds
    BY <2>1 DEF Paced
  <2> QED
    BY <2>1, <2>3, <2>4 DEF Paced, Nodes
<1> QED
  BY <1>1, <1>2, <1>3, <1>4, <1>5, <1>6

\* A review counts its round; the last one never asks for another revision.
LEMMA ReviewIsPaced ==
    ASSUME Typed, Paced, ReviewFails \/ \E passed \in BOOLEAN : Reviewed(passed)
    PROVE  Paced'
<1>0. /\ settings.rounds \in Nat /\ settings.rounds > 0 /\ settings.budget \in Nat
      /\ steps \in Nat /\ drafted \in Nat
      /\ state \in Channels /\ state.review_round \in Nat
  BY Numbers
<1>1. /\ pc = "reviewer" /\ steps' = steps + 1 /\ drafted' = drafted /\ settings' = settings
  BY DEF ReviewFails, Reviewed, Superstep
<1>2. /\ drafted = state.review_round + 1 /\ state.review_round < settings.rounds
      /\ steps <= 8 + 2 * state.review_round
  BY <1>1 DEF Paced
<1>3. CASE ReviewFails
  <2>1. /\ pc' = "finalize_plan" /\ state'.review_round = state.review_round
        /\ state'.review_status = "failed"
    BY <1>0, <1>3 DEF ReviewFails, Superstep, Channels
  <2> QED
    BY <1>0, <1>1, <1>2, <2>1 DEF Paced, LimitIsSecond, Nodes
<1>4. ASSUME NEW passed \in BOOLEAN, Reviewed(passed) PROVE Paced'
  <2> DEFINE round == state.review_round + 1
             decision == DecideReview(passed, round)
  <2>1. /\ pc' = IF decision = "revise" THEN "planner" ELSE "finalize_plan"
        /\ state'.review_round = round /\ state'.review_status = StatusOf(decision)
    BY <1>0, <1>4 DEF Reviewed, Superstep, Channels
  <2>2. /\ decision \in Decisions
        /\ decision = "revise" => round < settings.rounds
        /\ decision = "forced_finalize" => round >= settings.rounds
    BY <1>0 DEF DecideReview, Decisions
  <2>3. round \in Nat /\ round <= settings.rounds
    BY <1>0, <1>2
  <2> HIDE DEF decision
  <2>4. StatusOf(decision) = "forced_finalized" => round = settings.rounds
    BY <1>0, <2>2, <2>3, Decided
  <2>5. CASE decision = "revise"
    <3>1. pc' = "planner"
      BY <2>1, <2>5
    <3> QED
      BY <1>0, <1>1, <1>2, <2>1, <2>2, <2>3, <2>4, <2>5, <3>1 DEF Paced, LimitIsSecond, Nodes
  <2>6. CASE decision # "revise"
    <3>1. pc' = "finalize_plan"
      BY <2>1, <2>6
    <3> QED
      BY <1>0, <1>1, <1>2, <2>1, <2>2, <2>3, <2>4, <3>1 DEF Paced, LimitIsSecond, Nodes
  <2> QED
    BY <2>5, <2>6
<1> QED
  BY <1>3, <1>4

LEMMA AlwaysPaced == Spec => [](Typed /\ Paced)
<1>1. ASSUME Init
      PROVE  Paced
  <2>1. settings.rounds \in Nat /\ settings.rounds > 0
    BY <1>1, InitIsTyped, Numbers
  <2>2. pc = "idle" /\ state.review_round = 0 /\ state.review_status = "pending"
    BY <1>1 DEF Init, NoChannels
  <2> QED
    BY <2>1, <2>2 DEF Paced, LimitIsSecond, Nodes
<1>2. ASSUME Typed, Paced, [Next]_vars
      PROVE  Paced'
  <2>1. CASE UNCHANGED vars
    BY <1>2, <2>1 DEF vars, Paced, LimitIsSecond
  <2> QED
    BY <1>2, <2>1, SearchIsPaced, LoopIsPaced, ReviewIsPaced DEF Next, RunStep
<1>3. Typed /\ Paced /\ [Next]_vars => Paced'
  BY <1>2
<1> QED
  BY <1>1, <1>3, AlwaysTyped, PTL DEF Spec

\* The Reviewer never runs, and the Planner never drafts, more often than the
\* configured rounds; a plan is forced only in the last (decide_review).
THEOREM RoundsStayBounded == Spec => []RoundsAreBounded
<1>1. Typed /\ Paced => RoundsAreBounded
  BY Numbers DEF Paced, RoundsAreBounded, Nodes
<1> QED
  BY <1>1, AlwaysPaced, PTL

\* With room for its eight fixed nodes and two per round, a run is never ended
\* by the recursion limit (settings.graph_recursion_limit).
THEOREM TheLimitIsSecond == Spec => []LimitIsSecond
<1>1. Paced => LimitIsSecond
  BY DEF Paced
<1> QED
  BY <1>1, AlwaysPaced, PTL

-----------------------------------------------------------------------------
(* What a revision is made from.                                            *)
(*                                                                          *)
(* A review's round is one more than any in the history, so the reducer of  *)
(* the history, which keeps one entry per round and draft, drops nothing.   *)

\* An entry of a new round joins the history, and nothing leaves it.
LEMMA HistoryGrows ==
    ASSUME NEW history, NEW review,
           review.run \in Nat,
           \A e \in history : e.run = review.run /\ e.round # review.round
    PROVE  MergeHistory(history, {review}) = history \union {review}
<1>1. \A e, f \in history \union {review} :
          f.round = e.round /\ f.draft = e.draft => e.run <= f.run
  <2>1. \A e \in history \union {review} : e.run = review.run
    OBVIOUS
  <2>2. review.run <= review.run
    OBVIOUS
  <2> QED BY <2>1, <2>2
<1> QED BY <1>1 DEF MergeHistory

\* The steps of the loop that review nothing change neither what the reviews
\* were nor what they ask for.
LEMMA OthersKeepInformed ==
    ASSUME Typed, Informed, NEW next \in {"planner", "reviewer", "finalize_plan"},
           pc \in {"planner", "reviewer"}, pc' = next, next # "planner",
           run' = run,
           state'.review_history = state.review_history,
           state'.review_round = state.review_round,
           next = "reviewer" =>
               /\ state'.revision_policy = state.revision_policy
               /\ state'.draft_plan.policy = state.revision_policy
    PROVE  Informed'
<1>1. HistoryIsOfThisRun'
  BY DEF Informed, HistoryIsOfThisRun
<1>2. Feedback' = Feedback
  BY DEF Feedback
<1>3. next = "reviewer" =>
          /\ state'.revision_policy = Feedback' /\ state'.draft_plan.policy = Feedback'
          /\ \A review \in state'.review_history : review.decision = "revise"
  BY <1>2 DEF Informed
<1> QED BY <1>1, <1>3 DEF Informed

\* A review is a round of its own, and its policy is the feedback it owes.
LEMMA ReviewInforms ==
    ASSUME Typed, Informed, NEW passed \in BOOLEAN, Reviewed(passed)
    PROVE  Informed'
<1> DEFINE round == state.review_round + 1
           decision == DecideReview(passed, round)
           review == [run |-> run, round |-> round, draft |-> state.draft_plan,
                      decision |-> decision]
           policy == [run |-> run, round |-> round]
           next == IF decision = "revise" THEN "planner" ELSE "finalize_plan"
<1>n. next \in Nodes /\ next \in {"planner", "finalize_plan"}
  BY DEF Nodes
<1>1. Superstep("reviewer", next)
  BY Zenon DEF Reviewed
<1>2. state' = [state EXCEPT
                 !.current_review = review,
                 !.review_history = MergeHistory(state.review_history, {review}),
                 !.review_round = round,
                 !.revision_policy = policy,
                 !.review_status = StatusOf(decision),
                 !.finalization_reason = ReasonOf(decision)]
  BY Zenon DEF Reviewed
<1>3. /\ state \in Channels /\ run \in Runs /\ run' = run /\ pc = "reviewer" /\ pc' = next
      /\ \A r \in state.review_history : r.run = run
  BY <1>n, <1>1, AtReviewer
<1>4. state.review_round \in Nat /\ run \in Nat
  BY <1>3 DEF Channels, Runs
<1>5. /\ review.run = run /\ review.round = round /\ review.decision = decision
      /\ policy.run = run /\ policy.round = round
  OBVIOUS
<1>6. /\ \A r \in state.review_history :
            r.round \in 1 .. state.review_round /\ r.decision = "revise"
      /\ \A a, b \in state.review_history : a.round = b.round => a = b
      /\ \A n \in 1 .. state.review_round : \E r \in state.review_history : r.round = n
  BY <1>3 DEF Informed, HistoryIsOfThisRun
<1> HIDE DEF decision, review, policy
<1>7. MergeHistory(state.review_history, {review}) = state.review_history \union {review}
  <2>1. \A e \in state.review_history : e.run = review.run /\ e.round # review.round
    BY <1>3, <1>4, <1>5, <1>6
  <2> QED BY <1>4, <1>5, <2>1, HistoryGrows
<1>8. /\ state'.review_history = state.review_history \union {review}
      /\ state'.review_round = round /\ state'.revision_policy = policy
  BY <1>2, <1>3, <1>7 DEF Channels
<1>9. HistoryIsOfThisRun'
  <2>1. \A r \in state'.review_history : r.run = run'
    BY <1>3, <1>5, <1>8
  <2>2. ASSUME NEW n \in 1 .. state'.review_round
        PROVE  \E r \in state'.review_history : r.round = n
    <3>1. n \in 1 .. state.review_round \/ n = review.round
      BY <1>4, <1>5, <1>8
    <3> QED BY <1>6, <1>8, <3>1
  <2>3. ASSUME NEW a \in state'.review_history, NEW b \in state'.review_history
        PROVE  /\ a.round \in 1 .. state'.review_round
               /\ a.round = b.round => a = b
               /\ a.round < state'.review_round => a.decision = "revise"
    BY <1>4, <1>5, <1>6, <1>8
  <2> QED BY <2>1, <2>2, <2>3 DEF HistoryIsOfThisRun
<1>10. state'.revision_policy = Feedback'
  <2>1. policy = [run |-> run, round |-> round]
    BY DEF policy
  <2> QED BY <1>3, <1>4, <1>8, <2>1 DEF Feedback
<1>11. pc' = "planner" => \A r \in state'.review_history : r.decision = "revise"
  BY <1>3, <1>5, <1>6, <1>8
<1> QED BY <1>3, <1>9, <1>10, <1>11 DEF Informed

LEMMA StepInforms ==
    ASSUME Typed, Informed, [Next]_vars
    PROVE  Informed'
<1>a. state \in Channels
  BY DEF Typed, TypeOK
<1>q. pc' \notin {"planner", "reviewer", "finalize_plan"} => Informed'
  BY DEF Informed, HistoryIsOfThisRun
<1>1. CASE \/ \E t \in Trips : StartRun(t)
           \/ MemoryContext \/ Router \/ Retriever
           \/ PrepareSearchTasks \/ SearchWorkers \/ AggregateSearchResults
  BY <1>q, <1>1 DEF StartRun, MemoryContext, Router, Retriever, PrepareSearchTasks,
                    SearchWorkers, AggregateSearchResults, Superstep
<1>2. CASE InitializeReviewCycle
  <2>1. /\ pc' = "planner" /\ state'.review_history = {} /\ state'.review_round = 0
        /\ state'.revision_policy = None
    BY <1>a, <1>2 DEF InitializeReviewCycle, Superstep, Channels
  <2> QED BY <2>1 DEF Informed, HistoryIsOfThisRun, Feedback
<1>3. CASE PlannerNotSelected \/ PlannerMissesData \/ PlannerCannotPlan
  <2>1. PICK error, reason : PlannerFails(error, reason)
    BY <1>3 DEF PlannerNotSelected, PlannerMissesData, PlannerCannotPlan
  <2> QED BY <1>q, <2>1 DEF PlannerFails, Superstep
<1>4. CASE PlannerDrafts
  <2>1. pc = "planner" /\ pc' = "reviewer" /\ run' = run
    BY <1>4 DEF PlannerDrafts, Superstep
  <2>2. PICK author \in Authors :
            state' = [state EXCEPT
                       !.draft_plan = [trip |-> state.requirements, results |-> Available,
                                       policy |-> state.revision_policy, author |-> author],
                       !.travel_plan = None]
    BY <1>4, Zenon DEF PlannerDrafts
  <2> DEFINE draft == [trip |-> state.requirements, results |-> Available,
                       policy |-> state.revision_policy, author |-> author]
  <2>3. state' = [state EXCEPT !.draft_plan = draft, !.travel_plan = None]
    BY <2>2, Zenon
  <2>4. draft.policy = state.revision_policy
    OBVIOUS
  <2> HIDE DEF draft
  <2>5. /\ state'.review_history = state.review_history
        /\ state'.review_round = state.review_round
        /\ state'.revision_policy = state.revision_policy
        /\ state'.draft_plan = draft
    BY <1>a, <2>3 DEF Channels
  <2> QED BY <2>1, <2>4, <2>5, OthersKeepInformed
<1>5. CASE \E passed \in BOOLEAN : Reviewed(passed)
  BY <1>5, ReviewInforms
<1>6. CASE ReviewFails
  <2>1. /\ pc = "reviewer" /\ pc' = "finalize_plan" /\ run' = run
        /\ state'.review_history = state.review_history
        /\ state'.review_round = state.review_round
    BY <1>a, <1>6 DEF ReviewFails, Superstep, Channels
  <2> QED BY <2>1, OthersKeepInformed
<1>7. CASE FinalizePlan \/ OutOfSteps \/ Interrupt
  BY <1>q, <1>7 DEF FinalizePlan, OutOfSteps, Interrupt, Superstep
<1>8. CASE UNCHANGED vars
  BY <1>8 DEF vars, Informed, HistoryIsOfThisRun, Feedback
<1> QED
  BY <1>1, <1>2, <1>3, <1>4, <1>5, <1>6, <1>7, <1>8 DEF Next, RunStep

LEMMA AlwaysInformed == Spec => []Informed
<1>1. Init => Informed
  BY DEF Init, Informed, HistoryIsOfThisRun
<1>2. Typed /\ Informed /\ [Next]_vars => Informed'
  BY StepInforms
<1> QED
  BY <1>1, <1>2, AlwaysTyped, PTL DEF Spec

\* From the Planner on, the review history is that of this run, with one review
\* for each of its rounds, whatever runs the thread's checkpoint remembers.
THEOREM HistoriesAreOfTheirRun == Spec => []HistoryIsOfThisRun
<1>1. Informed => HistoryIsOfThisRun
  BY DEF Informed
<1> QED
  BY <1>1, AlwaysInformed, PTL

\* A draft under review was made from the feedback of the review just before it.
THEOREM FeedbackIsAlwaysApplied == Spec => []FeedbackIsApplied
<1>1. Typed /\ Paced /\ Informed => FeedbackIsApplied
  <2> SUFFICES ASSUME Typed, Paced, Informed, pc = "reviewer"
               PROVE  state.draft_plan.policy =
                          IF drafted = 1 THEN None ELSE [run |-> run, round |-> drafted - 1]
    BY DEF FeedbackIsApplied
  <2>1. drafted = state.review_round + 1 /\ state.review_round \in Nat
    BY Numbers DEF Paced
  <2>2. (drafted = 1 <=> state.review_round = 0) /\ drafted - 1 = state.review_round
    BY <2>1
  <2>3. state.draft_plan.policy = Feedback
    BY DEF Informed
  <2> QED BY <2>2, <2>3 DEF Feedback
<1> QED
  BY <1>1, AlwaysPaced, AlwaysInformed, PTL

-----------------------------------------------------------------------------
(* The graph implements ThreadPlan.                                         *)

\* The refinement mapping of Promise.
Phase == CASE pc = "idle" -> "idle"
           [] pc \in Nodes -> "running"
           [] pc = "end" /\ state.error = None -> "planned"
           [] OTHER -> "failed"
Shown == IF StateAnswer = None THEN None ELSE StateAnswer.draft.trip

\* Every step but the start of a run belongs to the run in progress.
LEMMA StepOfRun ==
    ASSUME [Next]_vars
    PROVE  \/ \E t \in Trips : StartRun(t)
           \/ /\ pc \in Nodes
              /\ pc' \in Nodes \union {"end", "raised", "exhausted"}
              /\ trip' = trip
           \/ UNCHANGED vars
<1>1. CASE \/ MemoryContext \/ Router \/ Retriever
           \/ PrepareSearchTasks \/ SearchWorkers \/ AggregateSearchResults
           \/ InitializeReviewCycle
  BY <1>1 DEF MemoryContext, Router, Retriever, PrepareSearchTasks, SearchWorkers,
              AggregateSearchResults, InitializeReviewCycle, Superstep, Nodes
<1>2. CASE PlannerNotSelected \/ PlannerMissesData \/ PlannerCannotPlan
  BY <1>2 DEF PlannerNotSelected, PlannerMissesData, PlannerCannotPlan, PlannerFails,
              Superstep, Nodes
<1>3. CASE PlannerDrafts \/ ReviewFails \/ FinalizePlan \/ OutOfSteps \/ Interrupt
  BY <1>3 DEF PlannerDrafts, ReviewFails, FinalizePlan, OutOfSteps, Interrupt,
              Superstep, Nodes
<1>4. CASE \E passed \in BOOLEAN : Reviewed(passed)
  BY <1>4 DEF Reviewed, Superstep, Nodes
<1> QED
  BY <1>1, <1>2, <1>3, <1>4 DEF Next, RunStep

\* What a state shows: the trip of its plan when the run ended without error.
ShownAsPromised ==
    /\ pc = "idle" => Phase = "idle" /\ Shown = None
    /\ pc \in Nodes => Phase = "running" /\ Shown = None
    /\ pc \in {"raised", "exhausted"} => Phase = "failed" /\ Shown = None
    /\ pc = "end" /\ state.error = None => Phase = "planned" /\ Shown = trip
    /\ pc = "end" /\ state.error # None => Phase = "failed" /\ Shown = None
    /\ Phase = "running" => pc \in Nodes

LEMMA WhatIsShown == Typed => ShownAsPromised
<1> SUFFICES ASSUME Typed PROVE ShownAsPromised
  OBVIOUS
<1>1. pc # "end" => StateAnswer = None
  BY DEF Typed, Coherent, StateAnswer
<1>2. pc = "end" /\ state.error # None => StateAnswer = None
  BY DEF StateAnswer
<1>3. ASSUME pc = "end", state.error = None
      PROVE  StateAnswer # None /\ StateAnswer.draft.trip = trip
  BY <1>3 DEF Typed, Coherent, OutcomeIsHonest, Fresh, StateAnswer
<1> QED
  BY <1>1, <1>2, <1>3 DEF ShownAsPromised, Phase, Shown, Nodes

\* Interrupted, exhausted and failed runs show no plan, and a plan is never that
\* of an earlier run: the thread implements ThreadPlan.
THEOREM ThreadKeepsPromise == Spec => KeepsPromise
<1>1. ASSUME Init
      PROVE  Promise!Init
  <2>1. Phase = "idle" /\ Shown = None /\ trip \in Trips
    BY <1>1, InitIsTyped, WhatIsShown DEF Init, ShownAsPromised
  <2> QED
    BY <2>1 DEF Promise!Init, Phase, Shown
<1>w. Typed' => ShownAsPromised'
  BY WhatIsShown, PTL
<1>2. ASSUME Typed, Typed', [Next]_vars
      PROVE  [Promise!Next]_<<Phase, trip, Shown>>
  <2>0. ShownAsPromised /\ ShownAsPromised'
    BY <1>2, <1>w, WhatIsShown
  <2>1. CASE UNCHANGED vars
    BY <2>1 DEF vars, Phase, Shown, StateAnswer, Nodes
  <2>2. ASSUME NEW t \in Trips, StartRun(t)
        PROVE  Promise!Begin(t)
    <3>1. /\ pc \in Stopped /\ pc' = "memory_context" /\ trip' = t
      BY <2>2 DEF StartRun
    <3>2. Phase # "running"
      BY <2>0, <3>1 DEF ShownAsPromised, Stopped, Nodes
    <3>3. Phase' = "running" /\ Shown' = None
      BY <2>0, <3>1 DEF ShownAsPromised, Nodes
    <3> QED
      BY <3>1, <3>2, <3>3 DEF Promise!Begin, Phase, Shown
  <2>3. CASE pc \in Nodes /\ pc' \in Nodes /\ trip' = trip
    BY <2>0, <2>3 DEF ShownAsPromised
  <2>4. CASE pc \in Nodes /\ pc' \in {"end", "raised", "exhausted"} /\ trip' = trip
    <3>1. Phase = "running" /\ Shown = None
      BY <2>0, <2>4 DEF ShownAsPromised
    <3>2. \/ Phase' = "planned" /\ Shown' = trip
          \/ Phase' = "failed" /\ Shown' = Shown
      BY <2>0, <2>4, <3>1 DEF ShownAsPromised
    <3> QED
      BY <2>4, <3>1, <3>2 DEF Promise!Next, Promise!Succeed, Promise!Fail, Phase, Shown
  <2> QED
    BY <1>2, <2>1, <2>2, <2>3, <2>4, StepOfRun DEF Promise!Next
<1> QED
  BY <1>1, <1>2, AlwaysTyped, PTL DEF Spec, KeepsPromise, Promise!Spec, Phase, Shown

=============================================================================
