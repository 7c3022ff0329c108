--------------------------- MODULE PlanStreamProofs ---------------------------
(***************************************************************************)
(* Theorems about PlanStream, for any trips, settings, queues and number   *)
(* of connections: numbering, the terminal event and what it says, the     *)
(* reviews a client is told of, and that no run outlives its stream.       *)
(*                                                                         *)
(* Every step of a stream is a step of PlanGraph or leaves the graph alone *)
(* (StreamsRunTheGraph), so the graph's theorems hold below a stream and   *)
(* its invariants Typed and Paced may be used here.                        *)
(* Forgetting the producer, the queue and the mapper, what is left of a    *)
(* stream is EventFeed (StreamsServeTheirClient).                          *)
(***************************************************************************)
EXTENDS PlanStream, PlanGraphProofs, SequenceTheorems

-----------------------------------------------------------------------------
(* The inductive invariants.                                                *)

\* A connection's generator and its producer, and the run between them: a run is
\* in progress only while the producer drives it or is told to stop.
Paired ==
    /\ stage = "none" => producer = "none" /\ received = <<>> /\ queue = <<>>
    /\ stage # "none" => producer # "none" /\ received # <<>>
    /\ stage \in {"reading", "abandoned"} => producer \in {"created", "running", "done"}
    /\ stage = "leaving" => producer \in {"cancelled", "done"}
    /\ stage \in {"closing", "closed", "left"} => producer = "done"
    /\ producer \notin {"running", "cancelled"} => pc \notin Nodes
    /\ producer = "running" => pc # "idle" /\ trip = asked
    /\ producer = "created" =>
         /\ mapper = NothingSeen /\ pending = <<>> /\ queue = <<>>
         /\ Len(received) = 1 /\ received[1].kind = "run_started"

\* The sentinel comes last, and only from a producer that is done.
SentinelIsLast ==
    \A i \in 1 .. Len(queue) : queue[i] = Done => i = Len(queue) /\ producer = "done"

\* What was sent is numbered without gap, and a terminal event ends it.
Delivered ==
    /\ numbered = Len(Sent)
    /\ NothingIsLost
    /\ \A i \in 1 .. Len(Sent) : Sent[i].kind \in Terminal => i = Len(Sent) /\ producer = "done"
    /\ \A i \in 1 .. Len(pending) : pending[i].kind \notin Terminal
    /\ producer = "done" /\ stage \in {"reading", "closing", "closed"} =>
         Sent[Len(Sent)].kind \in Terminal
    /\ stage \in {"closing", "closed"} => received[Len(received)].kind \in Terminal
    /\ stage = "reading" => received[Len(received)].kind \notin Terminal

\* What the mapper has seen of the run that is in progress, or has just ended.
Followed ==
    producer = "running" =>
        /\ mapper.error = state.error
        /\ mapper.plan = state.travel_plan
        /\ state.current_review # None => mapper.review = state.current_review
        /\ state.finalization_reason # None => mapper.reason = state.finalization_reason
        /\ pc = "end" => mapper.status = state.review_status
        /\ pc = "end" /\ state.error = None => state.finalization_reason # None

\* What the client was told of the reviews, or is about to be.
Announced == Sent \o pending

Reported ==
    /\ producer = "created" => ToldUpTo(Announced, 0)
    /\ producer = "running" /\ pc \in Nodes \ {"finalize_plan"} =>
         ToldUpTo(Announced, 2 * state.review_round)
    /\ producer = "running" /\ pc \in {"finalize_plan", "end"} /\ state.error = None =>
         ToldUpTo(Announced, 2 * state.review_round - 1)
    /\ producer = "done" /\ Sent # <<>> /\ Sent[Len(Sent)].kind = "plan_completed" =>
         ToldUpTo(Sent, 2 * state.review_round - 1)

StreamInv ==
    /\ StreamTypeOK /\ Paired /\ SentinelIsLast /\ Delivered
    /\ Followed /\ Reported /\ TerminalIsTheCheckpoint

-----------------------------------------------------------------------------
(* Queues and what is sent.                                                 *)

Items == StreamEvent \union {Done}

LEMMA DoneIsNoEvent == Done \notin StreamEvent /\ \A e \in StreamEvent : e # Done
BY DEF Done, StreamEvent, EventKinds, Terminal

LEMMA Tuples ==
    ASSUME NEW S, NEW a \in S, NEW b \in S, NEW c \in S
    PROVE  <<a>> \in Seq(S) /\ <<a, b>> \in Seq(S) /\ <<a, b, c>> \in Seq(S)
<1>1. <<a>> \in Seq(S)
  OBVIOUS
<1>2. <<a, b>> \in Seq(S)
  OBVIOUS
<1>3. <<a, b, c>> \in Seq(S)
  OBVIOUS
<1> QED BY <1>1, <1>2, <1>3

LEMMA AppendAfter ==
    ASSUME NEW S, NEW s \in Seq(S), NEW t \in Seq(S), NEW e \in S
    PROVE  s \o Append(t, e) = Append(s \o t, e)
<1>1. Append(t, e) = t \o <<e>> /\ s \o t \in Seq(S)
  BY AppendIsConcat, ConcatProperties
<1>2. Append(s \o t, e) = (s \o t) \o <<e>>
  BY <1>1, AppendIsConcat
<1> QED BY <1>1, <1>2, ConcatAssociative

\* Handing the first of the queue over changes nothing on the whole.
LEMMA HandedOver ==
    ASSUME NEW S, NEW s \in Seq(S), NEW t \in Seq(S), t # <<>>
    PROVE  Append(s, Head(t)) \o Tail(t) = s \o t
<1>1. /\ Head(t) \in S /\ Tail(t) \in Seq(S) /\ Len(Tail(t)) = Len(t) - 1
      /\ \A i \in 1 .. Len(Tail(t)) : Tail(t)[i] = t[i + 1]
      /\ Head(t) = t[1]
  BY HeadTailProperties
<1>2. /\ Append(s, Head(t)) \in Seq(S) /\ Len(Append(s, Head(t))) = Len(s) + 1
      /\ \A i \in 1 .. Len(s) : Append(s, Head(t))[i] = s[i]
      /\ Append(s, Head(t))[Len(s) + 1] = t[1]
  BY <1>1, AppendProperties
<1> DEFINE a == Append(s, Head(t))
           b == Tail(t)
<1>3. /\ a \o b \in Seq(S) /\ Len(a \o b) = Len(a) + Len(b)
      /\ \A i \in 1 .. Len(a) + Len(b) : (a \o b)[i] = IF i <= Len(a) THEN a[i] ELSE b[i - Len(a)]
  BY <1>1, <1>2, ConcatProperties
<1>4. /\ s \o t \in Seq(S) /\ Len(s \o t) = Len(s) + Len(t)
      /\ \A i \in 1 .. Len(s) + Len(t) : (s \o t)[i] = IF i <= Len(s) THEN s[i] ELSE t[i - Len(s)]
  BY ConcatProperties
<1>5. Len(s) \in Nat /\ Len(t) \in Nat /\ Len(t) > 0
  BY LenProperties, EmptySeq
<1> HIDE DEF a, b
<1>6. /\ Len(a) = Len(s) + 1 /\ Len(b) = Len(t) - 1
      /\ \A i \in 1 .. Len(s) : a[i] = s[i]
      /\ a[Len(s) + 1] = t[1]
      /\ \A i \in 1 .. Len(t) - 1 : b[i] = t[i + 1]
  BY <1>1, <1>2 DEF a, b
<1>7. Len(a \o b) = Len(s \o t)
  BY <1>3, <1>4, <1>5, <1>6
<1>8. ASSUME NEW i \in 1 .. Len(a \o b) PROVE (a \o b)[i] = (s \o t)[i]
  <2>1. i \in Int /\ i >= 1 /\ i <= Len(s) + Len(t)
    BY <1>4, <1>5, <1>7
  <2>2. CASE i <= Len(s)
    BY <1>3, <1>4, <1>5, <1>6, <2>1, <2>2
  <2>3. CASE i = Len(s) + 1
    BY <1>3, <1>4, <1>5, <1>6, <2>1, <2>3
  <2>4. CASE i > Len(s) + 1
    <3>1. (a \o b)[i] = b[i - (Len(s) + 1)]
      BY <1>3, <1>5, <1>6, <2>1, <2>4
    <3>2. i - (Len(s) + 1) \in 1 .. Len(t) - 1
      BY <1>5, <2>1, <2>4
    <3>3. b[i - (Len(s) + 1)] = t[(i - (Len(s) + 1)) + 1]
      BY <1>6, <3>2
    <3>4. (i - (Len(s) + 1)) + 1 = i - Len(s)
      BY <1>5, <2>1
    <3>5. (s \o t)[i] = t[i - Len(s)]
      BY <1>4, <1>5, <2>1, <2>4
    <3> QED BY <3>1, <3>3, <3>4, <3>5
  <2> QED BY <1>5, <2>1, <2>2, <2>3, <2>4
<1>9. a \o b = s \o t
  BY <1>3, <1>4, <1>7, <1>8, SeqEqual
<1> QED BY <1>9 DEF a, b

\* A queue without sentinel is all events; put_nowait of the sentinel adds none.
LEMMA WithoutSentinel ==
    ASSUME NEW items \in Seq(StreamEvent)
    PROVE  /\ EventsOf(items) = items
           /\ EventsOf(Append(items, Done)) = items
           /\ EventsOf(WithSentinel(items)) = items
           /\ items \in Seq(Items) /\ Append(items, Done) \in Seq(Items)
           /\ WithSentinel(items) \in Seq(Items)
           /\ \A i \in 1 .. Len(WithSentinel(items)) :
                WithSentinel(items)[i] = Done => i = Len(WithSentinel(items))
<1>1. Len(items) \in Nat /\ \A i \in 1 .. Len(items) : items[i] # Done /\ items[i] \in StreamEvent
  BY DoneIsNoEvent, ElementOfSeq, LenProperties
<1>2. EventsOf(items) = items
  <2>1. items # <<>> => Len(items) \in 1 .. Len(items)
    BY EmptySeq, LenProperties
  <2> QED BY <1>1, <2>1 DEF EventsOf
<1>3. items \in Seq(Items)
  BY SeqMonotonic DEF Items
<1> DEFINE ended == Append(items, Done)
<1>4. /\ ended \in Seq(Items) /\ ended # <<>> /\ Len(ended) = Len(items) + 1
      /\ \A i \in 1 .. Len(items) : ended[i] = items[i]
      /\ ended[Len(items) + 1] = Done
  <2>1. Done \in Items
    BY DEF Items
  <2> QED BY <1>3, <2>1, AppendProperties
<1> HIDE DEF ended
<1>5. EventsOf(ended) = items
  <2>1. EventsOf(ended) = SubSeq(ended, 1, Len(items))
    <3>1. Len(ended) - 1 = Len(items)
      BY <1>1, <1>4
    <3> QED BY <1>4, <3>1 DEF EventsOf
  <2>2. \A i \in 1 .. Len(items) : ended[i] \in StreamEvent
    BY <1>1, <1>4
  <2>3. 1 \in Int /\ Len(items) \in Int
    BY <1>1
  <2>4. /\ SubSeq(ended, 1, Len(items)) \in Seq(StreamEvent)
        /\ Len(SubSeq(ended, 1, Len(items))) = IF 1 <= Len(items) THEN Len(items) - 1 + 1 ELSE 0
        /\ \A i \in 1 .. Len(items) - 1 + 1 :
               SubSeq(ended, 1, Len(items))[i] = ended[1 + i - 1]
    BY <2>2, <2>3, SubSeqProperties
  <2>5. Len(SubSeq(ended, 1, Len(items))) = Len(items)
    BY <1>1, <2>4
  <2>6. ASSUME NEW i \in 1 .. Len(items) PROVE SubSeq(ended, 1, Len(items))[i] = items[i]
    <3>1. i \in 1 .. Len(items) - 1 + 1 /\ 1 + i - 1 = i
      BY <1>1
    <3> QED BY <1>4, <2>4, <3>1
  <2>7. SubSeq(ended, 1, Len(items)) = items
    BY <2>4, <2>5, <2>6, SeqEqual
  <2> QED BY <2>1, <2>7
<1>6. WithSentinel(items) \in {items, ended}
  BY DEF WithSentinel, ended
<1>7. \A i \in 1 .. Len(ended) : ended[i] = Done => i = Len(ended)
  BY <1>1, <1>4
<1>8. /\ EventsOf(WithSentinel(items)) = items /\ WithSentinel(items) \in Seq(Items)
      /\ \A i \in 1 .. Len(WithSentinel(items)) :
           WithSentinel(items)[i] = Done => i = Len(WithSentinel(items))
  BY <1>1, <1>2, <1>3, <1>4, <1>5, <1>6, <1>7
<1> QED BY <1>2, <1>3, <1>4, <1>5, <1>8 DEF ended

\* Where the sentinel can only be the last item, the others are events, and one
\* that is taken is the first of them.
LEMMA WithLastSentinel ==
    ASSUME NEW items \in Seq(Items),
           \A i \in 1 .. Len(items) : items[i] = Done => i = Len(items)
    PROVE  /\ EventsOf(items) \in Seq(StreamEvent)
           /\ items = EventsOf(items) \/ items = Append(EventsOf(items), Done)
<1>1. Len(items) \in Nat /\ \A i \in 1 .. Len(items) : items[i] \in StreamEvent \/ items[i] = Done
  BY ElementOfSeq, LenProperties DEF Items
<1>2. CASE items # <<>> /\ items[Len(items)] = Done
  <2>0. Len(items) \in 1 .. Len(items)
    BY <1>2, EmptySeq
  <2> DEFINE front == SubSeq(items, 1, Len(items) - 1)
  <2>1. EventsOf(items) = front
    BY <1>2 DEF EventsOf
  <2>2. \A i \in 1 .. Len(items) - 1 : items[i] \in StreamEvent
    BY <1>1, <2>0
  <2>3. front \in Seq(StreamEvent) /\ front \in Seq(Items)
    BY <1>1, <2>2, SubSeqProperties, SeqMonotonic DEF Items
  <2>4. items = front \o <<Done>>
    <3>1. 1 \in 1 .. Len(items) /\ Len(items) \in 1 .. Len(items)
      BY <1>1, <2>0
    <3>2. SubSeq(items, 1, Len(items)) = front \o <<items[Len(items)]>>
      BY <3>1, SubSeqRecursiveSecond
    <3> QED BY <1>2, <3>2, SubSeqFull
  <2>5. Append(front, Done) = front \o <<Done>>
    BY <2>3, AppendIsConcat DEF Items
  <2> QED BY <2>1, <2>3, <2>4, <2>5
<1>3. CASE ~(items # <<>> /\ items[Len(items)] = Done)
  <2>1. EventsOf(items) = items
    BY <1>3 DEF EventsOf
  <2>2. \A i \in 1 .. Len(items) : items[i] \in StreamEvent
    BY <1>1, <1>3, EmptySeq
  <2>3. SubSeq(items, 1, Len(items)) \in Seq(StreamEvent)
    BY <1>1, <2>2, SubSeqProperties
  <2> QED BY <2>1, <2>3, SubSeqFull
<1> QED BY <1>2, <1>3

-----------------------------------------------------------------------------
(* A stream runs the graph.                                                 *)

\* A step of the connection is a step of the graph, or none of its concern.
LEMMA StreamStepOfGraph ==
    ASSUME asked \in Trips, [StreamNext]_streamVars
    PROVE  [Next]_vars /\ asked' \in Trips
<1>1. CASE \E t \in Trips : Open(t)
  BY <1>1 DEF Open, vars
<1>2. CASE Begin
  BY <1>2 DEF Begin, Next
<1>3. CASE Advance
  BY <1>3 DEF Advance, Next
<1>4. CASE StopProducer
  <2>1. CASE pc \in Nodes
    <3>1. Interrupt
      BY <1>4, <2>1 DEF StopProducer, Interrupt
    <3> QED BY <1>4, <3>1 DEF StopProducer, Next, RunStep
  <2>2. CASE pc \notin Nodes
    BY <1>4, <2>2 DEF StopProducer, vars
  <2> QED BY <2>1, <2>2
<1>5. CASE Put \/ Finish \/ Receive \/ Leave \/ Close \/ Await
  BY <1>5 DEF Put, Finish, Receive, Leave, Close, Await, vars
<1>6. CASE UNCHANGED streamVars
  BY <1>6 DEF streamVars, vars
<1> QED
  BY <1>1, <1>2, <1>3, <1>4, <1>5, <1>6 DEF StreamNext

\* The streams of a thread make runs of the planning graph and nothing else of
\* its channels: whatever holds of PlanGraph holds while it is streamed, the
\* promise of ThreadPlan included (TravelPlanStream, aclosing, cancel).
THEOREM StreamsRunTheGraph == StreamSpec => Spec
<1>1. StreamInit => Init /\ asked \in Trips
  BY DEF StreamInit, Init
<1>2. asked \in Trips /\ [StreamNext]_streamVars => [Next]_vars /\ (asked \in Trips)'
  BY StreamStepOfGraph
<1> QED
  BY <1>1, <1>2, PTL DEF StreamSpec, Spec

THEOREM StreamedRunsKeepPromise == StreamSpec => KeepsPromise
BY StreamsRunTheGraph, ThreadKeepsPromise, PTL

\* What the stream proofs use of the graph: one step of a run in progress.
Course ==
    \/ /\ pc \notin {"reviewer", "finalize_plan"}
       /\ pc' \in Nodes \ {"finalize_plan"}
       /\ state'.review_round = state.review_round
    \/ /\ pc = "reviewer"
       /\ state'.current_review # None
       /\ state'.review_round = state.review_round + 1
       /\ state'.current_review.round = state'.review_round
       /\ \/ state'.current_review.decision = "revise" /\ pc' = "planner"
          \/ state'.current_review.decision # "revise" /\ pc' = "finalize_plan"
    \/ /\ pc = "reviewer" /\ pc' = "finalize_plan"
       /\ state'.current_review = None /\ state'.error # None
    \/ /\ pc = "finalize_plan" /\ pc' = "end"
       /\ state'.review_round = state.review_round /\ state'.error = state.error
       /\ state.error = None => state'.finalization_reason # None
    \/ pc # "reviewer" /\ pc' = "end" /\ state'.error # None

LEMMA RunCourse ==
    ASSUME Typed, Paced, RunStep, pc' \notin {"raised", "exhausted"}
    PROVE  Course /\ pc \in Nodes /\ trip' = trip
<1>0. state \in Channels /\ state.review_round \in Nat
  BY Numbers
<1>1. CASE MemoryContext \/ Router \/ Retriever
  <2>1. state'.review_round = state.review_round
    BY <1>0, <1>1 DEF MemoryContext, Router, Retriever, Channels
  <2> QED
    BY <1>1, <2>1 DEF MemoryContext, Router, Retriever, Superstep, Course, Nodes
<1>2. CASE PrepareSearchTasks \/ SearchWorkers \/ AggregateSearchResults
  <2>1. state'.review_round = state.review_round
    BY <1>0, <1>2 DEF PrepareSearchTasks, SearchReset, SearchWorkers,
                      AggregateSearchResults, Channels
  <2> QED
    BY <1>2, <2>1 DEF PrepareSearchTasks, SearchWorkers, AggregateSearchResults,
                      Superstep, Course, Nodes
<1>3. CASE InitializeReviewCycle
  <2>1. state'.review_round = 0 /\ pc = "initialize_review_cycle" /\ pc' = "planner" /\ trip' = trip
    BY <1>0, <1>3 DEF InitializeReviewCycle, Superstep, Channels
  <2>2. state.review_round = 0
    BY <2>1 DEF Paced, Nodes
  <2> QED BY <2>1, <2>2 DEF Course, Nodes
<1>4. CASE PlannerNotSelected \/ PlannerMissesData \/ PlannerCannotPlan
  <2>1. PICK error, reason : PlannerFails(error, reason) /\ error # None
    <3>1. CriticalFailed # None /\ "revision_failed" # None /\ "plan_assembly_failed" # None
      BY NoneIsNoValue DEF Errors
    <3>2. None \notin LLMFailures
      BY NoneIsNoValue DEF LLMFailures, Errors, LLMErrors
    <3> QED
      BY <1>4, <3>1, <3>2 DEF PlannerNotSelected, PlannerMissesData, PlannerCannotPlan
  <2>2. state'.error = error /\ pc = "planner" /\ pc' = "end" /\ trip' = trip
    BY <1>0, <2>1 DEF PlannerFails, Superstep, Channels
  <2> QED BY <2>1, <2>2 DEF Course, Nodes
<1>5. CASE PlannerDrafts
  <2>1. state'.review_round = state.review_round
    BY <1>0, <1>5 DEF PlannerDrafts, Channels
  <2> QED BY <1>5, <2>1 DEF PlannerDrafts, Superstep, Course, Nodes
<1>6. ASSUME NEW passed \in BOOLEAN, Reviewed(passed)
      PROVE  Course /\ pc \in Nodes /\ trip' = trip
  <2> DEFINE round == state.review_round + 1
             decision == DecideReview(passed, round)
             review == [run |-> run, round |-> round, draft |-> state.draft_plan,
                        decision |-> decision]
             next == IF decision = "revise" THEN "planner" ELSE "finalize_plan"
  <2>1. Superstep("reviewer", next)
    BY <1>6, Zenon DEF Reviewed
  <2>2. state' = [state EXCEPT
                   !.current_review = review,
                   !.review_history = MergeHistory(state.review_history, {review}),
                   !.review_round = round,
                   !.revision_policy = [run |-> run, round |-> round],
                   !.review_status = StatusOf(decision),
                   !.finalization_reason = ReasonOf(decision)]
    BY <1>6, Zenon DEF Reviewed
  <2>3. review.round = round /\ review.decision = decision
    OBVIOUS
  <2>4. decision \in Decisions
    BY DEF DecideReview, Decisions
  <2>5. review # None
    <3>1. next \in Nodes
      BY DEF Nodes
    <3>2. run \in Runs /\ state.draft_plan \in Draft
      BY <2>1, <3>1, AtReviewer
    <3>3. review \in Review
      BY <1>0, <2>4, <3>2 DEF Review
    <3> QED BY <3>3, NoneIsNoValue
  <2> HIDE DEF round, review, decision
  <2>6. state'.current_review = review /\ state'.review_round = round
    BY <1>0, <2>2 DEF Channels
  <2>7. pc = "reviewer" /\ pc' = next /\ trip' = trip
    BY <2>1 DEF Superstep
  <2> QED BY <2>3, <2>5, <2>6, <2>7 DEF Course, Nodes, round
<1>7. CASE ReviewFails
  <2>1. PICK error \in Errors :
            /\ Superstep("reviewer", "finalize_plan")
            /\ state' = [state EXCEPT
                          !.current_review = None, !.revision_policy = None,
                          !.review_status = "failed",
                          !.finalization_reason = "reviewer_failure", !.error = error]
    BY <1>7 DEF ReviewFails, Errors, ReviewErrors, LLMErrors
  <2>2. state'.current_review = None /\ state'.error = error
    BY <1>0, <2>1 DEF Channels
  <2> QED BY <2>1, <2>2, NoneIsNoValue DEF Superstep, Course, Nodes
<1>8. CASE FinalizePlan
  <2>1. /\ pc = "finalize_plan" /\ pc' = "end" /\ trip' = trip
        /\ state'.review_round = state.review_round /\ state'.error = state.error
        /\ state'.finalization_reason = state.finalization_reason
    BY <1>0, <1>8 DEF FinalizePlan, Superstep, Channels
  <2>2. Verdict
    BY <2>1 DEF Typed, Coherent
  <2>3. state.error = None => state.finalization_reason # None
    <3>1. None \notin ReviewErrors \union LLMErrors
      BY NoneIsNoValue DEF Errors
    <3>2. None \notin Reasons
      BY NoneAssumption
    <3> QED BY <2>2, <3>1, <3>2 DEF Verdict, ReasonOf, Reasons
  <2> QED BY <2>1, <2>3 DEF Course, Nodes
<1>9. CASE OutOfSteps \/ Interrupt
  BY <1>9 DEF OutOfSteps, Interrupt
<1> QED
  BY <1>1, <1>2, <1>3, <1>4, <1>5, <1>6, <1>7, <1>8, <1>9 DEF RunStep

-----------------------------------------------------------------------------
(* Types, and the sentinel at the end of the queue.                         *)

LEMMA NoSentinelYet ==
    ASSUME StreamTypeOK, SentinelIsLast, producer # "done"
    PROVE  queue \in Seq(StreamEvent)
<1>1. queue \in Seq(Items) /\ Len(queue) \in Nat
  BY LenProperties DEF StreamTypeOK, Items
<1>2. \A i \in 1 .. Len(queue) : queue[i] \in StreamEvent
  BY <1>1, ElementOfSeq DEF SentinelIsLast, Items
<1>3. SubSeq(queue, 1, Len(queue)) \in Seq(StreamEvent)
  BY <1>1, <1>2, SubSeqProperties
<1> QED BY <1>1, <1>3, SubSeqFull

LEMMA NumberedIsTyped ==
    ASSUME NEW draft \in StreamEventDraft, NEW number \in Nat
    PROVE  /\ Numbered(draft, number) \in StreamEvent
           /\ Numbered(draft, number).kind = draft.kind
           /\ Numbered(draft, number).about = draft.about
           /\ Numbered(draft, number).number = number
BY DEF Numbered, StreamEventDraft, StreamEvent

\* What the mapper sees and announces of the channels of a typed run.
LEMMA MappingIsTyped ==
    ASSUME mapper \in Seen, NEW s \in Channels, NEW node
    PROVE  /\ Observed(mapper, s) \in Seen
           /\ DraftsOf(node, s) \in Seq(StreamEventDraft)
<1>1. Observed(mapper, s) \in Seen
  <2>1. /\ s.error \in Errors \union {None} /\ s.travel_plan \in Plan \union {None}
        /\ s.current_review \in Review \union {None} /\ s.review_status \in ReviewStatus
        /\ s.finalization_reason \in Reasons \union {None}
    BY DEF Channels, ReviewStatus
  <2>2. /\ mapper.plan \in Plan \union {None} /\ mapper.review \in Review \union {None}
        /\ mapper.reason \in Reasons \union {None}
    BY DEF Seen
  <2> QED BY <2>1, <2>2 DEF Observed, Seen
<1>2. s.current_review = None \/ s.current_review.round \in Nat
  <2>1. s.current_review \in Review \union {None}
    BY DEF Channels
  <2> QED BY <2>1 DEF Review
<1>3. EventDraft("progress", None) \in StreamEventDraft
  BY DEF EventDraft, StreamEventDraft, EventKinds, About
<1>4. s.current_review # None =>
        /\ EventDraft("review_completed", [round |-> s.current_review.round]) \in StreamEventDraft
        /\ EventDraft("revision_started", [round |-> s.current_review.round]) \in StreamEventDraft
  BY <1>2 DEF EventDraft, StreamEventDraft, EventKinds, About
<1>5. DraftsOf(node, s) \in Seq(StreamEventDraft)
  <2> DEFINE progress == EventDraft("progress", None)
             review == EventDraft("review_completed", [round |-> s.current_review.round])
             revision == EventDraft("revision_started", [round |-> s.current_review.round])
  <2>1. DraftsOf(node, s) = <<progress>>
        \/ /\ s.current_review # None
           /\ DraftsOf(node, s) = <<progress, review>>
              \/ DraftsOf(node, s) = <<progress, review, revision>>
    BY DEF DraftsOf
  <2>2. /\ progress \in StreamEventDraft
        /\ s.current_review # None => review \in StreamEventDraft /\ revision \in StreamEventDraft
    BY <1>3, <1>4
  <2> HIDE DEF progress, review, revision
  <2>3. <<progress>> \in Seq(StreamEventDraft)
    BY <2>2
  <2>4. ASSUME s.current_review # None
        PROVE  /\ <<progress, review>> \in Seq(StreamEventDraft)
               /\ <<progress, review, revision>> \in Seq(StreamEventDraft)
    <3>1. progress \in StreamEventDraft /\ review \in StreamEventDraft
          /\ revision \in StreamEventDraft
      BY <2>2, <2>4
    <3> QED BY <3>1, Tuples
  <2> QED BY <2>1, <2>3, <2>4
<1> QED BY <1>1, <1>5

LEMMA TerminalIsTyped ==
    ASSUME StreamTypeOK
    PROVE  TerminalEvent \in StreamEventDraft /\ TerminalEvent.kind \in Terminal
<1> DEFINE seen == IF mapper.plan = None /\ mapper.error = None
                   THEN Observed(mapper, state) ELSE mapper
           about == [plan |-> seen.plan, status |-> seen.status, review |-> seen.review,
                     reason |-> seen.reason]
<1>1. seen \in Seen
  <2>1. mapper \in Seen /\ state \in Channels
    BY DEF StreamTypeOK, TypeOK
  <2> QED BY <2>1, MappingIsTyped
<1>2. \/ TerminalEvent = EventDraft("error", None)
      \/ seen.plan # None /\ TerminalEvent = EventDraft("plan_completed", about)
  BY DEF TerminalEvent
<1> HIDE DEF seen
<1>3. seen.plan # None => about \in About
  BY <1>1 DEF Seen, About
<1> HIDE DEF about
<1>4. EventDraft("error", None) \in StreamEventDraft
      /\ (seen.plan # None => EventDraft("plan_completed", about) \in StreamEventDraft)
  BY <1>3 DEF EventDraft, StreamEventDraft, EventKinds, Terminal, About
<1>5. EventDraft("error", None).kind = "error"
      /\ EventDraft("plan_completed", about).kind = "plan_completed"
  BY DEF EventDraft
<1> QED BY <1>2, <1>4, <1>5 DEF Terminal

LEMMA StreamKeepsTypes ==
    ASSUME StreamTypeOK, SentinelIsLast, TypeOK', [StreamNext]_streamVars
    PROVE  StreamTypeOK' /\ SentinelIsLast'
<1>a. /\ streams \in 0 .. MaxRuns /\ asked \in Trips /\ size \in QueueSizes
      /\ stage \in Stages /\ producer \in Producers /\ mapper \in Seen
      /\ pending \in Seq(StreamEventDraft) /\ queue \in Seq(Items) /\ Len(queue) <= size
      /\ numbered \in Nat /\ received \in Seq(StreamEvent) /\ state \in Channels
      /\ Len(queue) \in Nat /\ size \in Nat /\ size > 0
  <2>1. size \in Nat /\ size > 0
    BY PlanStreamAssumption DEF StreamTypeOK
  <2> QED BY <2>1, LenProperties DEF StreamTypeOK, Items, TypeOK
<1>1. ASSUME NEW t \in Trips, Open(t) PROVE StreamTypeOK' /\ SentinelIsLast'
  <2>1. NothingSeen \in Seen
    BY DEF NothingSeen, Seen, ReviewStatus
  <2>2. EventDraft("run_started", None) \in StreamEventDraft
    BY DEF EventDraft, StreamEventDraft, EventKinds, About
  <2>3. Numbered(EventDraft("run_started", None), 1) \in StreamEvent
    BY <2>2, NumberedIsTyped
  <2>4. <<Numbered(EventDraft("run_started", None), 1)>> \in Seq(StreamEvent)
    BY <2>3
  <2>5. /\ streams' \in 0 .. MaxRuns
    BY <1>a, <1>1, PlanGraphAssumption DEF Open
  <2>6. StreamTypeOK'
    BY <1>a, <1>1, <2>1, <2>4, <2>5 DEF Open, StreamTypeOK, Stages, Producers
  <2>7. SentinelIsLast'
    BY <1>1 DEF Open, SentinelIsLast
  <2> QED BY <2>6, <2>7
<1>2. CASE Begin
  <2>1. StreamTypeOK'
    BY <1>a, <1>2 DEF Begin, StreamTypeOK, Producers, Items
  <2>2. SentinelIsLast'
    BY <1>2 DEF Begin, SentinelIsLast
  <2> QED BY <2>1, <2>2
<1>3. CASE Advance
  <2>1. state' \in Channels
    BY DEF TypeOK
  <2>2. mapper' \in Seen /\ pending' \in Seq(StreamEventDraft)
    BY <1>a, <1>3, <2>1, MappingIsTyped DEF Advance
  <2>3. StreamTypeOK'
    BY <1>a, <1>3, <2>2 DEF Advance, StreamTypeOK, Items
  <2>4. SentinelIsLast'
    BY <1>3 DEF Advance, SentinelIsLast
  <2> QED BY <2>3, <2>4
<1>4. CASE Put
  <2> DEFINE event == Numbered(Head(pending), numbered + 1)
  <2>1. queue \in Seq(StreamEvent)
    BY <1>4, NoSentinelYet DEF Put
  <2>2. Head(pending) \in StreamEventDraft /\ Tail(pending) \in Seq(StreamEventDraft)
    BY <1>a, <1>4, HeadTailProperties DEF Put
  <2>3. event \in StreamEvent
    BY <1>a, <2>2, NumberedIsTyped
  <2>4. queue' = Append(queue, event)
    BY <1>4 DEF Put
  <2> HIDE DEF event
  <2>5. queue' \in Seq(StreamEvent) /\ Len(queue') = Len(queue) + 1
    BY <2>1, <2>3, <2>4, AppendProperties
  <2>6. queue' \in Seq(Items)
    BY <2>5, WithoutSentinel
  <2>7. Len(queue') <= size
    BY <1>a, <1>4, <2>5 DEF Put
  <2>8. StreamTypeOK'
    BY <1>a, <1>4, <2>2, <2>6, <2>7 DEF Put, StreamTypeOK, Items
  <2>9. SentinelIsLast'
    BY <2>5, DoneIsNoEvent, ElementOfSeq DEF SentinelIsLast
  <2> QED BY <2>8, <2>9
<1>5. CASE Finish
  <2> DEFINE event == Numbered(TerminalEvent, numbered + 1)
             items == Append(queue, event)
  <2>1. queue \in Seq(StreamEvent)
    BY <1>5, NoSentinelYet DEF Finish
  <2>2. event \in StreamEvent
    BY <1>a, TerminalIsTyped, NumberedIsTyped
  <2>3. items \in Seq(StreamEvent) /\ Len(items) = Len(queue) + 1
    BY <2>1, <2>2, AppendProperties
  <2>4. queue' = WithSentinel(items) /\ producer' = "done"
    BY <1>5 DEF Finish
  <2> HIDE DEF event, items
  <2>5. Len(Append(items, Done)) = Len(items) + 1
    BY <2>3, WithoutSentinel, AppendProperties DEF Items
  <2>6. Len(queue') <= size
    BY <1>a, <1>5, <2>3, <2>4, <2>5 DEF Finish, WithSentinel
  <2>7. queue' \in Seq(Items) /\ SentinelIsLast'
    BY <2>3, <2>4, WithoutSentinel DEF SentinelIsLast
  <2>8. StreamTypeOK'
    BY <1>a, <1>5, <2>6, <2>7 DEF Finish, StreamTypeOK, Items, Producers
  <2> QED BY <2>7, <2>8
<1>6. CASE StopProducer
  <2>1. queue \in Seq(StreamEvent)
    BY <1>6, NoSentinelYet DEF StopProducer
  <2>2. queue' = WithSentinel(queue) /\ producer' = "done"
    BY <1>6 DEF StopProducer
  <2>3. Len(Append(queue, Done)) = Len(queue) + 1
    BY <2>1, WithoutSentinel, AppendProperties DEF Items
  <2>4. Len(queue') <= size
    BY <1>a, <2>2, <2>3 DEF WithSentinel
  <2>5. queue' \in Seq(Items) /\ SentinelIsLast'
    BY <2>1, <2>2, WithoutSentinel DEF SentinelIsLast
  <2>6. StreamTypeOK'
    BY <1>a, <1>6, <2>4, <2>5 DEF StopProducer, StreamTypeOK, Items, Producers
  <2> QED BY <2>5, <2>6
<1>7. CASE Receive
  <2>1. /\ Head(queue) \in Items /\ Tail(queue) \in Seq(Items)
        /\ Len(Tail(queue)) = Len(queue) - 1
        /\ \A i \in 1 .. Len(Tail(queue)) : Tail(queue)[i] = queue[i + 1]
    BY <1>a, <1>7, HeadTailProperties DEF Receive
  <2>2. received' \in Seq(StreamEvent)
    <3>1. Head(queue) # Done => Head(queue) \in StreamEvent
      BY <2>1 DEF Items
    <3> QED BY <1>a, <1>7, <3>1, AppendProperties DEF Receive
  <2>3. StreamTypeOK'
    BY <1>a, <1>7, <2>1, <2>2 DEF Receive, StreamTypeOK, Items, Stages
  <2>4. SentinelIsLast'
    <3>1. queue' = Tail(queue) /\ producer' = producer
      BY <1>7 DEF Receive
    <3>2. ASSUME NEW i \in 1 .. Len(queue'), queue'[i] = Done
          PROVE  i = Len(queue') /\ producer' = "done"
      <4>1. i + 1 \in 1 .. Len(queue) /\ queue[i + 1] = Done
        BY <1>a, <2>1, <3>1, <3>2
      <4>2. i + 1 = Len(queue) /\ producer = "done"
        BY <4>1 DEF SentinelIsLast
      <4>3. Len(queue) \in Nat /\ Len(queue') = Len(queue) - 1 /\ i \in Int
        BY <1>a, <2>1, <3>1
      <4> QED BY <3>1, <4>2, <4>3
    <3> QED BY <3>2 DEF SentinelIsLast
  <2> QED BY <2>3, <2>4
<1>8. CASE Leave \/ Await
  <2>1. StreamTypeOK'
    BY <1>a, <1>8 DEF Leave, Await, StreamTypeOK, Items, Stages
  <2>2. SentinelIsLast'
    BY <1>8 DEF Leave, Await, SentinelIsLast
  <2> QED BY <2>1, <2>2
<1>9. CASE Close
  <2>1. producer' \in Producers /\ (producer = "done" => producer' = "done")
    BY <1>a, <1>9 DEF Close, Producers
  <2>2. StreamTypeOK'
    BY <1>a, <1>9, <2>1 DEF Close, StreamTypeOK, Items, Stages
  <2>3. SentinelIsLast'
    BY <1>9, <2>1 DEF Close, SentinelIsLast
  <2> QED BY <2>2, <2>3
<1>10. CASE UNCHANGED streamVars
  BY <1>10 DEF streamVars, vars, StreamTypeOK, SentinelIsLast
<1> QED
  BY <1>1, <1>2, <1>3, <1>4, <1>5, <1>6, <1>7, <1>8, <1>9, <1>10 DEF StreamNext

-----------------------------------------------------------------------------
(* What a step sends.                                                       *)

\* What was sent is what the client got, then what is queued for it.
LEMMA InSent ==
    ASSUME StreamTypeOK, SentinelIsLast
    PROVE  /\ received \in Seq(StreamEvent) /\ EventsOf(queue) \in Seq(StreamEvent)
           /\ Sent \in Seq(StreamEvent) /\ Len(Sent) \in Nat /\ Len(received) \in Nat
           /\ Len(EventsOf(queue)) \in Nat
           /\ Len(Sent) = Len(received) + Len(EventsOf(queue))
           /\ \A i \in 1 .. Len(received) : Sent[i] = received[i]
           /\ received # <<>> => Len(received) \in 1 .. Len(Sent) /\ Len(Sent) \in 1 .. Len(Sent)
           /\ queue = EventsOf(queue) \/ queue = Append(EventsOf(queue), Done)
           /\ EventsOf(queue) = <<>> => Sent = received
<1>1. received \in Seq(StreamEvent) /\ queue \in Seq(Items)
  BY DEF StreamTypeOK, Items
<1>2. /\ EventsOf(queue) \in Seq(StreamEvent)
      /\ queue = EventsOf(queue) \/ queue = Append(EventsOf(queue), Done)
  BY <1>1, WithLastSentinel DEF SentinelIsLast
<1> DEFINE front == EventsOf(queue)
<1> HIDE DEF front
<1>3. front \in Seq(StreamEvent)
  BY <1>2 DEF front
<1>4. Len(received) \in Nat /\ Len(front) \in Nat /\ (received # <<>> => Len(received) > 0)
  BY <1>1, <1>3, LenProperties, EmptySeq
<1>5. /\ received \o front \in Seq(StreamEvent)
      /\ Len(received \o front) = Len(received) + Len(front)
      /\ \A i \in 1 .. Len(received) + Len(front) :
           (received \o front)[i] =
             IF i <= Len(received) THEN received[i] ELSE front[i - Len(received)]
  BY <1>1, <1>3, ConcatProperties
<1>6. Sent = received \o front
  BY DEF Sent, front
<1>7. /\ Len(Sent) \in Nat /\ Len(Sent) = Len(received) + Len(front)
      /\ \A i \in 1 .. Len(received) : Sent[i] = received[i]
      /\ received # <<>> => Len(received) \in 1 .. Len(Sent) /\ Len(Sent) \in 1 .. Len(Sent)
  BY <1>4, <1>5, <1>6
<1>8. front = <<>> => Sent = received
  BY <1>1, <1>6, ConcatEmptySeq
<1> QED BY <1>1, <1>2, <1>4, <1>5, <1>6, <1>7, <1>8 DEF front

\* A connection opens with run_started alone.
LEMMA OpenSends ==
    ASSUME NEW t \in Trips, Open(t)
    PROVE  /\ Sent' = received' /\ Len(received') = 1 /\ Len(Sent') = 1
           /\ received'[1].kind = "run_started" /\ received'[1].number = 1
<1>1. received' = <<Numbered(EventDraft("run_started", None), 1)>> /\ queue' = <<>>
  BY DEF Open
<1>2. Numbered(EventDraft("run_started", None), 1).kind = "run_started"
      /\ Numbered(EventDraft("run_started", None), 1).number = 1
  BY DEF Numbered, EventDraft
<1>3. EventsOf(queue)' = <<>>
  BY <1>1 DEF EventsOf
<1>4. received' \o <<>> = received'
  <2>1. received' \in Seq({Numbered(EventDraft("run_started", None), 1)})
    BY <1>1
  <2> QED BY <2>1, ConcatEmptySeq
<1>5. Sent' = received'
  BY <1>3, <1>4 DEF Sent
<1> QED BY <1>1, <1>2, <1>5

\* put adds one event after all the others.
LEMMA PutSends ==
    ASSUME StreamTypeOK, SentinelIsLast, Put
    PROVE  /\ Sent' = Append(Sent, Numbered(Head(pending), numbered + 1))
           /\ Numbered(Head(pending), numbered + 1) \in StreamEvent
           /\ received' = received
<1>a. /\ received \in Seq(StreamEvent) /\ queue \in Seq(StreamEvent)
      /\ pending \in Seq(StreamEventDraft) /\ numbered \in Nat /\ pending # <<>>
  BY NoSentinelYet DEF Put, StreamTypeOK
<1> DEFINE event == Numbered(Head(pending), numbered + 1)
<1>1. event \in StreamEvent
  BY <1>a, HeadTailProperties, NumberedIsTyped
<1>2. queue' = Append(queue, event) /\ received' = received
  BY DEF Put
<1> HIDE DEF event
<1>3. Append(queue, event) \in Seq(StreamEvent)
  BY <1>a, <1>1, AppendProperties
<1>4. EventsOf(queue) = queue /\ EventsOf(Append(queue, event)) = Append(queue, event)
  BY <1>a, <1>3, WithoutSentinel
<1>5. Sent' = received \o Append(queue, event)
  BY <1>2, <1>4 DEF Sent
<1>6. Sent = received \o queue
  BY <1>4 DEF Sent
<1>7. Sent' = Append(Sent, event)
  BY <1>a, <1>1, <1>5, <1>6, AppendAfter
<1> QED BY <1>1, <1>2, <1>7 DEF event

\* The end of a run adds its terminal event; the sentinel is no event.
LEMMA FinishSends ==
    ASSUME StreamTypeOK, SentinelIsLast, Finish
    PROVE  /\ Sent' = Append(Sent, Numbered(TerminalEvent, numbered + 1))
           /\ Numbered(TerminalEvent, numbered + 1) \in StreamEvent
           /\ received' = received
<1>a. received \in Seq(StreamEvent) /\ queue \in Seq(StreamEvent) /\ numbered \in Nat
  BY NoSentinelYet DEF Finish, StreamTypeOK
<1> DEFINE event == Numbered(TerminalEvent, numbered + 1)
<1>1. event \in StreamEvent
  BY <1>a, TerminalIsTyped, NumberedIsTyped
<1>2. queue' = WithSentinel(Append(queue, event)) /\ received' = received
  BY DEF Finish
<1> HIDE DEF event
<1>3. Append(queue, event) \in Seq(StreamEvent)
  BY <1>a, <1>1, AppendProperties
<1>4. EventsOf(queue) = queue /\ EventsOf(WithSentinel(Append(queue, event))) = Append(queue, event)
  BY <1>a, <1>3, WithoutSentinel
<1>5. Sent' = received \o Append(queue, event)
  BY <1>2, <1>4 DEF Sent
<1>6. Sent = received \o queue
  BY <1>4 DEF Sent
<1>7. Sent' = Append(Sent, event)
  BY <1>a, <1>1, <1>5, <1>6, AppendAfter
<1> QED BY <1>1, <1>2, <1>7 DEF event

\* A client that reads takes the next event that was sent, never the sentinel.
LEMMA ReceiveSends ==
    ASSUME StreamTypeOK, SentinelIsLast, Paired, Delivered, Receive
    PROVE  /\ Sent' = Sent
           /\ Head(queue) \in StreamEvent
           /\ received' = Append(received, Head(queue))
           /\ Len(received') \in 1 .. Len(Sent) /\ received'[Len(received')] = Head(queue)
           /\ Sent[Len(received')] = Head(queue)
<1> DEFINE front == EventsOf(queue)
<1> HIDE DEF front
<1>a. /\ received \in Seq(StreamEvent) /\ front \in Seq(StreamEvent) /\ Sent \in Seq(StreamEvent)
      /\ queue = front \/ queue = Append(front, Done)
      /\ front = <<>> => Sent = received
      /\ queue # <<>> /\ stage = "reading" /\ received # <<>>
      /\ Sent = received \o front
      /\ Len(received) \in Nat
  BY InSent DEF Receive, front, Sent, Paired
<1>1. front # <<>>
  <2> SUFFICES ASSUME front = <<>> PROVE FALSE
    OBVIOUS
  <2>1. queue = Append(<<>>, Done) /\ Sent = received
    BY <1>a
  <2>2. Len(queue) = 1 /\ queue[1] = Done
    BY <2>1
  <2>3. producer = "done"
    BY <2>2 DEF SentinelIsLast
  <2>4. received[Len(received)].kind \in Terminal
    BY <1>a, <2>1, <2>3 DEF Delivered
  <2> QED BY <1>a, <2>4 DEF Delivered
<1>2. /\ Head(front) \in StreamEvent /\ Tail(front) \in Seq(StreamEvent)
      /\ Len(Tail(front)) = Len(front) - 1 /\ Head(front) # Done
  BY <1>a, <1>1, HeadTailProperties, DoneIsNoEvent
<1>3. Head(queue) = Head(front) /\ EventsOf(Tail(queue)) = Tail(front)
  <2>1. CASE queue = front
    BY <1>2, <2>1, WithoutSentinel
  <2>2. CASE queue = Append(front, Done)
    <3>1. Head(queue) = Head(front) /\ Tail(queue) = Append(Tail(front), Done)
      BY <1>a, <1>1, <2>2, HeadTailAppend
    <3> QED BY <1>2, <3>1, WithoutSentinel
  <2> QED BY <1>a, <2>1, <2>2
<1>4. received' = Append(received, Head(front)) /\ queue' = Tail(queue)
  BY <1>2, <1>3 DEF Receive
<1>5. Sent' = Append(received, Head(front)) \o Tail(front)
  BY <1>3, <1>4 DEF Sent
<1>6. Sent' = Sent
  BY <1>a, <1>1, <1>5, HandedOver
<1>7. /\ Append(received, Head(front)) \in Seq(StreamEvent)
      /\ Len(Append(received, Head(front))) = Len(received) + 1
      /\ Append(received, Head(front))[Len(received) + 1] = Head(front)
  BY <1>a, <1>2, AppendProperties
<1>8. /\ Len(Sent') = Len(received') + Len(Tail(front))
      /\ \A i \in 1 .. Len(received') + Len(Tail(front)) :
           Sent'[i] = IF i <= Len(received') THEN received'[i] ELSE Tail(front)[i - Len(received')]
  BY <1>2, <1>4, <1>5, <1>7, ConcatProperties
<1>9. Len(Tail(front)) \in Nat /\ Len(received') = Len(received) + 1
  BY <1>2, <1>4, <1>7, LenProperties
<1>10. Len(received') \in 1 .. Len(Sent') /\ Sent'[Len(received')] = received'[Len(received')]
  <2>1. Len(received) \in Nat
    BY <1>a
  <2>2. \A m, n \in Nat : m + 1 \in 1 .. (m + 1) + n
    OBVIOUS
  <2>3. Len(received) + 1 \in 1 .. (Len(received) + 1) + Len(Tail(front))
    BY <1>9, <2>1, <2>2, Zenon
  <2>4. Len(received') \in 1 .. Len(received') + Len(Tail(front))
    BY <1>9, <2>3, Zenon
  <2> QED BY <1>8, <2>4
<1> QED BY <1>2, <1>3, <1>4, <1>6, <1>7, <1>9, <1>10

\* Every other step sends nothing.
LEMMA OthersSendNothing ==
    ASSUME StreamTypeOK, SentinelIsLast,
           Begin \/ Advance \/ StopProducer \/ Leave \/ Close \/ Await \/ UNCHANGED streamVars
    PROVE  Sent' = Sent /\ received' = received
<1>1. CASE StopProducer
  <2>1. queue \in Seq(StreamEvent)
    BY <1>1, NoSentinelYet DEF StopProducer
  <2>2. queue' = WithSentinel(queue) /\ received' = received
    BY <1>1 DEF StopProducer
  <2>3. EventsOf(queue) = queue /\ EventsOf(WithSentinel(queue)) = queue
    BY <2>1, WithoutSentinel
  <2> QED BY <2>2, <2>3 DEF Sent
<1>2. CASE Begin \/ Advance \/ Leave \/ Close \/ Await \/ UNCHANGED streamVars
  <2>1. queue' = queue /\ received' = received
    BY <1>2 DEF Begin, Advance, Leave, Close, Await, streamVars
  <2> QED BY <2>1 DEF Sent
<1> QED BY <1>1, <1>2

-----------------------------------------------------------------------------
(* The connection, its producer and the run between them.                   *)

\* A step of a run: it goes on for the same trip, returns, or leaves its channels.
LEMMA RunGoesOn ==
    ASSUME Typed, Paced, RunStep
    PROVE  /\ pc \in Nodes /\ trip' = trip /\ pc' # "idle"
           /\ pc' \in {"raised", "exhausted"} => state' = state
<1>1. CASE pc' \notin {"raised", "exhausted"}
  <2>1. Course /\ pc \in Nodes /\ trip' = trip
    BY <1>1, RunCourse
  <2> QED BY <1>1, <2>1 DEF Course, Nodes
<1>2. CASE OutOfSteps \/ Interrupt
  BY <1>2 DEF OutOfSteps, Interrupt
<1>3. CASE PlannerNotSelected \/ PlannerMissesData \/ PlannerCannotPlan
  BY <1>1, <1>3 DEF PlannerNotSelected, PlannerMissesData, PlannerCannotPlan,
                    PlannerFails, Superstep
<1>4. CASE \E passed \in BOOLEAN : Reviewed(passed)
  <2>1. PICK passed \in BOOLEAN : Reviewed(passed)
    BY <1>4
  <2>2. pc' \in {"planner", "finalize_plan"}
    BY <2>1 DEF Reviewed, Superstep
  <2> QED BY <1>1, <2>2
<1>5. CASE ReviewFails
  BY <1>1, <1>5 DEF ReviewFails, Superstep
<1>6. CASE \/ MemoryContext \/ Router \/ Retriever
           \/ PrepareSearchTasks \/ SearchWorkers \/ AggregateSearchResults
           \/ InitializeReviewCycle \/ PlannerDrafts \/ FinalizePlan
  BY <1>1, <1>6 DEF MemoryContext, Router, Retriever, PrepareSearchTasks, SearchWorkers,
                    AggregateSearchResults, InitializeReviewCycle, PlannerDrafts,
                    FinalizePlan, Superstep
<1> QED
  BY <1>2, <1>3, <1>4, <1>5, <1>6 DEF RunStep

LEMMA KeepsPaired ==
    ASSUME StreamTypeOK, SentinelIsLast, Paired, Delivered, Typed, Paced,
           [StreamNext]_streamVars
    PROVE  Paired'
<1>1. ASSUME NEW t \in Trips, Open(t) PROVE Paired'
  <2>1. received' # <<>> /\ Len(received') = 1 /\ received'[1].kind = "run_started"
    BY <1>1, OpenSends DEF Open
  <2>2. pc \notin Nodes
    <3>1. producer \notin {"running", "cancelled"}
      BY <1>1 DEF Open, Paired
    <3> QED BY <3>1 DEF Paired
  <2> QED BY <1>1, <2>1, <2>2 DEF Open, Paired, vars
<1>2. CASE Begin
  <2>1. pc' # "idle" /\ trip' = asked /\ asked' = asked
    BY <1>2 DEF Begin, StartRun
  <2> QED BY <1>2, <2>1 DEF Begin, Paired
<1>3. CASE Advance
  <2>1. pc' # "idle" /\ trip' = trip
    BY <1>3, RunGoesOn DEF Advance
  <2> QED BY <1>3, <2>1 DEF Advance, Paired
<1>4. CASE Put
  BY <1>4 DEF Put, Paired, vars
<1>5. CASE Finish
  BY <1>5 DEF Finish, Paired, vars
<1>6. CASE StopProducer
  <2>1. pc' \notin Nodes
    BY <1>6 DEF StopProducer, Nodes
  <2>2. producer = "cancelled" /\ producer' = "done" /\ stage' = stage /\ received' = received
    BY <1>6 DEF StopProducer
  <2>3. stage = "leaving"
    BY <2>2 DEF Paired, StreamTypeOK, Stages
  <2> QED BY <2>1, <2>2, <2>3 DEF Paired
<1>7. CASE Receive
  <2>1. /\ received' = Append(received, Head(queue)) /\ Sent' = Sent
        /\ received'[Len(received')] = Head(queue)
        /\ Len(received') \in 1 .. Len(Sent)
        /\ Sent[Len(received')] = Head(queue) /\ Head(queue) \in StreamEvent
    BY <1>7, ReceiveSends
  <2>2. Head(queue).kind # "done"
    BY <2>1 DEF StreamEvent, EventKinds, Terminal
  <2>3. received' # <<>>
    BY <2>1, InSent, AppendProperties
  <2>4. stage' = "closing" => producer = "done"
    <3>1. stage' = "closing" => Head(queue).kind \in Terminal
      BY <1>7, <2>2 DEF Receive
    <3>2. Head(queue).kind \in Terminal => producer = "done"
      BY <2>1 DEF Delivered
    <3> QED BY <3>1, <3>2
  <2>5. producer # "created"
    BY <1>7 DEF Receive, Paired
  <2>6. stage' \in {"reading", "closing"} /\ stage = "reading" /\ producer' = producer
        /\ pc' = pc /\ trip' = trip /\ asked' = asked
    BY <1>7 DEF Receive, vars
  <2> QED BY <2>3, <2>4, <2>5, <2>6 DEF Paired
<1>8. CASE Leave
  BY <1>8 DEF Leave, Paired, vars
<1>9. CASE Close
  BY <1>9 DEF Close, Paired, vars
<1>10. CASE Await
  BY <1>10 DEF Await, Paired, vars
<1>11. CASE UNCHANGED streamVars
  BY <1>11 DEF streamVars, vars, Paired
<1> QED
  BY <1>1, <1>2, <1>3, <1>4, <1>5, <1>6, <1>7, <1>8, <1>9, <1>10, <1>11 DEF StreamNext

-----------------------------------------------------------------------------
(* Numbers and the terminal event.                                          *)

\* One more event, with the next number.
LEMMA OneMore ==
    ASSUME StreamTypeOK, SentinelIsLast, Delivered, producer # "done",
           NEW event \in StreamEvent, event.number = numbered + 1,
           Sent' = Append(Sent, event), numbered' = numbered + 1
    PROVE  /\ numbered' = Len(Sent') /\ NothingIsLost'
           /\ Sent'[Len(Sent')] = event
           /\ \A i \in 1 .. Len(Sent') : Sent'[i].kind \in Terminal => i = Len(Sent')
<1>1. /\ Sent \in Seq(StreamEvent) /\ Len(Sent) \in Nat /\ numbered = Len(Sent)
      /\ \A i \in 1 .. Len(Sent) : Sent[i].number = i
      /\ \A i \in 1 .. Len(Sent) : Sent[i].kind \notin Terminal
  BY InSent DEF Delivered, NothingIsLost
<1>2. /\ Len(Sent') = Len(Sent) + 1 /\ Sent'[Len(Sent) + 1] = event
      /\ \A i \in 1 .. Len(Sent) : Sent'[i] = Sent[i]
  BY <1>1, AppendProperties
<1> DEFINE before == Len(Sent)
<1> HIDE DEF before
<1>3. ASSUME NEW i \in 1 .. before + 1
      PROVE  Sent'[i].number = i /\ (Sent'[i].kind \in Terminal => i = before + 1)
  <2>1. CASE i \in 1 .. before
    BY <1>1, <1>2, <2>1 DEF before
  <2>2. CASE i = before + 1
    BY <1>1, <1>2, <2>2 DEF before
  <2>3. i \in 1 .. before \/ i = before + 1
    <3>1. before \in Nat
      BY <1>1 DEF before
    <3> QED BY <3>1
  <2> QED BY <2>1, <2>2, <2>3
<1>4. NothingIsLost'
  BY <1>2, <1>3 DEF NothingIsLost, before
<1>5. \A i \in 1 .. Len(Sent') : Sent'[i].kind \in Terminal => i = Len(Sent')
  BY <1>2, <1>3 DEF before
<1> QED BY <1>1, <1>2, <1>4, <1>5

\* What a superstep announces never ends a stream.
LEMMA DraftsAreNotTerminal ==
    ASSUME NEW node, NEW s
    PROVE  \A i \in 1 .. Len(DraftsOf(node, s)) : DraftsOf(node, s)[i].kind \notin Terminal
<1> DEFINE progress == EventDraft("progress", None)
           review == EventDraft("review_completed", [round |-> s.current_review.round])
           revision == EventDraft("revision_started", [round |-> s.current_review.round])
<1>1. \/ DraftsOf(node, s) = <<progress>>
      \/ DraftsOf(node, s) = <<progress, review>>
      \/ DraftsOf(node, s) = <<progress, review, revision>>
  BY DEF DraftsOf
<1>2. /\ progress.kind \notin Terminal /\ review.kind \notin Terminal
      /\ revision.kind \notin Terminal
  BY DEF EventDraft, Terminal
<1> HIDE DEF progress, review, revision
<1>3. CASE DraftsOf(node, s) = <<progress>>
  BY <1>2, <1>3
<1>4. CASE DraftsOf(node, s) = <<progress, review>>
  BY <1>2, <1>4
<1>5. CASE DraftsOf(node, s) = <<progress, review, revision>>
  BY <1>2, <1>5
<1> QED BY <1>1, <1>3, <1>4, <1>5

LEMMA KeepsDelivered ==
    ASSUME StreamTypeOK, SentinelIsLast, Paired, Delivered, [StreamNext]_streamVars
    PROVE  Delivered'
<1>1. ASSUME NEW t \in Trips, Open(t) PROVE Delivered'
  <2>1. /\ Sent' = received' /\ Len(received') = 1 /\ Len(Sent') = 1
        /\ received'[1].kind \notin Terminal /\ received'[1].number = 1
    BY <1>1, OpenSends DEF Terminal
  <2>2. numbered' = 1 /\ pending' = <<>> /\ stage' = "reading" /\ producer' = "created"
    BY <1>1 DEF Open
  <2> QED BY <2>1, <2>2 DEF Delivered, NothingIsLost
<1>2. CASE Put
  <2> DEFINE event == Numbered(Head(pending), numbered + 1)
  <2>1. /\ Sent' = Append(Sent, event) /\ event \in StreamEvent /\ received' = received
    BY <1>2, PutSends
  <2>2. /\ pending \in Seq(StreamEventDraft) /\ pending # <<>> /\ pending' = Tail(pending)
        /\ numbered \in Nat /\ producer = "running" /\ producer' = producer
        /\ stage' = stage /\ numbered' = numbered + 1
    BY <1>2 DEF Put, StreamTypeOK
  <2>3. /\ Head(pending) \in StreamEventDraft /\ Head(pending) = pending[1]
        /\ Len(pending') = Len(pending) - 1 /\ Len(pending) \in Nat /\ Len(pending) > 0
        /\ \A i \in 1 .. Len(pending') : pending'[i] = pending[i + 1]
    BY <2>2, HeadTailProperties, LenProperties, EmptySeq
  <2>4. event.kind \notin Terminal /\ event.number = numbered + 1
    <3>1. 1 \in 1 .. Len(pending)
      BY <2>3
    <3>2. pending[1].kind \notin Terminal
      BY <3>1 DEF Delivered
    <3>3. numbered + 1 \in Nat
      BY <2>2
    <3> QED BY <2>3, <3>2, <3>3, NumberedIsTyped
  <2> HIDE DEF event
  <2>5. /\ numbered' = Len(Sent') /\ NothingIsLost' /\ Sent'[Len(Sent')] = event
        /\ \A i \in 1 .. Len(Sent') : Sent'[i].kind \in Terminal => i = Len(Sent')
    BY <2>1, <2>2, <2>4, OneMore
  <2>6. \A i \in 1 .. Len(Sent') : Sent'[i].kind \notin Terminal
    BY <2>4, <2>5
  <2>7. \A i \in 1 .. Len(pending') : pending'[i].kind \notin Terminal
    <3>1. \A i \in 1 .. Len(pending') : i + 1 \in 1 .. Len(pending)
      BY <2>3
    <3> QED BY <2>3, <3>1 DEF Delivered
  <2> QED BY <2>1, <2>2, <2>5, <2>6, <2>7 DEF Delivered
<1>3. CASE Finish
  <2> DEFINE event == Numbered(TerminalEvent, numbered + 1)
  <2>1. /\ Sent' = Append(Sent, event) /\ event \in StreamEvent /\ received' = received
    BY <1>3, FinishSends
  <2>2. /\ numbered \in Nat /\ producer = "running" /\ producer' = "done"
        /\ pending' = pending /\ stage' = stage /\ numbered' = numbered + 1
    BY <1>3 DEF Finish, StreamTypeOK
  <2>3. event.kind \in Terminal /\ event.number = numbered + 1
    <3>1. numbered + 1 \in Nat
      BY <2>2
    <3> QED BY <3>1, TerminalIsTyped, NumberedIsTyped
  <2> HIDE DEF event
  <2>4. /\ numbered' = Len(Sent') /\ NothingIsLost' /\ Sent'[Len(Sent')] = event
        /\ \A i \in 1 .. Len(Sent') : Sent'[i].kind \in Terminal => i = Len(Sent')
    BY <2>1, <2>2, <2>3, OneMore
  <2> QED BY <2>1, <2>2, <2>3, <2>4 DEF Delivered
<1>4. CASE Receive
  <2>1. /\ Sent' = Sent /\ received'[Len(received')] = Head(queue)
        /\ Len(received') \in 1 .. Len(Sent) /\ Sent[Len(received')] = Head(queue)
        /\ Head(queue) \in StreamEvent
    BY <1>4, ReceiveSends
  <2>2. Head(queue).kind # "done"
    BY <2>1 DEF StreamEvent, EventKinds, Terminal
  <2>3. /\ numbered' = numbered /\ pending' = pending /\ producer' = producer
        /\ stage = "reading"
        /\ stage' = IF Head(queue).kind \in Terminal THEN "closing" ELSE "reading"
    BY <1>4, <2>2 DEF Receive
  <2> QED BY <2>1, <2>3 DEF Delivered, NothingIsLost
<1>5. CASE Begin \/ Advance \/ StopProducer \/ Leave \/ Close \/ Await \/ UNCHANGED streamVars
  <2>1. Sent' = Sent /\ received' = received /\ numbered' = numbered
    BY <1>5, OthersSendNothing
       DEF Begin, Advance, StopProducer, Leave, Close, Await, streamVars
  <2>2. \A i \in 1 .. Len(pending') : pending'[i].kind \notin Terminal
    <3>1. pending' = pending \/ \E node \in Nodes \union Stopped : pending' = DraftsOf(node, state')
      BY <1>5 DEF Begin, Advance, StopProducer, Leave, Close, Await, streamVars,
                  StreamTypeOK, TypeOK
    <3> QED BY <3>1, DraftsAreNotTerminal DEF Delivered
  <2>3. producer = "done" => producer' = "done"
    BY <1>5 DEF Begin, Advance, StopProducer, Leave, Close, Await, streamVars
  <2>4. stage' \in {"reading", "closing", "closed"} /\ producer' = "done" =>
          producer = "done" /\ stage \in {"reading", "closing", "closed"}
    BY <1>5 DEF Begin, Advance, StopProducer, Leave, Close, Await, streamVars, Paired
  <2>5. /\ stage' = "reading" => stage = "reading"
        /\ stage' \in {"closing", "closed"} => stage \in {"closing", "closed"}
    BY <1>5 DEF Begin, Advance, StopProducer, Leave, Close, Await, streamVars
  <2> QED BY <2>1, <2>2, <2>3, <2>4, <2>5 DEF Delivered, NothingIsLost
<1> QED
  BY <1>1, <1>2, <1>3, <1>4, <1>5 DEF StreamNext

-----------------------------------------------------------------------------
(* What the mapper follows, and what the terminal event says.               *)

LEMMA KeepsFollowed ==
    ASSUME StreamTypeOK, Paired, Followed, Typed, Paced, [StreamNext]_streamVars
    PROVE  Followed'
<1>1. CASE Begin
  <2>1. /\ state'.error = None /\ state'.travel_plan = None /\ state'.current_review = None
        /\ state'.finalization_reason = None /\ pc' # "end"
    BY <1>1 DEF Begin, StartRun, NoChannels
  <2>2. mapper' = NothingSeen
    BY <1>1 DEF Begin, Paired
  <2> QED BY <2>1, <2>2 DEF Followed, NothingSeen
<1>2. CASE Advance
  <2>0. pc \in Nodes /\ producer = "running" /\ RunStep
        /\ (pc' \in {"raised", "exhausted"} => state' = state)
    BY <1>2, RunGoesOn DEF Advance
  <2>1. CASE pc' \in {"raised", "exhausted"}
    BY <1>2, <2>0, <2>1 DEF Advance, Followed
  <2>2. CASE pc' \notin {"raised", "exhausted"}
    <3>1. mapper' = Observed(mapper, state')
      BY <1>2, <2>2 DEF Advance
    <3>2. state.travel_plan = None
      BY <2>0 DEF Typed, Coherent, Nodes
    <3>3. mapper.plan = None
      BY <2>0, <3>2 DEF Followed
    <3>4. /\ mapper'.error = state'.error /\ mapper'.status = state'.review_status
          /\ mapper'.plan = state'.travel_plan
          /\ state'.current_review # None => mapper'.review = state'.current_review
          /\ state'.finalization_reason # None => mapper'.reason = state'.finalization_reason
      BY <3>1, <3>3 DEF Observed
    <3>5. pc' = "end" /\ state'.error = None => state'.finalization_reason # None
      <4>1. Course
        BY <2>0, <2>2, RunCourse
      <4> QED BY <4>1 DEF Course, Nodes
    <3> QED BY <3>4, <3>5 DEF Followed
  <2> QED BY <2>1, <2>2
<1>3. CASE \/ \E t \in Trips : Open(t)
           \/ Finish \/ StopProducer
  BY <1>3 DEF Open, Finish, StopProducer, Followed
<1>4. CASE Put \/ Receive \/ Leave \/ Close \/ Await \/ UNCHANGED streamVars
  <2>1. mapper' = mapper /\ state' = state /\ pc' = pc
        /\ (producer' = "running" => producer = "running")
    BY <1>4 DEF Put, Receive, Leave, Close, Await, streamVars, vars
  <2> QED BY <2>1 DEF Followed
<1> QED
  BY <1>1, <1>2, <1>3, <1>4 DEF StreamNext

\* The terminal event of a run that is over, told from the channels.
LEMMA WhatTheEndSays ==
    ASSUME StreamTypeOK, Paired, Followed, Typed, producer = "running", pc \notin Nodes
    PROVE  /\ TerminalEvent.kind \in {"plan_completed", "error"}
           /\ TerminalEvent.kind = "plan_completed" =>
                /\ pc = "end" /\ state.error = None /\ StateAnswer # None
                /\ TerminalEvent.about.plan = StateAnswer
                /\ TerminalEvent.about.plan.draft.trip = asked
                /\ TerminalEvent.about.status = state.review_status
                /\ TerminalEvent.about.review = state.current_review
                /\ TerminalEvent.about.reason = state.finalization_reason
           /\ TerminalEvent.kind = "error" => StateAnswer = None
<1> DEFINE seen == IF mapper.plan = None /\ mapper.error = None
                   THEN Observed(mapper, state) ELSE mapper
           about == [plan |-> seen.plan, status |-> seen.status, review |-> seen.review,
                     reason |-> seen.reason]
<1>1. TerminalEvent = IF \/ pc # "end" \/ seen.error # None \/ seen.plan = None
                         \/ seen.plan.draft.trip # asked
                      THEN EventDraft("error", None)
                      ELSE EventDraft("plan_completed", about)
  BY DEF TerminalEvent
<1>2. seen.error = state.error /\ seen.plan = state.travel_plan
  BY DEF Followed, Observed
<1>3. seen.plan # None => seen = mapper
  BY <1>2 DEF Followed
<1>4. about.plan = seen.plan /\ about.status = seen.status /\ about.review = seen.review
      /\ about.reason = seen.reason
  OBVIOUS
<1> HIDE DEF seen, about
<1>5. EventDraft("error", None).kind = "error"
      /\ EventDraft("plan_completed", about).kind = "plan_completed"
      /\ EventDraft("plan_completed", about).about = about
  BY DEF EventDraft
<1>6. CASE pc # "end"
  <2>1. state.travel_plan = None
    BY <1>6 DEF Typed, Coherent
  <2> QED BY <1>1, <1>5, <1>6, <2>1 DEF StateAnswer
<1>7. CASE pc = "end" /\ state.error # None
  BY <1>1, <1>2, <1>5, <1>7 DEF StateAnswer
<1>8. CASE pc = "end" /\ state.error = None
  <2>1. /\ state.travel_plan # None /\ state.travel_plan.draft.trip = trip
    BY <1>8 DEF Typed, Coherent, OutcomeIsHonest, Fresh
  <2>2. state.current_review # None
    <3>1. state.review_history \subseteq Review
      BY DEF Typed, TypeOK, Channels
    <3>2. PICK review \in state.review_history : review = state.current_review
      BY <1>8, <2>1 DEF Typed, Coherent, PlanIsReviewed
    <3> QED BY <3>1, <3>2, NoneIsNoValue
  <2>3. trip = asked
    BY DEF Paired
  <2>4. /\ mapper.review = state.current_review /\ mapper.status = state.review_status
        /\ mapper.reason = state.finalization_reason
    BY <1>8, <2>2 DEF Followed
  <2>5. /\ about.plan = state.travel_plan /\ about.review = state.current_review
        /\ about.status = state.review_status /\ about.reason = state.finalization_reason
    BY <1>2, <1>3, <1>4, <2>1, <2>4
  <2>6. TerminalEvent = EventDraft("plan_completed", about)
    BY <1>1, <1>2, <1>8, <2>1, <2>3
  <2>7. StateAnswer = state.travel_plan
    BY <1>8 DEF StateAnswer
  <2> QED BY <1>5, <1>8, <2>1, <2>3, <2>5, <2>6, <2>7
<1> QED BY <1>6, <1>7, <1>8

\* A stream without terminal event: one that never opened or was left early.
Unfinished == \A i \in 1 .. Len(Sent) : Sent[i].kind \notin Terminal

LEMMA WithoutTerminal ==
    ASSUME StreamTypeOK, SentinelIsLast, Delivered, producer # "done"
    PROVE  Unfinished
BY DEF Delivered, Unfinished

\* Apart from the end of the run, what a stream that is done sent, and what it
\* speaks of, stays; one that becomes done otherwise has no terminal event.
LEMMA DoneStaysAsItIs ==
    ASSUME StreamTypeOK, SentinelIsLast, Paired, Delivered, [StreamNext]_streamVars,
           producer' = "done", ~Finish
    PROVE  /\ Sent' = Sent /\ state' = state /\ asked' = asked
           /\ producer # "done" => Unfinished
<1>1. CASE Begin \/ Advance \/ Put \/ \E t \in Trips : Open(t)
  BY <1>1 DEF Begin, Advance, Put, Open
<1>2. CASE Receive
  <2>1. Sent' = Sent
    BY <1>2, ReceiveSends
  <2> QED BY <1>2, <2>1, WithoutTerminal DEF Receive, vars
<1>3. CASE StopProducer \/ Leave \/ Close \/ Await \/ UNCHANGED streamVars
  <2>1. Sent' = Sent
    BY <1>3, OthersSendNothing
  <2>2. state' = state /\ asked' = asked
    BY <1>3 DEF StopProducer, Leave, Close, Await, streamVars, vars
  <2> QED BY <2>1, <2>2, WithoutTerminal
<1> QED BY <1>1, <1>2, <1>3 DEF StreamNext

\* The terminal event of a run that ends is the last that was sent.
LEMMA FinishSendsTheEnd ==
    ASSUME StreamTypeOK, SentinelIsLast, Finish
    PROVE  /\ Sent' # <<>> /\ Sent' \in Seq(StreamEvent)
           /\ Sent'[Len(Sent')].kind = TerminalEvent.kind
           /\ Sent'[Len(Sent')].about = TerminalEvent.about
           /\ state' = state /\ asked' = asked
<1> DEFINE event == Numbered(TerminalEvent, numbered + 1)
<1>1. Sent' = Append(Sent, event) /\ event \in StreamEvent
  BY FinishSends
<1>2. event.kind = TerminalEvent.kind /\ event.about = TerminalEvent.about
  BY DEF Numbered
<1> HIDE DEF event
<1>3. /\ Sent' \in Seq(StreamEvent) /\ Sent' # <<>>
      /\ Len(Sent') = Len(Sent) + 1 /\ Sent'[Len(Sent) + 1] = event
  BY <1>1, InSent, AppendProperties
<1>4. state' = state /\ asked' = asked
  BY DEF Finish, vars
<1> QED BY <1>2, <1>3, <1>4

LEMMA KeepsCheckpointed ==
    ASSUME StreamTypeOK, SentinelIsLast, Paired, Delivered, Followed, Typed,
           TerminalIsTheCheckpoint, [StreamNext]_streamVars
    PROVE  TerminalIsTheCheckpoint'
<1>1. CASE Finish
  <2> DEFINE last == Sent'[Len(Sent')]
  <2>1. /\ last.kind = TerminalEvent.kind /\ last.about = TerminalEvent.about
        /\ state' = state /\ asked' = asked
    BY <1>1, FinishSendsTheEnd
  <2>2. producer = "running" /\ pc \notin Nodes
    BY <1>1 DEF Finish
  <2>3. StateAnswer' = StateAnswer
    BY <2>1 DEF StateAnswer
  <2> HIDE DEF last
  <2>4. /\ last.kind = "plan_completed" =>
             /\ last.about.plan = StateAnswer
             /\ last.about.plan.draft.trip = asked
             /\ last.about.status = state.review_status
             /\ last.about.review = state.current_review
             /\ last.about.reason = state.finalization_reason
        /\ last.kind = "error" => StateAnswer = None
    BY <2>1, <2>2, WhatTheEndSays
  <2> QED BY <2>1, <2>3, <2>4 DEF TerminalIsTheCheckpoint, last
<1>2. CASE ~Finish /\ producer' = "done"
  <2>1. Sent' = Sent /\ state' = state /\ asked' = asked
        /\ (producer # "done" => Unfinished)
    BY <1>2, DoneStaysAsItIs
  <2>2. StateAnswer' = StateAnswer
    BY <2>1 DEF StateAnswer
  <2>3. CASE producer = "done"
    BY <2>1, <2>2, <2>3 DEF TerminalIsTheCheckpoint
  <2>4. CASE Unfinished
    <3>1. Sent # <<>> => Sent[Len(Sent)].kind \notin Terminal
      <4>1. Sent # <<>> => Len(Sent) \in 1 .. Len(Sent)
        BY InSent, EmptySeq
      <4> QED BY <2>4, <4>1 DEF Unfinished
    <3> QED BY <2>1, <3>1 DEF TerminalIsTheCheckpoint, Terminal
  <2> QED BY <2>1, <2>3, <2>4
<1>3. CASE producer' # "done"
  BY <1>3 DEF TerminalIsTheCheckpoint
<1> QED BY <1>1, <1>2, <1>3

-----------------------------------------------------------------------------
(* The reviews a client is told of.                                         *)

Tellable == StreamEvent \union StreamEventDraft

\* Only what an event tells counts.
LEMMA ToldAlike ==
    ASSUME NEW S, NEW a \in Seq(S), NEW b \in Seq(S), Len(a) = Len(b),
           \A i \in 1 .. Len(a) : a[i].kind = b[i].kind /\ a[i].about = b[i].about,
           NEW last, ToldUpTo(a, last)
    PROVE  ToldUpTo(b, last)
<1>1. DOMAIN a = 1 .. Len(a) /\ DOMAIN b = 1 .. Len(a)
  BY LenProperties
<1>2. \A i \in 1 .. Len(a) : (IsTold(b[i]) <=> IsTold(a[i])) /\ Place(b[i]) = Place(a[i])
  BY DEF IsTold, Place
<1> QED BY <1>1, <1>2, Zenon DEF ToldUpTo

\* An event about anything else changes nothing.
LEMMA NotToldOf ==
    ASSUME NEW S, NEW s \in Seq(S), NEW e \in S, ~IsTold(e), NEW last, ToldUpTo(s, last)
    PROVE  ToldUpTo(Append(s, e), last)
<1> DEFINE t == Append(s, e)
<1>1. /\ t \in Seq(S) /\ Len(t) = Len(s) + 1 /\ t[Len(s) + 1] = e
      /\ \A i \in 1 .. Len(s) : t[i] = s[i]
  BY AppendProperties
<1>2. Len(s) \in Nat /\ DOMAIN s = 1 .. Len(s)
  BY LenProperties
<1>3. DOMAIN t = 1 .. Len(s) + 1
  BY <1>1, LenProperties
<1> HIDE DEF t
<1>4. \A i \in DOMAIN t : IsTold(t[i]) => i \in DOMAIN s
  <2> SUFFICES ASSUME NEW i \in DOMAIN t, i \notin DOMAIN s PROVE ~IsTold(t[i])
    OBVIOUS
  <2>1. i = Len(s) + 1
    BY <1>2, <1>3
  <2> QED BY <1>1, <2>1
<1>5. \A i \in DOMAIN s : i \in DOMAIN t /\ t[i] = s[i]
  BY <1>1, <1>2, <1>3
<1>6. ToldUpTo(t, last)
  BY <1>4, <1>5, Zenon DEF ToldUpTo
<1> QED BY <1>6 DEF t

\* An event at the next place is told after all the others.
LEMMA ToldNext ==
    ASSUME NEW S, NEW s \in Seq(S), NEW e \in S, IsTold(e), NEW last \in Nat,
           ToldUpTo(s, last), Place(e) = last + 1
    PROVE  ToldUpTo(Append(s, e), last + 1)
<1> DEFINE t == Append(s, e)
<1>1. /\ t \in Seq(S) /\ Len(t) = Len(s) + 1 /\ t[Len(s) + 1] = e
      /\ \A i \in 1 .. Len(s) : t[i] = s[i]
  BY AppendProperties
<1>2. Len(s) \in Nat /\ DOMAIN s = 1 .. Len(s)
  BY LenProperties
<1>3. DOMAIN t = 1 .. Len(s) + 1
  BY <1>1, LenProperties
<1> HIDE DEF t
<1>4. \A i \in DOMAIN t : i \in DOMAIN s \/ i = Len(s) + 1
  BY <1>2, <1>3
<1>5. \A i \in DOMAIN s : i \in DOMAIN t /\ t[i] = s[i] /\ i < Len(s) + 1
  BY <1>1, <1>2, <1>3
<1>6. Len(s) + 1 \in DOMAIN t
  BY <1>2, <1>3
<1>7. \A i \in DOMAIN s : IsTold(s[i]) => Place(s[i]) \in 1 .. last
  BY Zenon DEF ToldUpTo
<1>8. \A i \in DOMAIN t : IsTold(t[i]) => Place(t[i]) \in 1 .. last + 1
  <2> SUFFICES ASSUME NEW i \in DOMAIN t, IsTold(t[i]) PROVE Place(t[i]) \in 1 .. last + 1
    OBVIOUS
  <2>1. CASE i \in DOMAIN s
    <3>1. Place(t[i]) \in 1 .. last
      BY <1>5, <1>7, <2>1
    <3> QED BY <3>1
  <2>2. CASE i = Len(s) + 1
    BY <1>1, <2>2
  <2> QED BY <1>4, <2>1, <2>2
<1>9. ASSUME NEW i \in DOMAIN t, NEW j \in DOMAIN t, i < j, IsTold(t[i]), IsTold(t[j])
      PROVE  Place(t[i]) < Place(t[j])
  <2>1. i \in DOMAIN s
    <3>1. i \in 1 .. Len(s) + 1 /\ j \in 1 .. Len(s) + 1
      BY <1>3
    <3> QED BY <1>2, <1>9, <3>1
  <2>2. CASE j \in DOMAIN s
    <3>1. t[i] = s[i] /\ t[j] = s[j]
      BY <1>5, <2>1, <2>2
    <3>2. IsTold(s[i]) /\ IsTold(s[j])
      BY <1>9, <3>1
    <3>3. Place(s[i]) < Place(s[j])
      BY <1>9, <2>1, <2>2, <3>2, Zenon DEF ToldUpTo
    <3> QED BY <3>1, <3>3
  <2>3. CASE j = Len(s) + 1
    <3>1. Place(t[j]) = last + 1
      BY <1>1, <2>3
    <3>2. Place(t[i]) \in 1 .. last
      BY <1>5, <1>7, <1>9, <2>1
    <3> QED BY <3>1, <3>2
  <2> QED BY <1>4, <2>2, <2>3
<1>10. ASSUME NEW n \in 1 .. last + 1
       PROVE  \E i \in DOMAIN t : IsTold(t[i]) /\ Place(t[i]) = n
  <2>1. CASE n \in 1 .. last
    <3>1. PICK i \in DOMAIN s : IsTold(s[i]) /\ Place(s[i]) = n
      BY <2>1, Zenon DEF ToldUpTo
    <3> QED BY <1>5, <3>1
  <2>2. CASE n = last + 1
    BY <1>1, <1>6, <2>2
  <2>3. n \in 1 .. last \/ n = last + 1
    OBVIOUS
  <2> QED BY <2>1, <2>2, <2>3
<1>11. ToldUpTo(t, last + 1)
  BY <1>8, <1>9, <1>10, Zenon DEF ToldUpTo
<1> QED BY <1>11 DEF t

AnnouncedTypeOK ==
    /\ Sent \in Seq(Tellable) /\ pending \in Seq(Tellable) /\ Announced \in Seq(Tellable)
    /\ pending = <<>> => Announced = Sent

LEMMA AnnouncedIsTyped == StreamTypeOK /\ SentinelIsLast => AnnouncedTypeOK
<1> SUFFICES ASSUME StreamTypeOK, SentinelIsLast PROVE AnnouncedTypeOK
  OBVIOUS
<1>1. Sent \in Seq(Tellable) /\ pending \in Seq(Tellable)
  BY InSent, SeqMonotonic DEF StreamTypeOK, Tellable
<1>2. Announced \in Seq(Tellable)
  BY <1>1, ConcatProperties DEF Announced
<1>3. pending = <<>> => Announced = Sent
  BY <1>1, ConcatEmptySeq DEF Announced
<1> QED BY <1>1, <1>2, <1>3 DEF AnnouncedTypeOK

\* The drafts of a superstep carry what the client was told of the reviews on.
LEMMA Announcing ==
    ASSUME NEW s \in Seq(Tellable), NEW node, NEW c \in Channels, NEW last,
           ToldUpTo(s, last)
    PROVE  /\ node # "reviewer" \/ c.current_review = None =>
                ToldUpTo(s \o DraftsOf(node, c), last)
           /\ /\ node = "reviewer" /\ c.current_review # None
              /\ last \in Nat /\ 2 * c.current_review.round - 1 = last + 1
              => /\ c.current_review.decision # "revise" =>
                      ToldUpTo(s \o DraftsOf(node, c), last + 1)
                 /\ c.current_review.decision = "revise" =>
                      ToldUpTo(s \o DraftsOf(node, c), last + 2)
<1> DEFINE progress == EventDraft("progress", None)
           review == EventDraft("review_completed", [round |-> c.current_review.round])
           revision == EventDraft("revision_started", [round |-> c.current_review.round])
<1>1. /\ node # "reviewer" \/ c.current_review = None => DraftsOf(node, c) = <<progress>>
      /\ node = "reviewer" /\ c.current_review # None /\ c.current_review.decision # "revise" =>
           DraftsOf(node, c) = <<progress, review>>
      /\ node = "reviewer" /\ c.current_review # None /\ c.current_review.decision = "revise" =>
           DraftsOf(node, c) = <<progress, review, revision>>
  BY DEF DraftsOf
<1>2. c.current_review = None \/ c.current_review.round \in Nat
  <2>1. c.current_review \in Review \union {None}
    BY DEF Channels
  <2> QED BY <2>1 DEF Review
<1>3. /\ progress \in Tellable /\ ~IsTold(progress)
      /\ c.current_review # None => review \in Tellable /\ revision \in Tellable
  BY <1>2 DEF EventDraft, Tellable, StreamEventDraft, EventKinds, About, IsTold
<1>4. /\ IsTold(review) /\ Place(review) = 2 * c.current_review.round - 1
      /\ IsTold(revision) /\ Place(revision) = 2 * c.current_review.round
  BY DEF EventDraft, IsTold, Place
<1> DEFINE round == c.current_review.round
<1> HIDE DEF progress, review, revision
<1> DEFINE one == Append(s, progress)
           two == Append(one, review)
           three == Append(two, revision)
<1>5. one \in Seq(Tellable) /\ ToldUpTo(one, last) /\ s \o <<progress>> = one
  BY <1>3, NotToldOf, AppendProperties, AppendIsConcat
<1>6. ASSUME c.current_review # None, last \in Nat, 2 * round - 1 = last + 1
      PROVE  /\ ToldUpTo(two, last + 1) /\ s \o <<progress, review>> = two
             /\ ToldUpTo(three, last + 2) /\ s \o <<progress, review, revision>> = three
  <2> HIDE DEF one
  <2>1. ToldUpTo(two, last + 1) /\ two \in Seq(Tellable)
    BY <1>3, <1>4, <1>5, <1>6, ToldNext, AppendProperties
  <2>2. s \o <<progress, review>> = two
    <3>1. <<progress, review>> = Append(<<progress>>, review) /\ <<progress>> \in Seq(Tellable)
      BY <1>3
    <3> QED BY <1>3, <1>5, <1>6, <3>1, AppendAfter
  <2> HIDE DEF two
  <2>3. Place(revision) = (last + 1) + 1 /\ last + 1 \in Nat /\ (last + 1) + 1 = last + 2
    <3>1. round \in Nat
      BY <1>2, <1>6
    <3> QED BY <1>4, <1>6, <3>1
  <2>4. ToldUpTo(three, last + 2)
    <3>1. ToldUpTo(three, (last + 1) + 1)
      BY <1>3, <1>4, <1>6, <2>1, <2>3, ToldNext
    <3> QED BY <2>3, <3>1
  <2>5. s \o <<progress, review, revision>> = three
    <3>1. <<progress, review, revision>> = Append(<<progress, review>>, revision)
      OBVIOUS
    <3>2. <<progress, review>> \in Seq(Tellable)
      BY <1>3, <1>6, Tuples
    <3> QED BY <1>3, <1>6, <2>2, <3>1, <3>2, AppendAfter
  <2> QED BY <2>1, <2>2, <2>4, <2>5
<1> HIDE DEF one, two, three
<1> QED BY <1>1, <1>5, <1>6

LEMMA KeepsReported ==
    ASSUME StreamTypeOK, SentinelIsLast, Paired, Delivered, Followed, Reported,
           Typed, Paced, StreamTypeOK', SentinelIsLast', Typed', [StreamNext]_streamVars
    PROVE  Reported'
<1>a. /\ Sent \in Seq(Tellable) /\ Announced \in Seq(Tellable)
      /\ Sent' \in Seq(Tellable) /\ Announced' \in Seq(Tellable)
      /\ pending = <<>> => Announced = Sent
      /\ pending' = <<>> => Announced' = Sent'
      /\ state \in Channels /\ state' \in Channels
      /\ state.review_round \in Nat /\ state'.review_round \in Nat
  <2>1. state.review_round \in Nat /\ state'.review_round \in Nat
    BY DEF Typed, TypeOK, Channels
  <2>2. AnnouncedTypeOK
    BY AnnouncedIsTyped
  <2>3. (AnnouncedTypeOK)'
    BY AnnouncedIsTyped, PTL
  <2> QED BY <2>1, <2>2, <2>3 DEF AnnouncedTypeOK, Typed, TypeOK
<1>1. ASSUME NEW t \in Trips, Open(t) PROVE Reported'
  <2>1. Sent' = received' /\ Len(Sent') = 1 /\ Sent'[1].kind = "run_started"
    BY <1>1, OpenSends
  <2>2. pending' = <<>> /\ producer' = "created"
    BY <1>1 DEF Open
  <2>3. ToldUpTo(Sent', 0)
    <3>1. DOMAIN Sent' = 1 .. 1
      BY <1>a, <2>1, LenProperties
    <3>2. \A i \in DOMAIN Sent' : ~IsTold(Sent'[i])
      BY <2>1, <3>1 DEF IsTold
    <3>3. \A n \in 1 .. 0 : FALSE
      OBVIOUS
    <3> QED BY <3>2, <3>3, Zenon DEF ToldUpTo
  <2> QED BY <1>a, <2>2, <2>3 DEF Reported
<1>2. CASE Begin
  <2>1. /\ Sent' = Sent /\ pending' = pending /\ producer = "created" /\ producer' = "running"
        /\ pc' = "memory_context" /\ state'.review_round = 0
    <3>1. state'.review_round = 0
      BY <1>2 DEF Begin, StartRun, NoChannels
    <3> QED BY <1>2, <3>1, OthersSendNothing DEF Begin, StartRun
  <2>2. ToldUpTo(Announced, 0)
    BY <2>1 DEF Reported
  <2>3. Announced' = Announced
    BY <2>1 DEF Announced
  <2>4. 2 * state'.review_round = 0
    BY <2>1
  <2> QED BY <2>1, <2>2, <2>3, <2>4 DEF Reported
<1>3. CASE Advance
  <2>1. /\ producer = "running" /\ producer' = "running" /\ pending = <<>> /\ RunStep
        /\ Sent' = Sent /\ Announced = Sent
    BY <1>a, <1>3, OthersSendNothing DEF Advance
  <2>2. CASE pc' \in {"raised", "exhausted"}
    BY <2>1, <2>2 DEF Reported, Nodes
  <2>3. CASE pc' \notin {"raised", "exhausted"}
    <3>1. pending' = DraftsOf(pc, state') /\ Course /\ pc \in Nodes
      BY <1>3, <2>1, <2>3, RunCourse DEF Advance
    <3>2. Announced' = Sent \o DraftsOf(pc, state')
      BY <2>1, <3>1 DEF Announced
    <3>3. /\ pc # "finalize_plan" => ToldUpTo(Sent, 2 * state.review_round)
          /\ pc = "finalize_plan" /\ state.error = None =>
               ToldUpTo(Sent, 2 * state.review_round - 1)
      BY <2>1, <3>1 DEF Reported
    <3>4. CASE /\ pc \notin {"reviewer", "finalize_plan"}
               /\ pc' \in Nodes \ {"finalize_plan"}
               /\ state'.review_round = state.review_round
      <4>1. ToldUpTo(Announced', 2 * state'.review_round)
        BY <1>a, <3>2, <3>3, <3>4, Announcing
      <4> QED BY <2>1, <3>4, <4>1 DEF Reported, Nodes
    <3>5. CASE /\ pc = "reviewer" /\ state'.current_review # None
               /\ state'.review_round = state.review_round + 1
               /\ state'.current_review.round = state'.review_round
               /\ \/ state'.current_review.decision = "revise" /\ pc' = "planner"
                  \/ state'.current_review.decision # "revise" /\ pc' = "finalize_plan"
      <4> DEFINE last == 2 * state.review_round
      <4>1. last \in Nat /\ 2 * state'.current_review.round - 1 = last + 1
            /\ last + 1 = 2 * state'.review_round - 1 /\ last + 2 = 2 * state'.review_round
        <5>1. \A n \in Nat : /\ 2 * n \in Nat /\ 2 * (n + 1) - 1 = 2 * n + 1
                             /\ 2 * n + 2 = 2 * (n + 1)
          OBVIOUS
        <5>2. state.review_round \in Nat /\ state'.review_round = state.review_round + 1
              /\ state'.current_review.round = state.review_round + 1
          BY <1>a, <3>5
        <5> QED BY <5>1, <5>2, Zenon
      <4>2. ToldUpTo(Sent, last)
        BY <3>3, <3>5
      <4> HIDE DEF last
      <4>3. /\ state'.current_review.decision # "revise" => ToldUpTo(Announced', last + 1)
            /\ state'.current_review.decision = "revise" => ToldUpTo(Announced', last + 2)
        BY <1>a, <3>2, <3>5, <4>1, <4>2, Announcing
      <4> QED BY <2>1, <3>5, <4>1, <4>3 DEF Reported
    <3>6. CASE state'.error # None /\ pc' \in {"finalize_plan", "end"}
      BY <2>1, <3>6 DEF Reported, Nodes
    <3>7. CASE /\ pc = "finalize_plan" /\ pc' = "end"
               /\ state'.review_round = state.review_round /\ state'.error = state.error
      <4>1. state.error = None => ToldUpTo(Announced', 2 * state'.review_round - 1)
        BY <1>a, <3>2, <3>3, <3>7, Announcing
      <4> QED BY <2>1, <3>7, <4>1 DEF Reported, Nodes
    <3> QED BY <3>1, <3>4, <3>5, <3>6, <3>7 DEF Course
  <2> QED BY <2>2, <2>3
<1>4. CASE Put
  <2> DEFINE event == Numbered(Head(pending), numbered + 1)
  <2>1. Sent' = Append(Sent, event) /\ event \in Tellable
    BY <1>4, PutSends DEF Tellable
  <2>2. /\ pending \in Seq(Tellable) /\ pending # <<>> /\ pending' = Tail(pending)
        /\ producer' = producer /\ producer = "running" /\ state' = state /\ pc' = pc
    BY <1>4, AnnouncedIsTyped DEF Put, vars, AnnouncedTypeOK
  <2>3. event.kind = Head(pending).kind /\ event.about = Head(pending).about
    BY DEF Numbered
  <2> HIDE DEF event
  <2> DEFINE h == Head(pending)
             r == Tail(pending)
  <2>4. h \in Tellable /\ r \in Seq(Tellable)
    BY <2>2, HeadTailProperties
  <2>5. Announced = Append(Sent, h) \o r
    BY <1>a, <2>2, HandedOver DEF Announced
  <2>6. Announced' = Append(Sent, event) \o r
    BY <2>1, <2>2 DEF Announced
  <2> HIDE DEF h, r
  <2>7. Len(Announced) = Len(Announced')
        /\ \A i \in 1 .. Len(Announced) : /\ Announced[i].kind = Announced'[i].kind
                                          /\ Announced[i].about = Announced'[i].about
    <3> DEFINE a == Append(Sent, h)
               b == Append(Sent, event)
    <3>1. /\ a \in Seq(Tellable) /\ b \in Seq(Tellable) /\ Len(a) = Len(Sent) + 1
          /\ Len(b) = Len(Sent) + 1
          /\ \A i \in 1 .. Len(Sent) : a[i] = Sent[i] /\ b[i] = Sent[i]
          /\ a[Len(Sent) + 1] = h /\ b[Len(Sent) + 1] = event
      BY <1>a, <2>1, <2>4, AppendProperties
    <3>2. Len(Sent) \in Nat /\ Len(r) \in Nat
      BY <1>a, <2>4, LenProperties
    <3> HIDE DEF a, b
    <3>3. \A i \in 1 .. Len(a) : a[i].kind = b[i].kind /\ a[i].about = b[i].about
      <4> SUFFICES ASSUME NEW i \in 1 .. Len(a)
                   PROVE  a[i].kind = b[i].kind /\ a[i].about = b[i].about
        OBVIOUS
      <4>1. i \in 1 .. Len(Sent) \/ i = Len(Sent) + 1
        BY <3>1, <3>2
      <4>2. CASE i \in 1 .. Len(Sent)
        BY <3>1, <4>2
      <4>3. CASE i = Len(Sent) + 1
        BY <2>3, <3>1, <4>3 DEF h
      <4> QED BY <4>1, <4>2, <4>3
    <3>4. /\ Len(a \o r) = Len(a) + Len(r) /\ Len(b \o r) = Len(a) + Len(r)
          /\ \A i \in 1 .. Len(a) + Len(r) :
               /\ (a \o r)[i] = IF i <= Len(a) THEN a[i] ELSE r[i - Len(a)]
               /\ (b \o r)[i] = IF i <= Len(a) THEN b[i] ELSE r[i - Len(a)]
      <4>1. /\ Len(a \o r) = Len(a) + Len(r)
            /\ \A i \in 1 .. Len(a) + Len(r) :
                 (a \o r)[i] = IF i <= Len(a) THEN a[i] ELSE r[i - Len(a)]
        BY <2>4, <3>1, ConcatProperties
      <4>2. /\ Len(b \o r) = Len(b) + Len(r)
            /\ \A i \in 1 .. Len(b) + Len(r) :
                 (b \o r)[i] = IF i <= Len(b) THEN b[i] ELSE r[i - Len(b)]
        BY <2>4, <3>1, ConcatProperties
      <4>3. Len(a) = Len(b)
        BY <3>1
      <4> QED BY <4>1, <4>2, <4>3
    <3>5. Announced = a \o r /\ Announced' = b \o r
      BY <2>5, <2>6 DEF a, b
    <3>6. ASSUME NEW i \in 1 .. Len(a) + Len(r)
          PROVE  (a \o r)[i].kind = (b \o r)[i].kind /\ (a \o r)[i].about = (b \o r)[i].about
      <4>1. CASE i <= Len(a)
        <5>1. i \in 1 .. Len(a)
          BY <3>1, <3>2, <4>1
        <5> QED BY <3>3, <3>4, <4>1, <5>1
      <4>2. CASE ~(i <= Len(a))
        BY <3>4, <4>2
      <4> QED BY <4>1, <4>2
    <3> QED BY <3>4, <3>5, <3>6
  <2>8. ASSUME NEW last, ToldUpTo(Announced, last) PROVE ToldUpTo(Announced', last)
    BY <1>a, <2>7, <2>8, ToldAlike
  <2> QED BY <2>2, <2>8 DEF Reported
<1>5. CASE Finish
  <2>1. /\ Sent'[Len(Sent')].kind = TerminalEvent.kind /\ state' = state
        /\ producer = "running" /\ pc \notin Nodes /\ pending = <<>> /\ producer' = "done"
    BY <1>5, FinishSendsTheEnd DEF Finish
  <2> DEFINE event == Numbered(TerminalEvent, numbered + 1)
  <2>2. Sent' = Append(Sent, event) /\ event \in Tellable
    BY <1>5, FinishSends DEF Tellable
  <2>3. ~IsTold(event)
    <3>1. event.kind = TerminalEvent.kind /\ TerminalEvent.kind \in Terminal
      BY TerminalIsTyped DEF Numbered
    <3> QED BY <3>1 DEF IsTold, Terminal
  <2> HIDE DEF event
  <2>4. TerminalEvent.kind = "plan_completed" =>
          ToldUpTo(Sent, 2 * state.review_round - 1)
    <3>1. TerminalEvent.kind = "plan_completed" => pc = "end" /\ state.error = None
      BY <2>1, WhatTheEndSays
    <3>2. Announced = Sent
      BY <1>a, <2>1
    <3> QED BY <2>1, <3>1, <3>2 DEF Reported
  <2>5. TerminalEvent.kind = "plan_completed" =>
          ToldUpTo(Sent', 2 * state.review_round - 1)
    BY <1>a, <2>2, <2>3, <2>4, NotToldOf
  <2> QED BY <2>1, <2>5 DEF Reported
<1>6. CASE Receive \/ Leave \/ Close \/ StopProducer \/ Await \/ UNCHANGED streamVars
  <2>1. Sent' = Sent /\ pending' = pending /\ state' = state
    BY <1>6, ReceiveSends, OthersSendNothing
       DEF Receive, Leave, Close, StopProducer, Await, streamVars, vars
  <2>2. Announced' = Announced
    BY <2>1 DEF Announced
  <2>3. producer' # "done" =>
          \/ producer' = producer /\ pc' = pc
          \/ producer' = "cancelled"
    BY <1>6 DEF Receive, Leave, Close, StopProducer, Await, streamVars, vars
  <2>4. CASE producer' # "done"
    BY <2>1, <2>2, <2>3, <2>4 DEF Reported
  <2>5. CASE producer' = "done"
    <3>1. ~Finish
      BY <1>6, <2>1 DEF Finish, Receive, Leave, Close, StopProducer, Await, streamVars
    <3>2. producer # "done" => Unfinished
      BY <2>5, <3>1, DoneStaysAsItIs
    <3>3. Sent # <<>> => Len(Sent) \in 1 .. Len(Sent)
      BY InSent, EmptySeq
    <3>4. producer # "done" /\ Sent # <<>> => Sent[Len(Sent)].kind # "plan_completed"
      BY <3>2, <3>3 DEF Unfinished, Terminal
    <3> QED BY <2>1, <2>5, <3>4 DEF Reported
  <2> QED BY <2>4, <2>5
<1> QED
  BY <1>1, <1>2, <1>3, <1>4, <1>5, <1>6 DEF StreamNext

-----------------------------------------------------------------------------
(* The theorems.                                                            *)

LEMMA StreamStarts == StreamInit => StreamInv
<1> SUFFICES ASSUME StreamInit PROVE StreamInv
  OBVIOUS
<1>1. /\ TypeOK /\ streams = 0 /\ asked = trip /\ size \in QueueSizes /\ stage = "none"
      /\ producer = "none" /\ mapper = NothingSeen /\ pending = <<>> /\ queue = <<>>
      /\ numbered = 0 /\ received = <<>> /\ pc = "idle"
  BY InitIsTyped DEF StreamInit, Typed, Init
<1>2. NothingSeen \in Seen
  BY DEF NothingSeen, Seen, ReviewStatus
<1>3. size \in Nat /\ Len(queue) = 0 /\ Len(pending) = 0
  BY <1>1, PlanStreamAssumption, EmptySeq
<1>4. StreamTypeOK
  BY <1>1, <1>2, <1>3, PlanGraphAssumption, EmptySeq DEF StreamTypeOK, Stages, Producers, TypeOK
<1>5. Sent = <<>> /\ Len(Sent) = 0
  <2>1. EventsOf(queue) = <<>>
    BY <1>1 DEF EventsOf
  <2> QED BY <1>1, <2>1, ConcatEmptySeq, EmptySeq DEF Sent
<1>6. Paired /\ SentinelIsLast
  BY <1>1, <1>3 DEF Paired, SentinelIsLast, Nodes
<1>7. Delivered
  BY <1>1, <1>3, <1>5 DEF Delivered, NothingIsLost
<1>8. Followed /\ Reported /\ TerminalIsTheCheckpoint
  BY <1>1 DEF Followed, Reported, TerminalIsTheCheckpoint
<1> QED BY <1>4, <1>6, <1>7, <1>8 DEF StreamInv

LEMMA StreamKeeps ==
    ASSUME StreamInv, Typed, Paced, Typed', [StreamNext]_streamVars
    PROVE  StreamInv'
<1>1. /\ StreamTypeOK /\ Paired /\ SentinelIsLast /\ Delivered /\ Followed /\ Reported
      /\ TerminalIsTheCheckpoint /\ TypeOK'
  BY DEF StreamInv, Typed
<1>2. StreamTypeOK' /\ SentinelIsLast'
  BY <1>1, StreamKeepsTypes
<1>3. Paired' /\ Delivered' /\ Followed' /\ TerminalIsTheCheckpoint'
  BY <1>1, KeepsPaired, KeepsDelivered, KeepsFollowed, KeepsCheckpointed
<1>4. Reported'
  BY <1>1, <1>2, KeepsReported
<1> QED BY <1>2, <1>3, <1>4 DEF StreamInv

LEMMA AlwaysStreamInv == StreamSpec => []StreamInv
<1>1. StreamInit => StreamInv
  BY StreamStarts
<1>2. StreamInv /\ Typed /\ Paced /\ (Typed)' /\ [StreamNext]_streamVars => (StreamInv)'
  BY StreamKeeps
<1> QED
  BY <1>1, <1>2, StreamsRunTheGraph, AlwaysTyped, AlwaysPaced, PTL DEF StreamSpec

\* Every queue stays within its bound and holds events and a sentinel, what the
\* client got is events, and what the mapper sees has the channels' types.
THEOREM StreamTypeCorrect == StreamSpec => []StreamTypeOK
<1>1. StreamInv => StreamTypeOK
  BY DEF StreamInv
<1> QED BY <1>1, AlwaysStreamInv, PTL

\* The events a client gets are numbered 1, 2, 3, ... without gap, whatever the
\* size of the queue and whenever it is full (SSESequencer, queue.put).
THEOREM NothingSentIsLost == StreamSpec => []NothingIsLost
<1>1. StreamInv => NothingIsLost
  BY DEF StreamInv, Delivered
<1> QED BY <1>1, AlwaysStreamInv, PTL

\* A stream that ended by itself gave exactly one terminal event, its last.
THEOREM OneEndPerStream == StreamSpec => []OneTerminalEvent
<1>1. StreamInv => OneTerminalEvent
  BY DEF StreamInv, Delivered, OneTerminalEvent
<1> QED BY <1>1, AlwaysStreamInv, PTL

\* The terminal event tells what the thread's checkpoint holds, review, status
\* and reason included, or an error where no plan would be shown.
THEOREM TheEndIsTheCheckpoint == StreamSpec => []TerminalIsTheCheckpoint
<1>1. StreamInv => TerminalIsTheCheckpoint
  BY DEF StreamInv
<1> QED BY <1>1, AlwaysStreamInv, PTL

\* A client that gets a plan was told of each review round once, in order, and of
\* a revision after each but the last.
THEOREM AllReviewsAreTold == StreamSpec => []ReviewsAreTold
<1>1. ASSUME StreamInv, received # <<>>, received[Len(received)].kind = "plan_completed"
      PROVE  ToldUpTo(received, 2 * state.review_round - 1)
  <2>1. /\ Len(received) \in 1 .. Len(Sent) /\ Sent[Len(received)] = received[Len(received)]
        /\ Len(Sent) = Len(received) + Len(EventsOf(queue)) /\ Len(Sent) \in Nat
        /\ Len(received) \in Nat /\ Len(EventsOf(queue)) \in Nat
        /\ EventsOf(queue) \in Seq(StreamEvent) /\ (EventsOf(queue) = <<>> => Sent = received)
    <3>1. \A i \in 1 .. Len(received) : Sent[i] = received[i]
      BY <1>1, InSent DEF StreamInv
    <3>2. Len(received) \in 1 .. Len(received)
      BY <1>1, InSent, EmptySeq DEF StreamInv
    <3> QED BY <1>1, <3>1, <3>2, InSent DEF StreamInv
  <2>2. Len(received) = Len(Sent) /\ producer = "done"
    BY <1>1, <2>1 DEF StreamInv, Delivered, Terminal
  <2>3. EventsOf(queue) = <<>>
    <3>1. Len(EventsOf(queue)) = 0
      BY <2>1, <2>2
    <3> QED BY <2>1, <3>1, EmptySeq
  <2>4. Sent = received
    BY <2>1, <2>3
  <2> QED BY <1>1, <2>2, <2>4 DEF StreamInv, Reported
<1>2. StreamInv => ReviewsAreTold
  BY <1>1 DEF ReviewsAreTold
<1> QED BY <1>2, AlwaysStreamInv, PTL

\* When a stream has ended, neither its producer nor its graph runs on (_stop).
THEOREM NoRunOutlivesItsStream == StreamSpec => []NothingRunsOn
<1>1. StreamInv => NothingRunsOn
  BY DEF StreamInv, Paired, NothingRunsOn
<1> QED BY <1>1, AlwaysStreamInv, PTL

-----------------------------------------------------------------------------
(* A stream implements EventFeed.                                           *)

\* Only the first event of a connection announces its start.
Begun ==
    /\ \A i \in 1 .. Len(Sent) : i > 1 => Sent[i].kind # "run_started"
    /\ \A i \in 1 .. Len(pending) : pending[i].kind # "run_started"

LEMMA DraftsAreNews ==
    ASSUME NEW node, NEW s
    PROVE  \A i \in 1 .. Len(DraftsOf(node, s)) : DraftsOf(node, s)[i].kind # "run_started"
<1> DEFINE progress == EventDraft("progress", None)
           review == EventDraft("review_completed", [round |-> s.current_review.round])
           revision == EventDraft("revision_started", [round |-> s.current_review.round])
<1>1. \/ DraftsOf(node, s) = <<progress>>
      \/ DraftsOf(node, s) = <<progress, review>>
      \/ DraftsOf(node, s) = <<progress, review, revision>>
  BY DEF DraftsOf
<1>2. /\ progress.kind # "run_started" /\ review.kind # "run_started"
      /\ revision.kind # "run_started"
  BY DEF EventDraft
<1> HIDE DEF progress, review, revision
<1>3. CASE DraftsOf(node, s) = <<progress>>
  BY <1>2, <1>3
<1>4. CASE DraftsOf(node, s) = <<progress, review>>
  BY <1>2, <1>4
<1>5. CASE DraftsOf(node, s) = <<progress, review, revision>>
  BY <1>2, <1>5
<1> QED BY <1>1, <1>3, <1>4, <1>5

LEMMA KeepsBegun ==
    ASSUME StreamInv, Begun, [StreamNext]_streamVars
    PROVE  Begun'
<1>a. StreamTypeOK /\ SentinelIsLast /\ Paired /\ Delivered
  BY DEF StreamInv
<1>b. Sent \in Seq(StreamEvent) /\ Len(Sent) \in Nat
  BY <1>a, InSent
<1>c. ASSUME NEW event \in StreamEvent, event.kind # "run_started", Sent' = Append(Sent, event)
      PROVE  \A i \in 1 .. Len(Sent') : i > 1 => Sent'[i].kind # "run_started"
  <2>1. /\ Len(Sent') = Len(Sent) + 1 /\ Sent'[Len(Sent) + 1] = event
        /\ \A i \in 1 .. Len(Sent) : Sent'[i] = Sent[i]
    BY <1>b, <1>c, AppendProperties
  <2>2. ASSUME NEW i \in 1 .. Len(Sent') PROVE i \in 1 .. Len(Sent) \/ i = Len(Sent) + 1
    BY <1>b, <2>1
  <2> QED BY <1>c, <2>1, <2>2 DEF Begun
<1>1. ASSUME NEW t \in Trips, Open(t) PROVE Begun'
  <2>1. Len(Sent') = 1 /\ pending' = <<>>
    BY <1>1, OpenSends DEF Open
  <2> QED BY <2>1 DEF Begun
<1>2. CASE Put
  <2> DEFINE event == Numbered(Head(pending), numbered + 1)
  <2>1. Sent' = Append(Sent, event) /\ event \in StreamEvent
    BY <1>a, <1>2, PutSends
  <2>2. pending \in Seq(StreamEventDraft) /\ pending # <<>> /\ pending' = Tail(pending)
    BY <1>a, <1>2 DEF Put, StreamTypeOK
  <2>3. /\ Head(pending) = pending[1] /\ 1 \in 1 .. Len(pending)
        /\ Len(pending') = Len(pending) - 1 /\ Len(pending) \in Nat
        /\ \A i \in 1 .. Len(pending') : pending'[i] = pending[i + 1]
    BY <2>2, HeadTailProperties, LenProperties, EmptySeq
  <2>4. event.kind # "run_started"
    BY <2>3 DEF Begun, Numbered
  <2>5. \A i \in 1 .. Len(pending') : i + 1 \in 1 .. Len(pending)
    BY <2>3
  <2> HIDE DEF event
  <2> QED BY <1>c, <2>1, <2>3, <2>4, <2>5 DEF Begun
<1>3. CASE Finish
  <2> DEFINE event == Numbered(TerminalEvent, numbered + 1)
  <2>1. Sent' = Append(Sent, event) /\ event \in StreamEvent /\ pending' = pending
    BY <1>a, <1>3, FinishSends DEF Finish
  <2>2. event.kind # "run_started"
    <3>1. event.kind = TerminalEvent.kind /\ TerminalEvent.kind \in Terminal
      BY <1>a, TerminalIsTyped DEF Numbered
    <3> QED BY <3>1 DEF Terminal
  <2> HIDE DEF event
  <2> QED BY <1>c, <2>1, <2>2 DEF Begun
<1>4. CASE Receive
  <2>1. Sent' = Sent /\ pending' = pending
    BY <1>a, <1>4, ReceiveSends DEF Receive
  <2> QED BY <2>1 DEF Begun
<1>5. CASE Begin \/ Advance \/ StopProducer \/ Leave \/ Close \/ Await \/ UNCHANGED streamVars
  <2>1. Sent' = Sent
    BY <1>a, <1>5, OthersSendNothing
  <2>2. pending' = pending \/ \E node \in Nodes \union Stopped : pending' = DraftsOf(node, state')
    BY <1>a, <1>5 DEF Begin, Advance, StopProducer, Leave, Close, Await, streamVars,
                      StreamTypeOK, TypeOK
  <2> QED BY <2>1, <2>2, DraftsAreNews DEF Begun
<1> QED
  BY <1>1, <1>2, <1>3, <1>4, <1>5 DEF StreamNext

LEMMA AlwaysBegun == StreamSpec => []Begun
<1>1. StreamInit => Begun
  <2> SUFFICES ASSUME StreamInit PROVE Begun
    OBVIOUS
  <2>1. received = <<>> /\ queue = <<>> /\ pending = <<>>
    BY DEF StreamInit
  <2>2. Sent = <<>>
    BY <2>1, ConcatEmptySeq, EmptySeq DEF Sent, EventsOf
  <2> QED BY <2>1, <2>2 DEF Begun
<1>2. StreamInv /\ Begun /\ [StreamNext]_streamVars => Begun'
  BY KeepsBegun
<1> QED BY <1>1, <1>2, AlwaysStreamInv, PTL DEF StreamSpec

\* What the client has got is a beginning of what was sent.
Got ==
    /\ received \in Seq(StreamEvent)
    /\ \A i \in 1 .. Len(received) :
         /\ received[i].number = i
         /\ i > 1 => received[i].kind # "run_started"
         /\ received[i].kind = "plan_completed" => received[i].about.plan.draft.trip = asked
    /\ stage = "reading" => received # <<>> /\ received[Len(received)].kind \notin Terminal
    /\ stage \in {"closing", "closed"} => received[Len(received)].kind \in Terminal

LEMMA GotIsSent == StreamInv /\ Begun => Got
<1> SUFFICES ASSUME StreamInv, Begun PROVE Got
  OBVIOUS
<1>a. StreamTypeOK /\ SentinelIsLast /\ Paired /\ Delivered /\ TerminalIsTheCheckpoint
  BY DEF StreamInv
<1>1. /\ received \in Seq(StreamEvent) /\ Len(received) \in Nat /\ Len(Sent) \in Nat
      /\ Len(EventsOf(queue)) \in Nat /\ Len(Sent) = Len(received) + Len(EventsOf(queue))
      /\ \A i \in 1 .. Len(received) : Sent[i] = received[i]
  BY <1>a, InSent
<1>2. ASSUME NEW i \in 1 .. Len(received) PROVE i \in 1 .. Len(Sent)
  BY <1>1
<1>3. ASSUME NEW i \in 1 .. Len(received), received[i].kind = "plan_completed"
      PROVE  received[i].about.plan.draft.trip = asked
  <2>1. i = Len(Sent) /\ producer = "done" /\ Sent[i].kind = "plan_completed"
    BY <1>a, <1>1, <1>2, <1>3 DEF Delivered, Terminal
  <2>2. Sent # <<>>
    BY <1>2, EmptySeq
  <2> QED BY <1>a, <1>1, <2>1, <2>2 DEF TerminalIsTheCheckpoint
<1> QED BY <1>a, <1>1, <1>2, <1>3 DEF Got, Delivered, NothingIsLost, Begun, Paired

LogOf(events) == [i \in 1 .. Len(events) |-> Shows(events[i])]

LEMMA LogGrows ==
    ASSUME NEW s \in Seq(StreamEvent), NEW e \in StreamEvent
    PROVE  /\ LogOf(Append(s, e)) = Append(LogOf(s), Shows(e))
           /\ Len(LogOf(s)) = Len(s)
<1> DEFINE S == {Shows(x) : x \in StreamEvent}
<1> DEFINE more == Append(s, e)
<1>1. /\ Len(s) \in Nat /\ more \in Seq(StreamEvent) /\ Len(more) = Len(s) + 1
      /\ \A i \in 1 .. Len(s) : more[i] = s[i] /\ s[i] \in StreamEvent
      /\ more[Len(s) + 1] = e
  BY AppendProperties, LenProperties, ElementOfSeq
<1>2. \A t \in Seq(StreamEvent) :
        /\ LogOf(t) \in Seq(S) /\ Len(LogOf(t)) = Len(t)
        /\ \A i \in 1 .. Len(t) : LogOf(t)[i] = Shows(t[i])
  <2> SUFFICES ASSUME NEW t \in Seq(StreamEvent)
               PROVE  /\ LogOf(t) \in Seq(S) /\ Len(LogOf(t)) = Len(t)
                      /\ \A i \in 1 .. Len(t) : LogOf(t)[i] = Shows(t[i])
    OBVIOUS
  <2>1. Len(t) \in Nat /\ \A i \in 1 .. Len(t) : Shows(t[i]) \in S
    BY ElementOfSeq, LenProperties
  <2> HIDE DEF S
  <2>2. LogOf(t) \in [1 .. Len(t) -> S]
    BY <2>1 DEF LogOf
  <2> QED BY <2>1, <2>2, SeqDef DEF LogOf
<1> HIDE DEF S, more
<1>3. Shows(e) \in S /\ LogOf(s) \in Seq(S) /\ LogOf(more) \in Seq(S)
  BY <1>1, <1>2 DEF S
<1>4. /\ Append(LogOf(s), Shows(e)) \in Seq(S)
      /\ Len(Append(LogOf(s), Shows(e))) = Len(s) + 1
      /\ \A i \in 1 .. Len(s) : Append(LogOf(s), Shows(e))[i] = Shows(s[i])
      /\ Append(LogOf(s), Shows(e))[Len(s) + 1] = Shows(e)
  BY <1>2, <1>3, AppendProperties
<1>5. ASSUME NEW i \in 1 .. Len(s) + 1
      PROVE  LogOf(more)[i] = Append(LogOf(s), Shows(e))[i]
  <2>1. LogOf(more)[i] = Shows(more[i])
    BY <1>1, <1>2
  <2>2. i \in 1 .. Len(s) \/ i = Len(s) + 1
    BY <1>1
  <2> QED BY <1>1, <1>4, <2>1, <2>2
<1>6. LogOf(more) = Append(LogOf(s), Shows(e))
  BY <1>1, <1>2, <1>3, <1>4, <1>5, SeqEqual
<1> QED BY <1>2, <1>6 DEF more

\* Seen by its client, a connection starts with run_started, goes on without gap
\* and ends with a plan for the trip asked for or with an error, unless the client
\* leaves: the streams of a thread implement EventFeed (TravelPlanStream.stream).
THEOREM StreamsServeTheirClient == StreamSpec => ServesClient
<1>1. ASSUME StreamInit
      PROVE  Feed!Init
  <2>1. Connection = "none" /\ asked \in Trips
    BY <1>1 DEF StreamInit, Init, Connection
  <2>2. Log = <<>>
    <3>1. Len(received) = 0
      BY <1>1, EmptySeq DEF StreamInit
    <3>2. Log = [i \in {} |-> Shows(received[i])]
      BY <3>1 DEF Log
    <3> QED BY <3>2
  <2> QED BY <2>1, <2>2 DEF Feed!Init
<1>2. ASSUME StreamInv, Begun, Got, Got', [StreamNext]_streamVars
      PROVE  [Feed!Next]_<<Connection, asked, Log>>
  <2>a. StreamTypeOK /\ SentinelIsLast /\ Paired /\ Delivered
    BY <1>2 DEF StreamInv
  <2>1. ASSUME NEW t \in Trips, Open(t)
        PROVE  Feed!Open(t)
    <3>1. /\ stage \in {"none", "closed", "left"} /\ stage' = "reading" /\ asked' = t
          /\ received' = <<Numbered(EventDraft("run_started", None), 1)>>
      BY <2>1 DEF Open
    <3>2. Connection # "open" /\ Connection' = "open"
      BY <3>1 DEF Connection
    <3>3. Log' = <<Feed!Event(1, "run_started", None)>>
      <4> DEFINE first == Numbered(EventDraft("run_started", None), 1)
      <4>1. Shows(first) = Feed!Event(1, "run_started", None)
        BY DEF Shows, Numbered, EventDraft, Feed!Event
      <4> HIDE DEF first
      <4>2. received' = <<first>>
        BY <3>1 DEF first
      <4>3. Log' = [i \in 1 .. 1 |-> Shows(first)]
        BY <4>2 DEF Log
      <4> QED BY <4>1, <4>3
    <3> QED BY <3>1, <3>2, <3>3 DEF Feed!Open
  <2>2. CASE Receive
    <3> DEFINE e == Head(queue)
    <3>1. e \in StreamEvent /\ received' = Append(received, e)
      BY <2>2, <2>a, ReceiveSends
    <3>2. e.kind # "done"
      BY <3>1 DEF StreamEvent, EventKinds, Terminal
    <3>3. /\ stage = "reading" /\ asked' = asked
          /\ stage' = IF e.kind \in Terminal THEN "closing" ELSE "reading"
      BY <2>2, <3>2 DEF Receive
    <3> HIDE DEF e
    <3>4. received \in Seq(StreamEvent) /\ Len(received) \in Nat /\ Len(received) > 0
      BY <1>2, <3>3, LenProperties, EmptySeq DEF Got
    <3>5. /\ Len(received') = Len(received) + 1 /\ received'[Len(received) + 1] = e
          /\ Len(received) + 1 \in 1 .. Len(received')
      BY <3>1, <3>4, AppendProperties
    <3>6. /\ e.number = Len(received) + 1 /\ e.kind # "run_started"
          /\ e.kind = "plan_completed" => e.about.plan.draft.trip = asked
      BY <1>2, <3>3, <3>4, <3>5 DEF Got
    <3>7. Log' = Append(Log, Shows(e)) /\ Len(Log) = Len(received)
      BY <3>1, <3>4, LogGrows DEF Log, LogOf
    <3>8. Connection = "open"
      BY <3>3 DEF Connection
    <3>9. CASE e.kind \in Feed!News
      <4>1. Connection' = Connection
        BY <3>3, <3>8, <3>9 DEF Connection, Feed!News, Terminal
      <4>2. Shows(e) = Feed!Event(Len(Log) + 1, e.kind, None)
        BY <3>6, <3>7, <3>9 DEF Shows, Feed!Event, Feed!News
      <4>3. Feed!Yield(e.kind, None)
        BY <3>3, <3>7, <3>8, <4>2 DEF Feed!Yield
      <4>4. Feed!Tell
        BY <3>9, <4>1, <4>3 DEF Feed!Tell
      <4> QED BY <4>4 DEF Feed!Next
    <3>10. CASE e.kind = "plan_completed"
      <4>1. Connection' = "ended"
        BY <3>3, <3>10 DEF Connection, Terminal
      <4>2. Shows(e) = Feed!Event(Len(Log) + 1, "plan_completed", asked)
        BY <3>6, <3>7, <3>10 DEF Shows, Feed!Event
      <4>3. Feed!Complete
        BY <3>3, <3>7, <3>8, <4>1, <4>2 DEF Feed!Yield, Feed!Complete
      <4> QED BY <4>3 DEF Feed!Next
    <3>11. CASE e.kind = "error"
      <4>1. Connection' = "ended"
        BY <3>3, <3>11 DEF Connection, Terminal
      <4>2. Shows(e) = Feed!Event(Len(Log) + 1, "error", None)
        BY <3>6, <3>7, <3>11 DEF Shows, Feed!Event
      <4>3. Feed!Fail
        BY <3>3, <3>7, <3>8, <4>1, <4>2 DEF Feed!Yield, Feed!Fail
      <4> QED BY <4>3 DEF Feed!Next
    <3> QED
      BY <3>1, <3>6, <3>9, <3>10, <3>11 DEF StreamEvent, EventKinds, Terminal, Feed!News
  <2>3. CASE Leave
    <3>1. Connection = "open" /\ Connection' = "left" /\ asked' = asked
      BY <2>3 DEF Leave, Connection
    <3>2. Log' = Log
      BY <2>3 DEF Leave, Log
    <3> QED BY <3>1, <3>2 DEF Feed!Next, Feed!Leave
  <2>4. CASE Begin \/ Advance \/ Put \/ Finish \/ StopProducer \/ Close \/ Await
             \/ UNCHANGED streamVars
    <3>1. received' = received /\ asked' = asked
      BY <2>4 DEF Begin, Advance, Put, Finish, StopProducer, Close, Await, streamVars
    <3>2. \/ stage' = stage
          \/ stage = "abandoned" /\ stage' = "leaving"
          \/ stage = "closing" /\ stage' = "closed"
          \/ stage = "leaving" /\ stage' = "left"
      BY <2>4 DEF Begin, Advance, Put, Finish, StopProducer, Close, Await, streamVars
    <3>3. Connection' = Connection
      BY <3>2 DEF Connection
    <3>4. Log' = Log
      BY <3>1 DEF Log
    <3> QED BY <3>1, <3>3, <3>4
  <2> QED
    BY <1>2, <2>1, <2>2, <2>3, <2>4 DEF StreamNext, Feed!Next
<1>3. StreamInv /\ Begun => Got
  BY GotIsSent
<1> QED
  BY <1>1, <1>2, <1>3, AlwaysStreamInv, AlwaysBegun, PTL
     DEF StreamSpec, ServesClient, Feed!Spec

=============================================================================
