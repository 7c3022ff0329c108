------------------------------ MODULE PlanStream ------------------------------
(***************************************************************************)
(* One thread's plan streams (app/streaming): a producer task runs the     *)
(* planning graph and puts numbered events into a bounded queue, the       *)
(* connection's generator takes them out and yields them to the client,    *)
(* who may leave between any two steps.                                    *)
(*                                                                         *)
(* The graph is PlanGraph itself, one superstep per step of the producer.  *)
(* An action is what runs between two suspension points of the event loop. *)
(* A heartbeat is a comment without number that leaves everything as it    *)
(* is: asyncio.Queue.get hands an item over without suspending, so a       *)
(* timeout takes none with it.                                             *)
(***************************************************************************)
EXTENDS PlanGraph, Sequences

CONSTANT
    QueueSizes   \* values of settings.sse_queue_maxsize

VARIABLES
    streams,    \* connections so far
    asked,      \* the trip this connection's request is for
    size,       \* the queue's maxsize
    stage,      \* where the connection's generator is
    producer,   \* where its producer task is
    mapper,     \* the mapper: what the producer has seen of the run
    pending,    \* drafts of the newest chunks, not yet put
    queue,      \* events on their way, and the completion sentinel
    numbered,   \* the sequencer: the last number given
    received    \* the events the client got, in order

streamVars == <<vars, streams, asked, size, stage, producer, mapper, pending,
                queue, numbered, received>>

ASSUME PlanStreamAssumption == QueueSizes \subseteq Nat \ {0}

-----------------------------------------------------------------------------
(* State.                                                                   *)

\* none: no connection.  reading: in its loop.  abandoned: the client is gone,
\* the generator not yet closed.  closing, leaving: in its finally block, after
\* an end it read itself or after being closed.  closed, left: ended.
Stages == {"none", "reading", "abandoned", "closing", "leaving", "closed", "left"}
\* created: the task exists but has not run.  cancelled: cancel() was called.
Producers == {"none", "created", "running", "cancelled", "done"}

Terminal == {"plan_completed", "error"}
EventKinds == {"run_started", "progress", "review_completed", "revision_started"}
            \union Terminal
Done == [kind |-> "done"]    \* _PRODUCER_DONE

\* What an event tells: progress stands for the events of nodes, searches and
\* retrieval; about is the review's round, or the plan and how it was reviewed.
EventDraft(kind, about) == [kind |-> kind, about |-> about]
Numbered(draft, number) == [kind |-> draft.kind, about |-> draft.about, number |-> number]

\* The types of these values; status None: nothing observed yet.
ReviewStatus == {"pending", "accepted", "forced_finalized", "failed", None}
Seen == [error: Errors \union {None}, plan: Plan \union {None},
         review: Review \union {None}, status: ReviewStatus,
         reason: Reasons \union {None}]
About == {None} \union [round: Nat]
            \union [plan: Plan, status: ReviewStatus, review: Review \union {None},
                    reason: Reasons \union {None}]
StreamEventDraft == [kind: EventKinds, about: About]
StreamEvent == [kind: EventKinds, about: About, number: Nat]

NothingSeen == [error |-> None, plan |-> None, review |-> None, status |-> None,
                reason |-> None]

StreamInit ==
    /\ Init
    /\ size \in QueueSizes
    /\ streams = 0
    /\ asked = trip
    /\ stage = "none"
    /\ producer = "none"
    /\ mapper = NothingSeen
    /\ pending = <<>>
    /\ queue = <<>>
    /\ numbered = 0
    /\ received = <<>>

-----------------------------------------------------------------------------
(* Mapping.                                                                 *)

\* Mutant of Observed: a plan hides the error the run ended with.
ObservedPlanFirst(seen, s) ==
    [error |-> IF s.travel_plan = None THEN s.error ELSE None,
     plan |-> IF s.travel_plan = None THEN seen.plan ELSE s.travel_plan,
     review |-> IF s.current_review = None THEN seen.review ELSE s.current_review,
     status |-> s.review_status,
     reason |-> IF s.finalization_reason = None THEN seen.reason ELSE s.finalization_reason]

\* _observe_common_update: a key an update lacks leaves its channel alone, so
\* observing the channels is observing the updates.  A review, reason or plan
\* that becomes None keeps its last value.
Observed(seen, s) ==
    [error |-> s.error,
     plan |-> IF s.travel_plan = None THEN seen.plan ELSE s.travel_plan,
     review |-> IF s.current_review = None THEN seen.review ELSE s.current_review,
     status |-> s.review_status,
     reason |-> IF s.finalization_reason = None THEN seen.reason ELSE s.finalization_reason]

\* Mutant of DraftsOf: the review is announced from the review seen last.
DraftsOfSeen(node, s) ==
    LET progress == EventDraft("progress", None)
        review == EventDraft("review_completed", [round |-> mapper.review.round])
        revision == EventDraft("revision_started", [round |-> mapper.review.round])
    IN  IF node # "reviewer" \/ mapper.review = None THEN <<progress>>
        ELSE IF s.current_review = None \/ s.current_review.decision # "revise"
             THEN <<progress, review>>
             ELSE <<progress, review, revision>>

\* The events of one superstep; a failed review announces nothing.
DraftsOf(node, s) ==
    LET progress == EventDraft("progress", None)
        review == EventDraft("review_completed", [round |-> s.current_review.round])
        revision == EventDraft("revision_started", [round |-> s.current_review.round])
    IN  IF node # "reviewer" \/ s.current_review = None THEN <<progress>>
        ELSE IF s.current_review.decision # "revise" THEN <<progress, review>>
             ELSE <<progress, review, revision>>

\* The terminal event of a run: without plan and error the checkpoint is read
\* once more, and a plan for another request is no plan.
TerminalEvent ==
    LET seen == IF mapper.plan = None /\ mapper.error = None
                THEN Observed(mapper, state) ELSE mapper
    IN  IF \/ pc # "end"
           \/ seen.error # None
           \/ seen.plan = None
           \/ seen.plan.draft.trip # asked
        THEN EventDraft("error", None)
        ELSE EventDraft("plan_completed",
                   [plan |-> seen.plan, status |-> seen.status, review |-> seen.review,
                    reason |-> seen.reason])

-----------------------------------------------------------------------------
(* The connection opens: the task is created and run_started yielded before *)
(* the task first runs.                                                     *)

Open(t) ==
    /\ stage \in {"none", "closed", "left"}
    /\ streams < MaxRuns
    /\ streams' = streams + 1
    /\ asked' = t
    /\ stage' = "reading"
    /\ producer' = "created"
    /\ mapper' = NothingSeen
    /\ pending' = <<>>
    /\ queue' = <<>>
    /\ numbered' = 1
    /\ received' = <<Numbered(EventDraft("run_started", None), 1)>>
    /\ UNCHANGED <<vars, size>>

-----------------------------------------------------------------------------
(* The producer.                                                            *)

\* astream writes the initial state.
Begin ==
    /\ producer = "created"
    /\ StartRun(asked)
    /\ producer' = "running"
    /\ UNCHANGED <<streams, asked, size, stage, mapper, pending, queue, numbered, received>>

\* One superstep, or the exception that ends the run.
Advance ==
    /\ producer = "running"
    /\ pending = <<>>
    /\ RunStep
    /\ IF pc' \in {"raised", "exhausted"}
       THEN UNCHANGED <<mapper, pending>>
       ELSE /\ mapper' = Observed(mapper, state')
            /\ pending' = DraftsOf(pc, state')
    /\ UNCHANGED <<streams, asked, size, stage, producer, queue, numbered, received>>

\* Mutant of Put: a full queue drops the event.
PutDropping ==
    /\ producer = "running"
    /\ pending # <<>>
    /\ numbered' = numbered + 1
    /\ queue' = IF Len(queue) < size
                THEN Append(queue, Numbered(Head(pending), numbered + 1)) ELSE queue
    /\ pending' = Tail(pending)
    /\ UNCHANGED <<vars, streams, asked, size, stage, producer, mapper, received>>

\* queue.put waits for room.
Put ==
    /\ producer = "running"
    /\ pending # <<>>
    /\ Len(queue) < size
    /\ numbered' = numbered + 1
    /\ queue' = Append(queue, Numbered(Head(pending), numbered + 1))
    /\ pending' = Tail(pending)
    /\ UNCHANGED <<vars, streams, asked, size, stage, producer, mapper, received>>

\* put_nowait of the sentinel, QueueFull suppressed.
WithSentinel(items) == IF Len(items) < size THEN Append(items, Done) ELSE items

\* Mutant of Finish: the terminal event does not wait for room.
FinishNoWait ==
    /\ producer = "running"
    /\ pending = <<>>
    /\ pc \notin Nodes
    /\ numbered' = numbered + 1
    /\ queue' = WithSentinel(IF Len(queue) < size
                             THEN Append(queue, Numbered(TerminalEvent, numbered + 1)) ELSE queue)
    /\ producer' = "done"
    /\ UNCHANGED <<vars, streams, asked, size, stage, mapper, pending, received>>

\* The run is over: its terminal event, waiting for room, and the sentinel.
Finish ==
    /\ producer = "running"
    /\ pending = <<>>
    /\ pc \notin Nodes
    /\ Len(queue) < size
    /\ numbered' = numbered + 1
    /\ queue' = WithSentinel(Append(queue, Numbered(TerminalEvent, numbered + 1)))
    /\ producer' = "done"
    /\ UNCHANGED <<vars, streams, asked, size, stage, mapper, pending, received>>

\* CancelledError at the producer's suspension point: aclosing stops the graph.
\* A task cancelled before it ran starts no graph and puts no sentinel.
StopProducer ==
    /\ producer = "cancelled"
    /\ producer' = "done"
    /\ pc' = IF pc \in Nodes THEN "raised" ELSE pc
    /\ queue' = WithSentinel(queue)
    /\ UNCHANGED <<settings, run, trip, steps, drafted, state, streams, asked, size,
                   stage, mapper, pending, numbered, received>>

-----------------------------------------------------------------------------
(* The connection's generator and its client.                               *)

\* Mutant of Receive: only the sentinel ends the loop.
ReceiveToSentinel ==
    /\ stage = "reading"
    /\ queue # <<>>
    /\ queue' = Tail(queue)
    /\ received' = IF Head(queue) = Done THEN received ELSE Append(received, Head(queue))
    /\ stage' = IF Head(queue) = Done THEN "closing" ELSE "reading"
    /\ UNCHANGED <<vars, streams, asked, size, producer, mapper, pending, numbered>>

\* An item is taken and yielded; a terminal event, or the sentinel, ends the loop.
Receive ==
    /\ stage = "reading"
    /\ queue # <<>>
    /\ queue' = Tail(queue)
    /\ received' = IF Head(queue) = Done THEN received ELSE Append(received, Head(queue))
    /\ stage' = IF Head(queue).kind \in Terminal \union {"done"} THEN "closing" ELSE "reading"
    /\ UNCHANGED <<vars, streams, asked, size, producer, mapper, pending, numbered>>

\* The client disconnects, or the route's task is cancelled: the confirmation
\* route closes the generator with aclosing, the plan route leaves it to the
\* event loop's hook for dropped generators.
Leave ==
    /\ stage = "reading"
    /\ stage' = "abandoned"
    /\ UNCHANGED <<vars, streams, asked, size, producer, mapper, pending, queue,
                   numbered, received>>

\* The generator's finally block cancels a producer that still runs.
Close ==
    /\ stage = "abandoned"
    /\ stage' = "leaving"
    /\ producer' = CASE producer = "created" -> "done"
                     [] producer = "running" -> "cancelled"
                     [] OTHER -> producer
    /\ UNCHANGED <<vars, streams, asked, size, mapper, pending, queue, numbered, received>>

\* Mutant of Await: the generator ends without waiting for its producer.
AwaitNothing ==
    /\ stage \in {"closing", "leaving"}
    /\ stage' = IF stage = "closing" THEN "closed" ELSE "left"
    /\ UNCHANGED <<vars, streams, asked, size, producer, mapper, pending, queue,
                   numbered, received>>

\* It then waits for the producer and ends.
Await ==
    /\ stage \in {"closing", "leaving"}
    /\ producer = "done"
    /\ stage' = IF stage = "closing" THEN "closed" ELSE "left"
    /\ UNCHANGED <<vars, streams, asked, size, producer, mapper, pending, queue,
                   numbered, received>>

StreamNext ==
    \/ \E t \in Trips : Open(t)
    \/ Begin \/ Advance \/ Put \/ Finish \/ StopProducer
    \/ Receive \/ Leave \/ Close \/ Await

StreamSpec == StreamInit /\ [][StreamNext]_streamVars

\* The event loop runs every ready task, a connected client reads on, and a node
\* ends: each external call it makes has a timeout.
StreamFairness ==
    /\ WF_streamVars(Begin) /\ WF_streamVars(Advance) /\ WF_streamVars(Put) /\ WF_streamVars(Finish)
    /\ WF_streamVars(StopProducer)
    /\ WF_streamVars(Receive) /\ WF_streamVars(Close) /\ WF_streamVars(Await)

FairStreamSpec == StreamSpec /\ StreamFairness

-----------------------------------------------------------------------------
(* Properties.                                                              *)

\* Everything numbered on its way to the client, got or queued: the sentinel,
\* which is not an event, can only be the queue's last item.
EventsOf(items) ==
    IF items # <<>> /\ items[Len(items)] = Done
    THEN SubSeq(items, 1, Len(items) - 1) ELSE items
Sent == received \o EventsOf(queue)

StreamTypeOK ==
    /\ TypeOK
    /\ streams \in 0 .. MaxRuns
    /\ asked \in Trips
    /\ size \in QueueSizes
    /\ stage \in Stages
    /\ producer \in Producers
    /\ mapper \in Seen
    /\ pending \in Seq(StreamEventDraft)
    /\ queue \in Seq(StreamEvent \union {Done})
    /\ Len(queue) <= size
    /\ numbered \in Nat
    /\ received \in Seq(StreamEvent)

\* docs/19: the events a client gets are numbered 1, 2, 3, ... without gap: a
\* full queue delays the producer and drops, repeats or reorders nothing.
NothingIsLost ==
    \A i \in 1 .. Len(Sent) : Sent[i].number = i

\* docs/19: a stream that ended by itself gave exactly one terminal event, its
\* last one, although the sentinel may be lost; nothing follows a terminal event.
OneTerminalEvent ==
    /\ \A i \in 1 .. Len(Sent) : Sent[i].kind \in Terminal => i = Len(Sent)
    /\ stage \in {"closing", "closed"} => received[Len(received)].kind \in Terminal
    /\ stage = "reading" => received[Len(received)].kind \notin Terminal

\* What the terminal event says is what the thread's checkpoint says: a plan
\* that GET would show, with the review, status and reason stored beside it, or
\* an error and no plan to show - sticky mapper fields never outlive their round.
TerminalIsTheCheckpoint ==
    producer = "done" /\ Sent # <<>> =>
        LET last == Sent[Len(Sent)] IN
        /\ last.kind = "plan_completed" =>
             /\ last.about.plan = StateAnswer
             /\ last.about.plan.draft.trip = asked
             /\ last.about.status = state.review_status
             /\ last.about.review = state.current_review
             /\ last.about.reason = state.finalization_reason
        /\ last.kind = "error" => StateAnswer = None

\* The events about reviews, and where in the course of the rounds one belongs.
IsTold(e) == e.kind \in {"review_completed", "revision_started"}
Place(e) == IF e.kind = "review_completed" THEN 2 * e.about.round - 1
            ELSE 2 * e.about.round

\* The events about reviews are at the places 1 to last, each once and in order.
ToldUpTo(events, last) ==
    /\ \A i \in DOMAIN events : IsTold(events[i]) => Place(events[i]) \in 1 .. last
    /\ \A i, j \in DOMAIN events :
         i < j /\ IsTold(events[i]) /\ IsTold(events[j]) => Place(events[i]) < Place(events[j])
    /\ \A n \in 1 .. last : \E i \in DOMAIN events : IsTold(events[i]) /\ Place(events[i]) = n

\* A client that gets a plan was told of every review that led to it: each round
\* once, in order, and a revision after each but the last.
ReviewsAreTold ==
    received # <<>> /\ received[Len(received)].kind = "plan_completed" =>
        ToldUpTo(received, 2 * state.review_round - 1)

\* docs/19: when a stream has ended neither its producer nor its graph runs on,
\* so the next stream on the thread never meets an older run.
NothingRunsOn ==
    stage \in {"none", "closed", "left"} =>
        producer \in {"none", "done"} /\ pc \notin Nodes

\* What the client sees of a connection and of its events.
Connection == CASE stage = "none" -> "none"
                [] stage = "reading" -> "open"
                [] stage \in {"closing", "closed"} -> "ended"
                [] OTHER -> "left"
Shows(e) == [number |-> e.number, kind |-> e.kind,
             plan |-> IF e.kind = "plan_completed" THEN e.about.plan.draft.trip ELSE None]
Log == [i \in 1 .. Len(received) |-> Shows(received[i])]

Feed == INSTANCE EventFeed WITH phase <- Connection, wanted <- asked, log <- Log

\* docs/19: seen by the client, each connection is the plain sequence EventFeed
\* describes, whatever producer, queue, mapper and earlier streams do.
ServesClient == Feed!Spec

\* docs/19: every connection ends, by its terminal event or by the client's
\* leaving, and never on a queue nobody reads or nobody fills.
StreamsEnd == stage = "reading" ~> stage \in {"closed", "left"}
=============================================================================
