# A verification project for the travel planning agent

TLA+ models of the service in `src/app` and of its page in `src/frontend`: what a
confirmed trip, a planning run, an event stream, a search, a retrieval or a click may
do when requests overlap, deployments race, clients leave, stores fail and processes
restart. TLC checks the models on small instances; TLAPS proves the main
safety results for every value of the constants. `PROJECT.json` ties every
definition to the lines it models and lists runs, mutants, findings, hazards and
theorems.

## The system

A user describes a trip in a conversation; the *intake* turns it into a draft. An
explicit confirmation, naming the draft by fingerprint, starts the *planning graph*
on the conversation's thread: remembered preferences, retrieval, five parallel
searches, then a bounded loop of Planner and Reviewer. The result is the thread's
newest checkpoint; a *stream* tells the client about the run as it goes.

| Component | State it keeps | Operations | What is hard | What makes it correct |
|---|---|---|---|---|
| Conversational intake (`app/intake`, `routes/conversation.py`) | one record per user and thread in a PostgreSQL store: status, draft, fingerprint, version | message, new trip, reset, confirm, confirm/stream, and the two endings of a confirmation | no compare-and-swap: every handler is load, await, save; cancellation at any await; rollback after the client left; restarts | a planned trip has a plan; a run is consented to; a planning status is resolved; a mutation is not lost |
| Persistent planning API (`routes/persistence.py`) | none of its own; thread checkpoints, user preferences | plan, plan/stream, state, history, preferences | three readers of one outcome; a thread shared with the intake | all three agree |
| Planning graph (`app/graphs`) | `TravelPlanState`: some twenty channels per thread, four of them merged by reducers | ten nodes, three conditional edges | channels survive runs; runs end anywhere; a recursion limit beside a round limit | a plan owes nothing to earlier runs; it was reviewed; every run ends in a plan or an error |
| Quality review (`app/review`) | round, policy, history in the channels | review, decide, present | round counting; failure after a draft exists | rounds bounded; quality never claimed without review |
| Parallel search (`app/search`, `search_worker.py`) | tasks, results, errors in the channels | dispatch, work, merge, aggregate | partial failure; merging across runs | only this run's results are used |
| SSE streaming (`app/streaming`) | per connection: bounded queue, sequence number, mapper | produce, map, deliver, close | a slow or leaving client; a producer to cancel; a lost sentinel | ordered, complete, one terminal event, nothing left running |
| LLM integration (`app/llm`) | none per request | plan, review, extract, with retries and grounding | which failures are retried, repaired or replaced by rules | an ungrounded choice is never planned |
| Preference memory (`app/memory`) | user preferences in the store | upsert, list, delete | read-then-write without lock; a list that is cut | a run sees what it was asked to remember |
| RAG retrieval (`app/rag`) | Redis cache, Redis parents with a local fallback, Chroma, BM25 | retrieve | degraded components, stale cache, deployments during a call | what an answer leaves out has a cause |
| RAG indexing, bootstrap (`app/rag/indexer.py`, `app/deployment`) | Chroma, Redis, manifest | index, bootstrap, verify | three stores, crashes, overlapping deployments, a script without the lock | a started application serves its whole index |
| MCP tool layer (`app/mcp_tools`) | registry, diagnostics, cooldown | discover, refresh, probe, invoke | refresh against probe; retries; fallback | ready only with the tools discovered |
| External providers (`app/external`) | HTTP clients | search flights, hotels, places | retry budgets, partial results | a provider's data is never mixed with another's |
| Authentication, rate limits (`app/auth`) | key cache, Redis counters | verify, admit | several windows in one admission; rotation of keys | no window is exceeded; key downloads are paced |
| Lifespan, resources (`app/core`, `app/infrastructure`) | clients and runtimes | start, stop | one step of several fails | everything opened is closed |
| Frontend (`frontend/src`) | reducer state, one active stream, one active request | load, send, reset, plan, stop | late answers, resynchronisation | the page never shows a plan of another trip |
| Planning service, mock providers (`app/services`) | none | assemble a plan | numeric edges of dates and budgets | days and costs add up |
| Domain, schemas, observability, diagnostics routes, scripts | settings, metrics | validation, projections | - | - |

Calls and shared state: the conversation routes call the intake service and then
`execute_thread_plan` or `TravelPlanStream`; both run the same compiled graph, whose
checkpoints are keyed by thread, so the intake's `planned` status, `POST /plans`,
both streams and `GET state` all meet in one line of checkpoints. The stream's
producer and its generator share a queue. `Intake` and `PlanStream` meet at one
point: the terminal event that makes the confirmation route call `mark_planned`.
Deployed containers and the index script share Chroma and Redis; the applications that
load the index also share the answer cache in Redis. The key cache and the resources
live and end with one process. The page knows the service only by its routes.

## Modules

| Module | Models | Lines of the code |
|---|---|---|
| `Intake` | the intake record and every mutating route, cut at its awaits | `intake/*.py`, `routes/conversation.py`, `routes/persistence.py` |
| `TripLifecycle` | the abstract promise of a conversation to a caller that serialises its mutations; `Intake` implements it | |
| `IntakeProofs` | theorems about `Intake`, the refinement among them | |
| `PlanGraph` | the supersteps of the runs on one thread and the channels between them | `graphs/`, `review/`, `search/`, parts of `llm/` |
| `ThreadPlan` | the abstract promise of a thread; `PlanGraph` implements it | |
| `PlanGraphProofs` | theorems about `PlanGraph`, the refinement among them | |
| `PlanStream` | one thread's streams, composing `PlanGraph` with the producer, the queue and the client | `streaming/`, `routes/persistence.py` |
| `EventFeed` | the abstract promise of a stream to its client; `PlanStream` implements it | |
| `PlanStreamProofs` | theorems about `PlanStream` on top of `PlanGraphProofs`, the refinement among them | |
| `McpRuntime` | discovery of the tools, its lock and cooldown, the readiness probe and its callers' deadlines | `mcp_tools/client.py`, `registry.py`, `routes/readiness.py` |
| `McpRuntimeProofs` | theorems about `McpRuntime` | |
| `SearchCall` | one search from the worker over the tool call to the providers' HTTP requests | `search_worker.py`, `mcp_tools/`, `external/` |
| `SearchCallProofs` | theorems about `SearchCall` | |
| `Deployment` | bootstraps under the advisory lock, the index script without it, and the applications that load the index | `deployment/`, `rag/indexer.py`, `rag/runtime.py`, `scripts/index_advanced_knowledge.py` |
| `Retrieval` | a retrieval call in each container, composed with `Deployment` | `rag/advanced_retriever.py` and the stores it calls |
| `KnowledgeProofs` | theorems about `Deployment`, about `Retrieval` on top of them, and about `Preferences` | |
| `Lifespan` | the resources a process opens and closes | `core/lifespan.py`, `core/resources.py`, `core/persistence.py` |
| `Admission` | the verifier's key cache and the request windows, in the process of `Lifespan` | `auth/` |
| `AdmissionProofs` | theorems about `Lifespan` and `Admission` | |
| `Browser` | the page: reducer, requests, planning stream and clicks | `frontend/src` |
| `BrowserProofs` | theorems about `Browser` | |
| `Preferences` | the memory node of several runs of one user beside deletions | `memory/`, `routes/persistence.py` |
| `MCIntake`, `MCPlanGraph`, `MCPlanStream`, `MCMcpRuntime`, `MCKnowledge`, `MCPeers` | small instances | |

**Intake.** `stored` is the record, `call[r]` the handler of request `r`: which
operation, at which await (`pc`), what it holds (`rec` is the record it loaded and
later the one it will save). An action is what the event loop runs between two
awaits. `Turn` is one accepted message, `BeginLoad`/`BeginSave` are
`begin_confirmation`, `PlannedLoad`/`PlannedSave` `mark_planned`,
`UndoLoad`/`UndoSave` `mark_confirmation_failed` inside `_restore_retryable`.
`Cancel` cancels the handler at its current await and follows the except clause the
code has there; `CancelUndo` is the shielded rollback with its repeated `finally`.
`StoreError` is a store call that raises, before or after it took effect. A draft is
an element of a small set and stands for its fingerprint; which drafts are complete
and carry a nationality is what the properties tell apart. The graph is only its
outcome here (`GraphSucceeds`, `GraphFails`, and `Superstep`, which writes the
checkpoints without plan in between). `TripLifecycle` is what remains of all this for a
caller that serialises its mutations: single changes of a trip, each one version on.
`Seen` hides the record from other callers, to whom no order is promised.

**PlanGraph.** `state` has the channels of `TravelPlanState` that control the run or
reach an answer. One action per node and per way it ends; the conditional edges are
in the action that precedes them. `StartRun` passes the initial state through the
reducers, so the four merged channels keep their old value: this is what makes stale
data possible, and `SearchReset` and `InitializeReviewCycle` (the `Overwrite`
updates) are what the code does about it. Results, reviews and policies carry the
number of the run that made them, which the code does not; no guard reads it, except
that it stands for the canonical order of the reducers when two entries share their
identity. The score of a review is a nondeterministic verdict. `Interrupt` ends the
run anywhere, `OutOfSteps` is the recursion limit; the limit is counted in node
supersteps, and whether LangGraph allows exactly the configured number or one less is
left to `Budgets`.

**PlanStream.** EXTENDS `PlanGraph` and adds the connection's variables: the producer's
`Advance` is one superstep of the graph, followed by the puts of its events, and
every suspension point is an action boundary. `Close` is the generator's `finally`,
`StopProducer` the cancellation arriving at the producer. Events of nodes, searches
and retrieval are one kind, `progress`, one per superstep: the properties are about
the events whose order and content carry meaning. `received` is everything the
client got; it grows with the stream and is bounded by the length of a run. `EventFeed`
is what is left when producer, queue and mapper are forgotten: a connection that opens,
tells, and ends with a plan for the trip it was opened for, with an error, or by the
client's leaving. `Connection` and `Log` map the one to the other.

**McpRuntime.** `call[c]` is one caller of `is_ready` (a plan request, a stream, the
readiness route), cut at its awaits: the TCP probe, the refresh lock, the answers of the
two servers. `registry`, `diagnostics` and the time of the next refresh are shared by
all callers; `Install` is the code after the `gather`, which runs in one piece. `GiveUp`
is the deadline of those callers that have one: it cancels whatever the call is doing,
the discovery included. Both server processes start, stop and hang as they like, and the
travel server may list a tool of the other. Time passes in ticks and is counted only as
far as the cooldown.

**SearchCall.** `conf` is what the settings of the two processes make of the search:
application (`mine`) and travel server (`theirs`) read them separately, so over MCP
every combination is a state the system can be in. `app` is the worker with the
invoker, `jobs[n]` what the server does for attempt `n`, `sent` a history of the HTTP
requests. Only the server's side knows the vendors; in process there is one attempt
and no invoker. When a deadline passes the next attempt starts and the old one may go
on, or be dropped. Deadlines may pass at any moment: httpx limits each phase of a
request rather than the request, so the arithmetic of `_tool_timeout` is no guarantee
and is not relied on. A response that is not decoded or belongs to another request is
`ReceiveGarbled`, whatever field is wrong. `Answer` says beside the source claimed
which source made the rows (`made`), which the code does not know: the properties
compare the two. Rows of several sources in one result cannot arise and are left out,
and weather, attractions and routes have one server-side shape. `Break` is an exception
that no vendor client translates, a body that cannot be decoded or the checkout after
`date.max`: it passes retries and fallback, and `Settled` makes of it what the worker
does, a recoverable `provider_error`; over MCP the server's envelope has hidden it.

**Deployment.** One index is spread over `chroma` (children), `redis` (parents) and
three files per machine (`disk`). Identifiers hash their content, so a set of them *is*
an index. `job[p]` is a container's bootstrap or the script, at one access to a store
per action; `job[c].image` is the build the container was made from, and images differ
in their knowledge files. `ReadExisting` takes the decision that matters: a collection
that holds a child of another corpus is refused, one that lacks some is completed.
`Break` is an exception, a deadline or the end of the process: the lock goes with the
connection, files may be torn, and a batch handed to a thread may still arrive later
(`LateBatch`). The script takes no lock and deletes what it believes stale.
`seen`, `deleted` and `disturbed` are histories that only properties read.

**Retrieval.** EXTENDS `Deployment`; `call[c]` is one question asked in container `c`,
cut at its awaits, `cache` the entries in Redis by release, `direct` the parent store's
memory that Redis once failed. A call ends with its process (`DeploymentStep`). Scores
are an arbitrary order of candidates, so `Rerank` keeps any subset of the right size.
An answer records what the code records of it: parents, degraded parts, the count of
missing parents and whether it is from the cache. The limit it was cut to is recorded
nowhere; `limit` keeps it as history beside the entry and the call, for the properties
only.

**Lifespan and Admission.** `OpenOrder` and `CloseList` are the orders in which
`lifespan`, `create_app_resources`, the persistence context and their handlers open and
close; a start may fail after any of them. `Admission` adds the requests: `Key` is the
verifier's look into its cache, `Refreshed` the download under the lock with the checks
that are repeated inside it, `CancelKey` the end of a request that waits or downloads,
which leaves nothing behind but the released lock, `Admit` the Lua script, which checks
all buckets before it counts in any, and `Expire` Redis dropping a bucket whose window
is over. A script may run late, after its request's window: `late` marks it, and the
window property speaks of those that were not. A request whose script ran but whose
answer was lost is `uncertain`: it is refused, and counts.

**Browser.** One action per click that `App.tsx` allows in the present phase, one per
answer delivered with everything that runs before the next await. The reducer's actions
are operators of the same name (`CONVERSATION_RECEIVED`, `STREAM_EVENT`, ...). `active`
is the request that is listened to; older ones still arrive and are dropped by `Settle`.
`pending` has the clicks that wait for the stream to end: as many as the user makes,
since neither a switch nor a reset disables the next one. `EndStream` runs their
continuations in one turn, as the microtasks do: every reset posts for the thread of its
own render, and the last switch decides what is shown. `server` and `run` are the
conversations as the page can see them; a run that lost its reader is rolled back some
time later, and a reset is accepted while a run goes on, which then finds a fingerprint
that is no longer its own. A conversation or a plan in `ui` names the thread it belongs
to, which the page's own state does not do reliably: the property compares the two.

**Preferences.** `Remember`, `UpsertOne` and `ListMemories` are the memory node's
accesses to the store, `Look` and `Delete` the two of the DELETE route. A preference is
its normalised form; `crowded` says that a list was cut at `ListLimit`.

## Runs

| Run | Instance | Question |
|---|---|---|
| `intake_overlap` | two requests, four drafts, versions up to 3, every environment event | what holds whatever happens |
| `intake_fair` | overlapping calls without faults; and serialised callers with store errors and restarts, versions up to 5 | is every planning status resolved; what docs/22's discipline buys, up to `TripLifecycle` |
| `long_preference`, `cancel_begin`, `late_rollback` | one environment event each | findings 1 to 3 |
| `plan_graph` | two runs, two trips, two critical and one optional search, 1 or 3 rounds, limits 11 and 14 | are runs independent, honest, bounded |
| `plan_stream` | two streams, one critical search, 2 rounds, limits 10 and 12, a queue of 2 | is the stream complete, ordered, and over; does its client see an `EventFeed` |
| `mcp_runtime` | two askers, with a deadline or without, two servers, a cooldown of one tick | is a ready answer true, is discovery paced and alone, does readiness return |
| `knowledge` | two containers, one of them of an image that adds a section to the other image, batches of one, four beginnings | what a served index and an answer may lack, and what a refusal means |
| `peers` | six parts, one per behaviour (see below) | are resources released, is the issuer spared, do windows hold; does the page show its own thread and leave planning; whose data is a search's result, how often is a vendor asked, does it end; is a remembered preference listed |
| `page_abort` | the same as `peers` | finding 4 |
| `cached_limit` | the same as `knowledge` | finding 5 |

`MCPeers` puts four modules that share no state into one run. `part` selects what a
behaviour explores: the process alone, the key cache (three requests of two users, keys
before and after a rotation, a pause of 1 and a lifetime of 2 in 3 ticks), the windows
(the same requests, limits of 1 and 2, two minutes, two days), the page (two threads,
three clicks), one search (every configuration of the two processes, two attempts in
demo mode, one retry per vendor), or the memory (two runs that remember up to two of
three preferences each, one deletion, lists cut at 2). The conjuncts of `MCInit` that
order requests drop initial states that differ from another one by a renaming only.

Bounds and why they are enough. Two requests are enough to overlap a load and a
save, and a third would add nothing a pair does not show, since a handler's only
memory is the one record it loaded; `Symmetry` over requests is used only in the run
without liveness. Four drafts are the combinations of complete or not and with
nationality or not. `MaxVersion` stops *starting* mutations at that version: 3 lets a
draft be completed, confirmed and planned beside another mutation; serial callers
need 5 to go once around through a reset. Two runs on a thread are one that leaves
something behind and one that could find it; of the limits 14 is just
enough for three rounds and 11 ends such a run before its third draft or before
`finalize_plan`, so the limit is met and missed by one. A queue of 2 is full in the middle of a
reviewer's three events and after the terminal event, when the sentinel is lost; a
larger one only delays this. Two askers are one inside the lock and one waiting behind
it or probing beside it; a third would wait as the second does. A cooldown of one tick
tells "not yet" from "again", and one retry per vendor and tool a first, a last and an
exceeding try. Four beginnings are a first index, its change by the script or by
another release, and a bootstrap and a call afterwards; an old image whose corpus is
part of the new one's is the case in which a collection can be completed rather than
refused. Three requests fill a window of two and exceed it, three clicks are one that
starts a stream and two that leave it together, or one that starts something, one that
leaves it and one that could meet what was left. The theorems
remove these bounds wherever a property is proved.

Deadlock checking is off in all runs: the bounds, and for streams, runs and calls the
end of the work itself, stop the system.

Fairness. `Intake!FairSpec` has weak fairness of each handler's own steps: store and
LLM calls have timeouts and a graph run its recursion limit, so a started handler
goes on. Nothing is assumed about callers, cancellations or restarts.
`FairStreamSpec` of `PlanStream` has weak fairness of the producer's and the generator's steps,
which the event loop runs when they are ready, and of `Receive`: a client that stays
connected reads. `Leave` and `Interrupt` are not fair. `Close` is fair because a dropped
asynchronous generator is finalised by the loop's hook. `McpRuntime!FairSpec` has weak
fairness of each caller's step and of the clock; servers are not fair, and `Recovers`
assumes that both servers are up for good and that somebody keeps asking.
`MCPeers!MCSpec` has one weak fairness condition, of which a behaviour uses the half of
its part. For a search it is fair to the application's own steps, the passing of a
deadline among them, and in process to the work itself, whose HTTP requests have
timeouts; a travel server may hang for good. For the page it is fair to the page and the
network together (`BrowserFairness`): a browser runs its callbacks, and every request is
answered, fails or ends with its connection. The user need not click again.
`knowledge` states no liveness: a deployment may be stopped for ever.

## Findings

1. `long_preference` (code bug): `confirm_conversation` builds `ThreadPlanRequest`
   outside its `try` block, and the two schemas disagree on the longest preference
   (300 and 200 characters). The draft stays in `planning`.
2. `cancel_begin` (code bug): a disconnect between the saved `planning` status and the
   first event passes `except Exception`. The draft stays in `planning`.
3. `late_rollback` (documentation): the rollback of a stream the client has left can
   overwrite the caller's next mutation with the same version number, although that
   caller serialises its own calls.
4. `page_abort` (code bug): `fetchOnce` stops forwarding the caller's abort as soon as
   the head of the answer is there, so Stop, Reset, New Trip and a switch of threads
   (docs/23:161) do not end a stream whose events are being read. The server plans on
   with its reader, and the click that waits for the stream waits as long.
5. `cached_limit` (documentation): docs/17:165 and `cache.py:119` put every retrieval
   limit into the cache's key. The caller's `top_k` is not in it, so a call may get the
   shorter answer of an earlier one, with nothing but `cache_status` to tell.

A trace of each is TLC's counterexample of its run.

Short of a finding, the models show where a promise ends:

- docs/22:51 ("the existing graph checkpoint contains the plan") holds only as long as
  nobody plans the same thread through `POST /plans`: `PlannedHasPlan` is checked
  without it.
- `bootstrap.py` serialises deployments, but a batch whose bootstrap was cancelled may
  be written after the lock has passed on, and the script never takes the lock.
  `ServingIsIndexed` therefore excepts what the script deleted, and
  `FailuresHaveCauses` names a foreign child or a deletion as the cause of a refusal.
- While two releases run, the older one searches a collection that has the newer one's
  sections too. It drops hits it knows no parent of and counts them as missing.
- `OmissionsHaveCauses` is what is left of "a full answer or a stated reason" beside
  finding 5: only a hit may be short without a word, and then it is as long as the call
  asked for that wrote it.
- Over MCP a provider's error loses its code: docs/24:268 promises stable `duffel_*` codes
  across the application, but the invoker answers every failed envelope with
  `mcp_tool_failed` (`Decoded`), and the code that would pass them on is behind it.
- docs/15:103 promises with each search error whether a retry could help. The worker says
  yes of every exception it does not know, also of the overflow of a stay's checkout after
  `date.max`, which every retry meets again; `AdviceIsHonest` allows it this guess about
  exceptions of its own process.
- A request cancelled during the key download leaves no trace (tests/auth/test_tokens.py
  asserts it): with stale keys the next one downloads at once. `DownloadsArePaced`
  therefore counts the downloads that were not cancelled, and the forced ones in any case.
- The script's own application compares counts only: a collection in which as many
  children are foreign as are missing loads. A container is kept from this by its
  bootstrap, a workstation is not.
- The page may show `collecting` or `planning` for a conversation the server has rolled
  back or is still planning: after a stopped or broken stream it reads the state once,
  perhaps before the rollback; after a failed read, or a reload during a run, it stays
  in `planning` without a stream. `PlanningIsLeft` speaks of a page with a stream.
- A message sent just before a reset that fails leaves its optimistic copy on the page.
- Two runs that remember the same preference at once may both find it new, and the later
  one's date of creation stays, against docs/14:48. Dates are not modelled.
- `asearch` lists at most 1000 preferences: beyond that a run may not see one it has just
  been asked to remember (`crowded` in `RememberedIsListed`).

## Proofs

All proofs hold for any constants that satisfy the named assumptions
(`IntakeAssumption`, `PlanGraphAssumption`, `NoneAssumption`, `PlanStreamAssumption`,
`McpAssumption`, `SearchAssumption`, `DeploymentAssumption`, `RetrievalAssumption`,
`LifespanAssumption`, `AdmissionAssumption`, `BrowserAssumption`): disjoint sets of
drafts, natural numbers for bounds, `None` different from every value it stands in for,
of a configuration what the settings can produce, finitely many children with one parent
each and corpora that are not empty, a key lifetime of at least two pauses (the settings
allow no less than 60 s against 30 s), and positive limits.

**Intake.** `PlannedIsBacked` is not inductive: a handler at `planned_save` is about to
store what it holds. `Backing` adds, per handler, where the record it holds comes from
(`Provenance`): the chain runs from the completed run over `deliver`, `planned_load`
and `planned_save` to the store, and from the confirmed fingerprint over `begin_save`
and `prepare` to the run. Theorems: `TypeCorrect`, `PlannedTripsAreBacked`,
`ConfirmedRunsAreConsented` for every environment; `PlanningIsWorkedOn` for the
undisturbed one, where two confirmations of one draft may both hold it and the status
still has an owner. What a serialising caller may rely on needs that at most one handler
is under way (`OneAtATime`) and, for each of its points, how the record it holds and the
newest checkpoint relate to what is stored (`Fits`): a request that runs has its draft
stored as `planning`, one that saves holds the next version of what is stored, and one
about to store `planned` has its plan in the checkpoint. `SerialInv` joins them and gives
`RunsAreVisible`, `PlansAreCheckpointed`, `PlannedTripsAreFinal`, and `VersionsAdvance`
for serialising callers that also stay connected; with disconnects finding 3 refutes it.
`ConversationKeepsLifecycle` is the refinement: only saves write the store
(`WritesAreHeld`), and by `Fits` each of the five saves writes one change of
`TripLifecycle`, also when the call raises although it took effect. `SavedTurns` adds
that a turn about to be saved awaits confirmation only with a complete draft.
`intake_fair` checks the refinement rather than `PlannedIsFinal` and `VersionAdvances`,
which it implies for these callers.

**PlanGraph.** `Typed` is `TypeOK` with `Coherent`, which says per node what the
channels hold: from `search_worker` on only this run's results, from the review cycle on
only this run's reviews, at `finalize_plan` a verdict that agrees with the last review
or a failure that has cleared it. From it follow `GraphTypeCorrect`, `PlansAreFresh`,
`OutcomesAreHonest`, `PlansAreReviewed` and `CallersAgree`, and the refinement
`ThreadKeepsPromise`: each step maps to a step of `ThreadPlan` or leaves its variables
alone. `Paced` relates rounds, drafts and supersteps, and gives `RoundsStayBounded` and
`TheLimitIsSecond`, where the bound `8 + 2 * rounds` is exact: seven nodes up to the
review cycle, two per round, one to finalise. `Informed` adds to `HistoryIsOfThisRun`
that while the loop goes on every review in the history asked for a revision, and that
the policy in the channel, and the draft under review, are the `Feedback` of the last
one. It gives `HistoriesAreOfTheirRun` and `FeedbackIsAlwaysApplied`.

**PlanStream.** Each step of a stream is a step of the graph or leaves its variables
alone (`StreamsRunTheGraph`), so every theorem about `PlanGraph` holds under a stream,
its promise included (`StreamedRunsKeepPromise`), and `Typed` and `Paced` can be used as
they are. `StreamInv` has five parts. `Paired` ties generator, producer and run together:
a run is in progress only while a producer drives it or is told to stop, and a generator
that ends has waited for it. `SentinelIsLast` and `Delivered` say that what was sent -
got by the client or still queued - is numbered without gap, that a terminal event is the
last of it, and that a reader whose producer is done has one to come: the reason why the
sentinel may be lost. `Followed` says that the mapper's sticky fields agree with the
channels while the producer runs, and `Reported` which reviews were announced at each
node, in what was sent and what is about to be. Theorems: `StreamTypeCorrect`,
`NothingSentIsLost`, `OneEndPerStream`, `TheEndIsTheCheckpoint`, `AllReviewsAreTold`,
`NoRunOutlivesItsStream`, and the refinement `StreamsServeTheirClient`: a `Receive` is a
step of `EventFeed` by what the event taken from the queue says, `Open` and `Leave` are
steps of it, all others stutter. It needs beside `StreamInv` that only a stream's first
event is `run_started` (`Begun`).

**McpRuntime.** `Managed` says that the lock is held exactly by the asker that is
discovering (`Locked`), that what the cooldown has left is what the clock still owes
(`Paced`), and that an asker past its port probe has met a reachable server (`Reached`).
Theorems: `McpTypeCorrect`, `DiscoveriesAreAlone`, `DiagnosticsAreTrue`,
`DiscoveriesArePaced`, `ReadyIsUsable`, for any number of callers and any tools.

**SearchCall.** `ProvenanceIsHonest` speaks only of the end, so `Careful` follows the
answers back: every job's answer is `Genuine` (the rows are the server's own source's,
or fallback rows if it allows them), attempts that were not made are untouched, and
outside demo mode there is one attempt, whose place in the list of operations bounds
every count of `sent`. Each step of a job is an instance of `Moves`, which is shown
once to keep `Careful`. Theorems: `SearchTypeCorrect`, `ResultsAreHonest`,
`SearchesAreBounded`, `RefusalsAreFinal`, `AdviceHolds`, for any retries.

**Deployment.** That a container serves its whole index follows only from what each
bootstrap has secured so far. `Secured(c)` says per step of the bootstrap which part of
the corpus is in Chroma, which parents are in Redis and what the files hold, each up to
what the script has deleted; `Alone` says the same of a script that nobody disturbs; and
every child in the collection, or still to be written by a late batch, has been `seen`.
`DeployInv` joins them to `TypeOK`. Theorems: `IndexTypeCorrect`, `ServesItsWholeIndex`,
`RefusalsHaveCauses`, for any number of containers, images and bootstraps.

**Retrieval.** `StepKeepsImages` shows that a deployment step never changes the image
of a container that serves before and after it, so what a call has learned stays about
its own corpus. `Truthful(c)` says at each step of a call that what the answer so far
leaves out is accounted for by evidence still to be fetched, a degraded part, a missing
parent or the script's deletions; `Sound` says it of an answer, cached ones included.
Cutting and reranking keep it because a cut answer has exactly as many parents as the
smallest limit it was cut to, which differs from the call's own only for a hit. Theorems:
`KnowledgeIsServed` (the composition keeps `Deployment`'s promises) and
`OmissionsAreCaused`.

**Lifespan and Admission.** `LifeInv` says that what is open was opened on the way to
`opening`, and while closing is still on the list; `ResourcesAreReleased` rests on
`CloseList` naming everything that may be open in either half of the start. `PaceInv`
says that a forced download is remembered in `_forced_refresh_at`, and that every
download that is over and was not cancelled has left either a failure or keys that are
fresh for a lifetime from its beginning: no download of stale keys can follow it within
a pause, and no second forced one either. `ReqInv` types the requests, `WindowInv` says
that a bucket that has never expired counts exactly the requests that used it, and one
that has never more. Theorems: `ResourcesAreReleased`, `IssuerIsSpared`, `LimitsHold`.

**Browser.** `PageInv` says that the state belongs to the thread shown (`Shows`), that
the active request was asked for it (`Asked`), that each click which still waits for the
stream has a number that no request on its way and no other waiting click has (`Waits`),
and that the one stream belongs to it too (`Streams`), since every switch waits for the
stream's end. Answers that arrive for an older request are dropped, whatever they say.
Theorems: `PageTypeCorrect`, `PageShowsThisThread`, for any number of threads and
clicks.

**Preferences.** `MemoryInv` says of each run's node what it has stored, what is still to
store and what was deleted since: a preference stored and not in the user's memory is in
`gone`, and whatever is in the memory was asked for by some run. Theorem:
`RememberedPreferencesAreListed`, for any number of runs and deletions.

**Model-checked only.** `PlanningEnds`, `StreamsEnd`, `Recovers`, `SearchEndsHere` and
`PlanningIsLeft` are liveness under fairness, which TLAPS does not reach. The five
properties of the `violation` runs are false.

## Not modelled

Field-level merging of a message, wording, message history, scores, provider JSON,
metrics and logs are data the properties do not tell apart. Two graph runs at once on
one thread are in `Intake` as outcomes only. The history route of the persistence API
changes nothing the models read. `MCPRuntime.refresh(force=True)` has no caller in
`src/app`. That a search is cancelled with its run is `PlanGraph`'s `Interrupt`.

The planning service and the LLM provider's loop of retries and repair are sequential
functions of their input, without state, interleaving or persistence: there is no
behaviour in them for a state machine to explore, and their unit tests reach their
branches. The stateless planning routes run the graph once without a checkpoint, which
is `PlanGraph` with one run. Readiness and diagnostics routes only read; the operator
scripts beside the index script are one-shot checks. The page's presentation, its
schemas, the sign-in and the list of recent threads change nothing the page's properties
are about. `PROJECT.json` repeats the reason per component.

## Plan

Done: every module above with its runs, and a theorem for every safety invariant and
action property that a passing run checks. Left:

1. An abstract specification of readiness as its askers see it, implemented by
   `McpRuntime`, and one of the served index, implemented by `Deployment`.
2. What `McpRuntime` and `SearchCall` do together: whose answer a search gets while the
   registry is refreshed.
