------------------------------ MODULE SearchCall ------------------------------
(***************************************************************************)
(* One search of a planning run, from the worker down to the providers:     *)
(* search_worker_node calls the provider bundle in its own process or, over *)
(* MCP, the same bundle in the travel server, which has settings of its own *)
(* and may go on with an attempt its caller has given up.                   *)
(***************************************************************************)
EXTENDS Integers, Sequences

CONSTANTS
    Configs,      \* the configurations of application and server, see Config
    ToolRetries,  \* the setting mcp_max_retries
    Retries       \* Retries[v]: the retries of vendor v's HTTP client

Kinds == {"flights", "hotels", "attractions", "weather", "route"}
External == {"duffel_test", "duffel_live", "liteapi_sandbox", "liteapi_production"}
Sources == External \cup {"demo", "demo_fallback"}
Vendors == {"duffel", "liteapi"}
\* Exceptions that no layer below the worker knows.
Unknown == {"undecodable", "overflow"}
Codes == Vendors \cup Unknown \cup
    {"none", "bad_input", "invalid_result", "empty_result", "route_unavailable", "provider_error",
     "mcp_tool_failed", "mcp_tool_timeout", "mcp_transport_unavailable",
     "mcp_invalid_response", "mcp_tool_not_found", "mcp_discovery_failed"}

\* What the settings of the two processes make of a search: the source each
\* selects and whether it allows a demo fallback for this kind.
Config == [kind : Kinds, mcp : BOOLEAN, demo : BOOLEAN,
           tools : {"listed", "unlisted", "undiscovered"},
           mine : Sources \ {"demo_fallback"}, mineFallback : BOOLEAN,
           theirs : Sources \ {"demo_fallback"}, theirsFallback : BOOLEAN]

Selectable(kind) ==
    CASE kind = "flights" -> {"demo", "duffel_test", "duffel_live"}
      [] kind = "hotels" -> External \cup {"demo"}
      [] OTHER -> {"demo"}

ASSUME SearchAssumption ==
    /\ ToolRetries \in Nat
    /\ Retries \in [Vendors -> Nat]
    /\ Configs \subseteq Config
    /\ \A c \in Configs :
          /\ {c.mine, c.theirs} \subseteq Selectable(c.kind)
          /\ c.demo => c.mine = "demo"
          /\ c.kind \notin {"flights", "hotels"} => ~c.mineFallback /\ ~c.theirsFallback
          /\ ~c.mcp => c.mine = c.theirs /\ c.mineFallback = c.theirsFallback

VARIABLES
    conf,  \* the configuration; never changes
    app,   \* the worker and, over MCP, the invoker
    jobs,  \* jobs[n]: what the server, or the process itself, does for attempt n
    sent   \* history: the HTTP requests sent for each operation of the search

vars == <<conf, app, jobs, sent>>

\* Mutant of Attempts: provider searches are retried here as well.
AttemptsAlways(c) == ToolRetries + 1

\* create_mcp_runtime retries tool calls in demo mode only; else _tool_timeout
\* leaves the time to the providers' retries.
Attempts(c) == IF c.mcp /\ c.demo THEN ToolRetries + 1 ELSE 1

\* The vendor of each HTTP operation of a search: places first, then the offers.
Operations(c) ==
    CASE c.theirs = "demo" -> <<>>
      [] c.kind = "flights" -> <<"duffel", "duffel", "duffel">>
      [] c.theirs \in {"liteapi_sandbox", "liteapi_production"} -> <<"duffel", "liteapi">>
      [] OTHER -> <<"duffel", "duffel">>

-----------------------------------------------------------------------------
(* Answers: rows of a source, with who really made them, or an error.       *)

Answer == [rows : {"none", "empty", "some"}, source : Sources, made : Sources,
           error : Codes, recoverable : BOOLEAN]

Rows(source, made) ==
    [rows |-> "some", source |-> source, made |-> made,
     error |-> "none", recoverable |-> FALSE]
NoRows(source) == [Rows(source, "demo") EXCEPT !.rows = "empty"]
Failure(code, recoverable) ==
    [rows |-> "none", source |-> "demo", made |-> "demo",
     error |-> code, recoverable |-> recoverable]
NoAnswer == Failure("none", FALSE)

\* The deterministic providers deliver, find nothing, or reject the trip.
DemoAnswers(c, label) ==
    {Rows(label, "demo"), NoRows(c.theirs), Failure("bad_input", FALSE)}
    \cup (IF c.kind = "route" THEN {Failure("route_unavailable", FALSE)} ELSE {})

\* _search of the bundle: only an error of a vendor may be replaced by demo data.
AfterFailure(c, vendor, recoverable) ==
    IF c.theirsFallback THEN DemoAnswers(c, "demo_fallback")
    ELSE {Failure(vendor, recoverable)}

\* Mutant of the next operator: demo_fallback is accepted for every kind.
AcceptsLabelled(c, a) == a.source = c.mine \/ a.source = "demo_fallback"

Accepts(c, a) == a.source = c.mine \/ (a.source = "demo_fallback" /\ c.mineFallback)

\* Mutant of the next operator: every failed tool call may be tried again.
DecodedRecoverable(c, a) ==
    IF a.error # "none" THEN Failure("mcp_tool_failed", TRUE)
    ELSE IF Accepts(c, a) THEN a
    ELSE Failure("mcp_invalid_response", FALSE)

\* The invoker turns every failed envelope into one code; the backend then
\* compares the source of the rows with its own settings.
Decoded(c, a) ==
    IF a.error # "none" THEN Failure("mcp_tool_failed", a.recoverable)
    ELSE IF Accepts(c, a) THEN a
    ELSE Failure("mcp_invalid_response", FALSE)

\* search_worker_node: a route is never a result, nor are no rows at all; of an
\* exception it does not know it says that a retry could help.
Settled(c, a) ==
    IF c.kind = "route" /\ a.rows # "none" THEN Failure("route_unavailable", FALSE)
    ELSE IF a.rows = "empty" THEN Failure("empty_result", TRUE)
    ELSE IF a.error = "bad_input" THEN Failure("invalid_result", FALSE)
    ELSE IF a.error \in Unknown THEN Failure("provider_error", TRUE)
    ELSE a

-----------------------------------------------------------------------------
NoJob == [at |-> "idle", op |-> 1, try |-> 0, refused |-> FALSE, answer |-> NoAnswer]
Job == [at : {"idle", "running", "done", "dropped"}, op : 1..4, try : Nat,
        refused : BOOLEAN, answer : Answer]

Init ==
    /\ conf \in Configs
    /\ app = [at |-> "start", attempt |-> 1, answered |-> FALSE, outcome |-> NoAnswer]
    /\ jobs = [n \in 1..(ToolRetries + 1) |-> NoJob]
    /\ sent = [i \in 1..3 |-> 0]

Start(n) == jobs' = [jobs EXCEPT ![n].at = "running"]
End(answer) == app' = [app EXCEPT !.at = "ended", !.outcome = answer]

\* The worker calls its backend, in process or through a discovered tool.
Begin ==
    /\ app.at = "start"
    /\ \/ /\ ~conf.mcp \/ conf.tools = "listed"
          /\ app' = [app EXCEPT !.at = "waiting"]
          /\ Start(1)
       \/ /\ conf.mcp /\ conf.tools # "listed"
          /\ End(Failure(IF conf.tools = "unlisted" THEN "mcp_tool_not_found"
                         ELSE "mcp_discovery_failed", TRUE))
          /\ UNCHANGED jobs
    /\ UNCHANGED <<conf, sent>>

Running(n) == jobs[n].at = "running"
Ends(n, answers) ==
    \E a \in answers : jobs' = [jobs EXCEPT ![n].at = "done", ![n].answer = a]

\* No provider is configured for this kind: the deterministic one answers.
UseDemo(n) ==
    /\ Running(n)
    /\ Operations(conf) = <<>>
    /\ Ends(n, DemoAnswers(conf, "demo"))
    /\ UNCHANGED <<conf, app, sent>>

\* The provider rejects the trip before it sends anything.
RejectTrip(n) ==
    /\ Running(n)
    /\ conf.kind = "hotels" /\ Operations(conf) # <<>>
    /\ jobs[n].op = 1 /\ jobs[n].try = 0
    /\ Ends(n, AfterFailure(conf, Operations(conf)[2], FALSE))
    /\ UNCHANGED <<conf, app, sent>>

Count(op) == sent' = [sent EXCEPT ![op] = @ + 1]

\* A response with what the search needs: the next operation, or the rows.
RequestDelivers(n) ==
    LET op == jobs[n].op
    IN /\ Running(n)
       /\ op <= Len(Operations(conf))
       /\ Count(op)
       /\ IF op < Len(Operations(conf))
          THEN jobs' = [jobs EXCEPT ![n].op = op + 1, ![n].try = 0]
          ELSE Ends(n, {Rows(conf.theirs, conf.theirs)})
       /\ UNCHANGED <<conf, app>>

\* Mutant of RequestRefused: a refused request is repeated like any other.
RequestRefusedAgain(n) ==
    LET op == jobs[n].op
    IN /\ Running(n)
       /\ op <= Len(Operations(conf))
       /\ Count(op)
       /\ IF jobs[n].try < Retries[Operations(conf)[op]]
          THEN jobs' = [jobs EXCEPT ![n].try = @ + 1, ![n].refused = TRUE]
          ELSE Ends(n, AfterFailure(conf, Operations(conf)[op], FALSE))
       /\ UNCHANGED <<conf, app>>

\* A refusal, or a response without valid content, is never repeated; with the
\* place known the next provider may reject the stay (stay_night_count).
RequestRefused(n) ==
    LET op == jobs[n].op
        ops == Operations(conf)
    IN /\ Running(n)
       /\ op <= Len(ops)
       /\ Count(op)
       /\ \E v \in {ops[op], ops[Len(ops)]} : \E a \in AfterFailure(conf, v, FALSE) :
             jobs' = [jobs EXCEPT ![n].at = "done", ![n].refused = TRUE, ![n].answer = a]
       /\ UNCHANGED <<conf, app>>

\* An exception that is no vendor's error passes the client and the bundle's
\* fallback: a body that cannot be decoded (httpx.DecodingError) or, with the place
\* known and nothing sent yet, a checkout after the last date there is, against
\* which only the other hotel provider guards.
Break(n) ==
    LET op == jobs[n].op
        Broken(code, refused) ==
            jobs' = [jobs EXCEPT ![n].at = "done", ![n].refused = refused,
                                 ![n].answer = Failure(code, FALSE)]
    IN /\ Running(n)
       /\ op <= Len(Operations(conf))
       /\ \/ Count(op) /\ Broken("undecodable", TRUE)
          \/ /\ conf.kind = "hotels" /\ op = 2 /\ jobs[n].try = 0
             /\ Operations(conf)[op] = "duffel"
             /\ Broken("overflow", FALSE) /\ UNCHANGED sent
       /\ UNCHANGED <<conf, app>>

\* Timeout, transport error, rate limit or unavailability: repeated so often.
RequestFails(n) ==
    LET op == jobs[n].op
    IN /\ Running(n)
       /\ op <= Len(Operations(conf))
       /\ Count(op)
       /\ IF jobs[n].try < Retries[Operations(conf)[op]]
          THEN jobs' = [jobs EXCEPT ![n].try = @ + 1]
          ELSE Ends(n, AfterFailure(conf, Operations(conf)[op], TRUE))
       /\ UNCHANGED <<conf, app>>

\* The server notices that the caller of an attempt is gone.
Drop(n) ==
    /\ Running(n)
    /\ n < app.attempt \/ app.at = "ended"
    /\ jobs' = [jobs EXCEPT ![n].at = "dropped"]
    /\ UNCHANGED <<conf, app, sent>>

Waiting == app.at = "waiting"

\* The attempt's answer arrives and is checked by every layer on its way.
Receive ==
    /\ Waiting
    /\ jobs[app.attempt].at = "done"
    /\ LET a == jobs[app.attempt].answer
           b == IF conf.mcp THEN Decoded(conf, a) ELSE a
       IN app' = [app EXCEPT !.at = "ended", !.answered = TRUE, !.outcome = Settled(conf, b)]
    /\ UNCHANGED <<conf, jobs, sent>>

\* The answer cannot be decoded or belongs to another request.
ReceiveGarbled ==
    /\ Waiting /\ conf.mcp
    /\ jobs[app.attempt].at = "done"
    /\ \E code \in {"mcp_tool_failed", "mcp_invalid_response"} : End(Failure(code, FALSE))
    /\ UNCHANGED <<conf, jobs, sent>>

\* The deadline of the attempt passes, or its transport breaks: another attempt
\* while the server may still work on this one.
TryAgain ==
    /\ Waiting /\ conf.mcp
    /\ app.attempt < Attempts(conf)
    /\ app' = [app EXCEPT !.attempt = @ + 1]
    /\ Start(app.attempt + 1)
    /\ UNCHANGED <<conf, sent>>

\* Mutant of the next operator: only the attempts of demo mode are counted.
GiveUpLate ==
    /\ Waiting /\ conf.mcp
    /\ app.attempt > ToolRetries
    /\ \E code \in {"mcp_tool_timeout", "mcp_transport_unavailable"} : End(Failure(code, TRUE))
    /\ UNCHANGED <<conf, jobs, sent>>

\* The last attempt is not answered in time.
GiveUp ==
    /\ Waiting /\ conf.mcp
    /\ app.attempt >= Attempts(conf)
    /\ \E code \in {"mcp_tool_timeout", "mcp_transport_unavailable"} : End(Failure(code, TRUE))
    /\ UNCHANGED <<conf, jobs, sent>>

Work(n) ==
    \/ UseDemo(n) \/ RejectTrip(n)
    \/ RequestDelivers(n) \/ RequestRefused(n) \/ RequestFails(n) \/ Break(n)

Next ==
    \/ Begin \/ Receive \/ ReceiveGarbled \/ TryAgain \/ GiveUp
    \/ \E n \in DOMAIN jobs : Work(n) \/ Drop(n)

Spec == Init /\ [][Next]_vars

\* The application's own steps: the server may hang, the deadline then passes.
\* In its own process each HTTP request has a timeout.
Progress == Begin \/ Receive \/ TryAgain \/ GiveUp \/ (~conf.mcp /\ Work(1))
Fairness == WF_vars(Progress)

-----------------------------------------------------------------------------
TypeOK ==
    /\ conf \in Configs
    /\ app \in [at : {"start", "waiting", "ended"}, attempt : 1..(ToolRetries + 1),
                answered : BOOLEAN, outcome : Answer]
    /\ jobs \in [1..(ToolRetries + 1) -> Job]
    /\ sent \in [1..3 -> Nat]

Ended == app.at = "ended"

(* A result names the source that made it: the one the application selected, *)
(* or demo data, if both processes allow them for this kind, in the place of *)
(* a vendor that failed (docs/24: no silent substitution).                   *)
ProvenanceIsHonest ==
    Ended /\ app.outcome.rows # "none" =>
        /\ app.outcome.rows = "some" /\ conf.kind # "route"
        /\ \/ app.outcome.source = conf.mine /\ app.outcome.made = conf.mine
           \/ /\ app.outcome.source = "demo_fallback" /\ app.outcome.made = "demo"
              /\ conf.mineFallback /\ conf.theirsFallback

(* However slow the server is, a search in external mode sends no request    *)
(* oftener than the provider's own retries allow (_tool_timeout: "without a  *)
(* second retry layer duplicating searches").                                *)
RequestsAreBounded ==
    ~conf.demo => \A i \in 1..Len(Operations(conf)) :
                      sent[i] <= Retries[Operations(conf)[i]] + 1

(* After a refused request an attempt sends nothing more, and in external    *)
(* mode neither does the search (docs/18: deterministic provider errors are  *)
(* not retried; docs/24: never 400, 401, 403 or schema errors).              *)
RefusedIsFinal ==
    [][sent' # sent =>
          \A n \in DOMAIN jobs :
              jobs[n].refused => jobs'[n] = jobs[n] /\ conf.demo]_vars

(* An error reported as recoverable is that nothing was found, or was earned: *)
(* the attempt that was answered so was refused nothing and had used up its  *)
(* retries; or it is the worker's own guess at an exception that met it in   *)
(* its own process, and over MCP nobody guesses.                             *)
AdviceIsHonest ==
    Ended /\ app.answered /\ app.outcome.recoverable =>
        LET job == jobs[app.attempt]
        IN \/ app.outcome.error = "empty_result"
           \/ app.outcome.error = "provider_error" /\ job.answer.error \in Unknown /\ ~conf.mcp
           \/ /\ app.outcome.error \notin {"empty_result", "provider_error"}
              /\ ~job.refused
              /\ job.op \in DOMAIN Operations(conf)
              /\ job.try = Retries[Operations(conf)[job.op]]

(* Every search ends, whatever server and providers do.                      *)
SearchEnds == <>Ended
=============================================================================
