------------------------------ MODULE McpRuntime ------------------------------
(***************************************************************************)
(* The tool discovery of app/mcp_tools/client.py.  Every readiness question *)
(* probes the port of the HTTP server, then trusts the cached diagnostics   *)
(* or refreshes them: one discovery at a time, and at most one per          *)
(* cooldown.  Questions run concurrently; an action is what the event loop  *)
(* runs of one of them between two awaits.                                  *)
(***************************************************************************)
EXTENDS Integers, FiniteSets

CONSTANTS
    Probes,      \* the concurrent askers of is_ready
    Servers,     \* the enabled servers, the client's connections
    Http,        \* the one behind a port; not in Servers when disabled
    Expected,    \* EXPECTED_TOOL_NAMES, whichever servers are enabled
    Own,         \* Own[s]: the expected tools that server s is there to offer
    Menus,       \* Menus[s]: the sets of tools a running s may list
    RequireAll,  \* the setting mcp_require_all_tools
    Cooldown,    \* ticks of the clock in one cooldown
    None         \* nobody holds the lock

Names == Expected \cup UNION UNION {Menus[s] : s \in Servers}

ASSUME McpAssumption ==
    /\ RequireAll \in BOOLEAN
    /\ Cooldown \in Nat
    /\ None \notin Probes
    /\ \A s \in Servers : Own[s] \in Menus[s] /\ Own[s] \subseteq Expected

VARIABLES
    offers,    \* offers[s]: how server s behaves now
    registry,  \* the names the registry, and with it the invoker, knows
    diag,      \* the public diagnostics
    lock,      \* the holder of _refresh_lock
    cooling,   \* ticks until _next_refresh_time
    call,      \* call[c]: the question asker c is asking
    since      \* history: ticks since the last discovery began, up to Cooldown

vars == <<offers, registry, diag, lock, cooling, call, since>>

\* A server is down, accepts connections but never answers, or lists its tools.
Offer(s) == [state : {"down", "hung"}, tools : {{}}]
            \cup [state : {"up"}, tools : Menus[s]]
Serving(s) == offers[s] = [state |-> "up", tools |-> Own[s]]
AllServing == \A s \in Servers : Serving(s)
SomeHung == \E s \in Servers : offers[s].state = "hung"
Reachable(o) == Http \in Servers => o[Http].state # "down"

-----------------------------------------------------------------------------
(* What a discovery makes of the (server, name) pairs it was told; a server *)
(* that failed is one that listed nothing.                                  *)

Listed(got) == {p[2] : p \in got}
Duplicates(got) ==
    {n \in Listed(got) : \E p, q \in got : p[2] = n /\ q[2] = n /\ p # q}
Answering(got) == {p[1] : p \in got}
Usable(names) == names \subseteq Expected /\ (RequireAll => Expected \subseteq names)

\* MCPToolRegistry: an ambiguous discovery leaves an empty registry.
Registry(got) == IF Duplicates(got) = {} THEN Listed(got) ELSE {}

Diagnosed(got) ==
    LET ready == /\ Duplicates(got) = {}
                 /\ Usable(Listed(got))
                 /\ Servers # {}
                 /\ Answering(got) = Servers
    IN [ready |-> ready,
        alive |-> Answering(got),
        known |-> Listed(got),
        error |-> IF ready THEN "none"
                  ELSE IF Duplicates(got) # {} THEN "duplicate_tool"
                  ELSE "discovery_failed"]

\* Mutant of the next operator: only the server's own status is updated.
UnavailableServer(d) == [d EXCEPT !.alive = @ \ {Http}, !.error = "transport_unavailable"]

\* _mark_http_unavailable: the registry keeps its tools.
Unavailable(d) ==
    [d EXCEPT !.ready = FALSE, !.alive = @ \ {Http}, !.error = "transport_unavailable"]

-----------------------------------------------------------------------------
NoCall == [pc |-> "idle", told |-> FALSE, bounded |-> FALSE, slow |-> FALSE,
           reached |-> FALSE, met |-> {}, got |-> {}]

Active(c) == call[c].pc # "idle"

\* create_mcp_runtime: one discovery, some servers of which may have failed.
Init ==
    /\ offers \in [Servers -> UNION {Offer(s) : s \in Servers}]
    /\ \A s \in Servers : offers[s] \in Offer(s)
    /\ \E met \in SUBSET Servers :
          LET got == {p \in met \X Names : p[2] \in offers[p[1]].tools}
          IN registry = Registry(got) /\ diag = Diagnosed(got)
    /\ lock = None
    /\ cooling = Cooldown
    /\ call = [c \in Probes |-> NoCall]
    /\ since = 0

Goto(c, pc) == call' = [call EXCEPT ![c].pc = pc]

Answered(c, yes) ==
    call' = [call EXCEPT ![c] = [NoCall EXCEPT !.told = yes]]

\* Mutant of Call: the port is not probed.
CallWithoutProbe(c) ==
    /\ ~Active(c)
    /\ \E bounded \in BOOLEAN :
          call' = [call EXCEPT ![c] =
              [NoCall EXCEPT !.pc = "check", !.bounded = bounded, !.slow = SomeHung,
                             !.reached = Reachable(offers)]]
    /\ UNCHANGED <<offers, registry, diag, lock, cooling, since>>

\* is_ready begins; /ready and the stream routes put a deadline around it.
Call(c) ==
    /\ ~Active(c)
    /\ \E bounded \in BOOLEAN :
          call' = [call EXCEPT ![c] =
              [NoCall EXCEPT !.pc = IF Http \in Servers THEN "probe" ELSE "check",
                             !.bounded = bounded,
                             !.slow = SomeHung,
                             !.reached = Reachable(offers)]]
    /\ UNCHANGED <<offers, registry, diag, lock, cooling, since>>

\* The socket opens or not; a connection to a stuck process may do either.
ProbePort(c) ==
    /\ call[c].pc = "probe"
    /\ \/ offers[Http].state # "down" /\ Goto(c, "check")
       \/ offers[Http].state # "up" /\ Goto(c, "closed")
    /\ UNCHANGED <<offers, registry, diag, lock, cooling, since>>

\* The task resumes with a closed port, perhaps later than a refresh.
MarkUnavailable(c) ==
    /\ call[c].pc = "closed"
    /\ diag' = Unavailable(diag)
    /\ Answered(c, FALSE)
    /\ UNCHANGED <<offers, registry, lock, cooling, since>>

\* Mutant of Refresh: only a finished discovery would use up the cooldown.
RefreshUncooled(c) ==
    \/ cooling > 0 /\ Answered(c, diag.ready) /\ UNCHANGED <<lock, cooling, since>>
    \/ /\ cooling = 0
       /\ lock' = c
       /\ cooling' = cooling
       /\ since' = 0
       /\ Goto(c, "discover")

\* refresh with the lock held: answer from the cache within the cooldown, or
\* start a discovery, which holds the lock and has used up the cooldown.
Refresh(c) ==
    \/ /\ cooling > 0
       /\ Answered(c, diag.ready)
       /\ UNCHANGED <<lock, cooling, since>>
    \/ /\ cooling = 0
       /\ lock' = c
       /\ cooling' = Cooldown
       /\ since' = 0
       /\ Goto(c, "discover")

LockIsFree == lock = None /\ \A d \in Probes : call[d].pc # "lock"

CheckCache(c) ==
    /\ call[c].pc = "check"
    /\ \/ diag.ready /\ Answered(c, TRUE) /\ UNCHANGED <<lock, cooling, since>>
       \/ ~diag.ready /\ LockIsFree /\ Refresh(c)
       \/ ~diag.ready /\ ~LockIsFree /\ Goto(c, "lock") /\ UNCHANGED <<lock, cooling, since>>
    /\ UNCHANGED <<offers, registry, diag>>

GetLock(c) ==
    /\ call[c].pc = "lock"
    /\ lock = None
    /\ Refresh(c)
    /\ UNCHANGED <<offers, registry, diag>>

\* One of the concurrent _discover_server calls ends, with tools or without.
DiscoverServer(c, s) ==
    /\ call[c].pc = "discover"
    /\ s \notin call[c].met
    /\ call' = [call EXCEPT ![c].met = @ \cup {s},
                            ![c].got = @ \cup ({s} \X offers[s].tools)]
    /\ UNCHANGED <<offers, registry, diag, lock, cooling, since>>

\* gather returns: registry, diagnostics and invoker change in one step.
Install(c) ==
    /\ call[c].pc = "discover"
    /\ call[c].met = Servers
    /\ registry' = Registry(call[c].got)
    /\ diag' = Diagnosed(call[c].got)
    /\ lock' = None
    /\ Answered(c, diag'.ready)
    /\ UNCHANGED <<offers, cooling, since>>

\* Mutant of GiveUp: a cancelled refresh keeps the lock.
GiveUpHolding(c) ==
    /\ call[c].bounded
    /\ \/ call[c].slow /\ call[c].pc \in {"probe", "lock", "discover"}
       \/ call[c].pc = "lock" /\ lock # None /\ call[lock].slow
    /\ Answered(c, FALSE)
    /\ UNCHANGED <<offers, registry, diag, lock, cooling, since>>

\* The caller's deadline passes while something it waits for is slow: a server
\* that hung in its time, or a holder of the lock whom one keeps waiting.  The
\* lock is released, the cooldown stays used, the caller takes it for not ready.
GiveUp(c) ==
    /\ call[c].bounded
    /\ \/ call[c].slow /\ call[c].pc \in {"probe", "lock", "discover"}
       \/ call[c].pc = "lock" /\ lock # None /\ call[lock].slow
    /\ lock' = IF lock = c THEN None ELSE lock
    /\ Answered(c, FALSE)
    /\ UNCHANGED <<offers, registry, diag, cooling, since>>

\* A server process starts, stops, hangs or changes what it lists.
Serve(s) ==
    /\ \E o \in Offer(s) \ {offers[s]} : offers' = [offers EXCEPT ![s] = o]
    /\ call' = [c \in Probes |->
          IF Active(c)
          THEN [call[c] EXCEPT !.slow = @ \/ offers'[s].state = "hung",
                               !.reached = @ \/ Reachable(offers')]
          ELSE call[c]]
    /\ UNCHANGED <<registry, diag, lock, cooling, since>>

Tick ==
    /\ cooling > 0 \/ since < Cooldown
    /\ cooling' = IF cooling > 0 THEN cooling - 1 ELSE 0
    /\ since' = IF since < Cooldown THEN since + 1 ELSE Cooldown
    /\ UNCHANGED <<offers, registry, diag, lock, call>>

Step(c) ==
    \/ ProbePort(c) \/ MarkUnavailable(c) \/ CheckCache(c) \/ GetLock(c)
    \/ \E s \in Servers : DiscoverServer(c, s)
    \/ Install(c)

Next ==
    \/ \E c \in Probes : Call(c) \/ Step(c) \/ GiveUp(c)
    \/ \E s \in Servers : Serve(s)
    \/ Tick

Spec == Init /\ [][Next]_vars

\* The loop runs what is ready and time passes; nobody has to ask.
Fairness == WF_vars(Tick) /\ \A c \in Probes : WF_vars(Step(c))
FairSpec == Spec /\ Fairness

-----------------------------------------------------------------------------
CallState ==
    [pc : {"idle", "probe", "closed", "check", "lock", "discover"},
     told : BOOLEAN, bounded : BOOLEAN, slow : BOOLEAN, reached : BOOLEAN,
     met : SUBSET Servers, got : SUBSET (Servers \X Names)]

TypeOK ==
    /\ offers \in [Servers -> [state : {"down", "hung", "up"}, tools : SUBSET Names]]
    /\ registry \in SUBSET Names
    /\ diag \in [ready : BOOLEAN, alive : SUBSET Servers, known : SUBSET Names,
                 error : {"none", "duplicate_tool", "discovery_failed",
                          "transport_unavailable"}]
    /\ lock \in Probes \cup {None}
    /\ cooling \in 0..Cooldown
    /\ call \in [Probes -> CallState]
    /\ since \in 0..Cooldown

(* A discovery starts a process and a session per server, so the code starts *)
(* at most one per cooldown, whoever asks and whoever gives up half way      *)
(* (refresh, docs/18: "avoiding an unbounded start of STDIO processes").     *)
Starts(c) == call[c].pc # "discover" /\ call'[c].pc = "discover"
DiscoveryIsPaced == [][\A c \in Probes : Starts(c) => since = Cooldown]_vars

(* Two discoveries never overlap, so an older one never replaces the result  *)
(* of a newer one, also when a holder of the lock is cancelled.              *)
OneDiscovery == \A c \in Probes : call[c].pc = "discover" => lock = c

(* The public diagnostics and the registry the invoker searches tell one     *)
(* story: what is reported ready has every server alive and a registry of    *)
(* the expected tools, and what is not ready says why.                       *)
DiagnosticsAgree ==
    /\ diag.ready => /\ diag.alive = Servers
                     /\ diag.known = registry
                     /\ Usable(registry)
    /\ diag.ready <=> diag.error = "none"

(* Whoever is told the tools are ready was told so during a time in which    *)
(* the HTTP server could be reached, and a registry with the tools is there  *)
(* (is_ready; the stream routes commit to a run on this answer).             *)
IsTold(c) == ~call[c].told /\ call'[c].told
ReadyMeansUsable ==
    [][\A c \in Probes : IsTold(c) => call[c].reached /\ Usable(registry')]_vars

(* docs/18: after the HTTP server is started again the application recovers: *)
(* once all servers serve and somebody keeps asking, it is ready for good;   *)
(* where the enabled servers are there to offer all the expected tools.      *)
Asked == \E c \in Probes : Active(c)
Recovers == (<>[]AllServing /\ []<>Asked) => <>[](diag.ready)

=============================================================================
