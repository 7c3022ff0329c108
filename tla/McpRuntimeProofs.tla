--------------------------- MODULE McpRuntimeProofs ---------------------------
(***************************************************************************)
(* Safety of the tool discovery for any number of askers and servers.  The  *)
(* invariant Managed says who holds the lock, that cooldown and clock agree, *)
(* and that an asker past its port probe has a reachable server behind it.  *)
(***************************************************************************)
EXTENDS McpRuntime, TLAPS

\* The lock is held exactly by the asker that is discovering.
Locked == lock # None => call[lock].pc = "discover"

\* What the cooldown has left is what the clock still owes.
Paced == cooling + since >= Cooldown

\* An asker has met every state in which the server was reachable in its time,
\* and only one that has can leave the probe behind.
Reached == \A c \in Probes :
    /\ Active(c) /\ Reachable(offers) => call[c].reached
    /\ call[c].pc \in {"check", "lock", "discover"} => call[c].reached

Managed == TypeOK /\ OneDiscovery /\ Locked /\ Paced /\ DiagnosticsAgree /\ Reached

(* A discovery is diagnosed ready only if its registry has the tools.        *)
LEMMA DiagnosisAgrees ==
    ASSUME NEW got
    PROVE  /\ Diagnosed(got).ready => /\ Diagnosed(got).alive = Servers
                                      /\ Diagnosed(got).known = Registry(got)
                                      /\ Usable(Registry(got))
           /\ Diagnosed(got).ready <=> Diagnosed(got).error = "none"
  BY DEF Diagnosed, Registry

\* Diagnosis and registry of what servers may list have their types.
LEMMA DiagnosisTyped ==
    ASSUME NEW got \in SUBSET (Servers \X Names)
    PROVE  /\ Registry(got) \in SUBSET Names
           /\ Diagnosed(got) \in [ready : BOOLEAN, alive : SUBSET Servers,
                                  known : SUBSET Names,
                                  error : {"none", "duplicate_tool", "discovery_failed",
                                           "transport_unavailable"}]
  <1>1. Listed(got) \in SUBSET Names
    BY DEF Listed
  <1>2. Answering(got) \in SUBSET Servers
    BY DEF Answering
  <1>3. Registry(got) \in SUBSET Names
    BY <1>1 DEF Registry
  <1> QED
    BY <1>1, <1>2, <1>3 DEF Diagnosed, Usable

\* The shapes a question takes.
LEMMA NoCallTyped == \A yes \in BOOLEAN : [NoCall EXCEPT !.told = yes] \in CallState
  BY DEF NoCall, CallState

\* However a server behaves, it lists known names only.
LEMMA OffersTyped == \A s \in Servers : Offer(s) \subseteq
    [state : {"down", "hung", "up"}, tools : SUBSET Names]
  BY DEF Offer, Names

\* The first discovery of create_mcp_runtime establishes the invariant.
THEOREM InitManaged == Init => Managed
  <1> SUFFICES ASSUME Init PROVE Managed
    OBVIOUS
  <1> USE McpAssumption
  <1>1. PICK met \in SUBSET Servers :
            LET got == {p \in met \X Names : p[2] \in offers[p[1]].tools}
            IN registry = Registry(got) /\ diag = Diagnosed(got)
    BY DEF Init
  <1> DEFINE got == {p \in met \X Names : p[2] \in offers[p[1]].tools}
  <1>2. got \in SUBSET (Servers \X Names)
    OBVIOUS
  <1>3. registry = Registry(got) /\ diag = Diagnosed(got)
    BY <1>1
  <1> HIDE DEF got
  <1>4. \A c \in Probes : call[c] = NoCall
    BY DEF Init
  <1>5. TypeOK
    <2>1. offers \in [Servers -> [state : {"down", "hung", "up"}, tools : SUBSET Names]]
      BY OffersTyped DEF Init
    <2>2. call \in [Probes -> CallState]
      BY DEF Init, NoCall, CallState
    <2> QED
      BY <1>2, <1>3, <2>1, <2>2, DiagnosisTyped DEF Init, TypeOK
  <1>6. DiagnosticsAgree
    BY <1>3, DiagnosisAgrees DEF DiagnosticsAgree
  <1>7. OneDiscovery /\ Locked /\ Reached
    BY <1>4 DEF Init, OneDiscovery, Locked, Reached, Active, NoCall
  <1> QED
    BY <1>5, <1>6, <1>7 DEF Managed, Init, Paced

-----------------------------------------------------------------------------
(* Each action keeps the invariant.                                         *)

\* What moving or answering one question does to the table of questions.
LEMMA MoveIsTyped ==
    ASSUME TypeOK, NEW c \in Probes,
           NEW pc \in {"probe", "closed", "check", "lock", "discover"}, Goto(c, pc)
    PROVE  /\ call' \in [Probes -> CallState]
           /\ call'[c].pc = pc /\ call'[c].reached = call[c].reached
           /\ call'[c].told = call[c].told
           /\ \A d \in Probes \ {c} : call'[d] = call[d]
  <1>1. call[c] \in CallState
    BY DEF TypeOK
  <1> DEFINE moved == [call[c] EXCEPT !.pc = pc]
  <1>2. moved \in CallState /\ moved.pc = pc /\ moved.reached = call[c].reached
        /\ moved.told = call[c].told
    BY <1>1 DEF CallState
  <1>3. call' = [call EXCEPT ![c] = moved]
    BY DEF Goto
  <1> HIDE DEF moved
  <1> QED
    BY <1>2, <1>3 DEF TypeOK

LEMMA AnswerIsTyped ==
    ASSUME TypeOK, NEW c \in Probes, NEW yes \in BOOLEAN, Answered(c, yes)
    PROVE  /\ call' \in [Probes -> CallState]
           /\ call'[c].pc = "idle"
           /\ call'[c].told = yes
           /\ \A d \in Probes \ {c} : call'[d] = call[d]
  <1> DEFINE ended == [NoCall EXCEPT !.told = yes]
  <1>1. ended \in CallState
    BY NoCallTyped
  <1>2. call' = [call EXCEPT ![c] = ended]
    BY DEF Answered
  <1>3. ended.pc = "idle" /\ ended.told = yes
    BY DEF NoCall
  <1> HIDE DEF ended
  <1> QED
    BY <1>1, <1>2, <1>3 DEF TypeOK

\* A question moves on to a point that needs no lock, or is answered by one
\* that does not hold it: what the others rely on stays.
LEMMA MoveKeeps ==
    ASSUME Managed, NEW c \in Probes, call[c].pc # "discover",
           call' \in [Probes -> CallState],
           \A d \in Probes \ {c} : call'[d] = call[d],
           call'[c].pc # "discover",
           call'[c].pc # "idle" =>
               /\ Reachable(offers) => call'[c].reached
               /\ call'[c].pc \in {"check", "lock"} => call'[c].reached,
           UNCHANGED <<offers, lock>>
    PROVE  OneDiscovery' /\ Locked' /\ Reached'
  <1>1. lock # None => lock \in Probes /\ lock # c
    BY DEF Managed, TypeOK, Locked
  <1>2. OneDiscovery' /\ Locked'
    BY <1>1 DEF Managed, OneDiscovery, Locked
  <1>3. Reached'
    BY DEF Managed, Reached, Active
  <1> QED
    BY <1>2, <1>3

\* What a step that leaves diagnostics and registry alone keeps about them.
LEMMA AgreementStays ==
    ASSUME DiagnosticsAgree, UNCHANGED <<diag, registry>>
    PROVE  DiagnosticsAgree'
  BY DEF DiagnosticsAgree, Usable

\* A refresh with the lock free answers from the cache or starts the one discovery.
LEMMA RefreshKeeps ==
    ASSUME Managed, NEW c \in Probes, lock = None, call[c].pc \in {"check", "lock"},
           Refresh(c), UNCHANGED <<offers, registry, diag>>
    PROVE  Managed'
  <1> USE McpAssumption
  <1>a. TypeOK /\ DiagnosticsAgree /\ diag.ready \in BOOLEAN
    BY DEF Managed, TypeOK
  <1>b. DiagnosticsAgree'
    BY <1>a, AgreementStays
  <1>1. CASE cooling > 0 /\ Answered(c, diag.ready) /\ UNCHANGED <<lock, cooling, since>>
    <2>1. /\ call' \in [Probes -> CallState]
          /\ call'[c].pc = "idle"
          /\ \A d \in Probes \ {c} : call'[d] = call[d]
      BY <1>a, <1>1, AnswerIsTyped
    <2>2. OneDiscovery' /\ Locked' /\ Reached'
      BY <1>1, <2>1, MoveKeeps
    <2> QED
      BY <1>1, <1>b, <2>1, <2>2 DEF Managed, TypeOK, Paced
  <1>2. CASE /\ lock' = c /\ cooling' = Cooldown /\ since' = 0 /\ Goto(c, "discover")
    <2>1. /\ call' \in [Probes -> CallState]
          /\ call'[c].pc = "discover" /\ call'[c].reached = call[c].reached
          /\ \A d \in Probes \ {c} : call'[d] = call[d]
      BY <1>a, <1>2, MoveIsTyped
    <2>2. \A d \in Probes : call[d].pc # "discover"
      BY DEF Managed, OneDiscovery
    <2>3. OneDiscovery' /\ Locked'
      BY <1>2, <2>1, <2>2 DEF OneDiscovery, Locked
    <2>4. Reached'
      BY <2>1 DEF Managed, Reached, Active
    <2> QED
      BY <1>2, <1>b, <2>1, <2>3, <2>4 DEF Managed, TypeOK, Paced
  <1> QED
    BY <1>1, <1>2 DEF Refresh

\* A new question has met only the present state of the server.
LEMMA CallKeeps ==
    ASSUME Managed, NEW c \in Probes, Call(c)
    PROVE  Managed'
  <1>a. TypeOK /\ DiagnosticsAgree
    BY DEF Managed
  <1>1. PICK b \in BOOLEAN :
            call' = [call EXCEPT ![c] =
                [NoCall EXCEPT !.pc = IF Http \in Servers THEN "probe" ELSE "check",
                               !.bounded = b, !.slow = SomeHung,
                               !.reached = Reachable(offers)]]
    BY DEF Call
  <1> DEFINE begun == [NoCall EXCEPT !.pc = IF Http \in Servers THEN "probe" ELSE "check",
                                     !.bounded = b, !.slow = SomeHung,
                                     !.reached = Reachable(offers)]
  <1>2. /\ begun.pc = (IF Http \in Servers THEN "probe" ELSE "check")
        /\ begun.reached = Reachable(offers)
    BY DEF NoCall
  <1>3. begun \in CallState
    BY DEF NoCall, CallState, SomeHung, Reachable
  <1>4. call' = [call EXCEPT ![c] = begun]
    BY <1>1
  <1> HIDE DEF begun
  <1>5. /\ call' \in [Probes -> CallState]
        /\ call'[c] = begun
        /\ \A d \in Probes \ {c} : call'[d] = call[d]
    BY <1>a, <1>3, <1>4 DEF TypeOK
  <1>6. call'[c].pc \in {"check", "lock"} => call'[c].reached
    BY <1>2, <1>5 DEF Reachable
  <1>7. OneDiscovery' /\ Locked' /\ Reached'
    BY <1>2, <1>5, <1>6, MoveKeeps DEF Call, Active
  <1> QED
    BY <1>a, <1>5, <1>7, AgreementStays DEF Call, Managed, TypeOK, Paced

\* Only an open port, so a reachable server, lets a question pass the probe.
LEMMA ProbePortKeeps ==
    ASSUME Managed, NEW c \in Probes, ProbePort(c)
    PROVE  Managed'
  <1>a. TypeOK /\ DiagnosticsAgree /\ call[c].pc = "probe"
    BY DEF Managed, ProbePort
  <1>b. Reachable(offers) => call[c].reached
    BY <1>a DEF Managed, Reached, Active
  <1>1. \/ Goto(c, "check") /\ Reachable(offers)
        \/ Goto(c, "closed")
    BY DEF ProbePort, Reachable
  <1>2. /\ call' \in [Probes -> CallState]
        /\ call'[c].pc \in {"check", "closed"} /\ call'[c].reached = call[c].reached
        /\ \A d \in Probes \ {c} : call'[d] = call[d]
    BY <1>a, <1>1, MoveIsTyped
  <1>3. call'[c].pc \in {"check", "lock"} => call'[c].reached
    <2>1. CASE Goto(c, "check") /\ Reachable(offers)
      BY <2>1, <1>b, <1>2
    <2>2. CASE Goto(c, "closed")
      BY <2>2, <1>a, MoveIsTyped
    <2> QED
      BY <1>1, <2>1, <2>2
  <1>4. OneDiscovery' /\ Locked' /\ Reached'
    BY <1>a, <1>b, <1>2, <1>3, MoveKeeps DEF ProbePort
  <1> QED
    BY <1>a, <1>2, <1>4, AgreementStays DEF ProbePort, Managed, TypeOK, Paced

\* Marking the server unavailable gives up readiness together with its reason.
LEMMA MarkUnavailableKeeps ==
    ASSUME Managed, NEW c \in Probes, MarkUnavailable(c)
    PROVE  Managed'
  <1>a. TypeOK /\ call[c].pc = "closed" /\ Answered(c, FALSE)
    BY DEF Managed, MarkUnavailable
  <1>1. /\ call' \in [Probes -> CallState]
        /\ call'[c].pc = "idle"
        /\ \A d \in Probes \ {c} : call'[d] = call[d]
    BY <1>a, AnswerIsTyped
  <1>2. OneDiscovery' /\ Locked' /\ Reached'
    BY <1>a, <1>1, MoveKeeps DEF MarkUnavailable
  <1>3. /\ diag' \in [ready : BOOLEAN, alive : SUBSET Servers, known : SUBSET Names,
                      error : {"none", "duplicate_tool", "discovery_failed",
                               "transport_unavailable"}]
        /\ diag'.ready = FALSE /\ diag'.error = "transport_unavailable"
    BY <1>a DEF MarkUnavailable, Unavailable, TypeOK
  <1> QED
    BY <1>a, <1>1, <1>2, <1>3 DEF MarkUnavailable, Managed, TypeOK, Paced, DiagnosticsAgree

\* A question past its probe is answered, refreshes or queues for the lock.
LEMMA CheckCacheKeeps ==
    ASSUME Managed, NEW c \in Probes, CheckCache(c)
    PROVE  Managed'
  <1>a. /\ TypeOK /\ DiagnosticsAgree /\ call[c].pc = "check"
        /\ UNCHANGED <<offers, registry, diag>>
    BY DEF Managed, CheckCache
  <1>b. call[c].reached
    BY <1>a DEF Managed, Reached
  <1>1. CASE Answered(c, TRUE) /\ UNCHANGED <<lock, cooling, since>>
    <2>1. /\ call' \in [Probes -> CallState]
          /\ call'[c].pc = "idle"
          /\ \A d \in Probes \ {c} : call'[d] = call[d]
      BY <1>a, <1>1, AnswerIsTyped
    <2>2. OneDiscovery' /\ Locked' /\ Reached'
      BY <1>a, <1>1, <2>1, MoveKeeps
    <2> QED
      BY <1>a, <1>1, <2>1, <2>2, AgreementStays DEF Managed, TypeOK, Paced
  <1>2. CASE LockIsFree /\ Refresh(c)
    BY <1>a, <1>2, RefreshKeeps DEF LockIsFree
  <1>3. CASE Goto(c, "lock") /\ UNCHANGED <<lock, cooling, since>>
    <2>1. /\ call' \in [Probes -> CallState]
          /\ call'[c].pc = "lock" /\ call'[c].reached
          /\ \A d \in Probes \ {c} : call'[d] = call[d]
      BY <1>a, <1>b, <1>3, MoveIsTyped
    <2>2. OneDiscovery' /\ Locked' /\ Reached'
      BY <1>a, <1>3, <2>1, MoveKeeps
    <2> QED
      BY <1>a, <1>3, <2>1, <2>2, AgreementStays DEF Managed, TypeOK, Paced
  <1> QED
    BY <1>1, <1>2, <1>3 DEF CheckCache

\* What one server lists goes into the discovery alone.
LEMMA DiscoverServerKeeps ==
    ASSUME Managed, NEW c \in Probes, NEW s \in Servers, DiscoverServer(c, s)
    PROVE  Managed'
  <1>a. TypeOK /\ DiagnosticsAgree /\ call[c].pc = "discover" /\ call[c] \in CallState
    BY DEF Managed, TypeOK, DiscoverServer
  <1> DEFINE told == [call[c] EXCEPT !.met = @ \cup {s},
                                     !.got = @ \cup ({s} \X offers[s].tools)]
  <1>1. offers[s].tools \in SUBSET Names
    BY <1>a DEF TypeOK
  <1>2. told \in CallState /\ told.pc = call[c].pc /\ told.reached = call[c].reached
    BY <1>a, <1>1 DEF CallState
  <1>3. call' = [call EXCEPT ![c] = told]
    BY DEF DiscoverServer
  <1> HIDE DEF told
  <1>4. /\ call' \in [Probes -> CallState]
        /\ \A d \in Probes : call'[d].pc = call[d].pc /\ call'[d].reached = call[d].reached
    BY <1>a, <1>2, <1>3 DEF TypeOK
  <1>5. lock # None => lock \in Probes
    BY <1>a DEF TypeOK
  <1>6. OneDiscovery' /\ Locked' /\ Reached'
    BY <1>4, <1>5 DEF DiscoverServer, Managed, OneDiscovery, Locked, Reached, Active
  <1> QED
    BY <1>a, <1>4, <1>6, AgreementStays DEF DiscoverServer, Managed, TypeOK, Paced

\* An asker that held the lock, or waited beside it, is answered.
LEMMA AnswerReleases ==
    ASSUME Managed, NEW c \in Probes, NEW yes \in BOOLEAN, Answered(c, yes),
           lock' = (IF lock = c THEN None ELSE lock), UNCHANGED offers
    PROVE  call' \in [Probes -> CallState] /\ OneDiscovery' /\ Locked' /\ Reached'
  <1> USE McpAssumption
  <1>a. TypeOK /\ (lock # None => lock \in Probes)
    BY DEF Managed, TypeOK
  <1>1. /\ call' \in [Probes -> CallState]
        /\ call'[c].pc = "idle"
        /\ \A d \in Probes \ {c} : call'[d] = call[d]
    BY <1>a, AnswerIsTyped
  <1>2. OneDiscovery'
    BY <1>1 DEF Managed, OneDiscovery
  <1>3. Locked'
    BY <1>a, <1>1 DEF Managed, Locked
  <1>4. Reached'
    BY <1>1 DEF Managed, Reached, Active
  <1> QED
    BY <1>1, <1>2, <1>3, <1>4

\* The result replaces registry and diagnostics together and frees the lock.
LEMMA InstallKeeps ==
    ASSUME Managed, NEW c \in Probes, Install(c)
    PROVE  Managed'
  <1> DEFINE got == call[c].got
  <1>a. /\ TypeOK /\ lock = c /\ got \in SUBSET (Servers \X Names)
        /\ registry' = Registry(got) /\ diag' = Diagnosed(got)
    BY DEF Managed, TypeOK, CallState, Install, OneDiscovery
  <1>1. /\ registry' \in SUBSET Names
        /\ diag' \in [ready : BOOLEAN, alive : SUBSET Servers, known : SUBSET Names,
                      error : {"none", "duplicate_tool", "discovery_failed",
                               "transport_unavailable"}]
    BY <1>a, DiagnosisTyped
  <1>2. DiagnosticsAgree'
    <2>1. Usable(Registry(got)) => Usable(registry')
      BY <1>a
    <2> QED
      BY <1>a, <2>1, DiagnosisAgrees DEF DiagnosticsAgree, Usable
  <1>3. diag'.ready \in BOOLEAN
    BY <1>1
  <1>4. call' \in [Probes -> CallState] /\ OneDiscovery' /\ Locked' /\ Reached'
    BY <1>a, <1>3, AnswerReleases DEF Install
  <1> QED
    BY <1>a, <1>1, <1>2, <1>4 DEF Install, Managed, TypeOK, Paced

\* A deadline ends a question and frees the lock it held.
LEMMA GiveUpKeeps ==
    ASSUME Managed, NEW c \in Probes, GiveUp(c)
    PROVE  Managed'
  <1>1. call' \in [Probes -> CallState] /\ OneDiscovery' /\ Locked' /\ Reached'
    BY AnswerReleases DEF GiveUp
  <1> QED
    BY <1>1, AgreementStays DEF GiveUp, Managed, TypeOK, Paced

\* What a change of a server does to the question an asker is asking.
LEMMA ServeStays ==
    ASSUME TypeOK, NEW s \in Servers, Serve(s), NEW c \in Probes
    PROVE  /\ call'[c] \in CallState
           /\ call'[c].pc = call[c].pc /\ call'[c].told = call[c].told
           /\ call[c].reached => call'[c].reached
           /\ Active(c) /\ Reachable(offers') => call'[c].reached
  <1>1. call[c] \in CallState
    BY DEF TypeOK
  <1>2. CASE Active(c)
    <2> DEFINE lived == [call[c] EXCEPT !.slow = @ \/ offers'[s].state = "hung",
                                        !.reached = @ \/ Reachable(offers')]
    <2>1. /\ lived \in CallState /\ lived.pc = call[c].pc
          /\ lived.told = call[c].told
          /\ lived.reached = (call[c].reached \/ Reachable(offers'))
      BY <1>1 DEF CallState, Reachable
    <2>2. call'[c] = lived
      BY <1>2 DEF Serve
    <2> HIDE DEF lived
    <2> QED
      BY <2>1, <2>2
  <1>3. CASE ~Active(c)
    BY <1>1, <1>3 DEF Serve
  <1> QED
    BY <1>2, <1>3

\* Servers change only what askers have met.
LEMMA ServeKeeps ==
    ASSUME Managed, NEW s \in Servers, Serve(s)
    PROVE  Managed'
  <1>a. TypeOK /\ DiagnosticsAgree
    BY DEF Managed
  <1>1. offers' \in [Servers -> [state : {"down", "hung", "up"}, tools : SUBSET Names]]
    BY <1>a, OffersTyped DEF Serve, TypeOK
  <1>2. \A c \in Probes :
            /\ call'[c] \in CallState /\ call'[c].pc = call[c].pc
            /\ call[c].reached => call'[c].reached
            /\ Active(c) /\ Reachable(offers') => call'[c].reached
    BY <1>a, ServeStays
  <1>3. call' \in [Probes -> CallState]
    BY <1>2 DEF Serve
  <1>4. OneDiscovery' /\ Locked'
    BY <1>a, <1>2 DEF Serve, Managed, TypeOK, OneDiscovery, Locked
  <1>5. Reached'
    BY <1>2 DEF Managed, Reached, Active
  <1> QED
    BY <1>a, <1>1, <1>3, <1>4, <1>5, AgreementStays DEF Serve, Managed, TypeOK, Paced

\* The clock pays what the cooldown is owed.
LEMMA TickKeeps == Managed /\ Tick => Managed'
  <1> USE McpAssumption
  <1> SUFFICES ASSUME Managed, Tick PROVE Managed'
    OBVIOUS
  <1>1. TypeOK' /\ Paced'
    BY DEF Tick, Managed, TypeOK, Paced
  <1>2. OneDiscovery' /\ Locked' /\ Reached'
    BY DEF Tick, Managed, OneDiscovery, Locked, Reached, Active
  <1> QED
    BY <1>1, <1>2, AgreementStays DEF Tick, Managed

\* Every step keeps the invariant.
THEOREM NextManaged == Managed /\ [Next]_vars => Managed'
  <1> SUFFICES ASSUME Managed, [Next]_vars PROVE Managed'
    OBVIOUS
  <1>1. ASSUME NEW c \in Probes, Call(c) PROVE Managed'
    BY <1>1, CallKeeps
  <1>2. ASSUME NEW c \in Probes, ProbePort(c) PROVE Managed'
    BY <1>2, ProbePortKeeps
  <1>3. ASSUME NEW c \in Probes, MarkUnavailable(c) PROVE Managed'
    BY <1>3, MarkUnavailableKeeps
  <1>4. ASSUME NEW c \in Probes, CheckCache(c) PROVE Managed'
    BY <1>4, CheckCacheKeeps
  <1>5. ASSUME NEW c \in Probes, GetLock(c) PROVE Managed'
    BY <1>5, RefreshKeeps DEF GetLock
  <1>6. ASSUME NEW c \in Probes, NEW s \in Servers, DiscoverServer(c, s) PROVE Managed'
    BY <1>6, DiscoverServerKeeps
  <1>7. ASSUME NEW c \in Probes, Install(c) PROVE Managed'
    BY <1>7, InstallKeeps
  <1>8. ASSUME NEW c \in Probes, GiveUp(c) PROVE Managed'
    BY <1>8, GiveUpKeeps
  <1>9. ASSUME NEW s \in Servers, Serve(s) PROVE Managed'
    BY <1>9, ServeKeeps
  <1>10. CASE Tick
    BY <1>10, TickKeeps
  <1>11. CASE UNCHANGED vars
    <2>1. TypeOK' /\ OneDiscovery' /\ Locked'
      BY <1>11 DEF vars, Managed, TypeOK, OneDiscovery, Locked
    <2>2. Reached'
      BY <1>11 DEF vars, Managed, Reached, Active
    <2> QED
      BY <1>11, <2>1, <2>2, AgreementStays DEF vars, Managed, Paced
  <1> QED
    BY <1>1, <1>2, <1>3, <1>4, <1>5, <1>6, <1>7, <1>8, <1>9, <1>10, <1>11 DEF Next, Step

-----------------------------------------------------------------------------
(* What follows for the specification.                                      *)

(* The discovery state has its type in every reachable state.                *)
THEOREM McpTypeCorrect == Spec => []TypeOK
  <1>1. Managed => TypeOK
    BY DEF Managed
  <1> QED
    BY <1>1, InitManaged, NextManaged, PTL DEF Spec

(* refresh runs one discovery at a time, whoever is cancelled in it.         *)
THEOREM DiscoveriesAreAlone == Spec => []OneDiscovery
  <1>1. Managed => OneDiscovery
    BY DEF Managed
  <1> QED
    BY <1>1, InitManaged, NextManaged, PTL DEF Spec

(* Diagnostics, registry and invoker agree in every reachable state.         *)
THEOREM DiagnosticsAreTrue == Spec => []DiagnosticsAgree
  <1>1. Managed => DiagnosticsAgree
    BY DEF Managed
  <1> QED
    BY <1>1, InitManaged, NextManaged, PTL DEF Spec

(* A cooldown lies between the beginnings of any two discoveries.            *)
THEOREM DiscoveriesArePaced == Spec => DiscoveryIsPaced
  <1>1. ASSUME Managed, [Next]_vars
        PROVE  [\A c \in Probes : Starts(c) => since = Cooldown]_vars
    <2> SUFFICES ASSUME Next, NEW c \in Probes, Starts(c)
                 PROVE  since = Cooldown
      BY <1>1
    <2> USE McpAssumption
    <2>1. TypeOK /\ Paced
      BY <1>1 DEF Managed
    <2>2. ASSUME NEW d \in Probes, Refresh(d), call[d].pc # "discover"
          PROVE  since = Cooldown
      <3>1. CASE cooling > 0 /\ Answered(d, diag.ready)
        <4>1. diag.ready \in BOOLEAN
          BY <2>1 DEF TypeOK
        <4> QED
          BY <2>1, <3>1, <4>1, AnswerIsTyped DEF Starts
      <3>2. CASE cooling = 0
        BY <2>1, <3>2 DEF TypeOK, Paced
      <3> QED
        BY <2>2, <3>1, <3>2 DEF Refresh
    <2>3. ASSUME NEW d \in Probes, CheckCache(d) PROVE since = Cooldown
      <3>1. CASE Refresh(d)
        BY <2>2, <2>3, <3>1 DEF CheckCache
      <3>2. CASE Answered(d, TRUE)
        BY <2>1, <3>2, AnswerIsTyped DEF Starts
      <3>3. CASE Goto(d, "lock")
        BY <2>1, <3>3, MoveIsTyped DEF Starts
      <3> QED
        BY <2>3, <3>1, <3>2, <3>3 DEF CheckCache
    <2>4. ASSUME NEW d \in Probes, GetLock(d) PROVE since = Cooldown
      BY <2>2, <2>4 DEF GetLock
    <2>5. ASSUME NEW d \in Probes, Call(d) PROVE FALSE
      <3>1. PICK b \in BOOLEAN :
                call' = [call EXCEPT ![d] =
                    [NoCall EXCEPT !.pc = IF Http \in Servers THEN "probe" ELSE "check",
                                   !.bounded = b, !.slow = SomeHung,
                                   !.reached = Reachable(offers)]]
        BY <2>5 DEF Call
      <3>2. [NoCall EXCEPT !.pc = IF Http \in Servers THEN "probe" ELSE "check",
                           !.bounded = b, !.slow = SomeHung,
                           !.reached = Reachable(offers)].pc # "discover"
        BY DEF NoCall
      <3>3. call'[d].pc # "discover" /\ \A e \in Probes \ {d} : call'[e] = call[e]
        BY <2>1, <3>1, <3>2 DEF TypeOK
      <3> QED
        BY <3>3 DEF Starts
    <2>6. ASSUME NEW d \in Probes, ProbePort(d) PROVE FALSE
      BY <2>1, <2>6, MoveIsTyped DEF ProbePort, Starts
    <2>7. ASSUME NEW d \in Probes, MarkUnavailable(d) \/ GiveUp(d) PROVE FALSE
      BY <2>1, <2>7, AnswerIsTyped DEF MarkUnavailable, GiveUp, Starts
    <2>8. ASSUME NEW d \in Probes, NEW s \in Servers, DiscoverServer(d, s) PROVE FALSE
      BY <2>1, <2>8 DEF DiscoverServer, Starts, TypeOK
    <2>9. ASSUME NEW d \in Probes, Install(d) PROVE FALSE
      <3>1. diag'.ready \in BOOLEAN
        BY <2>1, <2>9, DiagnosisTyped DEF Install, TypeOK, CallState
      <3> QED
        BY <2>1, <2>9, <3>1, AnswerIsTyped DEF Install, Starts
    <2>10. ASSUME NEW s \in Servers, Serve(s) PROVE FALSE
      <3>1. call'[c].pc = call[c].pc
        BY <2>1, <2>10, ServeStays
      <3> QED
        BY <3>1 DEF Starts
    <2>11. CASE Tick
      BY <2>11 DEF Tick, Starts
    <2> QED
      BY <2>3, <2>4, <2>5, <2>6, <2>7, <2>8, <2>9, <2>10, <2>11 DEF Next, Step
  <1> QED
    BY <1>1, InitManaged, NextManaged, PTL DEF Spec, DiscoveryIsPaced

(* Who is told "ready" has had a reachable server and leaves a registry with *)
(* the tools behind: the answers come from CheckCache, Refresh and Install.  *)
THEOREM ReadyIsUsable == Spec => ReadyMeansUsable
  <1>1. ASSUME Managed, [Next]_vars
        PROVE  [\A c \in Probes : IsTold(c) => call[c].reached /\ Usable(registry')]_vars
    <2> SUFFICES ASSUME Next, NEW c \in Probes, IsTold(c)
                 PROVE  call[c].reached /\ Usable(registry')
      BY <1>1
    <2>1. TypeOK /\ diag.ready \in BOOLEAN /\ (diag.ready => Usable(registry))
      BY <1>1 DEF Managed, DiagnosticsAgree, TypeOK
    <2>2. \A d \in Probes : call[d].pc \in {"check", "lock", "discover"} => call[d].reached
      BY <1>1 DEF Managed, Reached
    <2>3. ASSUME NEW d \in Probes, NEW yes \in BOOLEAN, Answered(d, yes)
          PROVE  d = c /\ yes
      BY <2>1, <2>3, AnswerIsTyped DEF IsTold
    <2>4. ASSUME NEW d \in Probes,
                 NEW pc \in {"probe", "closed", "check", "lock", "discover"}, Goto(d, pc)
          PROVE  FALSE
      BY <2>1, <2>4, MoveIsTyped DEF IsTold
    <2>5. registry' = registry => (Usable(registry) => Usable(registry'))
      BY DEF Usable
    <2>6. ASSUME NEW d \in Probes, Refresh(d), call[d].pc \in {"check", "lock"},
                 registry' = registry
          PROVE  call[c].reached /\ Usable(registry')
      <3>1. Answered(d, diag.ready)
        BY <2>4, <2>6 DEF Refresh
      <3> QED
        BY <2>1, <2>2, <2>3, <2>5, <2>6, <3>1
    <2>7. ASSUME NEW d \in Probes, CheckCache(d) PROVE call[c].reached /\ Usable(registry')
      <3>1. CASE Refresh(d)
        BY <2>6, <2>7, <3>1 DEF CheckCache
      <3>2. CASE diag.ready /\ Answered(d, TRUE)
        BY <2>1, <2>2, <2>3, <2>5, <2>7, <3>2 DEF CheckCache
      <3> QED
        BY <2>4, <2>7, <3>1, <3>2 DEF CheckCache
    <2>8. ASSUME NEW d \in Probes, GetLock(d) PROVE call[c].reached /\ Usable(registry')
      BY <2>6, <2>8 DEF GetLock
    <2>9. ASSUME NEW d \in Probes, Install(d) PROVE call[c].reached /\ Usable(registry')
      <3> DEFINE got == call[d].got
      <3>1. /\ got \in SUBSET (Servers \X Names)
            /\ registry' = Registry(got) /\ diag' = Diagnosed(got)
            /\ Answered(d, diag'.ready) /\ call[d].pc = "discover"
        BY <2>1, <2>9 DEF Install, TypeOK, CallState
      <3>2. diag'.ready \in BOOLEAN
        BY <3>1, DiagnosisTyped
      <3>3. diag'.ready => Usable(Registry(got))
        BY <3>1, DiagnosisAgrees
      <3>4. Usable(Registry(got)) => Usable(registry')
        BY <3>1 DEF Usable
      <3> QED
        BY <2>2, <2>3, <3>1, <3>2, <3>3, <3>4
    <2>10. ASSUME NEW d \in Probes, Call(d) PROVE FALSE
      <3>1. PICK b \in BOOLEAN :
                call' = [call EXCEPT ![d] =
                    [NoCall EXCEPT !.pc = IF Http \in Servers THEN "probe" ELSE "check",
                                   !.bounded = b, !.slow = SomeHung,
                                   !.reached = Reachable(offers)]]
        BY <2>10 DEF Call
      <3>2. [NoCall EXCEPT !.pc = IF Http \in Servers THEN "probe" ELSE "check",
                           !.bounded = b, !.slow = SomeHung,
                           !.reached = Reachable(offers)].told = FALSE
        BY DEF NoCall
      <3>3. call'[d].told = FALSE /\ \A e \in Probes \ {d} : call'[e] = call[e]
        BY <2>1, <3>1, <3>2 DEF TypeOK
      <3> QED
        BY <3>3 DEF IsTold
    <2>11. ASSUME NEW d \in Probes, ProbePort(d) PROVE FALSE
      BY <2>4, <2>11 DEF ProbePort
    <2>12. ASSUME NEW d \in Probes, MarkUnavailable(d) \/ GiveUp(d) PROVE FALSE
      BY <2>3, <2>12 DEF MarkUnavailable, GiveUp
    <2>13. ASSUME NEW d \in Probes, NEW s \in Servers, DiscoverServer(d, s) PROVE FALSE
      <3> DEFINE told == [call[d] EXCEPT !.met = @ \cup {s},
                                         !.got = @ \cup ({s} \X offers[s].tools)]
      <3>1. told.told = call[d].told
        BY <2>1 DEF TypeOK, CallState
      <3>2. call' = [call EXCEPT ![d] = told]
        BY <2>13 DEF DiscoverServer
      <3> HIDE DEF told
      <3> QED
        BY <2>1, <3>1, <3>2 DEF IsTold, TypeOK
    <2>14. ASSUME NEW s \in Servers, Serve(s) PROVE FALSE
      <3>1. call'[c].told = call[c].told
        BY <2>1, <2>14, ServeStays
      <3> QED
        BY <3>1 DEF IsTold
    <2>15. CASE Tick
      BY <2>15 DEF Tick, IsTold
    <2> QED
      BY <2>7, <2>8, <2>9, <2>10, <2>11, <2>12, <2>13, <2>14, <2>15 DEF Next, Step
  <1> QED
    BY <1>1, InitManaged, NextManaged, PTL DEF Spec, ReadyMeansUsable
==============================================================================
