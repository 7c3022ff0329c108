------------------------------ MODULE Lifespan ------------------------------
(***************************************************************************)
(* One application process (core/lifespan.py, core/resources.py,           *)
(* core/persistence.py): the resources it opens one after the other when   *)
(* it starts, and closes in another order when it stops or when one of     *)
(* them fails to open.                                                     *)
(***************************************************************************)
EXTENDS Naturals, Sequences

CONSTANTS
    Configured,    \* the optional resources the settings ask for
    MaxStarts      \* bound: how often the process is started

\* Opened by the lifespan, by create_app_resources, by the lifespan again and
\* by the persistence context.  The MCP backend is not among them: one that fails
\* to start is replaced, and none of its sessions outlives a call.
OpenOrder == <<"verifier", "engine", "redis", "chroma", "travel", "llm", "saver", "store">>

Optional == {"verifier", "travel"}

ASSUME LifespanAssumption ==
    /\ Configured \subseteq Optional
    /\ MaxStarts \in Nat

Resources == {OpenOrder[i] : i \in 1..Len(OpenOrder)}

VARIABLES
    process,     \* where the process is
    opening,     \* how many of OpenOrder it has come past
    open,        \* resources that are open
    closing,     \* resources still to be closed, in order
    starts       \* how often it was started

lifespanVars == <<process, opening, open, closing, starts>>

LifespanTypeOK ==
    /\ process \in {"down", "starting", "serving", "closing"}
    /\ opening \in 0..Len(OpenOrder)
    /\ open \subseteq Resources
    /\ closing \in Seq(Resources)
    /\ starts \in 0..MaxStarts

LifespanInit ==
    /\ process = "down"
    /\ opening = 0
    /\ open = {}
    /\ closing = <<>>
    /\ starts = 0

-----------------------------------------------------------------------------
\* create_app_resources has returned: before, it closes what it made itself.
ResourcesReturned == opening >= 5

\* What is closed and in which order: the persistence stack, the verifier and
\* close_app_resources, or the handler of create_app_resources and the verifier.
\* What was not made is passed over.
CloseList ==
    IF ResourcesReturned
    THEN <<"store", "saver", "verifier", "llm", "travel", "chroma", "redis", "engine">>
    ELSE <<"travel", "chroma", "redis", "engine", "verifier">>

StartProcess ==
    /\ process = "down"
    /\ starts < MaxStarts
    /\ starts' = starts + 1
    /\ process' = "starting"
    /\ opening' = 0
    /\ UNCHANGED <<open, closing>>

OpenNext ==
    LET r == OpenOrder[opening + 1] IN
    /\ process = "starting"
    /\ opening < Len(OpenOrder)
    /\ opening' = opening + 1
    /\ open' = IF r \in Configured \union (Resources \ Optional) THEN open \union {r} ELSE open
    /\ UNCHANGED <<process, closing, starts>>

Serve ==
    /\ process = "starting"
    /\ opening = Len(OpenOrder)
    /\ process' = "serving"
    /\ UNCHANGED <<opening, open, closing, starts>>

\* A resource does not open, the index is missing in production, or the graph
\* cannot be built.
FailToStart ==
    /\ process = "starting"
    /\ process' = "closing"
    /\ closing' = CloseList
    /\ UNCHANGED <<opening, open, starts>>

StopProcess ==
    /\ process = "serving"
    /\ process' = "closing"
    /\ closing' = CloseList
    /\ UNCHANGED <<opening, open, starts>>

\* Mutant of CloseNext: an error of one resource ends the list.
CloseNextStrict ==
    /\ process = "closing"
    /\ closing # <<>>
    /\ open' = open \ {Head(closing)}
    /\ closing' \in {Tail(closing), <<>>}
    /\ UNCHANGED <<process, opening, starts>>

\* Errors are suppressed or collected: each resource is tried, and one whose
\* close raises is left to itself.
CloseNext ==
    /\ process = "closing"
    /\ closing # <<>>
    /\ open' = open \ {Head(closing)}
    /\ closing' = Tail(closing)
    /\ UNCHANGED <<process, opening, starts>>

ProcessEnds ==
    /\ process = "closing"
    /\ closing = <<>>
    /\ process' = "down"
    /\ UNCHANGED <<opening, open, closing, starts>>

LifespanNext ==
    \/ StartProcess \/ OpenNext \/ Serve \/ FailToStart \/ StopProcess
    \/ CloseNext \/ ProcessEnds

-----------------------------------------------------------------------------
\* However far a start came and whichever resources failed, a process that has
\* ended tried to close everything it had opened.
NothingStaysOpen == process = "down" => open = {}

=============================================================================
