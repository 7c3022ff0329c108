-------------------------------- MODULE MCPeers --------------------------------
(* Small instances of what the service meets on its edges: the callers with      *)
(* their keys and windows, the page, the travel server with its vendors, and the *)
(* store of preferences.                                                         *)
(* A behaviour follows one of them, for none reads what another one writes;   *)
(* the state of the others stays as it began.                                    *)
EXTENDS Admission, Browser, SearchCall, Preferences, TLC

CONSTANTS r1, r2, r3, alice, bob, k1, k2, t1, t2, v1, v2, v3

VARIABLE part

peerVars == <<serviceVars, browserVars, vars, memoryVars, part>>

MCUserOf == r1 :> alice @@ r2 :> alice @@ r3 :> bob
MCLimit == [intake_minute |-> 1, intake_day |-> 2, global_intake |-> 2,
            plan_day |-> 1, global_plan |-> 2]

\* The configurations of the two processes of a search.  The application selects
\* a test environment, the server that one, another vendor or a live environment.
MCSelected == [flights |-> {"demo", "duffel_test"},
               hotels |-> {"demo", "duffel_test", "liteapi_sandbox"},
               weather |-> {"demo"}, route |-> {"demo"}]
MCLive == [flights |-> {"duffel_live"}, hotels |-> {"liteapi_production"},
           weather |-> {}, route |-> {}]
MCConfigs == {c \in Config :
    /\ c.kind \in DOMAIN MCSelected
    /\ c.mine \in MCSelected[c.kind]
    /\ c.theirs \in MCSelected[c.kind] \union MCLive[c.kind]
    /\ c.demo => /\ c.mine = "demo" /\ ~c.mineFallback
                 /\ c.theirs \in {"demo", "liteapi_sandbox"}
    /\ c.kind \notin {"flights", "hotels"} => ~c.mineFallback /\ ~c.theirsFallback
    /\ ~c.mcp => c.mine = c.theirs /\ c.mineFallback = c.theirsFallback /\ c.tools = "listed"
    /\ c.tools # "listed" => c.theirs = c.mine}
MCRetries == [duffel |-> 1, liteapi |-> 1]
AnyConfig == CHOOSE c \in MCConfigs : TRUE

\* Of what differs in its name only, one order will do: requests that no window
\* limits name k1 first, r1 and r2 are of one user, and v1 is deleted.
MCInit ==
    /\ part \in {"process", "keys", "windows", "page", "search", "memory"}
    /\ ServiceInit
    /\ \A r \in Requests :
         /\ part # "windows" => req[r].operation = "none"
         /\ part # "keys" => req[r].kid = k1
    /\ req[r2].kid = k1 => req[r1].kid = k1
    /\ req[r3].kid = k1 => req[r2].kid = k1
    /\ req[r2].operation = "none" => req[r1].operation = "none"
    /\ req[r2].operation = "intake" => req[r1].operation # "plan"
    /\ BrowserInit
    /\ part # "page" => thread = t1 /\ server = [t \in Threads |-> "collecting"]
    /\ Init
    /\ part # "search" => conf = AnyConfig
    /\ MemoryInit
    /\ part # "memory" => \A r \in Runs : node[r].asked = {}
    /\ \A r \in Runs : Cardinality(node[r].asked) <= 2
    /\ \A d \in Removals : removal[d].value = v1

\* The clocks of the key cache and of the windows never meet in the code.  A
\* process closes when no request is on its way, so it closes on its own here.
MCService ==
    /\ ServiceNext
    /\ \/ part = "process" /\ UNCHANGED <<req, published, clocks>>
       \/ part = "keys" /\ process' # "closing" /\ UNCHANGED <<minute, day>>
       \/ part = "windows" /\ process' # "closing" /\ UNCHANGED <<now, published>>
    /\ UNCHANGED <<browserVars, vars, memoryVars, part>>

MCPage == part = "page" /\ BrowserNext /\ UNCHANGED <<serviceVars, vars, memoryVars, part>>

MCSearch == part = "search" /\ Next /\ UNCHANGED <<serviceVars, browserVars, memoryVars, part>>

MCMemory == part = "memory" /\ MemoryNext /\ UNCHANGED <<serviceVars, browserVars, vars, part>>

MCNext == MCService \/ MCPage \/ MCSearch \/ MCMemory

\* What BrowserFairness and Fairness ask for: the page and the network go on, and
\* so does a search.
MCProgress ==
    \/ part = "page" /\ (Page \/ Network) /\ UNCHANGED <<serviceVars, vars, memoryVars, part>>
    \/ part = "search" /\ Progress /\ UNCHANGED <<serviceVars, browserVars, memoryVars, part>>

MCSpec == MCInit /\ [][MCNext]_peerVars /\ WF_peerVars(MCProgress)

SearchEndsHere == part = "search" => SearchEnds
=============================================================================
