---------------------------- MODULE MCMcpRuntime ----------------------------
(* Two askers, the local and the travel server with one tool each; the       *)
(* travel server may list its own tool or the local server's as well.        *)
EXTENDS McpRuntime

MCServers == {"local", "travel"}
MCOwn == [s \in MCServers |-> IF s = "local" THEN {"route"} ELSE {"flights"}]
MCExpected == {"route", "flights"}
MCMenus == [s \in MCServers |->
    IF s = "local" THEN {{"route"}} ELSE {{"flights"}, {"flights", "route"}}]
=============================================================================
