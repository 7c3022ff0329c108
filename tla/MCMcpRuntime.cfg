SPECIFICATION FairSpec
CONSTANTS
    Probes = {c1, c2}
    Servers <- MCServers
    Http = "travel"
    Expected <- MCExpected
    Own <- MCOwn
    Menus <- MCMenus
    RequireAll = TRUE
    Cooldown = 1
    None = None
INVARIANTS
    DiagnosticsAgree
PROPERTIES
    DiscoveryIsPaced
    ReadyMeansUsable
    Recovers
CHECK_DEADLOCK FALSE
