SPECIFICATION FairStreamSpec
CONSTANTS
    None = None
    t1 = t1
    t2 = t2
    Trips <- MCTrips
    Critical = {"flights"}
    Optional = {}
    Rounds = {2}
    Budgets = {10, 12}
    MaxRuns = 2
    QueueSizes = {2}
INVARIANTS
    NothingIsLost
    OneTerminalEvent
    TerminalIsTheCheckpoint
    ReviewsAreTold
    NothingRunsOn
PROPERTIES
    ServesClient
    StreamsEnd
CHECK_DEADLOCK FALSE
