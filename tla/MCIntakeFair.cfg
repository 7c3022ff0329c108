SPECIFICATION FairSpec
CONSTANTS
    r1 = r1
    r2 = r2
    empty = empty
    located = located
    trip = trip
    tripNat = tripNat
    Requests <- MCRequests
    Partial <- MCPartial
    Complete <- MCComplete
    WithNationality <- MCWithNationality
    EmptyDraft <- empty
    Envs = {{"overlap"}, {"store_error", "restart"}}
    MaxVersion <- MCMaxVersion
INVARIANTS
    PlanningHasWorkflow
    RunningIsVisible
    PlannedHasPlan
PROPERTIES
    PlanningEnds
    KeepsLifecycle
CHECK_DEADLOCK FALSE
