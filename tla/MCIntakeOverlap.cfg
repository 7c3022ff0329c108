SPECIFICATION Spec
CONSTANTS
    r1 = r1
    r2 = r2
    empty = empty
    located = located
    trip = trip
    tripNat = tripNat
    Requests <- MCRequests
    Partial <- MCPartial
    Complete <- MCComplete
    WithNationality <- MCWithNationality
    EmptyDraft <- empty
    Envs = {{"overlap", "store_error", "cancel", "restart", "long_preferences", "direct_plans"}}
    MaxVersion <- MCMaxVersion
INVARIANTS
    PlannedIsBacked
    RunsAreConsented
SYMMETRY Symmetry
CHECK_DEADLOCK FALSE
