SPECIFICATION Spec
CONSTANTS
    r1 = r1
    r2 = r2
    empty = empty
    located = located
    trip = trip
    tripNat = tripNat
    Requests <- MCRequests
    Partial <- MCPartial
    Complete <- MCComplete
    WithNationality <- MCWithNationality
    EmptyDraft <- empty
    Envs = {{"cancel"}}
    MaxVersion <- MCMaxVersion
PROPERTIES
    VersionAdvances
CHECK_DEADLOCK FALSE
