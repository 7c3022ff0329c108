SPECIFICATION Spec
CONSTANTS
    None = None
    t1 = t1
    t2 = t2
    Trips <- MCTrips
    Critical = {"flights", "hotels"}
    Optional = {"weather"}
    Rounds = {1, 3}
    Budgets = {11, 14}
    MaxRuns = 2
INVARIANTS
    PlanIsFresh
    OutcomeIsHonest
    PlanIsReviewed
    RoundsAreBounded
    HistoryIsOfThisRun
    FeedbackIsApplied
    AnswersAgree
PROPERTIES
    KeepsPromise
CHECK_DEADLOCK FALSE
