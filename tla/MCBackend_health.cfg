SPECIFICATION Spec
CONSTANTS
    r1 = r1
    r2 = r2
    r3 = r3
    r4 = r4
    Requests <- TwoRequests
    N = 2
    Schedule <- WeightedSchedule
    CursorValues = 4
    HasHealth = TRUE
    Fail = 1
    Cool = 2
    Tries = 2
    HasRetry = FALSE
    Eligible <- TwoRequests
    Buffered = {}
    Deadline = 0
    BudgetMax = 0
    BudgetWindow = 1
    Backoff <- NoBackoff
    Jitter = FALSE
    StrayInformational = FALSE
    MaxClock = 4
SYMMETRY TwoSymmetric
INVARIANTS
    TypeOK
    RetryFallsBackLast
PROPERTIES
    ImplementsHealthPromise
CHECK_DEADLOCK FALSE
