SPECIFICATION Spec
CONSTANTS
    r1 = r1
    r2 = r2
    r3 = r3
    r4 = r4
    Requests <- ThreeRequests
    N = 2
    Schedule <- NoSchedule
    CursorValues = 4
    HasHealth = FALSE
    Fail = 2
    Cool = 2
    Tries = 2
    HasRetry = TRUE
    Eligible <- ThreeRequests
    Buffered = {}
    Deadline = 0
    BudgetMax = 1
    BudgetWindow = 2
    Backoff <- NoBackoff
    Jitter = FALSE
    StrayInformational = FALSE
    MaxClock = 2
SYMMETRY ThreeSymmetric
INVARIANTS
    BudgetKept
    FinalTimeoutIs504
PROPERTIES
    NoRetryAfterInformational
    MatchingResponsesAreRetried
CHECK_DEADLOCK FALSE
