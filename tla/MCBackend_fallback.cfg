SPECIFICATION Spec
CONSTANTS
    r1 = r1
    r2 = r2
    r3 = r3
    r4 = r4
    Requests <- FourRequests
    N = 2
    Schedule <- NoSchedule
    CursorValues = 4
    HasHealth = TRUE
    Fail = 1
    Cool = 2
    Tries = 1
    HasRetry = FALSE
    Eligible <- FourRequests
    Buffered = {}
    Deadline = 0
    BudgetMax = 0
    BudgetWindow = 1
    Backoff <- NoBackoff
    Jitter = FALSE
    StrayInformational = FALSE
    MaxClock = 3
SYMMETRY FourSymmetric
INVARIANTS
    FirstFallsBackLast
CHECK_DEADLOCK FALSE
