SPECIFICATION FairSpec
CONSTANTS
    r1 = r1
    r2 = r2
    r3 = r3
    r4 = r4
    Requests = {r1}
    N = 3
    Schedule <- NoSchedule
    CursorValues = 4
    HasHealth = TRUE
    Fail = 1
    Cool = 2
    Tries = 3
    HasRetry = TRUE
    Eligible = {r1}
    Buffered = {r1}
    Deadline = 3
    BudgetMax = 2
    BudgetWindow = 2
    Backoff <- TwoDelays
    Jitter = TRUE
    StrayInformational = TRUE
    MaxClock = 2
INVARIANTS
    BodiesClosedOnce
PROPERTIES
    DeadlineEndsSequence
CHECK_DEADLOCK FALSE
