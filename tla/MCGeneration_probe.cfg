SPECIFICATION FairGenerationSpec
CONSTANTS
    r1 = r1
    r2 = r2
    Requests = {r1}
    N = 2
    Schedule <- NoSchedule
    CursorValues = 4
    HasHealth = TRUE
    Fail = 2
    Cool = 2
    Tries = 1
    HasRetry = FALSE
    Eligible = {}
    Buffered = {}
    Deadline = 0
    BudgetMax = 0
    BudgetWindow = 1
    Backoff <- NoBackoff
    Jitter = FALSE
    StrayInformational = FALSE
    MaxClock = 3
    Every = 1
    Timeout = 1
INVARIANTS
    FirstFallsBackLast
    RetirementSilencesProbes
PROPERTIES
    ImplementsHealthPromise
    CyclesAreSpaced
    CloseEnds
CHECK_DEADLOCK FALSE
