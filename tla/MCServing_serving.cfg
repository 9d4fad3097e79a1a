SPECIFICATION Spec
CONSTANTS
    Unset = Unset
    Bad = Bad
    MaxTargetWeight = 3
    MaxTargetWeightTotal = 7
    MaxRetryBodyBytes = 1
    MaxRetryBudget = 1
    MaxHealthFailures = 2
    MaxHealthCooldown = 5
    MaxDuration = 10
    Malformed = Malformed
    MaxLimitRate = 2
    MaxLimitBurst = 2
    MaxHealthProbeDuration = 5
    MaxGeneratedBodyBytes = 1
    MaxDirectTimeout = 8
    DefaultDial = 5
    DefaultHeader = 6
    RouteIndexThreshold = 1
    Reserved = {"?"}
    MaxEdits = 2
    Texts <- MCTexts
    Traffic <- MCTraffic
    Answers <- MCAnswers
INVARIANTS
    ScheduleIsFair
    BackoffFollowsCap
    TransportIsOwn
    LoadedBuilds
    RefusedLeavesNothing
    SiteIsMostSpecific
    SelectionAgrees
    PathReachesUpstream
    NextHopAgrees
    OneID
    RecordTellsTheResponse
CHECK_DEADLOCK FALSE
