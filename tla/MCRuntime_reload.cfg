SPECIFICATION FairSpec
CONSTANTS
    NanotokensPerToken = 2
    MaxInt64 = 7
    r1 = r1
    r2 = r2
    r3 = r3
    Requests = {r1}
    Contents <- ReloadContents
    MaxEdits = 3
    MaxClock = 1
INVARIANTS
    CertificatePaired
    ReplacedRoutersAreClosed
PROPERTIES
    ConfigurationConverges
    RequestsAreDecided
CHECK_DEADLOCK FALSE
