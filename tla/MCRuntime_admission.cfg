SPECIFICATION Spec
CONSTANTS
    NanotokensPerToken = 2
    MaxInt64 = 7
    r1 = r1
    r2 = r2
    r3 = r3
    Requests <- ThreeRequests
    Contents <- AdmissionContents
    MaxEdits = 1
    MaxClock = 2
SYMMETRY ThreeSymmetric
INVARIANTS
    TypeOK
    AdmissionWindow
    BucketFollowsLimit
PROPERTIES
    NeverReverts
    DecidedByCurrent
    ImplementsAdmission
CHECK_DEADLOCK FALSE
