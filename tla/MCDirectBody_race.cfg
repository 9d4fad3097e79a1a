SPECIFICATION FairSpec
CONSTANTS
    Chunks = 2
INVARIANTS
    ClosedOnce
    NoLateExpiry
PROPERTIES
    ImplementsBodyPromise
    ReadsEnd
    EndedBodiesClose
CHECK_DEADLOCK FALSE
