SPECIFICATION Spec
CONSTANTS
    Chunks = 1
INVARIANTS
    ReferencesReleased
CHECK_DEADLOCK FALSE
