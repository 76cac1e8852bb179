SPECIFICATION Spec
CONSTANTS
    MAX_PENDING_IMPULSES = 2
    MaxCalls = 4
    MaxOutages = 1
INVARIANTS
    LaterCallReplays
CHECK_DEADLOCK FALSE
