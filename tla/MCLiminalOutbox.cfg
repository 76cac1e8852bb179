SPECIFICATION Spec
CONSTANTS
    MAX_PENDING_IMPULSES = 3
    MaxCalls = 5
    MaxOutages = 2
INVARIANTS
    NothingLost
    
PROPERTIES
    ImplementsAuditLog
CHECK_DEADLOCK FALSE
