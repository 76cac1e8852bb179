SPECIFICATION FairSpec
CONSTANTS
    Seeds <- MCSeeds
    ExitCodes = {0, 125}
INVARIANTS
    TypeOK
    NoExecAfterPartialIsolation
    EvidenceIsTrue
    
    NothingLeftBehind
    ResultAgreesWithStore
    LifecycleOrder
PROPERTIES
    StatusMovesForward
    BlockedTaskResolves
    RunReturns
    
