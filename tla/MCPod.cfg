SPECIFICATION FairSpec
CONSTANTS
    N = 2
    Supervised <- MCSupervised
    ExitCodes = {0, 1}
    MaxPodExits = 1
    GracePolls = 2
    KillPolls = 2
    Faults = {"store", "kernel", "oom", "crash"}
INVARIANTS
    
    ReportedExitIsTrue
    ExitReportedOnce
    KillOnlyAfterTimeout
    
PROPERTIES
    StopReturns
