SPECIFICATION FairSpec
CONSTANTS
    Seeds <- MCStrictSeeds
    ExitCodes = {0}
PROPERTIES
    WorkloadStarts
