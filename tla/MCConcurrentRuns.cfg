SPECIFICATION Spec
CONSTANTS
    r1 = r1
    r2 = r2
    r3 = r3
    Runs = {r1, r2, r3}
    Seeds <- MCSeeds
    Builds = {"debug", "release"}
    Word = 16777216
    MaxFaults = 2
    None = None
SYMMETRY MCSymmetry
INVARIANTS
    Confined
    LimitsAsDeclared
    LeftoversAreHarmless
    LastRunRemovesCgroup
