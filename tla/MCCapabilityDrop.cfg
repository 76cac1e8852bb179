SPECIFICATION Spec
CONSTANTS
    Caps <- MCCaps
    Names <- MCNames
    Number <- MCNumber
    Unknown <- MCUnknown
    LastCap = 40
    MaxExecs = 1
    KernelFails = TRUE
INVARIANTS
    DroppedForGood
    AllOrNothing
    OnlyRequestedDropped
