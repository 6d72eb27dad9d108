CONSTANTS
    MaxUp = 3
    MaxDown = 2
    MaxFaults = 1
    Cap = 4
SPECIFICATION FairSpec
INVARIANTS
    RefusedForCause
PROPERTIES
    ImplementsChannel
    EverythingArrives
