CONSTANTS
    MaxUp = 3
    MaxDown = 2
    MaxFaults = 0
    Cap = 4
SPECIFICATION Spec
INVARIANTS
    TornIsKept
