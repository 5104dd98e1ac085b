CONSTANTS
    Sizes <- MCSingle
    Page = 1
    MaxFaults = 0
SPECIFICATION Spec
INVARIANTS
    FinishedIsWhole
