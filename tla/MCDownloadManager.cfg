CONSTANTS
    Sizes <- MCGrowing
    Page = 0
    MaxFaults = 3
SPECIFICATION FairSpec
INVARIANTS
    TypeOK
    FinishedIsWhole
    DoneIsFresh
PROPERTIES
    ImplementsPublishedFile
    EventuallyFresh
