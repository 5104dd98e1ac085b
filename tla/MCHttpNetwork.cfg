SPECIFICATION FairSpec
CONSTANTS
    r1 = r1
    r2 = r2
    Requests <- MCRequests
    MaxStarts <- MCMaxStarts
    Early = {}
INVARIANTS
    TypeOK
    SemaphoreCountsQueue
    AliveWhenUsed
PROPERTIES
    EveryStartIsAnswered
    ImplementsBroker
