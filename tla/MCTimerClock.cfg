SPECIFICATION FairSpec
CONSTANTS
    repeat = repeat
    always = always
    NULL = NULL
    Timers <- MCTimers
    Interval <- MCInterval
    Repeating <- MCTimers
    Priority <- MCPriority
    Deltas = {0, 1, 5}
    MaxTime = 6
INVARIANTS
    TypeOK
    DeltasAddUp
    NeverAheadOfTime
    BacklogIsDropped
PROPERTIES
    CanceledStaysSilent
    CanceledIsDeleted
    UpdateEnds
