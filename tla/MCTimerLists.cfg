SPECIFICATION Spec
CONSTANTS
    first = first
    second = second
    once = once
    NULL = NULL
    Timers <- MCTimers
    Interval <- MCInterval
    Repeating <- MCRepeating
    Priority <- MCPriority
    Deltas = {0, 3}
    MaxTime = 3
INVARIANTS
    OwnedOnce
    RunningTimerIsThere
    PriorityOrder
