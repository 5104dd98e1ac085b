SPECIFICATION Spec
CONSTANTS
    both = both
    short = short
    endless = endless
    nothing = nothing
    e1 = e1
    e2 = e2
    NULL = NULL
    Anims <- MCAnims
    Entities <- MCEntities
    Targets <- MCTargets
    Name <- MCName
    Duration <- MCDuration
    Repeat <- MCRepeat
    NestedStopAll = TRUE
    MaxDepth = 3
INVARIANTS
    LoopsStayInTheirLists
