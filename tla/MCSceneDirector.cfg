SPECIFICATION FairSpec
CONSTANTS
    s1 = s1
    s2 = s2
    s3 = s3
    s4 = s4
    Scenes <- MCScenes
    NoScene = NoScene
INVARIANTS
    TypeOK
    OwnedOnce
    RunningSceneIsLive
    SwapTracksTheStack
    ActiveIsCurrent
PROPERTIES
    DoomedIsDeleted
    ImplementsSceneStack
