CONSTANTS
    Textures = {t1, t2}
    NoTexture = NoTexture
    Files <- MCFiles
    NoFile = ""
    Kind <- MCKind
    Alternative <- MCAlternative
SPECIFICATION FairSpec
INVARIANTS
    TypeOK
    LivesWhileUsed
    OnePerFile
PROPERTIES
    EveryLoadEnds
CHECK_DEADLOCK FALSE
