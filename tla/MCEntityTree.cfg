CONSTANTS
    Entities = {e1, e2, e3, e4}
    NoEntity = NoEntity
    Orders <- MCOrders
    MaxCalls = 6
    MaxLength = 4
SPECIFICATION Spec
INVARIANTS
    TypeOK
    NoDeletedInTree
    TreeIsSound
SYMMETRY MCSymmetry
CHECK_DEADLOCK FALSE
