CONSTANTS
    w1 = w1
    w2 = w2
    w3 = w3
    c1 = c1
    c2 = c2
    Windows = {w1, w2, w3}
    Clients = {c1, c2}
    BaseIndex = 0
    MaxIndex = 3
    MayEmpty = FALSE
    LinksOnTaken = FALSE
    None = None
SPECIFICATION Spec
INVARIANTS
    UniqueIndexes
    LooksAtListed
PROPERTIES
    OnlyOwnFocus
    ClosingReturns
SYMMETRY Symmetry
CHECK_DEADLOCK FALSE
