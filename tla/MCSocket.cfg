CONSTANTS
    Writers = {w1, w2, v}
    NoWriter = NoWriter
    Visitors = {v}
    Drainers = {d}
    Sizes = {1, 2}
    TooSlow = 2
SPECIFICATION SocketSpec
INVARIANTS
    NoTurnLost
    Backlog
    NoDrainerForgotten
    StreamInStep
    OwnPacketsWhole
PROPERTIES
    InOrder
    RefinesTurnSpec
    UrgentGetsTheTurn
CHECK_DEADLOCK FALSE
