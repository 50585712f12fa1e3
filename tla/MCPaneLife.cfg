CONSTANTS
    s1 = s1
    s2 = s2
    w1 = w1
    w2 = w2
    p1 = p1
    p2 = p2
    p3 = p3
    c1 = c1
    Sessions = {s1, s2}
    Windows = {w1, w2}
    Panes = {p1, p2, p3}
    Clients = {c1}
    Viewers = {p3}
    GlobalRemain = FALSE
    OntoTheLast = FALSE
    AcrossSessions = FALSE
    Suspends = TRUE
    MaxMaking = 1
    Remainers = {s2}
    None = None
SPECIFICATION FairSpec
INVARIANTS
    OnePlace
    LookedAtIsListed
PROPERTIES
    
    EmptySessionsGo
CHECK_DEADLOCK FALSE
