SPECIFICATION FairSpec
CONSTANTS
    c1 = c1
    c2 = c2
    c3 = c3
    Conns = {c1, c2, c3}
    MaxConns = 2
    MaxMcp = 1
    MaxRequests = 2
INVARIANTS
    TypeOK
    DecisionStands
    NoIdleSurvivesDrain
    InFlightKeepTransport
    NoCopyForgotten
PROPERTY DrainsByItself
CHECK_DEADLOCK FALSE
