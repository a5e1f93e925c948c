CONSTANTS
    p1 = p1
    p2 = p2
    Procs = {p1, p2}
    Ttl = 1
    MaxLifetime = 2
    Legacy = TRUE
    MaxTime = 2
    MaxCmds = 2
    MaxCrashes = 0
    MaxFaults = 0
    None = None
SPECIFICATION Spec
SYMMETRY ProcSymmetry
VIEW View
INVARIANT TypeOK
INVARIANT RevokeIsFinal
CHECK_DEADLOCK FALSE
PROPERTY PlaintextStaysGone
