CONSTANTS
    p1 = p1
    p2 = p2
    Procs = {p1}
    Ttl = 1
    MaxLifetime = 2
    Legacy = TRUE
    MaxTime = 3
    MaxCmds = 3
    MaxCrashes = 2
    MaxFaults = 1
    None = None
SPECIFICATION Spec
VIEW View
INVARIANT PromptMeansEmpty
CHECK_DEADLOCK FALSE
