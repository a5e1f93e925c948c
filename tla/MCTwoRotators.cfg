SPECIFICATION Spec
CONSTANTS
    e1 = e1
    e2 = e2
    a = a
    b = b
    None = None
    Partial = Partial
    Entries = {e1, e2}
    Procs = {a, b}
    Rotators = {a, b}
    MaxRuns = 3
    MaxCrashes = 1
    MaxIoErrors = 0
    GoJournal = FALSE
INVARIANT NoEntryLost
