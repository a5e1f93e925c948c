SPECIFICATION WSpec
CONSTANTS
    e1 = e1
    e2 = e2
    a = a
    w1 = w1
    w2 = w2
    None = None
    Partial = Partial
    Entries = {e1, e2}
    Procs = {a}
    Rotators = {a}
    MaxRuns = 2
    MaxCrashes = 1
    MaxIoErrors = 1
    GoJournal = FALSE
    Writers = {w1}
    MaxWrites = 1
SYMMETRY EntrySymmetry
INVARIANTS
    WTypeOK
    QuietWritesSurvive
