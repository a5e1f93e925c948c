SPECIFICATION FairSpec
CONSTANTS
    e1 = e1
    e2 = e2
    a = a
    b = b
    None = None
    Partial = Partial
    Entries = {e1, e2}
    Procs = {a, b}
    Rotators = {a}
    MaxRuns = 2
    MaxCrashes = 2
    MaxIoErrors = 1
    GoJournal = TRUE
INVARIANTS
    TypeOK
    NoEntryLost
    NeverRefuses
    CleanAtRest
    SuccessMeansResealed
    ManifestAtRest
PROPERTIES
    BackupOutlivesNeed
    RefinesReseal
    JournalSettles
