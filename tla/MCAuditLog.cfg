SPECIFICATION Spec
CONSTANTS
    MaxSize = 2
    MaxBackups = 1
    MaxAge = 1
    MaxEntries = 4
    MaxTime = 1
    MaxKeys = 3
    MaxCrashes = 2
    MaxFaults = 1
INVARIANTS TypeOK AlarmsExplained 
CHECK_DEADLOCK FALSE
