SPECIFICATION Spec
CONSTANTS
    c1 = c1
    c2 = c2
    d1 = d1
    d2 = d2
    r1 = r1
    r2 = r2
    k1 = k1
    k2 = k2
    None = None
    Wrong = Wrong
    Codes = {c1, c2}
    Devices = {d1, d2}
    Reqs = {r1, r2}
    Clis = {k1, k2}
    CodeTtl = 1
    SessionTtl = 1
    MaxFailed = 2
    Cooldown = 1
    MaxTime = 2
    MaxMisses = 3
    MaxRevokes = 2
    MaxRestarts = 1
    MaxFaults = 1
SYMMETRY Symmetry
VIEW View
INVARIANTS
    TypeOK
    MissesSpaced
    RevokedMeansRefused
    EnrolledAccepted
    OneDevicePerCode
CHECK_DEADLOCK FALSE
