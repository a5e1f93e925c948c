SPECIFICATION Spec
CONSTANTS
    c1 = c1
    c2 = c2
    d1 = d1
    d2 = d2
    r1 = r1
    r2 = r2
    k1 = k1
    k2 = k2
    None = None
    Wrong = Wrong
    Codes = {c1, c2}
    Devices = {d1, d2}
    Reqs = {r1}
    Clis = {k1}
    CodeTtl = 1
    SessionTtl = 1
    MaxFailed = 2
    Cooldown = 1
    MaxTime = 1
    MaxMisses = 0
    MaxRevokes = 1
    MaxRestarts = 0
    MaxFaults = 0
INVARIANT RevocationFinal
CHECK_DEADLOCK FALSE
