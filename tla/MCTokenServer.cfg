SPECIFICATION FairSpec
CONSTANTS
    a = a
    b = b
    p = p
    r = r
    None = None
    Agents = {a, b}
    Readers = {r}
    Poller = p
    Ttls = {None}
    AccessTtl = 1
    RefreshTtl = 3
    MaxTokens = 2
    MaxTime = 3
INVARIANTS TypeOK OneLivePerGrant EndedStaysEnded RevocationSticks
CHECK_DEADLOCK FALSE
PROPERTY PollerCatchesUp
