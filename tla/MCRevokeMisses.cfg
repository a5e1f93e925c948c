SPECIFICATION Spec
CONSTANTS
    a = a
    b = b
    p = p
    r = r
    None = None
    Agents = {a}
    Readers = {r}
    Poller = p
    Ttls = {None}
    AccessTtl = 1
    RefreshTtl = 3
    MaxTokens = 2
    MaxTime = 2
INVARIANT RevokeFinds
CHECK_DEADLOCK FALSE
