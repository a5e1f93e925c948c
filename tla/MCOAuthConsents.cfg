SPECIFICATION Spec
CONSTANTS
    a = a
    c1 = c1
    c2 = c2
    f1 = f1
    f2 = f2
    None = None
    Agents = {a}
    OAuthAgent = a
    Confirmers = {c1, c2}
    Flows = {f1, f2}
    Ttls = {None}
    AccessTtl = 1
    RefreshTtl = 3
    CodeTtl = 1
    MaxConsents = 1
    MaxTokens = 2
    MaxTime = 3
SYMMETRY ThreadSymmetry
INVARIANTS TypeOK ConsentWorthOne
PROPERTY FollowsLife
CHECK_DEADLOCK FALSE
