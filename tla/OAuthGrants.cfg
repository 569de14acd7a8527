CONSTANTS
    None = None
    w1 = w1
    w2 = w2
    Worker = {w1, w2}
    u = u
    User = {u}
    RequestTtl = 1
    CodeTtl = 1
    Grace = 1
    AccessTtl = 1
    RefreshTtl = 3
    KeepPairs = 2
    KeepGrants = 1
    MaxWait = 2
    MaxNow = 3
    MaxCodes = 2
    MaxPairs = 4
    MaxForgets = 1
    p1 = p1
    p2 = p2
    n1 = n1
    n2 = n2
    k1 = k1
    k2 = k2
    Person = {p1, p2}
    Command = {n1, n2}
    Claim = {k1, k2}
    Nobody = Nobody
    MaxWaiting = 1
    MaxTokens = 1
    RequestTicks = 1
    MaxTurns = 2
SPECIFICATION BothSpec
SYMMETRY Symmetry
CHECK_DEADLOCK FALSE
INVARIANTS
    OneGrantPerCode
    PairsWithinGrace
    OnlyLateGrantsOutlive
    GrantsHoldTheirPairs
    TokensAreEarned
    OnlyLateTokensOutlive
    BoundsArePassedTogether
PROPERTIES
    PairsGoForCause
    SweepEndsNothingLive
