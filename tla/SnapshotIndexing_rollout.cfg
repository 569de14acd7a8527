\* A part each: two replicas of different builds and one commit; one replica and a ref that moves.
CONSTANTS
    None = None
    p1 = p1
    p2 = p2
    r1 = r1
    r2 = r2
    c1 = c1
    c2 = c2
    Process = {p1, p2}
    Commit = {c1, c2}
    Snapshot = {s1, s2, s3}
    Owner = {o1, o2, o3, o4}
    Request = {r1, r2}
    AnsweredBy <- OneEach
    IndexVersion <- OldAndNew
    MinServable <- FloorOne
    Previous <- Moved
    Concurrency = 1
    LeaseTicks = 1
    FirstRetry = 1
    MaxRetry = 1
    HintedRetry = 2
    MaxAttempts = 1
    MaxUpsets = 2
    Punctual = FALSE
SPECIFICATION Spec
ACTION_CONSTRAINT OneInstance
SYMMETRY Symmetry
INVARIANTS
    TypeOK
    ClaimsAreExclusive
    NoPackGoesDown
PROPERTIES
    RulesOnlyGetNewer
    ImplementsPromise
