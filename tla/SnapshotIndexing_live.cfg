\* Two replicas, one commit, renewal timers that run in time: what never happens, and what happens in the end.
CONSTANTS
    None = None
    p1 = p1
    p2 = p2
    r1 = r1
    r2 = r2
    c1 = c1
    c2 = c2
    Process = {p1, p2}
    Commit = {c1}
    Snapshot = {s1, s2}
    Owner = {o1, o2}
    Request = {r1, r2}
    AnsweredBy <- OneEach
    IndexVersion <- SameRules
    MinServable <- FloorOne
    Previous <- NoPrevious
    Concurrency = 1
    LeaseTicks = 2
    FirstRetry = 1
    MaxRetry = 1
    HintedRetry = 0
    MaxAttempts = 1
    MaxUpsets = 1
    Punctual = TRUE
SPECIFICATION FairSpec
INVARIANTS
    OneIndexerAtATime
PROPERTIES
    CommitsAreSettled
    FailuresAreRetried
