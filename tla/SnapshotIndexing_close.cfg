\* A shutdown with a start in flight.
CONSTANTS
    None = None
    p1 = p1
    p2 = p2
    r1 = r1
    r2 = r2
    c1 = c1
    c2 = c2
    Process = {p1}
    Commit = {c1}
    Snapshot = {s1, s2}
    Owner = {o1, o2, o3}
    Request = {r1}
    AnsweredBy <- OneEachP1
    IndexVersion <- SameRules
    MinServable <- FloorOne
    Previous <- NoPrevious
    Concurrency = 1
    LeaseTicks = 1
    FirstRetry = 1
    MaxRetry = 1
    HintedRetry = 0
    MaxAttempts = 1
    MaxUpsets = 1
    Punctual = FALSE
SPECIFICATION Spec
SYMMETRY Symmetry
INVARIANTS
    CloseHandsBack
