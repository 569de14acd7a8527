\* A part each. Inference: four callers, two slots, two failures in a row. Credentials: two requests of one
\* process and one of another, two tokens, one upset, and the event.
CONSTANTS
    Call = {c1, c2, c3, c4}
    Concurrency = 2
    Failures = 2
    MaxTroubles = 3
    None = None
    p1 = p1
    p2 = p2
    p3 = p3
    r1 = r1
    r2 = r2
    r3 = r3
    Process = {p1, p2, p3}
    Request = {r1, r2, r3}
    AnsweredBy <- SharedAndAlone
    Secret <- TwoSecrets
    MaxTokens = 2
    MaxUpsets = 1
    EndsReplaced = FALSE
    Punctual = TRUE
SPECIFICATION FairCallsSpec
CHECK_DEADLOCK FALSE
INVARIANTS
    SlotsAreCounted
    NobodyWaitsForNothing
    ProbeIsUnderWay
    OpensAfterFailuresInARow
    TokensWork
PROPERTIES
    EveryCallEnds
    LostForCause
