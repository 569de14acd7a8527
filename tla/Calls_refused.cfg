\* A request of each process; the host ends the access token whose refresh token was used.
CONSTANTS
    Call = {c1}
    Concurrency = 1
    Failures = 1
    MaxTroubles = 0
    None = None
    p1 = p1
    p2 = p2
    p3 = p3
    r1 = r1
    r2 = r2
    r3 = r3
    Process = {p1, p2}
    Request = {r1, r2}
    AnsweredBy <- OneEach
    Secret <- TwoSecrets
    MaxTokens = 2
    MaxUpsets = 0
    EndsReplaced = TRUE
    Punctual = TRUE
SPECIFICATION CallsSpec
CHECK_DEADLOCK FALSE
PROPERTY
    LostForCause
