\* A part each. Embedding: two workers, three paths, two bodies a slice, an index and the one after it.
CONSTANTS
    w1 = w1
    w2 = w2
    Worker = {w1, w2}
    b1 = b1
    b2 = b2
    b3 = b3
    b4 = b4
    Body = {b1, b2, b3, b4}
    Indexes <- TwoIndexes
    SliceBodies = 2
    RetryLimit = 1
    MaxMishaps = 2
    Reading = {a1, a2, a3}
    Repository = {r1}
    Installation = {i1, i2}
    NoInstallation = NoInstallation
    InstallationTtl = 2
    TokenLife = 2
    ExpiryMargin = 1
    Asker = {a1, a2, a3}
    Question = {q1, q2, q3}
    SearchTtl = 2
    KeptAtMost = 2
    AtOnce = 2
    Recorder = {a1, a2}
    Client = {h1, h2}
    MaxRemembered = 1
    LastDay = 1
    MaxRequests = 2
    MaxFailures = 1
SPECIFICATION FairSpec
CHECK_DEADLOCK FALSE
INVARIANTS
    DoneIsEmbedded
    CountedOnce
    InstallationAnswersHold
    SearchesAreShared
    CountsAreRight
PROPERTIES
    EmbeddedInTheEnd
