\* A skill in a skill, each with its license; no limit is met and no body lost.
CONSTANTS
    Repositories = {"nested"}
    LimitsMet = {"none"}
    Repository <- Repos
    Limits <- Limited
    KindOf <- Kinds
    OverviewRank <- Overview
    LicenseRank <- LicenseNames
    Dotted = {".hid", ".x", ".agent"}
    Says <- Bodies
    MaxReferenceDepth = 2
    MaxUnreadable = 0
    MaxMissed = 1
SPECIFICATION BuildSpec
CHECK_DEADLOCK FALSE
INVARIANT ReadsAreAsListed
