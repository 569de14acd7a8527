\* A part each. Two people, two codes, two files, two moves; a page of four bytes; two files, two changes;
\* five repositories, six limits, two bodies lost, links of two edges.
CONSTANTS
    Code = {k1, k2}
    Visitor = {u1, u2}
    f1 = f1
    f2 = f2
    File = {f1, f2}
    PagesOf <- ThreeAndTwo
    NoOne = NoOne
    MaxMoves = 2
    Pack <- Packs
    PageBytes = 4
    Rooms = {0, 5, 6}
    MaxBuilds = 1
    Body = {b1, b2}
    BodiesInFlight = 2
    MaxChanges = 2
    MaxMishaps = 1
    Repositories = {"links", "more links", "nested", "governed", "copied"}
    LimitsMet = {"none", "tree", "count", "bytes", "file", "listed"}
    Repository <- Repos
    Limits <- Limited
    KindOf <- Kinds
    OverviewRank <- Overview
    LicenseRank <- LicenseNames
    Dotted = {".hid", ".x", ".agent"}
    Says <- Bodies
    MaxReferenceDepth = 2
    MaxUnreadable = 2
    MaxMissed = 1
SYMMETRY Symmetry
SPECIFICATION ClientsSpec
CHECK_DEADLOCK FALSE
INVARIANTS
    ShowsWhatIsNamed
    PagesMakeTheSkill
    DirectoryIsFollowed
    NothingIsLoosened
    ReadersKeepWithin
