CONSTANTS
    None = None
    NoCommit = NoCommit
    Nobody = Nobody
    p1 = p1
    p2 = p2
    c1 = c1
    c2 = c2
    c3 = c3
    r1 = r1
    r2 = r2
    o1 = o1
    o2 = o2
    Replica = {p1, p2}
    Repository = {o1, o2}
    RefReplica = {p1, p2}
    Server = {p1, p2}
    Commit = {c1, c2, c3}
    Repo = {r1, r2}
    RepoTtl = 2
    StaleGrace = 1
    RefTtl = 1
    RefGrace = 1
    PermTtl = 1
    NameTtl = 1
    NameGrace = 1
SPECIFICATION Spec
SYMMETRY Symmetry
INVARIANTS
    NamesAreRecent
    ListedIsNamed
    ServedIsRecent
    PackStays
    ShownToWhoMaySee
