--------------------------------- MODULE Indexer ---------------------------------
(***************************************************************************)
(* One commit is read into an index (buildSnapshotIndex): the tree is cut  *)
(* to its limit, an archive may bring the bodies, and then come rounds,    *)
(* each of which admits files to the budget and fetches their bodies: the  *)
(* manifests from the root down, the skills, the documents, what they link *)
(* to, the licenses, and the files of the skills that may be listed.  Any  *)
(* body may turn out unreadable, and any await may fail.                   *)
(***************************************************************************)
EXTENDS RepoLayout

CONSTANTS
    Repository,        \* the files of a commit, in the order of their paths
    Limits,            \* what the operator allows: IndexLimits
    Says,              \* what a body says, by its hash
    MaxReferenceDepth, \* edges a link is followed beyond what is served
    MaxUnreadable,     \* bound: bodies of a build that cannot be read
    MaxMissed          \* bound: bodies that an archive does not bring, if it brings any

RepoPath == Seq(STRING)
RepoFile == [path : RepoPath, type : {"file", "symlink", "submodule"}, size : Nat, hash : DOMAIN Says]
BodySays ==
    [text : BOOLEAN, ok : BOOLEAN, name : STRING, exclude : SUBSET RepoPath, documents : SUBSET RepoPath,
     include : Seq(RepoPath), refs : Seq(RepoPath), license : {"permissive", "restrictive", "silent"}]
IndexLimits ==
    [tree : Nat, count : Nat, bytes : Nat, file : Nat, read : Nat, license : Nat, listed : Nat, listedBytes : Nat]

\* A tree of Git: every path once, and no file where there is a directory.
IsTree(repo) ==
    /\ \A n \in DOMAIN repo :
        repo[n].path # <<>> /\ NoSegment \notin ToSet(repo[n].path) /\ Last(repo[n].path) \in DOMAIN KindOf
    /\ \A n, m \in DOMAIN repo :
        /\ repo[n].path = repo[m].path => n = m
        /\ repo[n].path \notin Prefixes(Parent(repo[m].path))

\* Different names have different places.
Ranks(rank) ==
    /\ rank \in [DOMAIN rank -> Nat]
    /\ \A a, b \in DOMAIN rank : rank[a] = rank[b] => a = b

ASSUME NamesAssumption ==
    /\ DOMAIN KindOf \subseteq STRING /\ {"SKILLCDN.md", "SKILL.md"} \subseteq DOMAIN KindOf
    /\ \A name \in DOMAIN KindOf :
        (KindOf[name] = "manifest" <=> name = "SKILLCDN.md") /\ (KindOf[name] = "skill" <=> name = "SKILL.md")
    /\ Ranks(OverviewRank) /\ Ranks(LicenseRank)
    /\ {"SKILLCDN.md", "SKILL.md"} \intersect (DOMAIN OverviewRank \union DOMAIN LicenseRank \union Dotted) = {}

ASSUME BuildAssumption ==
    /\ Repository \subseteq Seq(RepoFile) /\ \A repo \in Repository : IsTree(repo)
    /\ Says \in [DOMAIN Says -> BodySays]
    /\ Limits \subseteq IndexLimits
    /\ MaxReferenceDepth \in Nat /\ MaxUnreadable \in Nat /\ MaxMissed \in Nat

VARIABLES
    source,     \* the repository, and the limits it is read under
    round,      \* the round that is next, or "done", "failed"
    depth,      \* of the manifests, and of the links, that are next
    files,      \* the tree as it was cut
    budget,     \* what is admitted, how many bytes that is, and whether anything was left out
    bodies,     \* the hashes that were asked for, and the bodies at hand
    scope,      \* what decides whether a file is served
    reads,      \* the documents that were read, and the skill manifests that are not skills
    follow,     \* the overviews, the links followed, and the files whose links are next
    packIndex   \* the index

building == <<source, round, depth, files, budget, bodies, scope, reads, follow, packIndex>>

NoIndex == [rows |-> <<>>, license |-> "none"]

BuildInit ==
    /\ source \in [files : Repository, limits : Limits]
    /\ round = "tree" /\ depth = 0
    /\ files = <<>>
    /\ budget = [admitted |-> {}, bytes |-> 0, cut |-> FALSE]
    /\ bodies = [asked |-> {}, held |-> {}]
    /\ scope = [skills |-> {}, documents |-> <<>>, included |-> {}, excluded |-> {}, broken |-> {}]
    /\ reads = [documents |-> {}, unread |-> {}]
    /\ follow = [overviews |-> {}, linked |-> {}, frontier |-> <<>>]
    /\ packIndex = NoIndex

-----------------------------------------------------------------------------
(* Helpers of the rounds *)

OfKind(kind, fs) == {f \in fs : Kind(f.path) = kind}

\* The members of a sequence that are wanted, in its order.
Only(s, wanted) ==
    LET kept[n \in 0..Len(s)] ==
            IF n = 0 THEN <<>> ELSE IF s[n] \in wanted THEN Append(kept[n - 1], s[n]) ELSE kept[n - 1]
    IN  kept[Len(s)]

\* What an index can hold of a repository.
Indexable(repo) == {f \in ToSet(repo) : f.type = "file" \/ Kind(f.path) = "manifest"}

\* Declarations come first, the manifests from the root down, so that they are what survives a limit.
Candidates(repo) ==
    LET manifests == OfKind("manifest", Indexable(repo))
        skills    == OfKind("skill", Indexable(repo))
        deepest   == Max({Len(f.path) : f \in manifests} \union {0})
    IN  FlattenSeq([n \in 1..deepest |-> Only(repo, {f \in manifests : Len(f.path) = n})])
            \o Only(repo, skills) \o Only(repo, Indexable(repo) \ (manifests \union skills))

FileAt(path) == {f \in ToSet(files) : f.path = path}

Admit(spent, f, most) ==
    IF f \in spent.admitted \/ f.size > most THEN spent
    ELSE IF Cardinality(spent.admitted) >= source.limits.count \/ spent.bytes + f.size > source.limits.bytes
    THEN [spent EXCEPT !.cut = TRUE]
    ELSE [spent EXCEPT !.admitted = @ \union {f}, !.bytes = @ + f.size]

AdmitEach(fs, most) ==
    LET spent[n \in 0..Len(fs)] == IF n = 0 THEN budget ELSE Admit(spent[n - 1], fs[n], most)
    IN  spent[Len(fs)]

\* What is at hand once some bodies were asked for. A hash is asked for once; a body that cannot be
\* read is gone for good.
Fetched(wanted) ==
    LET new   == {f.hash : f \in wanted} \ bodies.asked
        spare == MaxUnreadable - Cardinality(bodies.asked \ bodies.held)
    IN  {[asked |-> bodies.asked \union new, held |-> bodies.held \union (new \ lost)] :
            lost \in {l \in SUBSET new : Cardinality(l) <= spare}}

HasText(hash, had) == hash \in had.held /\ Says[hash].text

Goes(to) == round' = to /\ depth' = 0

-----------------------------------------------------------------------------
(* The rounds *)

\* A listing that may miss a manifest is not published.
ReadTree ==
    LET listed == Candidates(source.files)
        most   == source.limits.tree
    IN  /\ round = "tree"
        /\ IF Len(listed) > most /\ Kind(listed[most + 1].path) = "manifest"
           THEN Goes("failed") /\ UNCHANGED <<files, budget>>
           ELSE /\ Goes("archive")
                /\ files' = IF Len(listed) > most THEN SubSeq(listed, 1, most) ELSE listed
                /\ budget' = [budget EXCEPT !.cut = Len(listed) > most]
        /\ UNCHANGED <<source, bodies, scope, reads, follow, packIndex>>

\* The limit a body may be asked for under, as far as the tree tells; below zero where it is not.
FetchLimit(f) ==
    LET limits   == source.limits
        declared == {Parent(g.path) : g \in OfKind("skill", ToSet(files))}
    IN  IF OwningSkill(f.path, declared) # Nowhere THEN Max({limits.file, limits.read})
        ELSE IF Kind(f.path) # "other" THEN limits.file
        ELSE IF Last(f.path) \in DOMAIN LicenseRank THEN limits.license
        ELSE -1

\* The archive is not worth it or fails, or brings the bodies it has before it breaks off, but those
\* that do not hash to what the tree says and those in the store.
ReadArchive ==
    LET wanted == {f.hash : f \in {g \in ToSet(files) : g.type = "file" /\ g.size <= FetchLimit(g)}}
    IN  /\ round = "archive"
        /\ Goes("manifests")
        /\ \E got \in SUBSET wanted :
                /\ got = {} \/ Cardinality(wanted \ got) <= MaxMissed
                /\ bodies' = [asked |-> got, held |-> got]
        /\ UNCHANGED <<source, files, budget, scope, reads, follow, packIndex>>

Parents(fs) == {Parent(f.path) : f \in fs}

\* What a manifest that is read takes out, and the directories of its documents.
Excludes(f) == {Parent(f.path) \o x : x \in Says[f.hash].exclude}
Declares(f) == {Parent(f.path) \o x : x \in Says[f.hash].documents}

\* The manifests of one depth, once those above them are read. One nobody can read closes its directory;
\* one that is excluded takes its directory with it.
ReadManifests ==
    LET here      == {f \in OfKind("manifest", ToSet(files)) : Len(f.path) = depth + 1}
        permitted == {f \in here : ~Excluded(f.path, scope)}
        regular   == {f \in permitted : f.type = "file"}
        spent     == AdmitEach(Only(files, regular), source.limits.file)
    IN  /\ round = "manifests"
        /\ IF \A f \in OfKind("manifest", ToSet(files)) : Len(f.path) <= depth + 1
           THEN Goes("skills") ELSE round' = round /\ depth' = depth + 1
        /\ \E had \in Fetched(regular \intersect spent.admitted) :
            LET read == {f \in regular \intersect spent.admitted : HasText(f.hash, had) /\ Says[f.hash].ok}
                out  == UNION {Excludes(f) : f \in read}
            IN  /\ bodies' = had
                /\ budget' = [spent EXCEPT !.cut = @ \/ ~(regular \subseteq spent.admitted)]
                /\ scope' = [scope EXCEPT
                        !.documents = [d \in DOMAIN scope.documents \union Parents(permitted) |->
                            IF d \in Parents(permitted)
                            THEN UNION {Declares(f) : f \in {g \in read : Parent(g.path) = d}}
                            ELSE scope.documents[d]],
                        !.broken = @ \union (Parents(permitted) \ Parents(read)),
                        !.excluded = @ \union Parents(here \ permitted) \union out
                            \union Parents({f \in read : \E x \in out : Within(x, f.path)})]
        /\ UNCHANGED <<source, files, reads, follow, packIndex>>

\* The files that discovery serves make their directories' overviews served too.
Overviews(sc) ==
    LET served == {f \in ToSet(files) : ~IsReadme(f.path) /\ ServedPath(f.path, sc)}
        shown  == {f \in ToSet(files) : ~Excluded(f.path, sc)}
    IN  SelectReadmes({f.path : f \in shown}, {<<>>} \union UNION {Prefixes(Parent(f.path)) : f \in served})

\* What a skill includes of its own directory.
OwnIncludes(f) == {p \in ToSet(Says[f.hash].include) : Within(Parent(f.path), p)}

\* A file named SKILL.md is a skill, a document when it does not read as one, and nothing without its text.
ReadSkills ==
    LET permitted == {f \in OfKind("skill", ToSet(files)) : ~Excluded(f.path, scope)}
        spent     == AdmitEach(Only(files, permitted), source.limits.file)
    IN  /\ round = "skills"
        /\ Goes("documents")
        /\ \E had \in Fetched(permitted \intersect spent.admitted) :
            LET read   == {f \in permitted \intersect spent.admitted : HasText(f.hash, had)}
                skills == {f \in read : Says[f.hash].ok}
                sc     == [scope EXCEPT !.skills = Parents(skills),
                                        !.included = UNION {OwnIncludes(f) : f \in skills}]
            IN  /\ bodies' = had
                /\ budget' = [spent EXCEPT !.cut = @ \/ ~(permitted \subseteq spent.admitted)]
                /\ scope' = sc
                /\ reads' = [documents |-> read \ skills, unread |-> read \ skills]
                /\ follow' = [follow EXCEPT !.overviews = Overviews(sc)]
        /\ UNCHANGED <<source, files, packIndex>>

Served(path) ==
    /\ ~Excluded(path, scope)
    /\ ServedPath(path, scope) \/ path \in follow.linked \/ path \in follow.overviews

\* The skills and the manifests in the index that were read.
Skills == {f \in OfKind("skill", ToSet(files)) : Parent(f.path) \in scope.skills}
Manifests ==
    {f \in OfKind("manifest", ToSet(files)) :
        Parent(f.path) \in DOMAIN scope.documents \ scope.broken /\ ~Excluded(f.path, scope)}

\* The documents that are served are read; then come the links of what was read, Markdown as it is.
ReadDocuments ==
    LET wanted == {f \in ToSet(files) : Kind(f.path) \in {"markdown", "json"} /\ Served(f.path)}
        spent  == AdmitEach(Only(files, wanted), source.limits.file)
    IN  /\ round = "documents"
        /\ Goes("links")
        /\ \E had \in Fetched(wanted \intersect spent.admitted) :
            LET read == {f \in wanted \intersect spent.admitted : HasText(f.hash, had)}
            IN  /\ bodies' = had
                /\ budget' = spent
                /\ reads' = [reads EXCEPT !.documents = @ \union read]
                /\ follow' = [follow EXCEPT !.frontier =
                        Only(files, Skills) \o Only(files, Manifests) \o Only(files, OfKind("markdown", read))]
        /\ UNCHANGED <<source, files, scope, packIndex>>

\* A link reaches a Markdown file that is not served, and never one that is withheld.
Followable(path) == ~Served(path) /\ ~Excluded(path, scope) /\ Kind(path) = "markdown"

\* What the links of some files reach, link by link.
Targets(from) ==
    LET refs  == FlattenSeq([n \in DOMAIN from |-> Says[from[n].hash].refs])
        there == Only(refs, {p \in ToSet(refs) : FileAt(p) # {} /\ Followable(p)})
    IN  [n \in DOMAIN there |-> CHOOSE f \in FileAt(there[n]) : TRUE]

\* The links of the frontier are followed one edge. At the greatest depth they are left out.
FollowLinks ==
    LET targets == Targets(Only(follow.frontier, {f \in ToSet(files) : Served(f.path)}))
        spent   == IF depth >= MaxReferenceDepth THEN [budget EXCEPT !.cut = @ \/ targets # <<>>]
                   ELSE AdmitEach(targets, source.limits.file)
        next    == IF depth >= MaxReferenceDepth THEN {} ELSE ToSet(targets) \intersect spent.admitted
    IN  /\ round = "links"
        /\ follow.frontier # <<>>
        /\ depth' = depth + 1 /\ round' = round
        /\ \E had \in Fetched(next) :
            LET read == {f \in next : HasText(f.hash, had)}
            IN  /\ bodies' = had
                /\ budget' = spent
                /\ reads' = [reads EXCEPT !.documents = @ \union read]
                /\ follow' = [follow EXCEPT !.linked = @ \union {f.path : f \in next},
                                            !.frontier = Only(targets, read)]
        /\ UNCHANGED <<source, files, scope, packIndex>>

LinksEnd ==
    /\ round = "links"
    /\ follow.frontier = <<>>
    /\ Goes("licenses")
    /\ UNCHANGED <<source, files, budget, bodies, scope, reads, follow, packIndex>>

LicenseFileOf(directory) == FileAt(LicenseFile({f.path : f \in ToSet(files)}, directory))

\* The license files of the repository and of the skills are read to be classified.
ReadLicenses ==
    LET most   == source.limits.license
        skills == Only(files, Skills)
        found  == Only(files, LicenseFileOf(<<>>))
                    \o FlattenSeq([n \in DOMAIN skills |-> Only(files, LicenseFileOf(Parent(skills[n].path)))])
        wanted == {f \in ToSet(found) : f.hash \notin bodies.asked /\ f.size <= most}
        spent  == AdmitEach(Only(found, wanted), most)
    IN  /\ round = "licenses"
        /\ Goes("resources")
        /\ budget' = spent
        /\ bodies' \in Fetched(wanted \intersect spent.admitted)
        /\ UNCHANGED <<source, files, scope, reads, follow, packIndex>>

-----------------------------------------------------------------------------
(* The listing, and the index *)

Owned(directory) == {f \in ToSet(files) : Within(directory, f.path) /\ Served(f.path)}
WithinReadLimit(directory) == {f \in Owned(directory) : f.size <= source.limits.read}

\* The includes the index keeps of a skill.
Includes(skill) ==
    Only(Says[skill.hash].include,
        {p \in ToSet(Says[skill.hash].include) :
            Within(Parent(skill.path), p) \/ SharedInclude(p, Parent(skill.path), scope)})

\* The shared pages among them, in their order.
SharedPages(skill) ==
    FlattenSeq([n \in DOMAIN Includes(skill) |->
        Only(files, {f \in FileAt(Includes(skill)[n]) : ~Within(Parent(skill.path), f.path)})])

\* Why a skill cannot be listed on its own: its name is another than its directory's, or it is too large.
Listable(skill) ==
    LET directory == Parent(skill.path)
        held      == WithinReadLimit(directory)
    IN  /\ directory # <<>> => Last(directory) = Says[skill.hash].name
        /\ Cardinality(held) <= source.limits.listed
        /\ MapThenSumSet(LAMBDA f : f.size, held) <= source.limits.listedBytes

\* A body is asked for once, for the first file that has it.
FirstOfEach(fs) ==
    Only(fs, {fs[n] : n \in {m \in DOMAIN fs : \A k \in 1..m - 1 : fs[k].hash # fs[m].hash}})

\* The files of one copy of a skill are those of another.
Identity(skill) ==
    LET directory == Parent(skill.path)
    IN  {<<SubSeq(f.path, Len(directory) + 1, Len(f.path)), f.hash>> : f \in Owned(directory)}

Visible(skills) == {f \in skills : ~HiddenPath(Parent(f.path))}

\* Identical copies are listed once: at the visible path, or else at the shortest.
KeptCopy(copies) ==
    LET group == IF Visible(copies) = {} THEN copies ELSE Visible(copies)
        short == {f \in group : \A g \in group : Len(f.path) <= Len(g.path)}
    IN  CHOOSE f \in short : SelectInSeq(files, LAMBDA g : g \in short) = SelectInSeq(files, LAMBDA g : g = f)

Duplicate(skill) ==
    LET copies == {f \in Skills : Identity(f) = Identity(skill)}
    IN  skill # KeptCopy(copies)
HiddenBesideVisible(skill) == HiddenPath(Parent(skill.path)) /\ Visible(Skills) # {}
Silent(skill) == Duplicate(skill) \/ HiddenBesideVisible(skill)

\* The document a skill is served as can be put together.
HasDocument(skill, had) ==
    \A p \in ToSet(Includes(skill)) : \E f \in FileAt(p) : HasText(f.hash, had)

\* A root skill's name stands for a directory in its URIs.
Collides(skill) ==
    /\ Parent(skill.path) = <<>>
    /\ \E f \in ToSet(files) : Len(f.path) > 1 /\ f.path[1] = Says[skill.hash].name

Listed(skill, had) ==
    /\ Listable(skill) /\ ~Collides(skill) /\ ~Silent(skill)
    /\ \A f \in WithinReadLimit(Parent(skill.path)) : f.hash \in had.held
    /\ HasDocument(skill, had)

LicenseFact(directory, had) ==
    LET file == LicenseFileOf(directory)
    IN  IF file = {} THEN "silent"
        ELSE LET f == CHOOSE g \in file : TRUE
             IN  IF HasText(f.hash, had) THEN Says[f.hash].license ELSE "restrictive"

\* What the manifest of a directory says of the license.
FieldAt(directory) ==
    LET here == {f \in Manifests : Parent(f.path) = directory}
    IN  IF here = {} THEN "silent" ELSE Says[(CHOOSE f \in here : TRUE).hash].license

RootFact(had) == LicenseFact(<<>>, had)

SkillLicense(skill, had) ==
    LET directory == Parent(skill.path)
    IN  ResolveLicense(LicenseFact(directory, had), Says[skill.hash].license,
            NestedFields([d \in Prefixes(directory) |-> FieldAt(d)], directory), RootFact(had), FieldAt(<<>>))

IndexedKind(f) ==
    IF f \in Skills THEN "skill"
    ELSE IF f \in Manifests THEN "manifest"
    ELSE IF Kind(f.path) = "manifest" /\ Parent(f.path) \in scope.broken THEN "broken"
    ELSE IF f \notin reads.documents THEN "other"
    ELSE IF Kind(f.path) = "json" THEN "json" ELSE "markdown"

Searchable(f) ==
    LET owner   == OwningSkill(f.path, scope.skills)
        silence == {Parent(g.path) : g \in {h \in Skills : Silent(h)}}
    IN  /\ owner \notin silence
        /\ \/ IndexedKind(f) = "skill"
           \/ f \in reads.unread /\ Served(f.path)
           \/ f \in reads.documents \ reads.unread /\ ServedPath(f.path, scope)

Row(f, had) ==
    LET skill == f \in Skills
    IN [kind       |-> IndexedKind(f),
        owner      |-> OwningSkill(f.path, scope.skills),
        visible    |-> f \in reads.unread \/ Served(f.path),
        searchable |-> Searchable(f),
        digest     |-> IF skill /\ HasDocument(f, had) THEN "document"
                       ELSE IF f.hash \in had.held /\ f.size <= source.limits.read THEN "body" ELSE "none",
        listed     |-> skill /\ Listed(f, had),
        license    |-> IF skill THEN SkillLicense(f, had)
                       ELSE IF f \in Manifests THEN Says[f.hash].license ELSE "silent",
        include    |-> IF skill THEN Includes(f) ELSE <<>>,
        file       |-> f]

\* The files of the skills that may be listed are fetched, and the index is put together.
ReadResources ==
    LET skills == Only(files, {f \in Skills : Listable(f)})
        brought == FlattenSeq([n \in DOMAIN skills |->
                    Only(files, WithinReadLimit(Parent(skills[n].path))) \o SharedPages(skills[n])])
        wanted == FirstOfEach(Only(brought, {f \in ToSet(brought) : f.hash \notin bodies.asked}))
        spent  == AdmitEach(wanted, source.limits.read)
    IN  /\ round = "resources"
        /\ Goes("done")
        /\ budget' = spent
        /\ \E had \in Fetched(ToSet(wanted) \intersect spent.admitted) :
            /\ bodies' = had
            /\ packIndex' =
                [rows    |-> [p \in {f.path : f \in ToSet(files)} |-> Row(CHOOSE f \in FileAt(p) : TRUE, had)],
                 license |-> ResolveLicense("silent", "silent", <<>>, RootFact(had), FieldAt(<<>>))]
        /\ UNCHANGED <<source, files, scope, reads, follow>>

\* The host, the store or the signal ends the build: nothing is published.
BuildFails ==
    /\ round \notin {"done", "failed"}
    /\ Goes("failed")
    /\ UNCHANGED <<source, files, budget, bodies, scope, reads, follow, packIndex>>

BuildStep ==
    \/ ReadTree \/ ReadArchive \/ ReadManifests \/ ReadSkills \/ ReadDocuments
    \/ FollowLinks \/ LinksEnd \/ ReadLicenses \/ ReadResources \/ BuildFails

BuildSpec == BuildInit /\ [][BuildStep]_building

-----------------------------------------------------------------------------
(* What the whole repository says, read at once, without a limit and without a loss *)

WholeFiles == Indexable(source.files)
WholePaths == {f.path : f \in WholeFiles}
WholeAt(path) == CHOOSE f \in WholeFiles : f.path = path
Reads(f) == f.type = "file" /\ Says[f.hash].text
ReadsAs(f, kind) == Kind(f.path) = kind /\ Reads(f) /\ Says[f.hash].ok

\* What a manifest takes out: what it excludes, what it governs when it excludes itself, and all but
\* itself when nobody can read it.
TakesOut(m, path) ==
    IF ~ReadsAs(m, "manifest") THEN Within(Parent(m.path), path) /\ path # m.path
    ELSE \E x \in Excludes(m) :
            Within(x, path) \/ (Within(x, m.path) /\ Within(Parent(m.path), path))

\* A manifest that is taken out takes its directory with it.
WithheldBy(manifests) ==
    LET out(path) == \E m \in manifests : TakesOut(m, path)
    IN  {p \in WholePaths : out(p) \/ \E n \in manifests : out(n.path) /\ Within(Parent(n.path), p)}

Withheld == WithheldBy(OfKind("manifest", WholeFiles))

Declared(withheld) == {f \in OfKind("skill", WholeFiles) : Reads(f) /\ f.path \notin withheld}
SkillsOf(declared) == {f \in declared : Says[f.hash].ok}

WholeScope(withheld, skills) ==
    LET governing == Parents({m \in OfKind("manifest", WholeFiles) : m.path \notin withheld})
        documents(m) == IF ReadsAs(m, "manifest") THEN Declares(m) ELSE {}
    IN [skills    |-> Parents(skills),
        documents |-> [d \in governing |-> documents(WholeAt(ManifestPath(d)))],
        included  |-> UNION {OwnIncludes(f) : f \in skills},
        excluded  |-> withheld,
        broken    |-> {}]

\* The manifests that were not read are in the index to say so.
Lost == {f.path : f \in {m \in OfKind("manifest", WholeFiles) : Parent(m.path) \in scope.broken}}

\* What is served, with the overviews of where it is, each the plainest of those the listing has.
WithOverviews(served, withheld) ==
    served \union SelectReadmes({f.path : f \in ToSet(files)} \ withheld,
        {<<>>} \union UNION {Prefixes(Parent(p)) : p \in {q \in served : ~IsReadme(q)} \union Lost})

\* What speaks with its links is what reads as what its name says.
Speaks(f) == Reads(f) /\ (Kind(f.path) = "markdown" \/ ReadsAs(f, "skill") \/ ReadsAs(f, "manifest"))
LinksOf(f, withheld) ==
    {q \in ToSet(Says[f.hash].refs) : q \in WholePaths /\ Kind(q) = "markdown" /\ q \notin withheld}

\* And with what is linked, edge by edge.
WithLinks(base, withheld) ==
    LET reach[k \in 0..MaxReferenceDepth] ==
            IF k = 0 THEN base
            ELSE reach[k - 1] \union
                    UNION {LinksOf(f, withheld) : f \in {g \in WholeFiles : g.path \in reach[k - 1] /\ Speaks(g)}}
    IN  reach[MaxReferenceDepth]

ServedAll(scopeOfAll) == {p \in WholePaths : ServedPath(p, scopeOfAll)}

\* The license of a path: its nearest skill's, or that of the manifests above it and of the repository.
WholeLicense(path, skill) ==
    LET above    == IF skill = Nowhere THEN Parent(path) ELSE skill
        fileSays(p) == IF p = Nowhere THEN "silent"
                       ELSE IF Reads(WholeAt(p)) THEN Says[WholeAt(p).hash].license ELSE "restrictive"
        said(d)  == fileSays(LicenseFile(WholePaths, d))
        field(d) == LET m == {f \in WholeFiles : f.path = ManifestPath(d) /\ ReadsAs(f, "manifest")}
                    IN  IF m = {} THEN "silent" ELSE Says[(CHOOSE f \in m : TRUE).hash].license
        own      == IF skill = Nowhere THEN <<"silent", "silent">>
                    ELSE <<said(skill), Says[WholeAt(Append(skill, "SKILL.md")).hash].license>>
    IN  ResolveLicense(own[1], own[2], NestedFields([d \in Prefixes(above) |-> field(d)], above),
            said(<<>>), field(<<>>))

\* What may be served, and what of it a restrictive license keeps at the source.
WholeOf(withheld, declared) ==
    LET visible == WithLinks(WithOverviews(ServedAll(WholeScope(withheld, SkillsOf(declared))), withheld), withheld)
                        \union {f.path : f \in declared}
        skills  == Parents(SkillsOf(declared))
    IN  [visible     |-> visible,
         withheld    |-> withheld,
         restrictive |-> {p \in WholePaths : WholeLicense(p, OwningSkill(p, skills)) = "restrictive"}]

WholeRepository == LET withheld == Withheld IN WholeOf(withheld, Declared(withheld))

-----------------------------------------------------------------------------
(* Properties *)

IndexedRows == {packIndex.rows[p] : p \in DOMAIN packIndex.rows}

\* Every declaration of a skill was read, and no file was cut off.
EveryDeclarationRead ==
    /\ ToSet(files) = WholeFiles
    /\ \A f \in Declared(Withheld) : Parent(f.path) \in scope.skills \/ f \in reads.unread

\* No limit was met and no body was lost.
NothingIsLeftOut ==
    /\ ~budget.cut
    /\ bodies.asked = bodies.held
    /\ \A f \in ToSet(files) : f.size <= source.limits.file /\ f.size <= source.limits.license

ServesNoMore(whole, visible) ==
    /\ \A r \in visible : r.kind = "broken" \/ r.file.path \in whole.visible
    /\ EveryDeclarationRead => \A r \in visible :
        r.kind = "skill" /\ r.file.path \in whole.restrictive => r.license = "restrictive"
    /\ NothingIsLeftOut => {r.file.path : r \in visible} = whole.visible

\* What a limit leaves out, and a body that cannot be read, only ever take away: what the index serves
\* is served by the whole repository, but for a manifest that is there to say that it was not read; a
\* skill under a restrictive license is not under another one, as long as the skills are known; and an
\* index from which nothing was left out is the whole repository's ("a failure must not restore broader
\* default discovery", and the index says so when it is partial).
NothingIsLoosened == round = "done" => ServesNoMore(WholeRepository, {r \in IndexedRows : r.visible})
================================================================================
