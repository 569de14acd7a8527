------------------------------- MODULE RepoLayout -------------------------------
(***************************************************************************)
(* How a repository is read: what a file is by its name, which files the   *)
(* manifests, the skills and the document directories serve, which are     *)
(* withheld, and the license that governs a skill.  A path is the sequence *)
(* of its segments, a directory the path of one, the root the empty one.   *)
(***************************************************************************)
EXTENDS Integers, SequencesExt, FiniteSetsExt

CONSTANTS
    KindOf,       \* the kind of a file, by its name
    OverviewRank, \* the place of a name among those of overviews, the plainest first
    LicenseRank,  \* the same of license files
    Dotted        \* the segments that start with a dot

\* No path has an empty segment.
NoSegment == ""
Nowhere == <<NoSegment>>

Kind(path) == KindOf[Last(path)]

Parent(path) == Front(path)
Within(directory, path) == IsPrefix(directory, path)
AtOrAbove(path) == Prefixes(path)
HiddenPath(path) == \E n \in DOMAIN path : path[n] \in Dotted

ManifestPath(directory) == Append(directory, "SKILLCDN.md")
DefaultDocuments == {<<"docs">>}

\* The nearest of some directories to a directory.
Nearest(directory, directories) ==
    LET above == AtOrAbove(directory) \intersect directories
    IN  IF above = {} THEN Nowhere ELSE CHOOSE d \in above : \A e \in above : Len(e) <= Len(d)

OwningSkill(path, skills) == Nearest(Parent(path), skills)

-----------------------------------------------------------------------------
(* What is served.  A scope holds the skills, the document directories of each manifest, the files   *)
(* that are included, the paths that are excluded and the directories of manifests nobody can read.  *)

Excluded_BrokenIsOpen(path, scope) == AtOrAbove(path) \intersect scope.excluded # {}

\* An exclusion, or a manifest nobody can read, holds for everything below it.
Excluded(path, scope) ==
    \E d \in AtOrAbove(path) : d \in scope.excluded \/ (d \in scope.broken /\ path # ManifestPath(d))

PublicDescendant(path, directory) ==
    /\ IsStrictPrefix(directory, path)
    /\ ~HiddenPath(SubSeq(path, Len(directory) + 1, Len(path)))

\* The files of a skill are served; elsewhere the nearest manifest says where the documents are.
ServedPath(path, scope) ==
    LET skill     == OwningSkill(path, scope.skills)
        governing == Nearest(Parent(path), DOMAIN scope.documents)
    IN  /\ ~Excluded(path, scope)
        /\ \/ skill # Nowhere /\ PublicDescendant(path, skill)
           \/ path \in scope.included
           \/ governing # Nowhere /\ path = ManifestPath(governing)
           \/ \E d \in IF governing = Nowhere THEN DefaultDocuments ELSE scope.documents[governing] :
                PublicDescendant(path, d)

\* Whether a skill may include a page from outside its directory.
SharedInclude(path, directory, scope) ==
    LET nearest   == Nearest(Parent(path), DOMAIN scope.documents)
        governing == IF nearest = Nowhere THEN <<>> ELSE nearest
    IN  /\ Kind(path) \in {"markdown", "json"}
        /\ ~Within(directory, path)
        /\ OwningSkill(path, scope.skills) = Nowhere
        /\ Within(governing, directory)
        /\ ServedPath(path, [scope EXCEPT !.included = {}])

IsReadme(path) == Last(path) \in DOMAIN OverviewRank

\* The plainest of some paths, by the rank of their names.
Plainest(paths, rank) == CHOOSE p \in paths : \A q \in paths : rank[Last(p)] <= rank[Last(q)]

\* One overview for each of some directories.
SelectReadmes(paths, directories) ==
    LET of(d) == {p \in paths : IsReadme(p) /\ Parent(p) = d}
    IN  {Plainest(of(d), OverviewRank) : d \in {e \in directories : of(e) # {}}}

\* The license file of a directory, of the files directly in it.
LicenseFile(paths, directory) ==
    LET named == {p \in paths : Last(p) \in DOMAIN LicenseRank /\ Parent(p) = directory}
    IN  IF named = {} THEN Nowhere ELSE Plainest(named, LicenseRank)

-----------------------------------------------------------------------------
(* Licenses: "permissive", "restrictive", "none", or "silent" where a source says nothing *)

FirstSaid(facts) ==
    LET said == {n \in DOMAIN facts : facts[n] # "silent"}
    IN  IF said = {} THEN "none" ELSE facts[Min(said)]

\* The fields of the manifests at or above a directory, nearest first; the root's is apart.
NestedFields(field, directory) ==
    [n \in 1..Len(directory) |-> field[SubSeq(directory, 1, Len(directory) + 1 - n)]]

ResolveLicense(skillFile, skillField, nested, rootFile, rootField) ==
    FirstSaid(<<skillFile, skillField>> \o nested \o <<rootFile, rootField>>)

ServesInFull(license, trusted) == license # "restrictive" \/ trusted
================================================================================
