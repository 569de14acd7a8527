------------------------------ MODULE PackReader ------------------------------
(***************************************************************************)
(* What the readers of an index give of it: a file read by its path, its   *)
(* outline, its bytes, a skill that is loaded, and the skills extension's   *)
(* listing, entries and resources.  A mount is a path of the repository,   *)
(* and whether the repository is served in full whatever its licenses say. *)
(* A reader answers from the index and keeps no state.                     *)
(***************************************************************************)
EXTENDS Indexer

-----------------------------------------------------------------------------
(* Questions over the rows *)

VisibleRows == {r \in IndexedRows : r.visible}
Entry(path) ==
    IF path \in DOMAIN packIndex.rows /\ packIndex.rows[path].visible THEN {packIndex.rows[path]} ELSE {}

SkillRows == {r \in VisibleRows : r.kind = "skill"}
RuleRows(directory) ==
    {r \in VisibleRows : r.kind = "manifest" /\ Within(Parent(r.file.path), directory)}

LicenseAt_Outermost(path) ==
    LET owners == {r \in SkillRows : Within(r.owner, path)}
    IN  IF owners # {} THEN (CHOOSE r \in owners : \A o \in owners : Len(r.file.path) <= Len(o.file.path)).license
        ELSE packIndex.license

\* The license of the nearest skill, else of the nearest manifest below the root that says something,
\* else of the repository.
LicenseAt(path) ==
    LET owners == {r \in SkillRows : Within(r.owner, path)}
        fields == {r \in RuleRows(path) : Len(r.file.path) > 1 /\ r.license # "silent"}
        nearest(rows) == CHOOSE r \in rows : \A o \in rows : Len(o.file.path) <= Len(r.file.path)
    IN  IF owners # {} THEN nearest(owners).license
        ELSE IF fields # {} THEN nearest(fields).license
        ELSE packIndex.license

InFull(mount, path) == ServesInFull(LicenseAt(path), mount.trusted)
Stored(row) == row.file.hash \in bodies.held
StoredText(row) == HasText(row.file.hash, bodies)

-----------------------------------------------------------------------------
(* The tools *)

\* A file that is read by its path. Its text is the store's, or is fetched now.
FileGiven(mount, path) ==
    /\ Within(mount.path, path)
    /\ \E r \in Entry(path) :
        /\ r.file.type = "file"
        /\ InFull(mount, path)
        /\ r.file.size <= source.limits.read
        /\ Says[r.file.hash].text

\* Its outline, when it is Markdown.
OutlineGiven(mount, path) ==
    FileGiven(mount, path) /\ Kind(path) \in {"skill", "manifest", "markdown"}

\* Its bytes as they are.
RawGiven(mount, path) ==
    /\ Within(mount.path, path)
    /\ \E r \in Entry(path) : r.kind # "broken"
    /\ InFull(mount, path)

\* What load_skill gives of a skill: its text, the rules above it and the files it includes.
SkillTexts(mount, skill) ==
    LET included == {r \in VisibleRows : r.file.path \in ToSet(skill.include) /\ r.kind \in {"markdown", "json"}}
    IN  IF Within(mount.path, skill.owner) /\ ServesInFull(skill.license, mount.trusted) /\ StoredText(skill)
        THEN {skill.file.path}
                \union {r.file.path : r \in {q \in RuleRows(skill.owner) \union included : StoredText(q)}}
        ELSE {}

-----------------------------------------------------------------------------
(* The skills extension *)

\* The document a skill is served as is put together from its sources, or is not there.
Assembled(skill) ==
    /\ StoredText(skill)
    /\ \A r \in RuleRows(skill.owner) : StoredText(r)
    /\ \A p \in ToSet(skill.include) : \E r \in Entry(p) : StoredText(r)

ResourceGiven(mount, path) ==
    /\ Within(mount.path, path)
    /\ \E r \in Entry(path) :
        /\ r.digest # "none"
        /\ InFull(mount, path)
        /\ IF r.kind = "skill" THEN Assembled(r) ELSE Stored(r)

ListedSkills(mount) ==
    {r \in SkillRows : /\ Within(mount.path, r.file.path)
                       /\ r.listed
                       /\ mount.trusted \/ r.license # "restrictive"
                       /\ StoredText(r)}

\* The files the listing names of a skill.
Resources(skill) == {r \in VisibleRows : Within(skill.owner, r.file.path) /\ r.digest # "none"}

-----------------------------------------------------------------------------
(* Properties *)

Mounts == [path : UNION {Prefixes(Parent(r.file.path)) : r \in IndexedRows}, trusted : BOOLEAN]

\* What the routes give by its path, and what a skill brings with it.
FilesGiven(mount, paths) ==
    {p \in paths : FileGiven(mount, p) \/ OutlineGiven(mount, p) \/ RawGiven(mount, p) \/ ResourceGiven(mount, p)}

KeepsWithin(mount, given, texts, whole, known) ==
    /\ \A p \in given : Within(mount.path, p)
    /\ given \union texts \subseteq whole.visible \ whole.withheld
    /\ known /\ ~mount.trusted => given \intersect whole.restrictive = {}

\* Whatever a route gives is in the mount or comes with a skill of it, and is something that the whole
\* repository serves, read without a limit and without a loss: no manifest withholds it. And no route gives
\* by its path what a restrictive license keeps at the source, on a mount that nobody vouched for, as long
\* as the skills are known: neither a limit nor a lost body makes a reader give more.
ReadersKeepWithin ==
    round = "done" =>
        \A whole \in {WholeRepository}, known \in {EveryDeclarationRead}, mount \in Mounts :
            /\ KeepsWithin(mount, FilesGiven(mount, {r.file.path : r \in {q \in IndexedRows : q.kind # "broken"}}), {},
                    whole, known)
            /\ \A skill \in SkillRows : \A texts \in {SkillTexts(mount, skill)} :
                texts # {} => KeepsWithin(mount, {skill.file.path}, texts, whole, known)

\* "A read never differs from the listing" (docs/specs/tools.md): every file that the listing of a skill
\* names with a digest can be read as a resource of the mount, the skill's own document among them.
ReadsAreAsListed ==
    round = "done" => \A mount \in Mounts : \A skill \in ListedSkills(mount) :
        \A r \in Resources(skill) : ResourceGiven(mount, r.file.path)
================================================================================
