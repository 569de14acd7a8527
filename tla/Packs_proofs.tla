------------------------------ MODULE Packs_proofs ------------------------------
(***************************************************************************)
(* Theorems about Indexer and PackReader, for every repository, whatever   *)
(* its bodies say, and all limits, losses and failures of a build.         *)
(***************************************************************************)
EXTENDS PackReader, Sums

-----------------------------------------------------------------------------
(* Paths *)

LEMMA WithinIs ==
    ASSUME NEW d \in RepoPath, NEW p \in RepoPath
    PROVE  Within(d, p) <=> (Len(d) <= Len(p) /\ \A i \in 1..Len(d) : d[i] = p[i])
<1>1. d \in Seq(STRING) /\ p \in Seq(STRING)
  BY DEF RepoPath
<1>2. SubSeq(d, 1, Len(d)) = d
  BY <1>1
<1>3. ASSUME Len(d) <= Len(p), SubSeq(d, 1, Len(d)) = SubSeq(p, 1, Len(d)) PROVE \A i \in 1..Len(d) : d[i] = p[i]
  <2>1. \A i \in 1..Len(d) : SubSeq(p, 1, Len(d))[i] = p[i]
    <3>1. Len(d) \in 0..Len(p)
      BY <1>1, <1>3
    <3> QED
      BY <1>1, <3>1, SubSeqIs
  <2> QED
    BY <1>2, <1>3, <2>1
<1>4. ASSUME Len(d) <= Len(p), \A i \in 1..Len(d) : d[i] = p[i] PROVE SubSeq(p, 1, Len(d)) = d
  <2>1. Len(d) \in 0..Len(p)
    BY <1>1, <1>4
  <2>2. /\ SubSeq(p, 1, Len(d)) \in Seq(STRING) /\ Len(SubSeq(p, 1, Len(d))) = Len(d)
        /\ \A i \in 1..Len(d) : SubSeq(p, 1, Len(d))[i] = p[i]
    BY <1>1, <2>1, SubSeqIs
  <2> QED
    BY <1>1, <1>4, <2>2, SeqEqual
<1> QED
  BY <1>2, <1>3, <1>4 DEF Within, IsPrefix

\* Two paths of the same segments are one.
LEMMA SamePath ==
    ASSUME NEW d \in RepoPath, NEW p \in RepoPath, Len(d) = Len(p), \A i \in 1..Len(d) : d[i] = p[i]
    PROVE  d = p
BY SeqEqual DEF RepoPath

LEMMA PrefixIs ==
    ASSUME NEW p \in RepoPath
    PROVE  /\ Prefixes(p) \subseteq RepoPath
           /\ \A d \in RepoPath : d \in Prefixes(p) <=> Within(d, p)
<1>1. p \in Seq(STRING) /\ Len(p) \in Nat
  BY DEF RepoPath
<1>2. \A n \in 0..Len(p) : /\ SubSeq(p, 1, n) \in RepoPath /\ Len(SubSeq(p, 1, n)) = n
                           /\ \A k \in 1..n : SubSeq(p, 1, n)[k] = p[k]
  BY <1>1, SubSeqIs DEF RepoPath
<1>3. Prefixes(p) \subseteq RepoPath
  BY <1>2 DEF Prefixes
<1>4. ASSUME NEW d \in RepoPath, d \in Prefixes(p) PROVE Within(d, p)
  <2>1. PICK n \in 0..Len(p) : d = SubSeq(p, 1, n)
    BY <1>4 DEF Prefixes
  <2>2. Len(d) = n /\ \A k \in 1..Len(d) : d[k] = p[k]
    BY <1>2, <2>1
  <2>3. Len(d) <= Len(p)
    BY <1>1, <2>1, <2>2
  <2> QED
    BY <2>2, <2>3, WithinIs
<1>5. ASSUME NEW d \in RepoPath, Within(d, p) PROVE d \in Prefixes(p)
  <2>1. Len(d) \in Nat /\ Len(d) <= Len(p) /\ \A i \in 1..Len(d) : d[i] = p[i]
    BY <1>5, WithinIs DEF RepoPath
  <2>2. Len(d) \in 0..Len(p)
    BY <1>1, <2>1
  <2> DEFINE s == SubSeq(p, 1, Len(d))
  <2>4. s \in RepoPath /\ Len(s) = Len(d) /\ \A k \in 1..Len(d) : s[k] = p[k]
    BY <1>2, <2>2
  <2> HIDE DEF s
  <2>5. \A k \in 1..Len(d) : d[k] = s[k]
    BY <2>1, <2>4
  <2>3. d = s
    BY <2>4, <2>5, SamePath
  <2> QED
    BY <2>2, <2>3 DEF Prefixes, s
<1> QED
  BY <1>3, <1>4, <1>5

LEMMA WithinSelf == ASSUME NEW p \in RepoPath PROVE Within(p, p) /\ Within(<<>>, p) /\ <<>> \in RepoPath
<1>1. <<>> \in RepoPath /\ Len(<<>>) = 0
  BY DEF RepoPath
<1>2. Len(p) \in Nat
  BY DEF RepoPath
<1>3. Within(p, p)
  BY <1>2, WithinIs
<1>4. Within(<<>>, p)
  BY <1>1, <1>2, WithinIs
<1> QED
  BY <1>1, <1>3, <1>4

LEMMA WithinChain ==
    ASSUME NEW d \in RepoPath, NEW e \in RepoPath, NEW p \in RepoPath, Within(d, e), Within(e, p)
    PROVE  Within(d, p)
<1>1. Len(d) <= Len(e) /\ \A i \in 1..Len(d) : d[i] = e[i]
  BY WithinIs
<1>2. Len(e) <= Len(p) /\ \A i \in 1..Len(e) : e[i] = p[i]
  BY WithinIs
<1>3. Len(d) \in Nat /\ Len(e) \in Nat /\ Len(p) \in Nat
  BY DEF RepoPath
<1>4. Len(d) <= Len(p) /\ \A i \in 1..Len(d) : d[i] = p[i]
  BY <1>1, <1>2, <1>3
<1> QED
  BY <1>4, WithinIs

LEMMA WithinLen ==
    ASSUME NEW d \in RepoPath, NEW p \in RepoPath, Within(d, p)
    PROVE  Len(d) \in Nat /\ Len(p) \in Nat /\ Len(d) <= Len(p) /\ (Len(d) = Len(p) => d = p)
BY WithinIs, SamePath DEF RepoPath

\* What is above a path is one below the other.
LEMMA WithinLine ==
    ASSUME NEW d \in RepoPath, NEW e \in RepoPath, NEW p \in RepoPath, Within(d, p), Within(e, p), Len(d) <= Len(e)
    PROVE  Within(d, e)
<1>1. Len(d) <= Len(p) /\ \A i \in 1..Len(d) : d[i] = p[i]
  BY WithinIs
<1>2. Len(e) <= Len(p) /\ \A i \in 1..Len(e) : e[i] = p[i]
  BY WithinIs
<1>3. Len(d) \in Nat /\ Len(e) \in Nat /\ Len(p) \in Nat
  BY DEF RepoPath
<1>4. \A i \in 1..Len(d) : d[i] = e[i]
  BY <1>1, <1>2, <1>3
<1> QED
  BY <1>4, WithinIs

LEMMA ParentIs ==
    ASSUME NEW p \in RepoPath, p # <<>>
    PROVE  /\ Parent(p) \in RepoPath /\ Len(p) \in Nat \ {0} /\ Len(Parent(p)) = Len(p) - 1
           /\ Parent(p) # p /\ Within(Parent(p), p)
           /\ \A d \in RepoPath : Within(d, p) <=> (d = p \/ Within(d, Parent(p)))
<1>1. p \in Seq(STRING) /\ Len(p) \in Nat /\ Len(p) # 0
  BY DEF RepoPath
<1>2. Parent(p) = SubSeq(p, 1, Len(p) - 1) /\ Len(p) - 1 \in 0..Len(p)
  BY <1>1 DEF Parent, Front
<1>3. /\ Parent(p) \in RepoPath /\ Len(Parent(p)) = Len(p) - 1
      /\ \A k \in 1..Len(p) - 1 : Parent(p)[k] = p[k]
  BY <1>1, <1>2, SubSeqIs DEF RepoPath
<1>4. Within(Parent(p), p) /\ Parent(p) # p
  BY <1>1, <1>3, WithinIs
<1>5. ASSUME NEW d \in RepoPath, Within(d, p), d # p PROVE Within(d, Parent(p))
  <2>1. Len(d) \in Nat /\ Len(d) <= Len(p) /\ Len(d) # Len(p)
    BY <1>5, WithinLen
  <2> QED
    BY <1>1, <1>3, <1>4, <1>5, <2>1, WithinLine
<1>6. \A d \in RepoPath : d = p \/ Within(d, Parent(p)) => Within(d, p)
  BY <1>3, <1>4, WithinSelf, WithinChain
<1> QED
  BY <1>1, <1>3, <1>4, <1>5, <1>6

LEMMA AppendIs ==
    ASSUME NEW A, NEW s \in Seq(A), NEW x \in A
    PROVE  /\ Append(s, x) \in Seq(A) /\ Len(Append(s, x)) = Len(s) + 1 /\ Append(s, x)[Len(s) + 1] = x
           /\ \A k \in 1..Len(s) : Append(s, x)[k] = s[k]
OBVIOUS

\* A name in a directory.
LEMMA NamedIs ==
    ASSUME NEW d \in RepoPath, NEW name \in STRING
    PROVE  /\ Append(d, name) \in RepoPath /\ Append(d, name) # <<>>
           /\ Parent(Append(d, name)) = d /\ Last(Append(d, name)) = name
<1>1. d \in Seq(STRING)
  BY DEF RepoPath
<1> DEFINE m == Append(d, name)
<1>2. m \in Seq(STRING) /\ Len(m) = Len(d) + 1 /\ m[Len(d) + 1] = name /\ \A k \in 1..Len(d) : m[k] = d[k]
  <2>1. m \in Seq(STRING)
    BY <1>1, AppendIs
  <2>2. Len(m) = Len(d) + 1
    BY <1>1, AppendIs
  <2>3. m[Len(d) + 1] = name
    BY <1>1, AppendIs
  <2>4. \A k \in 1..Len(d) : m[k] = d[k]
    BY <1>1, AppendIs
  <2> QED
    BY <2>1, <2>2, <2>3, <2>4
<1>0. Len(d) \in Nat
  BY <1>1
<1> HIDE DEF m
<1>3. m \in RepoPath /\ m # <<>>
  BY <1>0, <1>2 DEF RepoPath
<1>4. Within(d, m) /\ Len(Parent(m)) = Len(d) /\ Parent(m) \in RepoPath /\ d # m
  BY <1>0, <1>2, <1>3, ParentIs, WithinIs
<1>5. Within(d, Parent(m))
  BY <1>3, <1>4, ParentIs
<1>6. Parent(m) = d
  BY <1>4, <1>5, WithinLen
<1>7. Last(m) = name
  BY <1>2 DEF Last
<1> QED
  BY <1>3, <1>6, <1>7 DEF m

LEMMA ManifestPathIs ==
    ASSUME NEW d \in RepoPath
    PROVE  /\ ManifestPath(d) \in RepoPath /\ ManifestPath(d) # <<>>
           /\ Parent(ManifestPath(d)) = d /\ Last(ManifestPath(d)) = "SKILLCDN.md"
<1>1. "SKILLCDN.md" \in STRING
  BY NamesAssumption
<1> QED
  BY <1>1, NamedIs DEF ManifestPath

\* A path is what is above its file, and the name.
LEMMA PathIs ==
    ASSUME NEW p \in RepoPath, NEW q \in RepoPath, p # <<>>, q # <<>>, Parent(p) = Parent(q), Last(p) = Last(q)
    PROVE  p = q
<1>1. Len(p) \in Nat \ {0} /\ Len(q) \in Nat \ {0} /\ Len(Parent(p)) = Len(p) - 1 /\ Len(Parent(q)) = Len(q) - 1
  BY ParentIs
<1>2. Len(p) = Len(q)
  BY <1>1
<1>6. /\ Parent(p) \in RepoPath /\ Parent(q) \in RepoPath
      /\ Within(Parent(p), p) /\ Within(Parent(q), q)
  BY ParentIs
<1>3. \A i \in 1..Len(p) - 1 : Parent(p)[i] = p[i] /\ Parent(q)[i] = q[i]
  BY <1>1, <1>2, <1>6, WithinIs
<1>4. p[Len(p)] = q[Len(p)]
  BY <1>2 DEF Last
<1>5. \A i \in 1..Len(p) : p[i] = q[i]
  BY <1>1, <1>3, <1>4
<1> QED
  BY <1>2, <1>5, SamePath

LEMMA JoinedIs ==
    ASSUME NEW d \in RepoPath, NEW x \in RepoPath PROVE d \o x \in RepoPath /\ Within(d, d \o x)
<1>1. d \in Seq(STRING) /\ x \in Seq(STRING)
  BY DEF RepoPath
<1>2. d \o x \in RepoPath /\ Len(d \o x) = Len(d) + Len(x) /\ \A n \in 1..Len(d) : (d \o x)[n] = d[n]
  BY <1>1, Concatenated DEF RepoPath
<1>3. Len(d) \in Nat /\ Len(x) \in Nat /\ Len(d) <= Len(d) + Len(x)
  BY <1>1
<1> DEFINE e == d \o x
<1>4. e \in RepoPath /\ Len(d) <= Len(e) /\ \A n \in 1..Len(d) : d[n] = e[n]
  BY <1>2, <1>3
<1> HIDE DEF e
<1>5. Within(d, e)
  BY <1>4, WithinIs
<1> QED
  BY <1>4, <1>5 DEF e

-----------------------------------------------------------------------------
(* The repository *)

WholeManifests == OfKind("manifest", WholeFiles)
WholeSkills    == OfKind("skill", WholeFiles)

Sourced == source \in [files : Repository, limits : Limits]

LEMMA SourceIs ==
    ASSUME Sourced
    PROVE  source.files \in Seq(RepoFile) /\ IsTree(source.files) /\ source.limits \in IndexLimits
BY BuildAssumption DEF Sourced

LEMMA FilesAre ==
    ASSUME Sourced, NEW f \in WholeFiles
    PROVE  /\ f \in RepoFile /\ f.path \in RepoPath /\ f.path # <<>> /\ NoSegment \notin ToSet(f.path)
           /\ Last(f.path) \in DOMAIN KindOf /\ f.size \in Nat /\ f.hash \in DOMAIN Says
           /\ (f.type = "file" \/ Kind(f.path) = "manifest")
<1>1. f \in ToSet(source.files) /\ (f.type = "file" \/ Kind(f.path) = "manifest")
  BY DEF WholeFiles, Indexable
<1>2. PICK n \in DOMAIN source.files : f = source.files[n]
  BY <1>1 DEF ToSet
<1>3. f \in RepoFile
  BY <1>2, SourceIs
<1>4. f.path # <<>> /\ NoSegment \notin ToSet(f.path) /\ Last(f.path) \in DOMAIN KindOf
  BY <1>2, SourceIs DEF IsTree
<1> QED
  BY <1>1, <1>3, <1>4 DEF RepoFile

LEMMA OneFile == ASSUME Sourced, NEW f \in WholeFiles, NEW g \in WholeFiles, f.path = g.path PROVE f = g
<1>1. f \in ToSet(source.files) /\ g \in ToSet(source.files)
  BY DEF WholeFiles, Indexable
<1>2. PICK n \in DOMAIN source.files : f = source.files[n]
  BY <1>1 DEF ToSet
<1>3. PICK m \in DOMAIN source.files : g = source.files[m]
  BY <1>1 DEF ToSet
<1>4. n = m
  BY <1>2, <1>3, SourceIs DEF IsTree
<1> QED
  BY <1>2, <1>3, <1>4

\* No file is a directory of another.
LEMMA NoFileAbove ==
    ASSUME Sourced, NEW f \in WholeFiles, NEW g \in WholeFiles
    PROVE  ~Within(f.path, Parent(g.path)) /\ (Within(f.path, g.path) => f = g)
<1>1. f \in ToSet(source.files) /\ g \in ToSet(source.files)
  BY DEF WholeFiles, Indexable
<1>2. PICK n \in DOMAIN source.files : f = source.files[n]
  BY <1>1 DEF ToSet
<1>3. PICK m \in DOMAIN source.files : g = source.files[m]
  BY <1>1 DEF ToSet
<1>4. f.path \notin Prefixes(Parent(g.path))
  BY <1>2, <1>3, SourceIs DEF IsTree
<1>5. f.path \in RepoPath /\ g.path \in RepoPath /\ g.path # <<>> /\ Parent(g.path) \in RepoPath
  BY FilesAre, ParentIs
<1>6. ~Within(f.path, Parent(g.path))
  BY <1>4, <1>5, PrefixIs
<1>7. Within(f.path, g.path) => f.path = g.path
  BY <1>5, <1>6, ParentIs
<1> QED
  BY <1>6, <1>7, OneFile

LEMMA ManifestIs ==
    ASSUME Sourced, NEW f \in WholeFiles
    PROVE  /\ Kind(f.path) = "manifest" <=> f.path = ManifestPath(Parent(f.path))
           /\ Kind(f.path) = "skill" <=> Last(f.path) = "SKILL.md"
           /\ \A d \in RepoPath : f.path = ManifestPath(d) <=> (Kind(f.path) = "manifest" /\ Parent(f.path) = d)
<1>1. f.path \in RepoPath /\ f.path # <<>> /\ Parent(f.path) \in RepoPath /\ Last(f.path) \in DOMAIN KindOf
  BY FilesAre, ParentIs
<1>2. Kind(f.path) = "manifest" <=> Last(f.path) = "SKILLCDN.md"
  BY <1>1, NamesAssumption DEF Kind
<1>3. Kind(f.path) = "skill" <=> Last(f.path) = "SKILL.md"
  BY <1>1, NamesAssumption DEF Kind
<1>4. \A d \in RepoPath : /\ ManifestPath(d) \in RepoPath /\ ManifestPath(d) # <<>>
                          /\ Parent(ManifestPath(d)) = d /\ Last(ManifestPath(d)) = "SKILLCDN.md"
  BY ManifestPathIs
<1>5. Last(f.path) = "SKILLCDN.md" => f.path = ManifestPath(Parent(f.path))
  BY <1>1, <1>4, PathIs
<1> QED
  BY <1>1, <1>2, <1>3, <1>4, <1>5

LEMMA OneManifest ==
    ASSUME Sourced, NEW m \in WholeManifests
    PROVE  /\ m \in WholeFiles /\ Kind(m.path) = "manifest" /\ m.path \in RepoPath /\ Parent(m.path) \in RepoPath
           /\ m.path = ManifestPath(Parent(m.path)) /\ Within(Parent(m.path), m.path) /\ Parent(m.path) # m.path
           /\ m.hash \in DOMAIN Says
           /\ \A n \in WholeManifests : Parent(n.path) = Parent(m.path) => n = m
<1>1. \A n \in WholeManifests : n \in WholeFiles /\ Kind(n.path) = "manifest"
  BY DEF WholeManifests, OfKind
<1>2. \A n \in WholeManifests : n.path = ManifestPath(Parent(n.path)) /\ n.path \in RepoPath /\ n.path # <<>>
                                   /\ n.hash \in DOMAIN Says
  BY <1>1, ManifestIs, FilesAre
<1>3. \A n \in WholeManifests : Parent(n.path) = Parent(m.path) => n = m
  BY <1>1, <1>2, OneFile
<1> QED
  BY <1>1, <1>2, <1>3, ParentIs

\* The skills of two directories are two.
LEMMA OneSkill ==
    ASSUME Sourced, NEW f \in WholeSkills
    PROVE  /\ f \in WholeFiles /\ Kind(f.path) = "skill" /\ f.path \in RepoPath /\ f.path # <<>>
           /\ Parent(f.path) \in RepoPath /\ f.type = "file" /\ f \notin WholeManifests
           /\ Last(f.path) = "SKILL.md" /\ f.hash \in DOMAIN Says
           /\ \A g \in WholeSkills : Parent(g.path) = Parent(f.path) => g = f
<1>1. \A g \in WholeSkills : g \in WholeFiles /\ Kind(g.path) = "skill"
  BY DEF WholeSkills, OfKind
<1>2. \A g \in WholeSkills : Last(g.path) = "SKILL.md" /\ g.path \in RepoPath /\ g.path # <<>> /\ g.hash \in DOMAIN Says
  BY <1>1, ManifestIs, FilesAre
<1>3. \A g \in WholeSkills : Parent(g.path) = Parent(f.path) => g = f
  BY <1>1, <1>2, OneFile, PathIs
<1>4. f.type = "file" /\ f \notin WholeManifests
  BY <1>1, FilesAre DEF WholeManifests, OfKind
<1> QED
  BY <1>1, <1>2, <1>3, <1>4, ParentIs

\* What a body says.
LEMMA SaysIs ==
    ASSUME NEW hash \in DOMAIN Says
    PROVE  /\ Says[hash].text \in BOOLEAN /\ Says[hash].ok \in BOOLEAN
           /\ Says[hash].exclude \subseteq RepoPath /\ Says[hash].documents \subseteq RepoPath
           /\ Says[hash].include \in Seq(RepoPath) /\ Says[hash].refs \in Seq(RepoPath)
           /\ Says[hash].license \in {"permissive", "restrictive", "silent"}
<1>1. Says[hash] \in BodySays
  BY BuildAssumption
<1> QED
  BY <1>1 DEF BodySays

LEMMA ExcludesAre ==
    ASSUME Sourced, NEW m \in WholeManifests
    PROVE  \A e \in Excludes(m) : e \in RepoPath /\ Within(Parent(m.path), e)
<1>1. Parent(m.path) \in RepoPath /\ Says[m.hash].exclude \subseteq RepoPath
  BY OneManifest, SaysIs
<1> QED
  BY <1>1, JoinedIs DEF Excludes

-----------------------------------------------------------------------------
(* Sequences of files *)

LEMMA MemberIs == ASSUME NEW A, NEW s \in Seq(A) PROVE \A x : x \in ToSet(s) <=> \E n \in 1..Len(s) : x = s[n]
BY DEF ToSet

LEMMA MembersAre == ASSUME NEW A, NEW s \in Seq(A) PROVE ToSet(s) \subseteq A /\ s \in Seq(ToSet(s))
<1>1. Len(s) \in Nat /\ DOMAIN s = 1..Len(s) /\ s \in [1..Len(s) -> A]
  OBVIOUS
<1>2. ToSet(s) \subseteq A
  BY <1>1 DEF ToSet
<1>3. \A n \in 1..Len(s) : s[n] \in ToSet(s)
  BY <1>1 DEF ToSet
<1>4. s \in [1..Len(s) -> ToSet(s)]
  BY <1>1, <1>3
<1> QED
  BY <1>1, <1>2, <1>4

LEMMA NoMembers == ToSet(<<>>) = {}
BY DEF ToSet

LEMMA AppendMembers == ASSUME NEW A, NEW s \in Seq(A), NEW x \in A PROVE ToSet(Append(s, x)) = ToSet(s) \union {x}
<1> DEFINE t == Append(s, x)
<1>1. t \in Seq(A) /\ Len(t) = Len(s) + 1 /\ t[Len(s) + 1] = x /\ \A n \in 1..Len(s) : t[n] = s[n]
  OBVIOUS
<1>2. Len(s) \in Nat
  OBVIOUS
<1> HIDE DEF t
<1>3. \A n : n \in 1..Len(t) <=> (n \in 1..Len(s) \/ n = Len(s) + 1)
  BY <1>1, <1>2
<1>4. \A y : y \in ToSet(t) <=> (y \in ToSet(s) \/ y = x)
  BY <1>1, <1>3, MemberIs
<1>5. ToSet(t) = ToSet(s) \union {x}
  BY <1>4
<1> QED
  BY <1>5 DEF t

LEMMA JoinMembers ==
    ASSUME NEW A, NEW s \in Seq(A), NEW t \in Seq(A) PROVE s \o t \in Seq(A) /\ ToSet(s \o t) = ToSet(s) \union ToSet(t)
<1> DEFINE u == s \o t
<1>1. /\ u \in Seq(A) /\ Len(u) = Len(s) + Len(t)
      /\ \A n \in 1..Len(s) : u[n] = s[n]
      /\ \A n \in 1..Len(t) : u[Len(s) + n] = t[n]
  BY Concatenated
<1>2. Len(s) \in Nat /\ Len(t) \in Nat
  OBVIOUS
<1> HIDE DEF u
<1>3. ASSUME NEW n \in 1..Len(u) PROVE u[n] \in ToSet(s) \union ToSet(t)
  <2>1. CASE n \in 1..Len(s)
    BY <1>1, <2>1, MemberIs
  <2>2. CASE n \notin 1..Len(s)
    <3>1. n - Len(s) \in 1..Len(t) /\ Len(s) + (n - Len(s)) = n
      BY <1>1, <1>2, <2>2
    <3> QED
      BY <1>1, <3>1, MemberIs
  <2> QED
    BY <2>1, <2>2
<1>4. \A n \in 1..Len(s) : n \in 1..Len(u)
  BY <1>1, <1>2
<1>5. \A n \in 1..Len(t) : Len(s) + n \in 1..Len(u)
  BY <1>1, <1>2
<1>6. ToSet(u) \subseteq ToSet(s) \union ToSet(t)
  BY <1>1, <1>3, MemberIs
<1>7. ToSet(s) \subseteq ToSet(u) /\ ToSet(t) \subseteq ToSet(u)
  <2>1. ASSUME NEW x \in ToSet(s) PROVE x \in ToSet(u)
    <3>1. PICK n \in 1..Len(s) : x = s[n]
      BY MemberIs
    <3>2. n \in 1..Len(u) /\ u[n] = x
      BY <1>1, <1>4, <3>1
    <3> QED
      BY <1>1, <3>2, MemberIs
  <2>2. ASSUME NEW x \in ToSet(t) PROVE x \in ToSet(u)
    <3>1. PICK n \in 1..Len(t) : x = t[n]
      BY MemberIs
    <3>2. Len(s) + n \in 1..Len(u) /\ u[Len(s) + n] = x
      BY <1>1, <1>5, <3>1
    <3> QED
      BY <1>1, <3>2, MemberIs
  <2> QED
    BY <2>1, <2>2
<1>8. ToSet(u) = ToSet(s) \union ToSet(t)
  BY <1>6, <1>7
<1> QED
  BY <1>1, <1>8 DEF u

\* What is in sequences that are made into one.
LEMMA FlattenMembers ==
    ASSUME NEW A, NEW ss \in Seq(Seq(A))
    PROVE  /\ FlattenSeq(ss) \in Seq(A)
           /\ \A x : x \in ToSet(FlattenSeq(ss)) <=> \E n \in 1..Len(ss) : x \in ToSet(ss[n])
<1>0. FlattenSeq(ss) \in Seq(A)
  BY FlattenType
<1>1. CASE Len(ss) = 0
  <2>1. FlattenSeq(ss) = <<>>
    BY <1>1, FlattenIs
  <2> QED
    BY <1>0, <1>1, <2>1, NoMembers
<1>2. CASE Len(ss) # 0
  <2> DEFINE f == CHOOSE g : Flattens(g, ss)
  <2>1. Flattens(f, ss)
    BY FlattensThere
  <2>2. FlattenSeq(ss) = f[Len(ss)]
    BY <1>2, FlattenIs
  <2> HIDE DEF f
  <2>3. \A i \in 1..Len(ss) : f[i] \in Seq(A)
    BY <2>1, FlattensOnto
  <2>4. \A i \in 1..Len(ss) : f[i] = IF i = 1 THEN ss[i] ELSE f[i - 1] \o ss[i]
    BY <2>1 DEF Flattens
  <2> DEFINE Holds(k) == \A x : x \in ToSet(f[k]) <=> \E n \in 1..k : x \in ToSet(ss[n])
             S == {k \in Nat : k \in 1..Len(ss) => Holds(k)}
  <2>5. 0 \in S
    OBVIOUS
  <2>6. ASSUME NEW k \in Nat, k \in S PROVE k + 1 \in S
    <3> SUFFICES ASSUME k + 1 \in 1..Len(ss) PROVE Holds(k + 1)
      OBVIOUS
    <3>1. CASE k = 0
      <4>1. f[1] = ss[1]
        BY <2>4, <3>1
      <4>2. \A n : n \in 1..1 <=> n = 1
        OBVIOUS
      <4> QED
        BY <3>1, <4>1, <4>2
    <3>2. CASE k # 0
      <4>1. k \in 1..Len(ss) /\ k + 1 # 1 /\ (k + 1) - 1 = k
        BY <3>2
      <4>2. f[k + 1] = f[k] \o ss[k + 1]
        BY <2>4, <4>1, Zenon
      <4>3. f[k] \in Seq(A) /\ ss[k + 1] \in Seq(A)
        BY <2>3, <4>1
      <4>4. ToSet(f[k + 1]) = ToSet(f[k]) \union ToSet(ss[k + 1])
        BY <4>2, <4>3, JoinMembers
      <4>5. Holds(k)
        BY <2>6, <4>1
      <4>6. \A n : n \in 1..k + 1 <=> (n \in 1..k \/ n = k + 1)
        OBVIOUS
      <4> QED
        BY <4>4, <4>5, <4>6
    <3> QED
      BY <3>1, <3>2
  <2> HIDE DEF S
  <2>7. \A k \in Nat : k \in S
    BY <2>5, <2>6, Upwards
  <2>8. Len(ss) \in Nat /\ Len(ss) \in 1..Len(ss)
    BY <1>2
  <2>9. Holds(Len(ss))
    BY <2>7, <2>8 DEF S
  <2> QED
    BY <1>0, <2>2, <2>9
<1> QED
  BY <1>1, <1>2

\* The members that are wanted are kept one after another.
Keeps(f, s, wanted) ==
    f = [n \in 0..Len(s) |->
            IF n = 0 THEN <<>> ELSE IF s[n] \in wanted THEN Append(f[n - 1], s[n]) ELSE f[n - 1]]

LEMMA OnlyKeeps == ASSUME NEW s, NEW wanted PROVE Only(s, wanted) = (CHOOSE f : Keeps(f, s, wanted))[Len(s)]
BY DEF Only, Keeps

LEMMA KeepsThere == ASSUME NEW A, NEW s \in Seq(A), NEW wanted PROVE \E f : Keeps(f, s, wanted)
<1> DEFINE N == Len(s)
           S == [x \in Seq(A) \X (1..N) |-> IF s[x[2]] \in wanted THEN Append(x[1], s[x[2]]) ELSE x[1]]
<1>1. N \in Nat /\ <<>> \in Seq(A) /\ \A n \in 1..N : s[n] \in A
  OBVIOUS
<1>2. \A x \in Seq(A) \X (1..N) : x[1] \in Seq(A) /\ x[2] \in 1..N
  OBVIOUS
<1>3. \A x \in Seq(A) \X (1..N) : (IF s[x[2]] \in wanted THEN Append(x[1], s[x[2]]) ELSE x[1]) \in Seq(A)
  BY <1>1, <1>2
<1>4. Stepwise(S, Seq(A), N)
  BY <1>3 DEF Stepwise
<1>5. \A c \in Seq(A), k \in 1..N : S[<<c, k>>] = IF s[k] \in wanted THEN Append(c, s[k]) ELSE c
  OBVIOUS
<1> HIDE DEF S
<1>6. PICK f : Takes(f, S, <<>>, Seq(A), N)
  BY <1>1, <1>4, Chain
<1>12. f \in [0..N -> Seq(A)] /\ f[0] = <<>> /\ \A k \in 1..N : f[k] = S[<<f[k - 1], k>>]
  BY <1>6 DEF Takes
<1>13. \A k \in 1..N : k - 1 \in 0..N
  BY <1>1
<1>7. f \in [0..N -> Seq(A)] /\ f[0] = <<>> /\ \A k \in 1..N : f[k] = S[<<f[k - 1], k>>] /\ f[k - 1] \in Seq(A)
  BY <1>12, <1>13
<1>8. \A k \in 1..N : f[k] = IF s[k] \in wanted THEN Append(f[k - 1], s[k]) ELSE f[k - 1]
  BY <1>5, <1>7
<1>9. \A n \in 0..N : f[n] = IF n = 0 THEN <<>> ELSE IF s[n] \in wanted THEN Append(f[n - 1], s[n]) ELSE f[n - 1]
  <2> SUFFICES ASSUME NEW n \in 0..N, n # 0
               PROVE  f[n] = IF s[n] \in wanted THEN Append(f[n - 1], s[n]) ELSE f[n - 1]
    BY <1>7
  <2>1. n \in 1..N
    BY <1>1
  <2> QED
    BY <1>8, <2>1
<1>10. f = [n \in 0..N |-> f[n]]
  BY <1>7
<1> DEFINE g == [n \in 0..N |-> IF n = 0 THEN <<>> ELSE IF s[n] \in wanted THEN Append(f[n - 1], s[n]) ELSE f[n - 1]]
<1>11. f = g
  BY <1>9, <1>10
<1> QED
  BY <1>11 DEF Keeps

LEMMA OnlyIs ==
    ASSUME NEW A, NEW s \in Seq(A), NEW wanted
    PROVE  Only(s, wanted) \in Seq(A) /\ ToSet(Only(s, wanted)) = ToSet(s) \intersect wanted
<1> DEFINE f == CHOOSE g : Keeps(g, s, wanted)
           N == Len(s)
<1>1. Keeps(f, s, wanted)
  BY KeepsThere
<1>2. Only(s, wanted) = f[N]
  BY OnlyKeeps
<1>3. N \in Nat /\ \A n \in 1..N : s[n] \in A
  OBVIOUS
<1> HIDE DEF f, N
<1>4. \A n \in 0..N : f[n] = IF n = 0 THEN <<>> ELSE IF s[n] \in wanted THEN Append(f[n - 1], s[n]) ELSE f[n - 1]
  BY <1>1 DEF Keeps, N
<1> DEFINE Fits(k) == f[k] \in Seq(A) /\ \A x : x \in ToSet(f[k]) <=> (x \in wanted /\ \E n \in 1..k : x = s[n])
           S == {k \in Nat : k \in 0..N => Fits(k)}
<1>5. 0 \in S
  <2>1. f[0] = <<>>
    BY <1>3, <1>4
  <2>2. ToSet(f[0]) = {} /\ f[0] \in Seq(A)
    BY <2>1, NoMembers
  <2>3. \A n : n \notin 1..0
    OBVIOUS
  <2>4. Fits(0)
    BY <2>2, <2>3
  <2> QED
    BY <2>4
<1>6. ASSUME NEW k \in Nat, k \in S PROVE k + 1 \in S
  <2> SUFFICES ASSUME k + 1 \in 0..N PROVE Fits(k + 1)
    OBVIOUS
  <2>1. k \in 0..N /\ k + 1 # 0 /\ (k + 1) - 1 = k /\ k + 1 \in 1..N
    BY <1>3
  <2>2. Fits(k)
    BY <1>6, <2>1
  <2>3. f[k + 1] = IF s[k + 1] \in wanted THEN Append(f[k], s[k + 1]) ELSE f[k]
    BY <1>4, <2>1, Zenon
  <2>4. s[k + 1] \in A
    BY <1>3, <2>1
  <2>5. \A n : n \in 1..k + 1 <=> (n \in 1..k \/ n = k + 1)
    OBVIOUS
  <2>6. CASE s[k + 1] \in wanted
    <3>1. f[k + 1] = Append(f[k], s[k + 1])
      BY <2>3, <2>6
    <3>2. ToSet(f[k + 1]) = ToSet(f[k]) \union {s[k + 1]} /\ f[k + 1] \in Seq(A)
      BY <2>2, <2>4, <3>1, AppendMembers
    <3> QED
      BY <2>2, <2>5, <2>6, <3>2
  <2>7. CASE s[k + 1] \notin wanted
    <3>1. f[k + 1] = f[k]
      BY <2>3, <2>7
    <3> QED
      BY <2>2, <2>5, <2>7, <3>1
  <2> QED
    BY <2>6, <2>7
<1> HIDE DEF S
<1>7. N \in S
  BY <1>3, <1>5, <1>6, Upwards
<1>8. Fits(N)
  BY <1>3, <1>7 DEF S
<1>9. \A x : x \in ToSet(f[N]) <=> (x \in ToSet(s) /\ x \in wanted)
  BY <1>8, MemberIs DEF N
<1> QED
  BY <1>2, <1>8, <1>9

-----------------------------------------------------------------------------
(* The budget, and the bodies *)

BudgetType == [admitted : SUBSET WholeFiles, bytes : Nat, cut : BOOLEAN]

\* Of one file more: whatever is admitted stays, and it is only left out when that is remembered.
LEMMA AdmitIs ==
    ASSUME Sourced, NEW spent \in BudgetType, NEW f \in WholeFiles, NEW most \in Nat
    PROVE  /\ Admit(spent, f, most) \in BudgetType
           /\ spent.admitted \subseteq Admit(spent, f, most).admitted
           /\ Admit(spent, f, most).admitted \subseteq spent.admitted \union {f}
           /\ spent.cut => Admit(spent, f, most).cut
           /\ ~Admit(spent, f, most).cut /\ f.size <= most => f \in Admit(spent, f, most).admitted
<1>1. f.size \in Nat
  BY FilesAre
<1>2. spent.admitted \in SUBSET WholeFiles /\ spent.bytes \in Nat /\ spent.cut \in BOOLEAN
  BY DEF BudgetType
<1>3. CASE f \in spent.admitted \/ f.size > most
  <2>1. Admit(spent, f, most) = spent
    BY <1>3 DEF Admit
  <2> QED
    BY <1>1, <1>3, <2>1
<1>4. CASE /\ ~(f \in spent.admitted \/ f.size > most)
           /\ Cardinality(spent.admitted) >= source.limits.count \/ spent.bytes + f.size > source.limits.bytes
  <2>1. Admit(spent, f, most) = [spent EXCEPT !.cut = TRUE]
    BY <1>4 DEF Admit
  <2>2. /\ Admit(spent, f, most) \in BudgetType /\ Admit(spent, f, most).cut
        /\ Admit(spent, f, most).admitted = spent.admitted
    BY <2>1 DEF BudgetType
  <2> QED
    BY <2>2
<1>5. CASE /\ ~(f \in spent.admitted \/ f.size > most)
           /\ ~(Cardinality(spent.admitted) >= source.limits.count \/ spent.bytes + f.size > source.limits.bytes)
  <2>1. Admit(spent, f, most) = [spent EXCEPT !.admitted = @ \union {f}, !.bytes = @ + f.size]
    BY <1>5 DEF Admit
  <2>2. /\ Admit(spent, f, most) \in BudgetType /\ Admit(spent, f, most).cut = spent.cut
        /\ Admit(spent, f, most).admitted = spent.admitted \union {f}
    <3>1. spent.admitted \union {f} \in SUBSET WholeFiles /\ spent.bytes + f.size \in Nat
      BY <1>1, <1>2
    <3> QED
      BY <1>2, <2>1, <3>1 DEF BudgetType
  <2> QED
    BY <2>2
<1> QED
  BY <1>3, <1>4, <1>5

Spends(g, fs, most) == g = [n \in 0..Len(fs) |-> IF n = 0 THEN budget ELSE Admit(g[n - 1], fs[n], most)]

LEMMA AdmitsEach == ASSUME NEW fs, NEW most PROVE AdmitEach(fs, most) = (CHOOSE g : Spends(g, fs, most))[Len(fs)]
BY DEF AdmitEach, Spends

LEMMA SpendsThere ==
    ASSUME Sourced, budget \in BudgetType, NEW fs \in Seq(WholeFiles), NEW most \in Nat
    PROVE  \E g : Spends(g, fs, most)
<1> DEFINE N == Len(fs)
           S == [x \in BudgetType \X (1..N) |-> Admit(x[1], fs[x[2]], most)]
<1>1. N \in Nat /\ \A n \in 1..N : fs[n] \in WholeFiles
  OBVIOUS
<1>2. \A x \in BudgetType \X (1..N) : x[1] \in BudgetType /\ x[2] \in 1..N
  OBVIOUS
<1>3. \A x \in BudgetType \X (1..N) : Admit(x[1], fs[x[2]], most) \in BudgetType
  BY <1>1, <1>2, AdmitIs
<1>4. Stepwise(S, BudgetType, N)
  BY <1>3 DEF Stepwise
<1>5. \A c \in BudgetType, k \in 1..N : S[<<c, k>>] = Admit(c, fs[k], most)
  OBVIOUS
<1> HIDE DEF S
<1>6. PICK g : Takes(g, S, budget, BudgetType, N)
  BY <1>1, <1>4, Chain
<1>7. g \in [0..N -> BudgetType] /\ g[0] = budget /\ \A k \in 1..N : g[k] = S[<<g[k - 1], k>>]
  BY <1>6 DEF Takes
<1>8. \A k \in 1..N : k - 1 \in 0..N
  BY <1>1
<1>9. \A k \in 1..N : g[k - 1] \in BudgetType
  BY <1>7, <1>8
<1>10. \A k \in 1..N : g[k] = Admit(g[k - 1], fs[k], most)
  BY <1>5, <1>7, <1>9
<1>11. \A n \in 0..N : n # 0 => n \in 1..N
  BY <1>1
<1>12. \A n \in 0..N : g[n] = IF n = 0 THEN budget ELSE Admit(g[n - 1], fs[n], most)
  BY <1>7, <1>10, <1>11, Zenon
<1>13. g = [n \in 0..N |-> g[n]]
  BY <1>7
<1>14. g = [n \in 0..N |-> IF n = 0 THEN budget ELSE Admit(g[n - 1], fs[n], most)]
  BY <1>12, <1>13, Zenon
<1> QED
  BY <1>14 DEF Spends

\* Of a sequence of files: those that fit are admitted, or it is remembered that one was left out.
LEMMA AdmitEachIs ==
    ASSUME Sourced, budget \in BudgetType, NEW fs \in Seq(WholeFiles), NEW most \in Nat
    PROVE  /\ AdmitEach(fs, most) \in BudgetType
           /\ budget.admitted \subseteq AdmitEach(fs, most).admitted
           /\ AdmitEach(fs, most).admitted \subseteq budget.admitted \union ToSet(fs)
           /\ budget.cut => AdmitEach(fs, most).cut
           /\ ~AdmitEach(fs, most).cut =>
                \A f \in ToSet(fs) : f.size <= most => f \in AdmitEach(fs, most).admitted
<1> DEFINE g == CHOOSE h : Spends(h, fs, most)
           N == Len(fs)
<1>1. Spends(g, fs, most)
  BY SpendsThere
<1>2. AdmitEach(fs, most) = g[N]
  BY AdmitsEach
<1>3. N \in Nat /\ \A n \in 1..N : fs[n] \in WholeFiles
  OBVIOUS
<1> HIDE DEF g, N
<1>4. \A n \in 0..N : g[n] = IF n = 0 THEN budget ELSE Admit(g[n - 1], fs[n], most)
  BY <1>1 DEF Spends, N
<1> DEFINE Fits(k) == /\ g[k] \in BudgetType
                      /\ budget.admitted \subseteq g[k].admitted
                      /\ \A x \in g[k].admitted : x \in budget.admitted \/ \E n \in 1..k : x = fs[n]
                      /\ budget.cut => g[k].cut
                      /\ ~g[k].cut => \A n \in 1..k : fs[n].size <= most => fs[n] \in g[k].admitted
           S == {k \in Nat : k \in 0..N => Fits(k)}
<1>5. 0 \in S
  <2>1. g[0] = budget
    BY <1>3, <1>4
  <2> QED
    BY <2>1
<1>6. ASSUME NEW k \in Nat, k \in S PROVE k + 1 \in S
  <2> SUFFICES ASSUME k + 1 \in 0..N PROVE Fits(k + 1)
    OBVIOUS
  <2>1. k \in 0..N /\ k + 1 # 0 /\ (k + 1) - 1 = k /\ k + 1 \in 1..N
    BY <1>3
  <2>2. Fits(k)
    BY <1>6, <2>1
  <2>3. g[k + 1] = Admit(g[k], fs[k + 1], most)
    BY <1>4, <2>1, Zenon
  <2> DEFINE a == g[k]
             b == g[k + 1]
             f == fs[k + 1]
  <2>4. f \in WholeFiles /\ a \in BudgetType
    BY <1>3, <2>1, <2>2
  <2>11. b = Admit(a, f, most)
    BY <2>3
  <2>6. /\ budget.admitted \subseteq a.admitted /\ (budget.cut => a.cut)
        /\ \A x \in a.admitted : x \in budget.admitted \/ \E n \in 1..k : x = fs[n]
        /\ ~a.cut => \A n \in 1..k : fs[n].size <= most => fs[n] \in a.admitted
    BY <2>2
  <2>7. \A n : n \in 1..k + 1 <=> (n \in 1..k \/ n = k + 1)
    OBVIOUS
  <2>12. f = fs[k + 1]
    OBVIOUS
  <2> HIDE DEF a, b, f
  <2>5. /\ b \in BudgetType /\ a.admitted \subseteq b.admitted /\ b.admitted \subseteq a.admitted \union {f}
        /\ a.cut => b.cut
        /\ ~b.cut /\ f.size <= most => f \in b.admitted
    BY <2>4, <2>11, AdmitIs
  <2>8. \A x \in b.admitted : x \in budget.admitted \/ \E n \in 1..k + 1 : x = fs[n]
    BY <2>5, <2>6, <2>7, <2>12
  <2>9. ~b.cut => \A n \in 1..k + 1 : fs[n].size <= most => fs[n] \in b.admitted
    BY <2>5, <2>6, <2>7, <2>12
  <2>10. budget.admitted \subseteq b.admitted /\ (budget.cut => b.cut)
    BY <2>5, <2>6
  <2> QED
    BY <2>5, <2>8, <2>9, <2>10 DEF b
<1> HIDE DEF S
<1>7. N \in S
  BY <1>3, <1>5, <1>6, Upwards
<1>8. Fits(N)
  BY <1>3, <1>7 DEF S
<1>9. \A x : x \in ToSet(fs) <=> \E n \in 1..N : x = fs[n]
  BY MemberIs DEF N
<1> HIDE DEF Fits
<1>10. /\ g[N] \in BudgetType /\ budget.admitted \subseteq g[N].admitted /\ (budget.cut => g[N].cut)
       /\ \A x \in g[N].admitted : x \in budget.admitted \/ \E n \in 1..N : x = fs[n]
       /\ ~g[N].cut => \A n \in 1..N : fs[n].size <= most => fs[n] \in g[N].admitted
  BY <1>8 DEF Fits
<1>11. g[N].admitted \subseteq budget.admitted \union ToSet(fs)
  BY <1>9, <1>10
<1>12. ~g[N].cut => \A f \in ToSet(fs) : f.size <= most => f \in g[N].admitted
  BY <1>9, <1>10
<1> QED
  BY <1>2, <1>10, <1>11, <1>12

\* A body that was lost stays lost, and one that was asked for is at hand unless it was lost.
LEMMA FetchedIs ==
    ASSUME bodies.held \subseteq bodies.asked, NEW wanted, NEW had \in Fetched(wanted)
    PROVE  /\ had.held \subseteq had.asked /\ bodies.held \subseteq had.held
           /\ had.asked = had.held => bodies.asked = bodies.held /\ \A f \in wanted : f.hash \in had.held
<1> DEFINE new == {f.hash : f \in wanted} \ bodies.asked
<1>1. PICK lost \in SUBSET new : had = [asked |-> bodies.asked \union new, held |-> bodies.held \union (new \ lost)]
  BY DEF Fetched
<1>2. had.asked = bodies.asked \union new /\ had.held = bodies.held \union (new \ lost)
  BY <1>1
<1>3. \A f \in wanted : f.hash \in bodies.asked \union new
  OBVIOUS
<1>4. \A h \in new : h \notin bodies.asked
  OBVIOUS
<1> HIDE DEF new
<1> QED
  BY <1>2, <1>3, <1>4

-----------------------------------------------------------------------------
(* The greatest and the least *)

LEMMA GreatestOf ==
    ASSUME NEW S \in SUBSET Nat, S # {}, NEW b \in Nat, \A x \in S : x <= b
    PROVE  \E m \in S : \A x \in S : x <= m
<1> DEFINE T == {j \in Nat : \E x \in S : j = b - x}
<1>1. PICK y \in S : TRUE
  OBVIOUS
<1>2. y \in Nat /\ b - y \in Nat
  <2>1. y \in Nat /\ y <= b
    BY <1>1
  <2> QED
    BY <2>1
<1>3. b - y \in T
  BY <1>1, <1>2
<1>4. T \in SUBSET Nat /\ T # {}
  BY <1>3
<1> HIDE DEF T
<1>5. PICK j \in T : \A k \in T : j <= k
  BY <1>4, LeastOf
<1>6. PICK m \in S : j = b - m
  BY <1>5 DEF T
<1>7. ASSUME NEW x \in S PROVE x <= m
  <2>1. x \in Nat /\ m \in Nat /\ x <= b
    OBVIOUS
  <2>2. b - x \in T
    BY <2>1 DEF T
  <2>3. b - m <= b - x
    BY <1>5, <1>6, <2>2
  <2> QED
    BY <2>1, <2>3
<1> QED
  BY <1>6, <1>7

\* The depths of the files of a sequence are bounded.
LEMMA DepthsBounded ==
    ASSUME NEW s \in Seq(RepoFile) PROVE \E b \in Nat : \A f \in ToSet(s) : Len(f.path) \in Nat /\ Len(f.path) <= b
<1> DEFINE N == Len(s)
           h == [n \in 1..N |-> Len(s[n].path)]
<1>1. N \in Nat /\ \A n \in 1..N : s[n] \in RepoFile
  OBVIOUS
<1>2. \A n \in 1..N : Len(s[n].path) \in Nat
  BY <1>1 DEF RepoFile, RepoPath
<1>3. \A n \in 1..N : h[n] \in Nat /\ h[n] = Len(s[n].path)
  BY <1>2
<1>4. IsFiniteSet(1..N)
  BY <1>1, FS_Interval
<1> HIDE DEF h
<1>5. Sum(h, 1..N) \in Nat /\ \A n \in 1..N : h[n] <= Sum(h, 1..N)
  BY <1>3, <1>4, SumNat
<1>6. \A f \in ToSet(s) : \E n \in 1..N : f = s[n]
  BY MemberIs
<1> QED
  BY <1>3, <1>5, <1>6

LEMMA DeepestIs ==
    ASSUME Sourced, NEW S, S \subseteq ToSet(source.files)
    PROVE  /\ Max({Len(f.path) : f \in S} \union {0}) \in Nat
           /\ \A f \in S : Len(f.path) \in Nat /\ Len(f.path) <= Max({Len(g.path) : g \in S} \union {0})
<1> DEFINE D == {Len(f.path) : f \in S} \union {0}
<1>1. PICK b \in Nat : \A f \in ToSet(source.files) : Len(f.path) \in Nat /\ Len(f.path) <= b
  BY SourceIs, DepthsBounded
<1>2. D \in SUBSET Nat /\ D # {} /\ \A x \in D : x <= b
  BY <1>1
<1>3. \A f \in S : Len(f.path) \in D
  OBVIOUS
<1> HIDE DEF D
<1>4. \E m \in D : \A x \in D : x <= m
  BY <1>2, GreatestOf
<1>5. \E m \in D : \A x \in D : m >= x
  BY <1>2, <1>4
<1>6. Max(D) \in D /\ \A x \in D : Max(D) >= x
  BY <1>5 DEF Max
<1>7. Max(D) \in Nat /\ \A f \in S : Len(f.path) \in Nat /\ Len(f.path) <= Max(D)
  BY <1>2, <1>3, <1>6
<1> QED
  BY <1>7 DEF D

LEMMA NowhereIs == Len(Nowhere) = 1 /\ Nowhere[1] = NoSegment
BY DEF Nowhere

\* The nearest of some directories to one is the deepest of those above it.
LEMMA NearestIs ==
    ASSUME NEW p \in RepoPath, NEW directories, NoSegment \notin ToSet(p)
    PROVE  /\ Nearest(p, directories) = Nowhere <=> ~\E d \in RepoPath : d \in directories /\ Within(d, p)
           /\ Nearest(p, directories) # Nowhere =>
                /\ Nearest(p, directories) \in directories \intersect RepoPath
                /\ Within(Nearest(p, directories), p)
                /\ \A d \in RepoPath : d \in directories /\ Within(d, p) => Within(d, Nearest(p, directories))
<1>0. Len(p) \in Nat
  BY DEF RepoPath
<1> DEFINE above == AtOrAbove(p) \intersect directories
           near  == CHOOSE d \in above : \A e \in above : Len(e) <= Len(d)
<1>1. Nearest(p, directories) = IF above = {} THEN Nowhere ELSE near
  BY DEF Nearest
<1>2. \A d : d \in above <=> (d \in RepoPath /\ d \in directories /\ Within(d, p))
  BY PrefixIs DEF AtOrAbove
<1>3. CASE above = {}
  BY <1>1, <1>2, <1>3
<1>4. CASE above # {}
  <2> DEFINE L == {n \in Nat : \E d \in above : n = Len(d)}
  <2>0. \A d \in above : Len(d) \in Nat /\ Len(d) <= Len(p)
    BY <1>2, WithinLen
  <2>1. L \in SUBSET Nat /\ L # {} /\ Len(p) \in Nat /\ \A n \in L : n <= Len(p)
    <3>1. Len(p) \in Nat
      BY <1>0
    <3>2. PICK d \in above : TRUE
      BY <1>4
    <3>3. Len(d) \in L
      BY <2>0
    <3>4. \A n \in L : n <= Len(p)
      BY <2>0
    <3> QED
      BY <3>1, <3>3, <3>4
  <2>2. PICK m \in L : \A n \in L : n <= m
    BY <2>1, GreatestOf
  <2>3. \E d \in above : \A e \in above : Len(e) <= Len(d)
    BY <2>0, <2>2
  <2>4. near \in above /\ \A e \in above : Len(e) <= Len(near)
    BY <2>3
  <2>5. Nearest(p, directories) = near
    BY <1>1, <1>4
  <2> HIDE DEF near, above
  <2>6. near \in RepoPath /\ near \in directories /\ Within(near, p)
    BY <1>2, <2>4
  <2>7. near # Nowhere
    <3> SUFFICES ASSUME near = Nowhere PROVE FALSE
      OBVIOUS
    <3>1. Len(near) = 1 /\ near[1] = NoSegment
      BY NowhereIs, Zenon
    <3>2. 1 <= Len(p) /\ \A i \in 1..1 : near[i] = p[i]
      BY <2>6, <3>1, WithinIs
    <3>3. 1 \in 1..Len(p) /\ p[1] = NoSegment
      BY <1>0, <3>1, <3>2
    <3>4. p \in Seq(STRING)
      BY DEF RepoPath
    <3>5. NoSegment \in ToSet(p)
      BY <3>3, <3>4, MemberIs
    <3> QED
      BY <3>5
  <2>8. ASSUME NEW d \in RepoPath, d \in directories, Within(d, p) PROVE Within(d, near)
    <3>1. d \in above
      BY <1>2, <2>8
    <3>2. Len(d) <= Len(near)
      BY <2>4, <3>1
    <3> QED
      BY <2>6, <2>8, <3>2, WithinLine
  <2> QED
    BY <2>5, <2>6, <2>7, <2>8
<1> QED
  BY <1>3, <1>4

\* The plainest of some paths is one of them.
LEMMA PlainestIs ==
    ASSUME NEW paths, paths # {}, NEW rank, Ranks(rank), \A p \in paths : Last(p) \in DOMAIN rank
    PROVE  Plainest(paths, rank) \in paths
<1> DEFINE R == {n \in Nat : \E p \in paths : n = rank[Last(p)]}
<1>1. \A p \in paths : rank[Last(p)] \in Nat
  BY DEF Ranks
<1>2. R \in SUBSET Nat /\ R # {}
  BY <1>1
<1>3. PICK m \in R : \A n \in R : m <= n
  BY <1>2, LeastOf
<1>4. \E p \in paths : \A q \in paths : rank[Last(p)] <= rank[Last(q)]
  BY <1>1, <1>3
<1> QED
  BY <1>4 DEF Plainest

-----------------------------------------------------------------------------
(* The tree as it is cut *)

LEMMA SeqOver == ASSUME NEW A, NEW B, NEW s \in Seq(A), ToSet(s) \subseteq B PROVE s \in Seq(B)
<1>1. s \in Seq(ToSet(s))
  BY MembersAre
<1>2. Len(s) \in Nat /\ s \in [1..Len(s) -> ToSet(s)]
  BY <1>1
<1>3. s \in [1..Len(s) -> B]
  BY <1>2
<1> QED
  BY <1>2, <1>3

\* A sequence made of two: what is at each place.
LEMMA JoinPlaces ==
    ASSUME NEW A, NEW s \in Seq(A), NEW t \in Seq(A), NEW n \in 1..Len(s \o t)
    PROVE  IF n <= Len(s) THEN (s \o t)[n] \in ToSet(s) ELSE (s \o t)[n] \in ToSet(t)
<1> DEFINE u == s \o t
<1>1. /\ Len(u) = Len(s) + Len(t)
      /\ \A k \in 1..Len(s) : u[k] = s[k]
      /\ \A k \in 1..Len(t) : u[Len(s) + k] = t[k]
  BY Concatenated
<1>2. Len(s) \in Nat /\ Len(t) \in Nat
  OBVIOUS
<1> HIDE DEF u
<1>3. CASE n <= Len(s)
  <2>1. n \in 1..Len(s)
    BY <1>2, <1>3
  <2>2. u[n] \in ToSet(s)
    BY <1>1, <2>1, MemberIs
  <2> QED
    BY <1>3, <2>2 DEF u
<1>4. CASE ~(n <= Len(s))
  <2>0. n \in 1..Len(u)
    BY DEF u
  <2>1. n - Len(s) \in 1..Len(t) /\ Len(s) + (n - Len(s)) = n
    BY <1>1, <1>2, <1>4, <2>0
  <2>2. u[n] = t[n - Len(s)]
    BY <1>1, <2>1
  <2>3. u[n] \in ToSet(t)
    BY <2>1, <2>2, MemberIs
  <2> QED
    BY <1>4, <2>3 DEF u
<1> QED
  BY <1>3, <1>4

\* The candidates are what an index can hold, and the manifests are before everything else.
LEMMA CandidatesAre ==
    ASSUME Sourced
    PROVE  /\ Candidates(source.files) \in Seq(WholeFiles)
           /\ ToSet(Candidates(source.files)) = WholeFiles
           /\ \E K \in Nat : \A n \in 1..Len(Candidates(source.files)) :
                n <= K <=> Candidates(source.files)[n] \in WholeManifests
<1> DEFINE repo    == source.files
           M       == WholeManifests
           depths  == Max({Len(f.path) : f \in M} \union {0})
           ofDepth == [n \in 1..depths |-> Only(repo, {f \in M : Len(f.path) = n})]
           a       == FlattenSeq(ofDepth)
           b       == Only(repo, WholeSkills)
           c       == Only(repo, WholeFiles \ (M \union WholeSkills))
<1>1. Candidates(repo) = a \o b \o c
  BY DEF Candidates, WholeManifests, WholeSkills, WholeFiles
<1>2. repo \in Seq(RepoFile) /\ WholeFiles \subseteq ToSet(repo) /\ M \subseteq WholeFiles /\ WholeSkills \subseteq WholeFiles
  BY SourceIs DEF WholeFiles, Indexable, WholeManifests, WholeSkills, OfKind
<1>3. WholeSkills \intersect M = {}
  BY OneSkill
<1>4. depths \in Nat /\ \A f \in M : Len(f.path) \in Nat /\ Len(f.path) <= depths
  BY <1>2, DeepestIs
<1>5. \A w : Only(repo, w) \in Seq(RepoFile) /\ ToSet(Only(repo, w)) = ToSet(repo) \intersect w
  BY <1>2, OnlyIs
<1> HIDE DEF repo, M, depths
<1>6. \A n \in 1..depths : Only(repo, {f \in M : Len(f.path) = n}) \in Seq(M)
  <2> TAKE n \in 1..depths
  <2>1. ToSet(Only(repo, {f \in M : Len(f.path) = n})) \subseteq M
    BY <1>5
  <2> QED
    BY <1>5, <2>1, SeqOver
<1>7. /\ ofDepth \in Seq(Seq(M)) /\ Len(ofDepth) = depths
      /\ \A n \in 1..depths : ofDepth[n] = Only(repo, {f \in M : Len(f.path) = n})
  BY <1>4, <1>6
<1> HIDE DEF ofDepth
<1>8. a \in Seq(M) /\ \A x : x \in ToSet(a) <=> \E n \in 1..depths : x \in ToSet(ofDepth[n])
  BY <1>7, FlattenMembers
<1>9. ToSet(a) = M
  <2>1. ASSUME NEW f \in M PROVE f \in ToSet(a)
    <3>1. f \in ToSet(repo) /\ Len(f.path) \in 1..depths
      <4>1. f.path \in RepoPath /\ f.path # <<>> /\ f \in ToSet(repo)
        BY <1>2, FilesAre DEF M
      <4>2. Len(f.path) \in Nat \ {0}
        BY <4>1, ParentIs
      <4> QED
        BY <1>4, <4>1, <4>2
    <3>2. f \in ToSet(ofDepth[Len(f.path)])
      BY <1>5, <1>7, <3>1
    <3> QED
      BY <1>8, <3>1, <3>2
  <2>2. ToSet(a) \subseteq M
    BY <1>8, MembersAre
  <2> QED
    BY <2>1, <2>2
<1>10. ToSet(b) = WholeSkills /\ ToSet(c) = WholeFiles \ (M \union WholeSkills)
  BY <1>2, <1>5
<1>11. a \in Seq(WholeFiles) /\ b \in Seq(WholeFiles) /\ c \in Seq(WholeFiles)
  BY <1>2, <1>5, <1>8, <1>9, <1>10, SeqOver
<1> HIDE DEF a, b, c
<1>12. a \o b \in Seq(WholeFiles) /\ ToSet(a \o b) = M \union WholeSkills
  BY <1>9, <1>10, <1>11, JoinMembers
<1> DEFINE ab == a \o b
           all == ab \o c
<1>13. ab \in Seq(WholeFiles) /\ ToSet(ab) = M \union WholeSkills
  BY <1>12
<1>14. Len(a) \in Nat /\ Len(ab) = Len(a) + Len(b) /\ Len(b) \in Nat
  BY <1>11, Concatenated
<1>15. \A n \in 1..Len(ab) : IF n <= Len(a) THEN ab[n] \in ToSet(a) ELSE ab[n] \in ToSet(b)
  BY <1>11, JoinPlaces
<1> HIDE DEF ab
<1>16. all \in Seq(WholeFiles) /\ ToSet(all) = WholeFiles
  <2>1. all \in Seq(WholeFiles) /\ ToSet(all) = ToSet(ab) \union ToSet(c)
    BY <1>11, <1>13, JoinMembers
  <2> QED
    BY <1>2, <1>10, <1>13, <2>1
<1>17. /\ \A n \in 1..Len(all) : IF n <= Len(ab) THEN all[n] \in ToSet(ab) ELSE all[n] \in ToSet(c)
       /\ \A k \in 1..Len(ab) : all[k] = ab[k]
  BY <1>11, <1>13, JoinPlaces, Concatenated
<1>18. ASSUME NEW n \in 1..Len(all) PROVE n <= Len(a) <=> all[n] \in M
  <2>1. CASE n <= Len(ab)
    <3>1. n \in 1..Len(ab) /\ all[n] = ab[n]
      BY <1>14, <1>17, <2>1
    <3> QED
      BY <1>3, <1>9, <1>10, <1>15, <3>1
  <2>2. CASE ~(n <= Len(ab))
    <3>1. all[n] \in ToSet(c)
      BY <1>17, <2>2
    <3>2. ~(n <= Len(a))
      BY <1>14, <2>2
    <3> QED
      BY <1>10, <3>1, <3>2
  <2> QED
    BY <2>1, <2>2
<1>19. Candidates(repo) = all
  BY <1>1 DEF ab
<1> QED
  BY <1>14, <1>16, <1>18, <1>19 DEF repo, M

-----------------------------------------------------------------------------
(* What is below a directory for all to see *)

LEMMA TailIs ==
    ASSUME NEW p \in RepoPath, NEW n \in 0..Len(p)
    PROVE  HiddenPath(SubSeq(p, n + 1, Len(p))) <=> \E i \in (n + 1)..Len(p) : p[i] \in Dotted
<1>1. p \in Seq(STRING) /\ Len(p) \in Nat /\ n \in Nat /\ n <= Len(p)
  BY DEF RepoPath
<1> DEFINE t == SubSeq(p, n + 1, Len(p))
<1>2. t = [i \in 1..(Len(p) - n) |-> p[n + i]]
  BY <1>1
<1>3. DOMAIN t = 1..(Len(p) - n) /\ \A i \in 1..(Len(p) - n) : t[i] = p[n + i]
  BY <1>2
<1> HIDE DEF t
<1>4. HiddenPath(t) <=> \E i \in 1..(Len(p) - n) : p[n + i] \in Dotted
  BY <1>3 DEF HiddenPath
<1>5. \A i \in 1..(Len(p) - n) : n + i \in (n + 1)..Len(p)
  BY <1>1
<1>6. \A i \in (n + 1)..Len(p) : i - n \in 1..(Len(p) - n) /\ n + (i - n) = i
  BY <1>1
<1>7. HiddenPath(t) <=> \E i \in (n + 1)..Len(p) : p[i] \in Dotted
  BY <1>4, <1>5, <1>6
<1> QED
  BY <1>7 DEF t

\* What a directory shows, a directory on the way to it shows too.
LEMMA PublicNearer ==
    ASSUME NEW d \in RepoPath, NEW e \in RepoPath, NEW p \in RepoPath,
           PublicDescendant(p, d), Within(d, e), Within(e, p), e # p
    PROVE  PublicDescendant(p, e)
<1>1. Len(d) \in Nat /\ Len(e) \in Nat /\ Len(p) \in Nat /\ Len(d) <= Len(e) /\ Len(e) <= Len(p)
  BY WithinLen
<1>2. Len(d) \in 0..Len(p) /\ Len(e) \in 0..Len(p)
  BY <1>1
<1>3. ~HiddenPath(SubSeq(p, Len(d) + 1, Len(p)))
  BY DEF PublicDescendant
<1>4. ~\E i \in (Len(d) + 1)..Len(p) : p[i] \in Dotted
  BY <1>2, <1>3, TailIs
<1>5. ~\E i \in (Len(e) + 1)..Len(p) : p[i] \in Dotted
  BY <1>1, <1>4
<1>6. ~HiddenPath(SubSeq(p, Len(e) + 1, Len(p)))
  BY <1>2, <1>5, TailIs
<1>7. IsStrictPrefix(e, p)
  BY DEF Within, IsStrictPrefix
<1> QED
  BY <1>6, <1>7 DEF PublicDescendant

\* A file is right below its directory: nothing but its name can hide it.
LEMMA PublicHere ==
    ASSUME NEW p \in RepoPath, p # <<>>, Last(p) \notin Dotted PROVE PublicDescendant(p, Parent(p))
<1>1. /\ Parent(p) \in RepoPath /\ Len(p) \in Nat \ {0} /\ Len(Parent(p)) = Len(p) - 1 /\ Within(Parent(p), p)
      /\ Parent(p) # p
  BY ParentIs
<1>2. Len(Parent(p)) \in 0..Len(p) /\ Len(Parent(p)) + 1 = Len(p)
  BY <1>1
<1>3. \A i \in (Len(Parent(p)) + 1)..Len(p) : p[i] = Last(p)
  BY <1>1, <1>2 DEF Last
<1>4. ~HiddenPath(SubSeq(p, Len(Parent(p)) + 1, Len(p)))
  BY <1>2, <1>3, TailIs
<1>5. IsStrictPrefix(Parent(p), p)
  BY <1>1 DEF Within, IsStrictPrefix
<1> QED
  BY <1>4, <1>5 DEF PublicDescendant

-----------------------------------------------------------------------------
(* What is known of a build between two rounds *)

\* Rounds by which the manifests, the skills and the documents are read.
Opened == {"skills", "documents", "links", "licenses", "resources", "done"}
Skilled == Opened \ {"skills"}
Linking == Skilled \ {"documents"}

\* The tree is the repository's: every manifest is in it, and every file unless it was cut.
Listing ==
    round # "failed" =>
        /\ budget \in BudgetType /\ bodies.held \subseteq bodies.asked
        /\ files \in Seq(WholeFiles)
        /\ round # "tree" => WholeManifests \subseteq ToSet(files)
        /\ round # "tree" /\ ~budget.cut => ToSet(files) = WholeFiles
        /\ round \in {"tree", "archive"} =>
            /\ bodies.asked = bodies.held
            /\ DOMAIN scope.documents = {} /\ scope.excluded = {} /\ scope.broken = {}

\* The manifests that had their turn.
Settled == {m \in WholeManifests : round \in Opened \/ (round = "manifests" /\ Len(m.path) <= depth)}

TakenOut(path) == \E m \in WholeManifests : TakesOut(m, path)
TakenBelow(path) == \E n \in WholeManifests : TakenOut(n.path) /\ Within(Parent(n.path), path)

\* One that was taken out, one that nobody could read, and one that was read.
Shut(m) == Parent(m.path) \in scope.excluded /\ Parent(m.path) \notin DOMAIN scope.documents
Closed(m) ==
    /\ Parent(m.path) \in scope.broken
    /\ scope.documents[Parent(m.path)] = {}
    /\ ~Excluded(m.path, scope)
    /\ NothingIsLeftOut => ~ReadsAs(m, "manifest")
Governs(m) ==
    /\ ReadsAs(m, "manifest")
    /\ Parent(m.path) \in DOMAIN scope.documents \ scope.broken
    /\ scope.documents[Parent(m.path)] = Declares(m)
    /\ Excludes(m) \subseteq scope.excluded
    /\ TakenOut(m.path) => Parent(m.path) \in scope.excluded

\* What is excluded was excluded by a manifest, or is the directory of one.
Sayso(e) == \E m \in WholeManifests : ReadsAs(m, "manifest") /\ e \in Excludes(m)
WithManifest(e) == \E n \in WholeManifests : e = Parent(n.path) /\ (NothingIsLeftOut => TakenBelow(e))

Policy ==
    round # "failed" =>
        /\ DOMAIN scope.documents \subseteq Parents(Settled)
        /\ scope.broken \subseteq DOMAIN scope.documents
        /\ \A m \in Settled : Shut(m) \/ Closed(m) \/ Governs(m)
        /\ scope.excluded \subseteq RepoPath
        /\ \A e \in scope.excluded : Sayso(e) \/ WithManifest(e)

\* The skills are files that were read.
ReadSkill(f) == f \in WholeSkills /\ f \in ToSet(files) /\ Reads(f) /\ ~Excluded(f.path, scope)
SkillsAreRead ==
    round \in Skilled =>
        /\ \A d \in scope.skills : \E f \in WholeSkills : d = Parent(f.path) /\ ReadSkill(f) /\ Says[f.hash].ok
        /\ scope.included = UNION {OwnIncludes(f) : f \in Skills}
        /\ \A f \in reads.unread : ReadSkill(f) /\ ~Says[f.hash].ok
        /\ follow.overviews = Overviews(scope)
        /\ NothingIsLeftOut => \A f \in WholeSkills :
            ReadSkill(f) => IF Says[f.hash].ok THEN Parent(f.path) \in scope.skills ELSE f \in reads.unread

\* What is linked edge by edge, as a function of the edges.
Base == WithOverviews(ServedAll(WholeScope(Withheld, SkillsOf(Declared(Withheld)))), Withheld)
NextReach(reached) ==
    reached \union UNION {LinksOf(f, Withheld) : f \in {g \in WholeFiles : g.path \in reached /\ Speaks(g)}}
Reaches(r) == r = [k \in 0..MaxReferenceDepth |-> IF k = 0 THEN Base ELSE NextReach(r[k - 1])]
Reached == CHOOSE r : Reaches(r)

LinksAreFollowed ==
    /\ round \notin Linking \union {"failed"} => follow.linked = {}
    /\ round \in Linking =>
        /\ follow.frontier \in Seq(ToSet(files)) /\ depth \in Nat
        /\ follow.linked \subseteq Reached[MaxReferenceDepth]
        /\ round # "links" => follow.frontier = <<>>
        /\ \A f \in ToSet(follow.frontier) :
            Speaks(f) /\ (Served(f.path) => depth <= MaxReferenceDepth /\ f.path \in Reached[depth])
        /\ NothingIsLeftOut => \A g \in WholeFiles :
            Speaks(g) /\ Served(g.path) /\ g \notin ToSet(follow.frontier) =>
                \A q \in LinksOf(g, Withheld) : Served(q)

-----------------------------------------------------------------------------
(* What is excluded, and what the whole repository withholds *)

LEMMA ExcludedIs ==
    ASSUME NEW p \in RepoPath, NEW sc
    PROVE  Excluded(p, sc) <=> \E d \in RepoPath :
                Within(d, p) /\ (d \in sc.excluded \/ (d \in sc.broken /\ p # ManifestPath(d)))
BY PrefixIs DEF Excluded, AtOrAbove

LEMMA TakesOutBelow ==
    ASSUME Sourced, NEW m \in WholeManifests, NEW p \in RepoPath, TakesOut(m, p) PROVE Within(Parent(m.path), p)
<1>1. Parent(m.path) \in RepoPath /\ \A e \in Excludes(m) : e \in RepoPath /\ Within(Parent(m.path), e)
  BY OneManifest, ExcludesAre
<1> QED
  BY <1>1, WithinChain DEF TakesOut

\* What is above a file is no file.
LEMMA AboveFile ==
    ASSUME Sourced, NEW f \in WholeFiles, NEW n \in WholeFiles, Within(Parent(n.path), f.path)
    PROVE  /\ Parent(n.path) \in RepoPath /\ Parent(f.path) \in RepoPath /\ Parent(n.path) # f.path
           /\ Within(Parent(n.path), Parent(f.path))
<1>1. f.path \in RepoPath /\ n.path \in RepoPath /\ n.path # <<>> /\ f.path # <<>>
  BY FilesAre
<1>2. Parent(n.path) \in RepoPath /\ Parent(f.path) \in RepoPath
  BY <1>1, ParentIs
<1>3. Parent(n.path) # f.path
  <2>1. ~Within(f.path, Parent(n.path))
    BY NoFileAbove
  <2> QED
    BY <1>1, <2>1, WithinSelf
<1> QED
  BY <1>1, <1>2, <1>3, ParentIs

\* What takes a path out that is not excluded is that path's own manifest, that could not be read.
LEMMA SettledTakes ==
    ASSUME Sourced, Policy, round # "failed", NEW n \in Settled, NEW p \in RepoPath, ~Excluded(p, scope),
           TakesOut(n, p)
    PROVE  p = n.path /\ Closed(n) /\ ReadsAs(n, "manifest")
<1>1. n \in WholeManifests
  BY DEF Settled
<1>2. /\ Parent(n.path) \in RepoPath /\ Within(Parent(n.path), p) /\ n.path = ManifestPath(Parent(n.path))
      /\ \A e \in Excludes(n) : e \in RepoPath
  BY <1>1, OneManifest, TakesOutBelow, ExcludesAre
<1>3. \A d \in RepoPath : Within(d, p) => d \notin scope.excluded /\ (d \in scope.broken => p = ManifestPath(d))
  BY ExcludedIs
<1>4. Shut(n) \/ Closed(n) \/ Governs(n)
  BY DEF Policy
<1>5. CASE Shut(n)
  BY <1>2, <1>3, <1>5 DEF Shut
<1>6. CASE Closed(n)
  BY <1>2, <1>3, <1>6 DEF Closed, TakesOut
<1>7. CASE Governs(n)
  <2>1. ReadsAs(n, "manifest") /\ Excludes(n) \subseteq scope.excluded /\ (TakenOut(n.path) => Parent(n.path) \in scope.excluded)
    BY <1>7 DEF Governs
  <2>2. PICK x \in Excludes(n) : Within(x, p) \/ (Within(x, n.path) /\ Within(Parent(n.path), p))
    BY <2>1 DEF TakesOut
  <2>3. CASE Within(x, p)
    BY <1>2, <1>3, <2>1, <2>3
  <2>4. CASE Within(x, n.path)
    <3>1. TakesOut(n, n.path)
      BY <2>1, <2>2, <2>4 DEF TakesOut
    <3>2. TakenOut(n.path)
      BY <1>1, <3>1 DEF TakenOut
    <3> QED
      BY <1>2, <1>3, <2>1, <3>2
  <2> QED
    BY <2>2, <2>3, <2>4
<1> QED
  BY <1>4, <1>5, <1>6, <1>7

\* The same of a manifest that was taken out with its directory.
LEMMA SettledOut ==
    ASSUME Sourced, Policy, round # "failed", NEW n \in Settled, NEW p \in RepoPath, ~Excluded(p, scope),
           TakenOut(n.path), Within(Parent(n.path), p)
    PROVE  p = n.path /\ Closed(n)
<1>1. n \in WholeManifests
  BY DEF Settled
<1>2. Parent(n.path) \in RepoPath /\ n.path = ManifestPath(Parent(n.path))
  BY <1>1, OneManifest
<1>3. \A d \in RepoPath : Within(d, p) => d \notin scope.excluded /\ (d \in scope.broken => p = ManifestPath(d))
  BY ExcludedIs
<1>4. Shut(n) \/ Closed(n) \/ Governs(n)
  BY DEF Policy
<1> QED
  BY <1>2, <1>3, <1>4 DEF Shut, Closed, Governs

\* A directory is closed by a manifest that nobody could read.
LEMMA BrokenIs ==
    ASSUME Policy, round # "failed", NEW d \in scope.broken
    PROVE  \E m \in Settled : d = Parent(m.path) /\ Closed(m)
<1>1. d \in DOMAIN scope.documents /\ d \in Parents(Settled)
  BY DEF Policy
<1>2. PICK m \in Settled : d = Parent(m.path)
  BY <1>1 DEF Parents
<1>3. Shut(m) \/ Closed(m) \/ Governs(m)
  BY DEF Policy
<1> QED
  BY <1>1, <1>2, <1>3 DEF Shut, Governs

\* When nothing was left out, what is excluded is taken out by what the manifests say.
LEMMA ExcludedWhy ==
    ASSUME Sourced, Policy, round # "failed", NothingIsLeftOut, NEW p \in RepoPath, Excluded(p, scope)
    PROVE  TakenOut(p) \/ TakenBelow(p)
<1>1. PICK d \in RepoPath : Within(d, p) /\ (d \in scope.excluded \/ (d \in scope.broken /\ p # ManifestPath(d)))
  BY ExcludedIs
<1>2. CASE d \in scope.excluded
  <2>1. Sayso(d) \/ WithManifest(d)
    BY <1>2 DEF Policy
  <2>2. CASE Sayso(d)
    <3>1. PICK m \in WholeManifests : ReadsAs(m, "manifest") /\ d \in Excludes(m)
      BY <2>2 DEF Sayso
    <3>2. TakesOut(m, p)
      BY <1>1, <3>1 DEF TakesOut
    <3> QED
      BY <3>2 DEF TakenOut
  <2>3. CASE WithManifest(d)
    <3>1. TakenBelow(d)
      BY <2>3 DEF WithManifest
    <3>2. PICK n \in WholeManifests : TakenOut(n.path) /\ Within(Parent(n.path), d)
      BY <3>1 DEF TakenBelow
    <3>3. Within(Parent(n.path), p)
      BY <1>1, <3>2, OneManifest, WithinChain
    <3> QED
      BY <3>2, <3>3 DEF TakenBelow
  <2> QED
    BY <2>1, <2>2, <2>3
<1>3. CASE d \in scope.broken /\ p # ManifestPath(d)
  <2>1. PICK m \in Settled : d = Parent(m.path) /\ Closed(m)
    BY <1>3, BrokenIs
  <2>2. m \in WholeManifests /\ m.path = ManifestPath(d) /\ ~ReadsAs(m, "manifest")
    BY <2>1, OneManifest DEF Settled, Closed
  <2>3. TakesOut(m, p)
    BY <1>1, <1>3, <2>1, <2>2 DEF TakesOut
  <2> QED
    BY <2>2, <2>3 DEF TakenOut
<1> QED
  BY <1>1, <1>2, <1>3

LEMMA WithheldIs == \A p : p \in Withheld <=> p \in WholePaths /\ (TakenOut(p) \/ TakenBelow(p))
BY DEF Withheld, WithheldBy, TakenOut, TakenBelow, WholeManifests

LEMMA PathsAre ==
    ASSUME Sourced, NEW p \in WholePaths
    PROVE  /\ WholeAt(p) \in WholeFiles /\ WholeAt(p).path = p
           /\ p \in RepoPath /\ p # <<>> /\ Parent(p) \in RepoPath /\ Within(Parent(p), p)
           /\ NoSegment \notin ToSet(Parent(p)) /\ Parent(p) # Nowhere /\ p # Nowhere
           /\ \A f \in WholeFiles : f.path = p => f = WholeAt(p)
<1>1. PICK f \in WholeFiles : f.path = p
  BY DEF WholePaths
<1>2. WholeAt(p) \in WholeFiles /\ WholeAt(p).path = p
  BY <1>1 DEF WholeAt
<1>3. \A g \in WholeFiles : g.path = p => g = WholeAt(p)
  BY <1>2, OneFile
<1>4. p \in RepoPath /\ p # <<>> /\ NoSegment \notin ToSet(p)
  BY <1>1, FilesAre
<1>5. Parent(p) \in RepoPath /\ Within(Parent(p), p) /\ Len(Parent(p)) \in Nat /\ Len(p) \in Nat
  BY <1>4, ParentIs DEF RepoPath
<1>6. NoSegment \notin ToSet(Parent(p))
  <2> SUFFICES ASSUME NoSegment \in ToSet(Parent(p)) PROVE FALSE
    OBVIOUS
  <2>1. Parent(p) \in Seq(STRING) /\ p \in Seq(STRING)
    BY <1>4, <1>5 DEF RepoPath
  <2>2. PICK n \in 1..Len(Parent(p)) : NoSegment = Parent(p)[n]
    BY <2>1, MemberIs
  <2>3. n \in 1..Len(p) /\ p[n] = NoSegment
    BY <1>4, <1>5, <2>2, WithinIs
  <2> QED
    BY <1>4, <2>1, <2>3, MemberIs
<1>7. ASSUME NEW q \in RepoPath, q = Nowhere PROVE NoSegment \in ToSet(q)
  <2>1. q \in Seq(STRING) /\ Len(q) = 1 /\ q[1] = NoSegment
    BY <1>7, NowhereIs DEF RepoPath
  <2> QED
    BY <2>1, MemberIs
<1> QED
  BY <1>2, <1>3, <1>4, <1>5, <1>6, <1>7

Ready == Sourced /\ Listing /\ Policy /\ round \in Opened
Known == Ready /\ SkillsAreRead /\ round \in Skilled

LEMMA AllSettled == ASSUME Ready PROVE Settled = WholeManifests /\ round # "failed" /\ round # "tree"
BY DEF Ready, Settled, Opened

\* What is withheld is excluded, but for a manifest that nobody could read.
LEMMA WithheldIsExcluded ==
    ASSUME Ready, NEW p \in Withheld, ~Excluded(p, scope)
    PROVE  \E m \in WholeManifests : p = m.path /\ Closed(m) /\ ReadsAs(m, "manifest")
<1>1. Sourced /\ Policy /\ round # "failed" /\ Settled = WholeManifests
  BY AllSettled DEF Ready
<1>2. p \in WholePaths /\ (TakenOut(p) \/ TakenBelow(p))
  BY WithheldIs
<1>3. p \in RepoPath
  BY <1>1, <1>2, PathsAre
<1>4. ASSUME TakenOut(p) PROVE \E m \in WholeManifests : p = m.path /\ Closed(m) /\ ReadsAs(m, "manifest")
  <2>1. PICK m \in WholeManifests : TakesOut(m, p)
    BY <1>4 DEF TakenOut
  <2> QED
    BY <1>1, <1>3, <2>1, SettledTakes
<1>5. CASE TakenBelow(p)
  <2>1. PICK n \in WholeManifests : TakenOut(n.path) /\ Within(Parent(n.path), p)
    BY <1>5 DEF TakenBelow
  <2>2. p = n.path
    BY <1>1, <1>3, <2>1, SettledOut
  <2> QED
    BY <1>4, <2>1, <2>2
<1> QED
  BY <1>2, <1>4, <1>5

LEMMA LostIs == \A p : p \in Lost <=> \E m \in WholeManifests : p = m.path /\ Parent(m.path) \in scope.broken
BY DEF Lost, WholeManifests

LEMMA NotWithheld == ASSUME Ready, NEW p, ~Excluded(p, scope), p \notin Lost PROVE p \notin Withheld
BY WithheldIsExcluded, LostIs DEF Closed

\* When nothing was left out, the two are the same.
LEMMA NothingElseWithheld ==
    ASSUME Ready, NothingIsLeftOut, NEW p \in WholePaths PROVE Excluded(p, scope) <=> p \in Withheld
<1>1. Sourced /\ Policy /\ round # "failed"
  BY AllSettled DEF Ready
<1>2. p \in RepoPath
  BY <1>1, PathsAre
<1>3. Excluded(p, scope) => p \in Withheld
  BY <1>1, <1>2, ExcludedWhy, WithheldIs
<1>4. p \in Withheld => Excluded(p, scope)
  BY WithheldIsExcluded DEF Closed
<1> QED
  BY <1>3, <1>4

-----------------------------------------------------------------------------
(* What governs a path, as it was read and in the whole repository *)

\* The skills and the scope of the whole repository.
Genuine == SkillsOf(Declared(Withheld))
ScopeOfAll == WholeScope(Withheld, Genuine)

LEMMA ScopeOfAllIs ==
    ASSUME Sourced
    PROVE  /\ ScopeOfAll.skills = Parents(Genuine) /\ ScopeOfAll.excluded = Withheld /\ ScopeOfAll.broken = {}
           /\ ScopeOfAll.included = UNION {OwnIncludes(f) : f \in Genuine}
           /\ DOMAIN ScopeOfAll.documents = Parents({m \in WholeManifests : m.path \notin Withheld})
           /\ \A m \in WholeManifests : m.path \notin Withheld =>
                ScopeOfAll.documents[Parent(m.path)] = IF ReadsAs(m, "manifest") THEN Declares(m) ELSE {}
<1> DEFINE governing == Parents({m \in WholeManifests : m.path \notin Withheld})
           documents(m) == IF ReadsAs(m, "manifest") THEN Declares(m) ELSE {}
<1>1. ScopeOfAll = [skills    |-> Parents(Genuine),
                    documents |-> [d \in governing |-> documents(WholeAt(ManifestPath(d)))],
                    included  |-> UNION {OwnIncludes(f) : f \in Genuine},
                    excluded  |-> Withheld,
                    broken    |-> {}]
  BY DEF ScopeOfAll, WholeScope, WholeManifests
<1> HIDE DEF documents
<1>2. /\ ScopeOfAll.skills = Parents(Genuine) /\ ScopeOfAll.excluded = Withheld /\ ScopeOfAll.broken = {}
      /\ ScopeOfAll.included = UNION {OwnIncludes(f) : f \in Genuine}
      /\ ScopeOfAll.documents = [d \in governing |-> documents(WholeAt(ManifestPath(d)))]
  BY <1>1
<1>3. ASSUME NEW m \in WholeManifests, m.path \notin Withheld
      PROVE  ScopeOfAll.documents[Parent(m.path)] = documents(m)
  <2>1. m.path = ManifestPath(Parent(m.path)) /\ m \in WholeFiles
    BY OneManifest
  <2>2. WholeAt(m.path) = m
    BY <2>1, PathsAre DEF WholePaths
  <2>3. Parent(m.path) \in governing
    BY <1>3 DEF Parents
  <2> QED
    BY <1>2, <2>1, <2>2, <2>3
<1> QED
  BY <1>2, <1>3 DEF documents

\* A manifest of the whole repository above a path that is not excluded was read, or could not be.
LEMMA AboveIs ==
    ASSUME Ready, NEW p \in WholePaths, ~Excluded(p, scope), NEW m \in WholeManifests, Within(Parent(m.path), p)
    PROVE  /\ Within(Parent(m.path), Parent(p))
           /\ Closed(m) \/ Governs(m)
           /\ Closed(m) => p = m.path
           /\ m.path \in Withheld => p \in Withheld
<1>1. Sourced /\ Policy /\ round # "failed" /\ Settled = WholeManifests
  BY AllSettled DEF Ready
<1>2. /\ Parent(m.path) \in RepoPath /\ m.path = ManifestPath(Parent(m.path)) /\ m \in WholeFiles
      /\ m.path \in RepoPath
  BY <1>1, OneManifest
<1>3. WholeAt(p) \in WholeFiles /\ WholeAt(p).path = p /\ p \in RepoPath /\ Parent(p) \in RepoPath /\ Within(Parent(p), p)
  BY <1>1, PathsAre
<1>4. Within(Parent(m.path), Parent(p))
  BY <1>1, <1>2, <1>3, AboveFile
<1>5. Parent(m.path) \notin scope.excluded /\ (Parent(m.path) \in scope.broken => p = m.path)
  BY <1>2, <1>3, ExcludedIs
<1>6. Shut(m) \/ Closed(m) \/ Governs(m)
  BY <1>1 DEF Policy
<1>7. (Closed(m) \/ Governs(m)) /\ (Closed(m) => p = m.path)
  BY <1>5, <1>6 DEF Shut, Closed
<1>8. ASSUME m.path \in Withheld PROVE p \in Withheld
  <2>1. TakenOut(m.path) \/ TakenBelow(m.path)
    BY <1>8, WithheldIs
  <2>2. CASE TakenOut(m.path)
    <3>1. TakenBelow(p)
      BY <2>2 DEF TakenBelow
    <3> QED
      BY <3>1, WithheldIs
  <2>3. CASE TakenBelow(m.path)
    <3>1. PICK n \in WholeManifests : TakenOut(n.path) /\ Within(Parent(n.path), m.path)
      BY <2>3 DEF TakenBelow
    <3>2. Parent(n.path) \in RepoPath /\ Within(Parent(n.path), Parent(m.path))
      BY <1>1, <1>2, <3>1, OneManifest, AboveFile
    <3>3. Within(Parent(n.path), p)
      BY <1>2, <1>3, <3>2, WithinChain
    <3>4. TakenBelow(p)
      BY <3>1, <3>3 DEF TakenBelow
    <3> QED
      BY <3>4, WithheldIs
  <2> QED
    BY <2>1, <2>2, <2>3
<1> QED
  BY <1>4, <1>7, <1>8

\* The same directories have documents above a path that is not excluded, and the same documents.
LEMMA DocumentsAgree ==
    ASSUME Ready, NEW p \in WholePaths, ~Excluded(p, scope), p \notin Withheld,
           NEW d \in RepoPath, Within(d, Parent(p))
    PROVE  /\ d \in DOMAIN scope.documents <=> d \in DOMAIN ScopeOfAll.documents
           /\ d \in DOMAIN scope.documents \ scope.broken => ScopeOfAll.documents[d] = scope.documents[d]
           /\ d \in scope.broken =>
                /\ scope.documents[d] = {}
                /\ NothingIsLeftOut => ScopeOfAll.documents[d] = {}
<1>1. Sourced /\ Policy /\ round # "failed" /\ Settled = WholeManifests
  BY AllSettled DEF Ready
<1>2. p \in RepoPath /\ Parent(p) \in RepoPath /\ Within(Parent(p), p)
  BY <1>1, PathsAre
<1>3. Within(d, p)
  BY <1>2, WithinChain
<1>4. DOMAIN ScopeOfAll.documents = Parents({m \in WholeManifests : m.path \notin Withheld})
  BY <1>1, ScopeOfAllIs
<1>5. \A m \in WholeManifests : d = Parent(m.path) => (Closed(m) \/ Governs(m)) /\ m.path \notin Withheld
  BY <1>3, AboveIs
<1>6. \A m \in WholeManifests : m.path \notin Withheld =>
        ScopeOfAll.documents[Parent(m.path)] = IF ReadsAs(m, "manifest") THEN Declares(m) ELSE {}
  BY <1>1, ScopeOfAllIs
<1>7. d \in DOMAIN scope.documents => \E m \in WholeManifests : d = Parent(m.path)
  BY <1>1 DEF Policy, Parents
<1>8. d \in DOMAIN ScopeOfAll.documents => \E m \in WholeManifests : d = Parent(m.path)
  BY <1>4 DEF Parents
<1>9. ASSUME NEW m \in WholeManifests, d = Parent(m.path)
      PROVE  /\ d \in DOMAIN scope.documents /\ d \in DOMAIN ScopeOfAll.documents
             /\ d \notin scope.broken => ScopeOfAll.documents[d] = scope.documents[d]
             /\ d \in scope.broken =>
                  /\ scope.documents[d] = {}
                  /\ NothingIsLeftOut => ScopeOfAll.documents[d] = {}
  <2>1. m.path \notin Withheld /\ (Closed(m) \/ Governs(m))
    BY <1>5, <1>9
  <2>2. d \in DOMAIN ScopeOfAll.documents
    BY <1>4, <1>9, <2>1 DEF Parents
  <2>3. d \in DOMAIN scope.documents
    BY <1>1, <1>9, <2>1 DEF Closed, Governs, Policy
  <2>4. ScopeOfAll.documents[d] = IF ReadsAs(m, "manifest") THEN Declares(m) ELSE {}
    BY <1>6, <1>9, <2>1
  <2>5. d \notin scope.broken => ScopeOfAll.documents[d] = scope.documents[d]
    BY <1>9, <2>1, <2>4 DEF Closed, Governs
  <2>6. d \in scope.broken => scope.documents[d] = {} /\ (NothingIsLeftOut => ScopeOfAll.documents[d] = {})
    BY <1>9, <2>1, <2>4 DEF Closed, Governs
  <2> QED
    BY <2>2, <2>3, <2>5, <2>6
<1> QED
  BY <1>1, <1>7, <1>8, <1>9 DEF Policy

Deepest(above) == IF above = {} THEN Nowhere ELSE CHOOSE d \in above : \A e \in above : Len(e) <= Len(d)

LEMMA NearestOf == \A p, directories : Nearest(p, directories) = Deepest(AtOrAbove(p) \intersect directories)
BY DEF Nearest, Deepest

\* So the same directory governs the path.
LEMMA GoverningAgrees ==
    ASSUME Ready, NEW p \in WholePaths, ~Excluded(p, scope), p \notin Withheld
    PROVE  Nearest(Parent(p), DOMAIN scope.documents) = Nearest(Parent(p), DOMAIN ScopeOfAll.documents)
<1>1. Sourced
  BY DEF Ready
<1>2. Parent(p) \in RepoPath
  BY <1>1, PathsAre
<1>3. \A d \in AtOrAbove(Parent(p)) : d \in DOMAIN scope.documents <=> d \in DOMAIN ScopeOfAll.documents
  BY <1>2, PrefixIs, DocumentsAgree DEF AtOrAbove
<1>4. AtOrAbove(Parent(p)) \intersect DOMAIN scope.documents = AtOrAbove(Parent(p)) \intersect DOMAIN ScopeOfAll.documents
  BY <1>3
<1> QED
  BY <1>4, NearestOf

\* The skills that are known are skills of the whole repository.
LEMMA SkillsAre ==
    ASSUME Known
    PROVE  /\ Skills = {f \in WholeSkills : Parent(f.path) \in scope.skills}
           /\ scope.skills = Parents(Skills)
           /\ Skills \subseteq Genuine
           /\ \A f \in Skills : ReadSkill(f) /\ Says[f.hash].ok
           /\ \A f \in reads.unread : ReadSkill(f) /\ ~Says[f.hash].ok /\ f \in Declared(Withheld)
<1>1. Sourced /\ Listing /\ round # "failed" /\ Ready /\ SkillsAreRead /\ round \in Skilled
  BY AllSettled DEF Known, Ready
<1>2. files \in Seq(WholeFiles)
  BY <1>1 DEF Listing
<1>3. ToSet(files) \subseteq WholeFiles
  BY <1>2, MembersAre
<1>4. \A d \in scope.skills : \E f \in WholeSkills : d = Parent(f.path) /\ ReadSkill(f) /\ Says[f.hash].ok
  BY <1>1 DEF SkillsAreRead
<1>5. OfKind("skill", ToSet(files)) \subseteq WholeSkills
  BY <1>3 DEF OfKind, WholeSkills
<1>6. \A f \in WholeSkills : Parent(f.path) \in scope.skills => ReadSkill(f) /\ Says[f.hash].ok
  BY <1>1, <1>4, OneSkill
<1>7. \A f \in WholeSkills : ReadSkill(f) => f \in OfKind("skill", ToSet(files))
  BY DEF ReadSkill, OfKind, WholeSkills
<1>8. Skills = {f \in WholeSkills : Parent(f.path) \in scope.skills}
  BY <1>5, <1>6, <1>7 DEF Skills
<1>9. \A f \in Skills : f \in WholeSkills /\ ReadSkill(f) /\ Says[f.hash].ok
  BY <1>6, <1>8
<1>10. scope.skills = Parents(Skills)
  BY <1>4, <1>8 DEF Parents
<1>11. ASSUME NEW f \in WholeSkills, ReadSkill(f) PROVE f \in Declared(Withheld)
  <2>1. ~Excluded(f.path, scope) /\ Reads(f)
    BY <1>11 DEF ReadSkill
  <2>2. f.path \notin Lost
    BY <1>1, LostIs, OneSkill, OneManifest
  <2>3. f.path \notin Withheld
    BY <1>1, <2>1, <2>2, NotWithheld
  <2> QED
    BY <2>1, <2>3 DEF Declared, WholeSkills
<1>12. Skills \subseteq Genuine
  BY <1>9, <1>11 DEF Genuine, SkillsOf
<1>13. \A f \in reads.unread : ReadSkill(f) /\ ~Says[f.hash].ok /\ f \in WholeSkills
  BY <1>1 DEF SkillsAreRead, ReadSkill
<1> QED
  BY <1>8, <1>9, <1>10, <1>11, <1>12, <1>13

LEMMA GenuineAre == \A f \in Genuine : f \in WholeSkills /\ f.path \notin Withheld /\ Reads(f) /\ Says[f.hash].ok
BY DEF Genuine, SkillsOf, Declared, WholeSkills

\* What was read of the scope is part of it.
LEMMA ScopeIsLess ==
    ASSUME Known PROVE scope.skills \subseteq ScopeOfAll.skills /\ scope.included \subseteq ScopeOfAll.included
<1>1. Sourced /\ SkillsAreRead /\ round \in Skilled
  BY DEF Known, Ready
<1>2. scope.skills = Parents(Skills) /\ Skills \subseteq Genuine
  BY SkillsAre
<1>3. scope.included = UNION {OwnIncludes(f) : f \in Skills}
  BY <1>1 DEF SkillsAreRead
<1>4. ScopeOfAll.skills = Parents(Genuine) /\ ScopeOfAll.included = UNION {OwnIncludes(f) : f \in Genuine}
  BY <1>1, ScopeOfAllIs
<1>5. UNION {OwnIncludes(f) : f \in Skills} \subseteq UNION {OwnIncludes(f) : f \in Genuine}
  BY <1>2
<1>6. Parents(Skills) \subseteq Parents(Genuine)
  BY <1>2 DEF Parents
<1> QED
  BY <1>2, <1>3, <1>4, <1>5, <1>6

\* Nothing withheld is above a file that is not.
LEMMA NotExcludedInAll ==
    ASSUME Sourced, NEW p \in WholePaths, p \notin Withheld PROVE ~Excluded(p, ScopeOfAll)
<1>1. p \in RepoPath /\ WholeAt(p) \in WholeFiles /\ WholeAt(p).path = p
  BY PathsAre
<1>2. ScopeOfAll.excluded = Withheld /\ ScopeOfAll.broken = {}
  BY ScopeOfAllIs
<1>3. ASSUME NEW d \in RepoPath, Within(d, p), d \in Withheld PROVE FALSE
  <2>1. d \in WholePaths
    BY <1>3, WithheldIs
  <2>2. WholeAt(d) \in WholeFiles /\ WholeAt(d).path = d
    BY <2>1, PathsAre
  <2>3. d = p
    BY <1>1, <1>3, <2>2, NoFileAbove
  <2> QED
    BY <1>3, <2>3
<1> QED
  BY <1>1, <1>2, <1>3, ExcludedIs

\* What is served by what was read is served by the whole repository.
LEMMA ServedIsWhole ==
    ASSUME Known, NEW p \in WholePaths, p \notin Withheld, ServedPath(p, scope) PROVE p \in ServedAll(ScopeOfAll)
<1>1. Sourced /\ Ready /\ ~Excluded(p, scope)
  BY DEF Known, Ready, ServedPath
<1>2. ~Excluded(p, ScopeOfAll)
  BY <1>1, NotExcludedInAll
<1>3. /\ p \in RepoPath /\ Parent(p) \in RepoPath /\ NoSegment \notin ToSet(Parent(p)) /\ Parent(p) # p
      /\ Within(Parent(p), p)
  BY <1>1, PathsAre, ParentIs
<1>4. scope.skills \subseteq ScopeOfAll.skills /\ scope.included \subseteq ScopeOfAll.included
  BY ScopeIsLess
<1> DEFINE skill     == OwningSkill(p, scope.skills)
           whole     == OwningSkill(p, ScopeOfAll.skills)
           governing == Nearest(Parent(p), DOMAIN scope.documents)
<1>5. governing = Nearest(Parent(p), DOMAIN ScopeOfAll.documents)
  BY <1>1, GoverningAgrees
<1>6. /\ skill # Nowhere => skill \in scope.skills \intersect RepoPath /\ Within(skill, Parent(p))
      /\ whole = Nowhere <=> ~\E d \in RepoPath : d \in ScopeOfAll.skills /\ Within(d, Parent(p))
      /\ whole # Nowhere =>
            /\ whole \in RepoPath /\ Within(whole, Parent(p))
            /\ \A d \in RepoPath : d \in ScopeOfAll.skills /\ Within(d, Parent(p)) => Within(d, whole)
  BY <1>3, NearestIs DEF OwningSkill
<1>7. governing # Nowhere => governing \in DOMAIN scope.documents \intersect RepoPath /\ Within(governing, Parent(p))
  BY <1>3, NearestIs
<1>8. \/ skill # Nowhere /\ PublicDescendant(p, skill)
      \/ p \in scope.included
      \/ governing # Nowhere /\ p = ManifestPath(governing)
      \/ \E d \in IF governing = Nowhere THEN DefaultDocuments ELSE scope.documents[governing] : PublicDescendant(p, d)
  BY DEF ServedPath
<1>9. \/ whole # Nowhere /\ PublicDescendant(p, whole)
      \/ p \in ScopeOfAll.included
      \/ governing # Nowhere /\ p = ManifestPath(governing)
      \/ \E d \in IF governing = Nowhere THEN DefaultDocuments ELSE ScopeOfAll.documents[governing] :
            PublicDescendant(p, d)
  <2> HIDE DEF skill, whole, governing
  <2>1. CASE skill # Nowhere /\ PublicDescendant(p, skill)
    <3>1. whole # Nowhere /\ whole \in RepoPath /\ Within(skill, whole) /\ Within(whole, Parent(p)) /\ skill \in RepoPath
      BY <1>4, <1>6, <2>1
    <3>2. Within(whole, p) /\ whole # p
      <4>1. Within(whole, p)
        BY <1>3, <3>1, WithinChain
      <4>2. Len(whole) <= Len(Parent(p)) /\ Len(Parent(p)) \in Nat /\ Len(whole) \in Nat
        BY <1>3, <3>1, WithinLen
      <4>3. Len(p) \in Nat /\ (Len(Parent(p)) = Len(p) => Parent(p) = p) /\ Len(Parent(p)) <= Len(p)
        BY <1>3, WithinLen
      <4> QED
        BY <1>3, <4>1, <4>2, <4>3
    <3> QED
      BY <1>3, <2>1, <3>1, <3>2, PublicNearer
  <2>2. CASE p \in scope.included
    BY <1>4, <2>2
  <2>3. CASE governing # Nowhere /\ p = ManifestPath(governing)
    BY <2>3
  <2>4. CASE \E d \in IF governing = Nowhere THEN DefaultDocuments ELSE scope.documents[governing] : PublicDescendant(p, d)
    <3>1. CASE governing = Nowhere
      BY <2>4, <3>1
    <3>2. CASE governing # Nowhere
      <4>1. /\ governing \in DOMAIN scope.documents \ scope.broken => ScopeOfAll.documents[governing] = scope.documents[governing]
            /\ governing \in scope.broken => scope.documents[governing] = {}
        BY <1>1, <1>7, <3>2, DocumentsAgree
      <4> QED
        BY <1>7, <2>4, <3>2, <4>1
    <3> QED
      BY <3>1, <3>2
  <2> QED
    BY <1>8, <2>1, <2>2, <2>3, <2>4
<1>10. ServedPath(p, ScopeOfAll)
  BY <1>2, <1>5, <1>9 DEF ServedPath
<1> QED
  BY <1>10 DEF ServedAll

\* When nothing was left out, the skills are the whole repository's.
LEMMA SkillsAreWhole ==
    ASSUME Known, NothingIsLeftOut
    PROVE  scope.skills = ScopeOfAll.skills /\ scope.included = ScopeOfAll.included /\ Skills = Genuine
<1>1. Sourced /\ Ready /\ Listing /\ SkillsAreRead /\ round \in Skilled /\ round # "failed" /\ round # "tree"
  BY AllSettled DEF Known, Ready
<1>2. ToSet(files) = WholeFiles
  BY <1>1 DEF Listing, NothingIsLeftOut
<1>3. ASSUME NEW f \in Genuine PROVE f \in Skills
  <2>1. f \in WholeSkills /\ f.path \notin Withheld /\ Reads(f) /\ Says[f.hash].ok /\ f \in WholeFiles
    BY GenuineAre DEF WholeSkills, OfKind
  <2>2. f.path \in WholePaths
    BY <2>1 DEF WholePaths
  <2>3. ~Excluded(f.path, scope)
    BY <1>1, <2>1, <2>2, NothingElseWithheld
  <2>4. ReadSkill(f)
    BY <1>2, <2>1, <2>3 DEF ReadSkill
  <2>5. Parent(f.path) \in scope.skills
    BY <1>1, <2>1, <2>4 DEF SkillsAreRead
  <2> QED
    BY <2>1, <2>5, SkillsAre
<1>4. Skills = Genuine /\ scope.skills = Parents(Skills)
  BY <1>3, SkillsAre
<1>5. scope.included = UNION {OwnIncludes(f) : f \in Skills}
  BY <1>1 DEF SkillsAreRead
<1>6. ScopeOfAll.skills = Parents(Genuine) /\ ScopeOfAll.included = UNION {OwnIncludes(f) : f \in Genuine}
  BY <1>1, ScopeOfAllIs
<1> QED
  BY <1>4, <1>5, <1>6

LEMMA WholeIsServed ==
    ASSUME Known, NothingIsLeftOut, NEW p \in ServedAll(ScopeOfAll) PROVE ServedPath(p, scope)
<1>1. Sourced /\ Ready /\ Policy /\ round # "failed"
  BY AllSettled DEF Known, Ready
<1>2. p \in WholePaths /\ ServedPath(p, ScopeOfAll)
  BY DEF ServedAll
<1>3. p \in RepoPath /\ Parent(p) \in RepoPath /\ NoSegment \notin ToSet(Parent(p))
  BY <1>1, <1>2, PathsAre
<1>4. p \notin Withheld
  <2>1. ~Excluded(p, ScopeOfAll) /\ ScopeOfAll.excluded = Withheld
    BY <1>1, <1>2, ScopeOfAllIs DEF ServedPath
  <2> QED
    BY <1>3, <2>1, ExcludedIs, WithinSelf
<1>5. ~Excluded(p, scope)
  BY <1>1, <1>2, <1>4, NothingElseWithheld
<1>6. scope.skills = ScopeOfAll.skills /\ scope.included = ScopeOfAll.included
  BY SkillsAreWhole
<1> DEFINE governing == Nearest(Parent(p), DOMAIN scope.documents)
<1>7. governing = Nearest(Parent(p), DOMAIN ScopeOfAll.documents)
  BY <1>1, <1>2, <1>4, <1>5, GoverningAgrees
<1>8. governing # Nowhere => governing \in DOMAIN scope.documents \intersect RepoPath /\ Within(governing, Parent(p))
  BY <1>3, NearestIs
<1>9. governing # Nowhere => ScopeOfAll.documents[governing] = scope.documents[governing]
  <2> SUFFICES ASSUME governing # Nowhere PROVE ScopeOfAll.documents[governing] = scope.documents[governing]
    OBVIOUS
  <2> HIDE DEF governing
  <2> QED
    BY <1>1, <1>2, <1>4, <1>5, <1>8, DocumentsAgree
<1> QED
  BY <1>2, <1>5, <1>6, <1>7, <1>9 DEF ServedPath

-----------------------------------------------------------------------------
(* The overviews *)

LEMMA NearestSelf ==
    ASSUME NEW p \in RepoPath, NoSegment \notin ToSet(p), NEW directories, p \in directories
    PROVE  Nearest(p, directories) = p
<1>1. Within(p, p)
  BY WithinSelf
<1>2. Nearest(p, directories) # Nowhere
  BY <1>1, NearestIs
<1> DEFINE near == Nearest(p, directories)
<1>3. near \in RepoPath /\ Within(near, p) /\ Within(p, near)
  BY <1>1, <1>2, NearestIs
<1> HIDE DEF near
<1>4. Len(near) <= Len(p) /\ Len(p) <= Len(near) /\ Len(near) \in Nat /\ Len(p) \in Nat
  BY <1>3, WithinLen
<1>5. near = p
  BY <1>3, <1>4, WithinLen
<1> QED
  BY <1>5 DEF near

LEMMA NoOverview ==
    ASSUME Sourced, NEW m \in WholeManifests PROVE ~IsReadme(m.path) /\ Last(m.path) = "SKILLCDN.md"
<1>1. Last(m.path) = "SKILLCDN.md"
  BY OneManifest, ManifestPathIs
<1> QED
  BY <1>1, NamesAssumption DEF IsReadme

\* A manifest is served with what it governs.
LEMMA ServedManifest ==
    ASSUME Ready, NEW m \in WholeManifests, Parent(m.path) \in DOMAIN scope.documents, ~Excluded(m.path, scope)
    PROVE  ServedPath(m.path, scope)
<1>1. Sourced
  BY DEF Ready
<1>2. m.path \in WholePaths /\ m.path = ManifestPath(Parent(m.path))
  BY <1>1, OneManifest DEF WholePaths
<1>3. Parent(m.path) \in RepoPath /\ NoSegment \notin ToSet(Parent(m.path)) /\ Parent(m.path) # Nowhere
  BY <1>1, <1>2, PathsAre
<1> DEFINE governing == Nearest(Parent(m.path), DOMAIN scope.documents)
<1>4. governing = Parent(m.path)
  BY <1>3, NearestSelf
<1>5. governing # Nowhere /\ m.path = ManifestPath(governing)
  BY <1>2, <1>3, <1>4, Zenon
<1> QED
  BY <1>5 DEF ServedPath

\* A skill is served, and owns itself.
LEMMA ServedSkill ==
    ASSUME Known, NEW f \in Skills
    PROVE  /\ ServedPath(f.path, scope) /\ OwningSkill(f.path, scope.skills) = Parent(f.path)
           /\ OwningSkill(f.path, ScopeOfAll.skills) = Parent(f.path)
<1>1. Sourced
  BY DEF Known, Ready
<1>2. f \in WholeSkills /\ Parent(f.path) \in scope.skills /\ ReadSkill(f)
  BY SkillsAre
<1>3. ~Excluded(f.path, scope)
  BY <1>2 DEF ReadSkill
<1>4. f.path \in WholePaths /\ Last(f.path) = "SKILL.md" /\ f.path # <<>> /\ f.path \in RepoPath
  BY <1>1, <1>2, OneSkill DEF WholePaths
<1>5. Parent(f.path) \in RepoPath /\ NoSegment \notin ToSet(Parent(f.path)) /\ Parent(f.path) # Nowhere
  BY <1>1, <1>4, PathsAre
<1>6. Parent(f.path) \in ScopeOfAll.skills
  BY <1>2, ScopeIsLess
<1>7. OwningSkill(f.path, scope.skills) = Parent(f.path) /\ OwningSkill(f.path, ScopeOfAll.skills) = Parent(f.path)
  BY <1>2, <1>5, <1>6, NearestSelf DEF OwningSkill
<1>8. Last(f.path) \notin Dotted
  BY <1>4, NamesAssumption
<1>9. PublicDescendant(f.path, Parent(f.path))
  BY <1>4, <1>8, PublicHere
<1> QED
  BY <1>3, <1>5, <1>7, <1>9 DEF ServedPath

ReadmesOf(paths, d) == {p \in paths : IsReadme(p) /\ Parent(p) = d}

LEMMA SelectIs ==
    ASSUME NEW paths, NEW directories
    PROVE  \A o : o \in SelectReadmes(paths, directories) <=>
                \E d \in directories : ReadmesOf(paths, d) # {} /\ o = Plainest(ReadmesOf(paths, d), OverviewRank)
BY DEF SelectReadmes, ReadmesOf

\* Of the overviews of a directory all are shown or none, but for those that are withheld.
LEMMA ReadmeShown ==
    ASSUME Ready, NEW p \in WholePaths, NEW q \in WholePaths, Parent(p) = Parent(q), IsReadme(q),
           ~Excluded(q, scope), p \notin Withheld, IsReadme(p)
    PROVE  ~Excluded(p, scope)
<1>1. Sourced /\ Policy /\ round # "failed" /\ Settled = WholeManifests
  BY AllSettled DEF Ready
<1>2. /\ p \in RepoPath /\ q \in RepoPath /\ Parent(q) \in RepoPath /\ Within(Parent(q), q) /\ p # <<>>
      /\ WholeAt(p) \in WholeFiles /\ WholeAt(p).path = p
  BY <1>1, PathsAre
<1> SUFFICES ASSUME Excluded(p, scope) PROVE FALSE
  OBVIOUS
<1>3. PICK d \in RepoPath : Within(d, p) /\ (d \in scope.excluded \/ (d \in scope.broken /\ p # ManifestPath(d)))
  BY <1>2, ExcludedIs
<1>4. d = p \/ Within(d, Parent(q))
  BY <1>2, <1>3, ParentIs
<1>5. CASE Within(d, Parent(q))
  <2>1. Within(d, q)
    BY <1>2, <1>5, WithinChain
  <2>2. q # ManifestPath(d)
    <3>1. "SKILLCDN.md" \notin DOMAIN OverviewRank
      BY NamesAssumption
    <3> QED
      BY <3>1, ManifestPathIs DEF IsReadme
  <2> QED
    BY <1>2, <1>3, <2>1, <2>2, ExcludedIs
<1>6. CASE d = p
  <2>1. \A n \in WholeManifests : p # Parent(n.path)
    <3> TAKE n \in WholeManifests
    <3>1. n \in WholeFiles
      BY <1>1, OneManifest
    <3> QED
      BY <1>1, <1>2, <3>1, AboveFile, WithinSelf
  <2>2. CASE d \in scope.excluded
    <3>1. Sayso(p) \/ WithManifest(p)
      BY <1>1, <1>6, <2>2 DEF Policy
    <3>2. ~WithManifest(p)
      BY <2>1 DEF WithManifest
    <3>3. PICK m \in WholeManifests : ReadsAs(m, "manifest") /\ p \in Excludes(m)
      BY <3>1, <3>2 DEF Sayso
    <3>4. TakesOut(m, p)
      BY <1>2, <3>3, WithinSelf DEF TakesOut
    <3> QED
      BY <3>4, WithheldIs DEF TakenOut
  <2>3. CASE d \in scope.broken
    BY <1>1, <1>6, <2>1, <2>3, BrokenIs
  <2> QED
    BY <1>3, <2>2, <2>3
<1> QED
  BY <1>4, <1>5, <1>6

\* The paths that are shown, and the directories on the way to what is served; and the same of the whole.
Shown == {f.path : f \in {g \in ToSet(files) : ~Excluded(g.path, scope)}}
Leading ==
    {<<>>} \union UNION {Prefixes(Parent(f.path)) :
                            f \in {g \in ToSet(files) : ~IsReadme(g.path) /\ ServedPath(g.path, scope)}}
ShownOfAll == {f.path : f \in ToSet(files)} \ Withheld
LeadingOfAll ==
    {<<>>} \union UNION {Prefixes(Parent(p)) : p \in {q \in ServedAll(ScopeOfAll) : ~IsReadme(q)} \union Lost}

LEMMA OverviewsAre == Overviews(scope) = SelectReadmes(Shown, Leading)
BY DEF Overviews, Shown, Leading

LEMMA BaseIs == Base = ServedAll(ScopeOfAll) \union SelectReadmes(ShownOfAll, LeadingOfAll)
BY DEF Base, WithOverviews, ShownOfAll, LeadingOfAll, ScopeOfAll, Genuine

LEMMA FilesInWhole ==
    ASSUME Ready
    PROVE  /\ ToSet(files) \subseteq WholeFiles /\ \A f \in ToSet(files) : f.path \in WholePaths
           /\ NothingIsLeftOut => ToSet(files) = WholeFiles
<1>1. files \in Seq(WholeFiles) /\ (NothingIsLeftOut => ToSet(files) = WholeFiles)
  BY AllSettled DEF Ready, Listing, NothingIsLeftOut
<1>2. ToSet(files) \subseteq WholeFiles
  BY <1>1, MembersAre
<1> QED
  BY <1>1, <1>2 DEF WholePaths

LEMMA ReadmesAgree ==
    ASSUME Known, NEW d
    PROVE  /\ ReadmesOf(Shown, d) # {} => ReadmesOf(Shown, d) = ReadmesOf(ShownOfAll, d)
           /\ NothingIsLeftOut => ReadmesOf(Shown, d) = ReadmesOf(ShownOfAll, d)
<1>1. Ready /\ Sourced
  BY DEF Known, Ready
<1>2. \A f \in ToSet(files) : f.path \in WholePaths
  BY <1>1, FilesInWhole
<1>3. ASSUME NEW p \in ReadmesOf(Shown, d) PROVE p \in ReadmesOf(ShownOfAll, d)
  <2>1. PICK f \in ToSet(files) : p = f.path /\ ~Excluded(p, scope)
    BY DEF ReadmesOf, Shown
  <2>2. IsReadme(p) /\ Parent(p) = d
    BY DEF ReadmesOf
  <2>3. p \notin Lost
    BY <1>1, <2>2, LostIs, NoOverview
  <2>4. p \notin Withheld
    BY <1>1, <2>1, <2>3, NotWithheld
  <2> QED
    BY <2>1, <2>2, <2>4 DEF ReadmesOf, ShownOfAll
<1>4. ASSUME NEW q \in ReadmesOf(Shown, d), NEW p \in ReadmesOf(ShownOfAll, d) PROVE p \in ReadmesOf(Shown, d)
  <2>1. PICK f \in ToSet(files) : p = f.path
    BY DEF ReadmesOf, ShownOfAll
  <2>2. p \notin Withheld /\ IsReadme(p) /\ Parent(p) = d
    BY DEF ReadmesOf, ShownOfAll
  <2>3. PICK g \in ToSet(files) : q = g.path /\ ~Excluded(q, scope)
    BY DEF ReadmesOf, Shown
  <2>4. IsReadme(q) /\ Parent(q) = d
    BY DEF ReadmesOf
  <2>5. ~Excluded(p, scope)
    BY <1>1, <1>2, <2>1, <2>2, <2>3, <2>4, ReadmeShown
  <2> QED
    BY <2>1, <2>2, <2>5 DEF ReadmesOf, Shown
<1>5. ASSUME NothingIsLeftOut, NEW p \in ReadmesOf(ShownOfAll, d) PROVE p \in ReadmesOf(Shown, d)
  <2>1. PICK f \in ToSet(files) : p = f.path
    BY DEF ReadmesOf, ShownOfAll
  <2>2. p \notin Withheld /\ IsReadme(p) /\ Parent(p) = d
    BY DEF ReadmesOf, ShownOfAll
  <2>3. ~Excluded(p, scope)
    BY <1>1, <1>2, <1>5, <2>1, <2>2, NothingElseWithheld
  <2> QED
    BY <2>1, <2>2, <2>3 DEF ReadmesOf, Shown
<1> QED
  BY <1>3, <1>4, <1>5

LEMMA OverviewsAreWhole == ASSUME Known PROVE follow.overviews \subseteq Base
<1>1. Ready /\ Sourced /\ follow.overviews = Overviews(scope)
  BY DEF Known, Ready, SkillsAreRead
<1>2. \A f \in ToSet(files) : f.path \in WholePaths
  BY <1>1, FilesInWhole
<1>3. ASSUME NEW d \in Leading PROVE d \in LeadingOfAll
  <2> SUFFICES ASSUME d # <<>> PROVE d \in LeadingOfAll
    BY DEF LeadingOfAll
  <2>1. PICK f \in ToSet(files) : ~IsReadme(f.path) /\ ServedPath(f.path, scope) /\ d \in Prefixes(Parent(f.path))
    BY DEF Leading
  <2>2. CASE f.path \in Withheld
    <3>1. ~Excluded(f.path, scope)
      BY <2>1 DEF ServedPath
    <3>2. f.path \in Lost
      BY <1>1, <2>2, <3>1, NotWithheld
    <3> QED
      BY <2>1, <3>2 DEF LeadingOfAll
  <2>3. CASE f.path \notin Withheld
    <3>1. f.path \in ServedAll(ScopeOfAll)
      BY <1>2, <2>1, <2>3, ServedIsWhole
    <3> QED
      BY <2>1, <3>1 DEF LeadingOfAll
  <2> QED
    BY <2>2, <2>3
<1>4. ASSUME NEW o \in follow.overviews PROVE o \in Base
  <2>1. o \in SelectReadmes(Shown, Leading)
    BY <1>1, OverviewsAre
  <2>2. PICK d \in Leading : ReadmesOf(Shown, d) # {} /\ o = Plainest(ReadmesOf(Shown, d), OverviewRank)
    BY <2>1, SelectIs
  <2>3. ReadmesOf(Shown, d) = ReadmesOf(ShownOfAll, d) /\ d \in LeadingOfAll
    BY <1>3, <2>2, ReadmesAgree
  <2>4. o \in SelectReadmes(ShownOfAll, LeadingOfAll)
    BY <2>2, <2>3, SelectIs
  <2> QED
    BY <2>4, BaseIs
<1> QED
  BY <1>4

\* When nothing was left out, all of it is served.
LEMMA BaseIsServed ==
    ASSUME Known, NothingIsLeftOut, NEW p \in Base
    PROVE  p \in WholePaths /\ ~Excluded(p, scope) /\ (ServedPath(p, scope) \/ p \in follow.overviews)
<1>1. Ready /\ Sourced /\ follow.overviews = Overviews(scope) /\ Policy /\ round # "failed" /\ Settled = WholeManifests
  BY AllSettled DEF Known, Ready, SkillsAreRead
<1>2. /\ \A f \in ToSet(files) : f.path \in WholePaths
      /\ ToSet(files) = WholeFiles
  BY <1>1, FilesInWhole
<1>3. CASE p \in ServedAll(ScopeOfAll)
  <2>1. ServedPath(p, scope)
    BY <1>3, WholeIsServed
  <2> QED
    BY <1>3, <2>1 DEF ServedAll, ServedPath
<1>4. CASE p \in SelectReadmes(ShownOfAll, LeadingOfAll)
  <2>1. PICK d \in LeadingOfAll : /\ ReadmesOf(ShownOfAll, d) # {}
                                  /\ p = Plainest(ReadmesOf(ShownOfAll, d), OverviewRank)
    BY <1>4, SelectIs
  <2>2. ReadmesOf(Shown, d) = ReadmesOf(ShownOfAll, d)
    BY ReadmesAgree
  <2>3. d \in Leading
    <3> SUFFICES ASSUME d # <<>> PROVE d \in Leading
      BY DEF Leading
    <3>1. PICK q \in {r \in ServedAll(ScopeOfAll) : ~IsReadme(r)} \union Lost : d \in Prefixes(Parent(q))
      BY <2>1 DEF LeadingOfAll
    <3>2. q \in WholePaths /\ ~IsReadme(q) /\ ServedPath(q, scope)
      <4>1. CASE q \in ServedAll(ScopeOfAll) /\ ~IsReadme(q)
        BY <4>1, WholeIsServed DEF ServedAll
      <4>2. CASE q \in Lost
        <5>1. PICK m \in WholeManifests : q = m.path /\ Parent(m.path) \in scope.broken
          BY <4>2, LostIs
        <5>2. Parent(m.path) \in DOMAIN scope.documents
          BY <1>1, <5>1 DEF Policy
        <5>3. Closed(m)
          BY <1>1, <5>1, <5>2 DEF Policy, Shut, Governs
        <5>4. ServedPath(m.path, scope)
          BY <1>1, <5>2, <5>3, ServedManifest DEF Closed
        <5>5. m.path \in WholePaths
          BY <1>1, OneManifest DEF WholePaths
        <5> QED
          BY <1>1, <5>1, <5>4, <5>5, NoOverview
      <4> QED
        BY <3>1, <4>1, <4>2
    <3>3. WholeAt(q) \in ToSet(files) /\ WholeAt(q).path = q
      BY <1>1, <1>2, <3>2, PathsAre
    <3> QED
      BY <3>1, <3>2, <3>3 DEF Leading
  <2>4. p \in SelectReadmes(Shown, Leading)
    BY <2>1, <2>2, <2>3, SelectIs
  <2>5. p \in follow.overviews
    BY <1>1, <2>4, OverviewsAre
  <2>6. p \in ReadmesOf(Shown, d)
    <3>1. Ranks(OverviewRank) /\ \A q \in ReadmesOf(Shown, d) : Last(q) \in DOMAIN OverviewRank
      BY NamesAssumption DEF ReadmesOf, IsReadme
    <3>2. ReadmesOf(Shown, d) # {} /\ p = Plainest(ReadmesOf(Shown, d), OverviewRank)
      BY <2>1, <2>2
    <3> QED
      BY <3>1, <3>2, PlainestIs
  <2>7. PICK f \in ToSet(files) : p = f.path /\ ~Excluded(p, scope)
    BY <2>6 DEF ReadmesOf, Shown
  <2> QED
    BY <1>2, <2>5, <2>7
<1> QED
  BY <1>3, <1>4, BaseIs

\* What is served before a link is followed.
LEMMA ServedIsBase ==
    ASSUME Known, NEW p \in WholePaths, p \notin Withheld, ~Excluded(p, scope),
           ServedPath(p, scope) \/ p \in follow.overviews
    PROVE  p \in Base
BY ServedIsWhole, OverviewsAreWhole, BaseIs

-----------------------------------------------------------------------------
(* What links reach *)

LEMMA ReachedIs == Reached[0] = Base /\ \A k \in 1..MaxReferenceDepth : Reached[k] = NextReach(Reached[k - 1])
<1> DEFINE A == SUBSET (Base \union WholePaths)
           N == MaxReferenceDepth
           S == [x \in A \X (1..N) |-> NextReach(x[1])]
<1>1. N \in Nat
  BY BuildAssumption
<1>2. \A x \in A \X (1..N) : NextReach(x[1]) \in A
  <2> TAKE x \in A \X (1..N)
  <2>1. x[1] \subseteq Base \union WholePaths
    OBVIOUS
  <2>2. \A f : LinksOf(f, Withheld) \subseteq WholePaths
    BY DEF LinksOf
  <2>3. NextReach(x[1]) \subseteq Base \union WholePaths
    BY <2>1, <2>2 DEF NextReach
  <2> QED
    BY <2>3
<1>3. Stepwise(S, A, N)
  BY <1>2 DEF Stepwise
<1>4. \A c \in A, k \in 1..N : S[<<c, k>>] = NextReach(c)
  OBVIOUS
<1>5. Base \in A
  OBVIOUS
<1> HIDE DEF S, A
<1>6. PICK r : Takes(r, S, Base, A, N)
  BY <1>1, <1>3, <1>5, Chain
<1>7. r \in [0..N -> A] /\ r[0] = Base /\ \A k \in 1..N : r[k] = S[<<r[k - 1], k>>]
  BY <1>6 DEF Takes
<1>8. \A k \in 1..N : k - 1 \in 0..N
  BY <1>1
<1>9. \A k \in 1..N : r[k - 1] \in A
  BY <1>7, <1>8
<1>10. \A k \in 1..N : r[k] = NextReach(r[k - 1])
  BY <1>4, <1>7, <1>9
<1>11. \A k \in 0..N : k # 0 => k \in 1..N
  BY <1>1
<1>12. \A k \in 0..N : r[k] = IF k = 0 THEN Base ELSE NextReach(r[k - 1])
  BY <1>7, <1>10, <1>11, Zenon
<1>13. r = [k \in 0..N |-> r[k]]
  BY <1>7
<1>14. r = [k \in 0..N |-> IF k = 0 THEN Base ELSE NextReach(r[k - 1])]
  BY <1>12, <1>13, Zenon
<1>15. Reaches(r)
  BY <1>14 DEF Reaches
<1>16. Reaches(Reached)
  BY <1>15 DEF Reached
<1>17. \A k \in 0..N : Reached[k] = IF k = 0 THEN Base ELSE NextReach(Reached[k - 1])
  BY <1>16 DEF Reaches
<1>18. 0 \in 0..N /\ \A k \in 1..N : k \in 0..N /\ k # 0
  BY <1>1
<1> QED
  BY <1>17, <1>18

LEMMA ReachedGrows == \A k \in 0..MaxReferenceDepth : Reached[k] \subseteq Reached[MaxReferenceDepth]
<1> DEFINE N == MaxReferenceDepth
           S == {n \in Nat : n <= N => Reached[N - n] \subseteq Reached[N]}
<1>1. N \in Nat
  BY BuildAssumption
<1>2. 0 \in S
  BY <1>1
<1>3. ASSUME NEW n \in Nat, n \in S PROVE n + 1 \in S
  <2> SUFFICES ASSUME n + 1 <= N PROVE Reached[N - (n + 1)] \subseteq Reached[N]
    OBVIOUS
  <2>1. N - n \in 1..N /\ n <= N /\ (N - n) - 1 = N - (n + 1)
    BY <1>1
  <2>2. Reached[N - n] = NextReach(Reached[N - (n + 1)])
    BY <2>1, ReachedIs
  <2>3. Reached[N - (n + 1)] \subseteq Reached[N - n]
    BY <2>2 DEF NextReach
  <2>4. Reached[N - n] \subseteq Reached[N]
    BY <1>3, <2>1
  <2> QED
    BY <2>3, <2>4
<1> HIDE DEF S
<1>4. \A n \in Nat : n \in S
  BY <1>2, <1>3, Upwards
<1>5. ASSUME NEW k \in 0..N PROVE Reached[k] \subseteq Reached[N]
  <2>1. N - k \in Nat /\ N - k <= N /\ N - (N - k) = k
    BY <1>1
  <2>2. N - k \in S
    BY <1>4, <2>1
  <2>3. Reached[N - (N - k)] \subseteq Reached[N]
    BY <2>1, <2>2 DEF S
  <2> QED
    BY <2>1, <2>3
<1> QED
  BY <1>5

\* What holds the base and what the links of its files reach holds everything that is reached.
LEMMA ReachedWithin ==
    ASSUME NEW R, Base \subseteq R,
           \A g \in WholeFiles : g.path \in R /\ Speaks(g) => LinksOf(g, Withheld) \subseteq R
    PROVE  Reached[MaxReferenceDepth] \subseteq R
<1> DEFINE N == MaxReferenceDepth
           S == {n \in Nat : n <= N => Reached[n] \subseteq R}
<1>1. N \in Nat
  BY BuildAssumption
<1>2. 0 \in S
  BY ReachedIs
<1>3. ASSUME NEW n \in Nat, n \in S PROVE n + 1 \in S
  <2> SUFFICES ASSUME n + 1 <= N PROVE Reached[n + 1] \subseteq R
    OBVIOUS
  <2>1. n + 1 \in 1..N /\ n <= N /\ (n + 1) - 1 = n
    BY <1>1
  <2>2. Reached[n + 1] = NextReach(Reached[n])
    BY <2>1, ReachedIs, Zenon
  <2>3. Reached[n] \subseteq R
    BY <1>3, <2>1
  <2> QED
    BY <2>2, <2>3 DEF NextReach
<1> HIDE DEF S
<1>4. N \in S
  BY <1>1, <1>2, <1>3, Upwards
<1> QED
  BY <1>1, <1>4 DEF S

LEMMA LinkReaches ==
    ASSUME NEW k \in Nat, k + 1 <= MaxReferenceDepth, NEW g \in WholeFiles, g.path \in Reached[k], Speaks(g),
           NEW q \in LinksOf(g, Withheld)
    PROVE  q \in Reached[k + 1]
<1>1. MaxReferenceDepth \in Nat
  BY BuildAssumption
<1>2. k + 1 \in 1..MaxReferenceDepth /\ (k + 1) - 1 = k
  BY <1>1
<1>3. Reached[k + 1] = NextReach(Reached[k])
  BY <1>2, ReachedIs, Zenon
<1> QED
  BY <1>3 DEF NextReach

LEMMA WholeIs ==
    /\ WholeRepository.visible = Reached[MaxReferenceDepth] \union {f.path : f \in Declared(Withheld)}
    /\ WholeRepository.withheld = Withheld
    /\ WholeRepository.restrictive =
        {p \in WholePaths : WholeLicense(p, OwningSkill(p, Parents(Genuine))) = "restrictive"}
<1>1. WithLinks(Base, Withheld) = Reached[MaxReferenceDepth]
  BY DEF WithLinks, Reached, Reaches, NextReach
<1>2. WholeRepository = WholeOf(Withheld, Declared(Withheld))
  BY DEF WholeRepository
<1>3. Base = WithOverviews(ServedAll(WholeScope(Withheld, SkillsOf(Declared(Withheld)))), Withheld)
  BY DEF Base
<1> DEFINE whole == [visible |-> WithLinks(Base, Withheld) \union {f.path : f \in Declared(Withheld)},
                     withheld |-> Withheld,
                     restrictive |-> {p \in WholePaths : WholeLicense(p, OwningSkill(p, Parents(Genuine))) = "restrictive"}]
<1>4. WholeOf(Withheld, Declared(Withheld)) = whole
  BY <1>3 DEF WholeOf, Genuine
<1>5. /\ whole.visible = WithLinks(Base, Withheld) \union {f.path : f \in Declared(Withheld)}
      /\ whole.withheld = Withheld
      /\ whole.restrictive = {p \in WholePaths : WholeLicense(p, OwningSkill(p, Parents(Genuine))) = "restrictive"}
  OBVIOUS
<1> QED
  BY <1>1, <1>2, <1>4, <1>5

Followed == Known /\ LinksAreFollowed /\ round \in Linking

\* What is served is visible in the whole repository, unless it is a manifest that was not read.
LEMMA ServedIsVisible ==
    ASSUME Followed, NEW p \in WholePaths, p \notin Withheld, Served(p) PROVE p \in WholeRepository.visible
<1>1. ~Excluded(p, scope) /\ (ServedPath(p, scope) \/ p \in follow.linked \/ p \in follow.overviews)
  BY DEF Served
<1>2. follow.linked \subseteq Reached[MaxReferenceDepth]
  BY DEF Followed, LinksAreFollowed
<1>3. MaxReferenceDepth \in Nat /\ 0 \in 0..MaxReferenceDepth
  BY BuildAssumption
<1>4. Base \subseteq Reached[MaxReferenceDepth]
  BY <1>3, ReachedIs, ReachedGrows
<1>5. p \in Reached[MaxReferenceDepth]
  BY <1>1, <1>2, <1>4, ServedIsBase DEF Followed
<1> QED
  BY <1>5, WholeIs

\* When nothing was left out and all links were followed, all of it is served.
LEMMA VisibleIsServed ==
    ASSUME Followed, round # "links", NothingIsLeftOut, NEW p \in WholeRepository.visible
    PROVE  /\ p \in WholePaths
           /\ Served(p) \/ \E f \in reads.unread : f.path = p
<1>1. Known /\ Ready /\ Sourced /\ SkillsAreRead /\ round \in Skilled
  BY DEF Followed, Known, Ready
<1>2. ToSet(files) = WholeFiles
  BY <1>1, FilesInWhole
<1> DEFINE R == {q \in WholePaths : Served(q)}
<1>3. Base \subseteq R
  BY <1>1, BaseIsServed DEF Served
<1>4. ASSUME NEW g \in WholeFiles, g.path \in R, Speaks(g), NEW q \in LinksOf(g, Withheld) PROVE q \in R
  <2>1. follow.frontier = <<>>
    BY DEF Followed, LinksAreFollowed
  <2>2. g \notin ToSet(follow.frontier)
    BY <2>1, NoMembers
  <2>3. Served(q)
    BY <1>4, <2>2 DEF Followed, LinksAreFollowed
  <2>4. q \in WholePaths
    BY DEF LinksOf
  <2> QED
    BY <2>3, <2>4
<1> HIDE DEF R
<1>5. Reached[MaxReferenceDepth] \subseteq R
  BY <1>3, <1>4, ReachedWithin
<1>6. CASE p \in Reached[MaxReferenceDepth]
  BY <1>5, <1>6 DEF R
<1>7. CASE \E f \in Declared(Withheld) : p = f.path
  <2>1. PICK f \in Declared(Withheld) : p = f.path
    BY <1>7
  <2>2. f \in WholeSkills /\ f \in WholeFiles /\ Reads(f) /\ f.path \notin Withheld /\ f.path \in WholePaths
    BY <1>1, OneSkill DEF Declared, WholeSkills, WholePaths
  <2>3. ~Excluded(f.path, scope)
    BY <1>1, <2>2, NothingElseWithheld
  <2>4. ReadSkill(f)
    BY <1>2, <2>2, <2>3 DEF ReadSkill
  <2>5. CASE Says[f.hash].ok
    <3>1. Parent(f.path) \in scope.skills
      BY <1>1, <2>2, <2>4, <2>5 DEF SkillsAreRead
    <3>2. f \in Skills
      BY <1>1, <2>2, <3>1, SkillsAre
    <3> QED
      BY <1>1, <2>1, <2>2, <2>3, <3>2, ServedSkill DEF Served
  <2>6. CASE ~Says[f.hash].ok
    <3>1. f \in reads.unread
      BY <1>1, <2>2, <2>4, <2>6 DEF SkillsAreRead
    <3> QED
      BY <2>1, <2>2, <3>1
  <2> QED
    BY <2>5, <2>6
<1> QED
  BY <1>6, <1>7, WholeIs

-----------------------------------------------------------------------------
(* Licenses *)

Terms == {"permissive", "restrictive", "silent"}

\* What is said first is restrictive when nothing is said before it.
LEMMA FirstSaidIs ==
    ASSUME NEW s \in Seq(Terms)
    PROVE  FirstSaid(s) = "restrictive" <=>
            \E n \in 1..Len(s) : s[n] = "restrictive" /\ \A k \in 1..n - 1 : s[k] = "silent"
<1> DEFINE said == {n \in DOMAIN s : s[n] # "silent"}
<1>1. FirstSaid(s) = IF said = {} THEN "none" ELSE s[Min(said)]
  BY DEF FirstSaid
<1>2. Len(s) \in Nat /\ DOMAIN s = 1..Len(s)
  OBVIOUS
<1>3. \A n : n \in said <=> n \in 1..Len(s) /\ s[n] # "silent"
  BY <1>2
<1> HIDE DEF said
<1>4. CASE said = {}
  BY <1>1, <1>3, <1>4
<1>5. CASE said # {}
  <2>1. said \in SUBSET Nat
    BY <1>2, <1>3
  <2>2. \E m \in said : \A j \in said : m <= j
    BY <1>5, <2>1, LeastOf
  <2>3. Min(said) \in said /\ \A j \in said : Min(said) <= j
    BY <2>2 DEF Min
  <2> DEFINE m == Min(said)
  <2>4. m \in 1..Len(s) /\ s[m] # "silent" /\ FirstSaid(s) = s[m] /\ \A j \in said : m <= j
    BY <1>1, <1>3, <1>5, <2>3
  <2> HIDE DEF m
  <2>5. \A k \in 1..m - 1 : s[k] = "silent"
    <3> TAKE k \in 1..m - 1
    <3>1. k \in 1..Len(s) /\ ~(m <= k)
      BY <1>2, <2>4
    <3> QED
      BY <1>3, <2>4, <3>1
  <2>6. ASSUME NEW n \in 1..Len(s), s[n] = "restrictive", \A k \in 1..n - 1 : s[k] = "silent" PROVE s[m] = "restrictive"
    <3>1. n \in said
      BY <1>3, <2>6
    <3>2. m <= n
      BY <2>4, <3>1
    <3>3. m \notin 1..n - 1
      BY <2>4, <2>6
    <3>4. m = n
      BY <1>2, <2>4, <3>2, <3>3
    <3> QED
      BY <2>6, <3>4
  <2> QED
    BY <2>4, <2>5, <2>6
<1> QED
  BY <1>4, <1>5

\* The order in which the sources of a license are asked.
Restricts(a, b, nested, c, d) ==
    \/ a = "restrictive"
    \/ /\ a = "silent"
       /\ \/ b = "restrictive"
          \/ /\ b = "silent"
             /\ \/ \E n \in 1..Len(nested) : nested[n] = "restrictive" /\ \A k \in 1..n - 1 : nested[k] = "silent"
                \/ /\ \A n \in 1..Len(nested) : nested[n] = "silent"
                   /\ c = "restrictive" \/ (c = "silent" /\ d = "restrictive")

LEMMA ResolveIs ==
    ASSUME NEW a \in Terms, NEW b \in Terms, NEW nested \in Seq(Terms), NEW c \in Terms, NEW d \in Terms
    PROVE  ResolveLicense(a, b, nested, c, d) = "restrictive" <=> Restricts(a, b, nested, c, d)
<1> DEFINE head == <<a, b>>
           tail == <<c, d>>
           ab   == head \o nested
           all  == ab \o tail
           N    == Len(nested)
<1>1. /\ head \in Seq(Terms) /\ Len(head) = 2 /\ head[1] = a /\ head[2] = b
      /\ tail \in Seq(Terms) /\ Len(tail) = 2 /\ tail[1] = c /\ tail[2] = d
      /\ N \in Nat
  OBVIOUS
<1>2. ResolveLicense(a, b, nested, c, d) = FirstSaid(all)
  BY DEF ResolveLicense
<1> HIDE DEF head, tail, N
<1>3. /\ ab \in Seq(Terms) /\ Len(ab) = 2 + N
      /\ \A n \in 1..2 : ab[n] = head[n]
      /\ \A n \in 1..N : ab[2 + n] = nested[n]
  <2>1. /\ ab \in Seq(Terms) /\ Len(ab) = Len(head) + Len(nested)
        /\ \A n \in 1..Len(head) : ab[n] = head[n]
        /\ \A n \in 1..Len(nested) : ab[Len(head) + n] = nested[n]
    <3>1. ab \in Seq(Terms)
      BY <1>1, Concatenated
    <3>2. Len(ab) = Len(head) + Len(nested)
      BY <1>1, Concatenated
    <3>3. \A n \in 1..Len(head) : ab[n] = head[n]
      BY <1>1, Concatenated
    <3>0. head \in Seq(Terms)
      BY <1>1
    <3>4. \A n \in 1..Len(nested) : ab[Len(head) + n] = nested[n]
      BY <3>0, Concatenated
    <3> QED
      BY <3>1, <3>2, <3>3, <3>4
  <2> QED
    BY <1>1, <2>1 DEF N
<1> HIDE DEF ab
<1>4. /\ all \in Seq(Terms) /\ Len(all) = 2 + N + 2
      /\ \A n \in 1..2 + N : all[n] = ab[n]
      /\ \A n \in 1..2 : all[2 + N + n] = tail[n]
  <2>1. /\ all \in Seq(Terms) /\ Len(all) = Len(ab) + Len(tail)
        /\ \A n \in 1..Len(ab) : all[n] = ab[n]
        /\ \A n \in 1..Len(tail) : all[Len(ab) + n] = tail[n]
    <3>1. all \in Seq(Terms)
      BY <1>1, <1>3, Concatenated
    <3>2. Len(all) = Len(ab) + Len(tail)
      BY <1>1, <1>3, Concatenated
    <3>3. \A n \in 1..Len(ab) : all[n] = ab[n]
      BY <1>1, <1>3, Concatenated
    <3>4. \A n \in 1..Len(tail) : all[Len(ab) + n] = tail[n]
      BY <1>1, <1>3, Concatenated
    <3> QED
      BY <3>1, <3>2, <3>3, <3>4
  <2> QED
    BY <1>1, <1>3, <2>1
<1> HIDE DEF all
<1>5. /\ all[1] = a /\ all[2] = b /\ all[N + 3] = c /\ all[N + 4] = d
      /\ \A n \in 1..N : all[2 + n] = nested[n]
  <2>1. 1 \in 1..2 /\ 2 \in 1..2 /\ 1 \in 1..2 + N /\ 2 \in 1..2 + N /\ 2 + N + 1 = N + 3 /\ 2 + N + 2 = N + 4
    BY <1>1
  <2>2. \A n \in 1..N : 2 + n \in 1..2 + N
    BY <1>1
  <2> QED
    BY <1>1, <1>3, <1>4, <2>1, <2>2
<1>6. FirstSaid(all) = "restrictive" <=>
        \E n \in 1..N + 4 : all[n] = "restrictive" /\ \A k \in 1..n - 1 : all[k] = "silent"
  <2>1. Len(all) = N + 4
    BY <1>1, <1>4
  <2> QED
    BY <1>4, <2>1, FirstSaidIs
<1> DEFINE Ends(n) == all[n] = "restrictive" /\ \A k \in 1..n - 1 : all[k] = "silent"
<1>7. Ends(1) <=> a = "restrictive"
  BY <1>5
<1>8. Ends(2) <=> (a = "silent" /\ b = "restrictive")
  <2>1. \A k : k \in 1..2 - 1 <=> k = 1
    OBVIOUS
  <2> QED
    BY <1>5, <2>1
<1>9. ASSUME NEW n \in 1..N PROVE Ends(2 + n) <=> /\ a = "silent" /\ b = "silent" /\ nested[n] = "restrictive"
                                                 /\ \A k \in 1..n - 1 : nested[k] = "silent"
  <2>1. \A k : k \in 1..(2 + n) - 1 <=> (k = 1 \/ k = 2 \/ (k - 2 \in 1..n - 1 /\ k \in Int))
    OBVIOUS
  <2>2. \A k \in 1..n - 1 : 2 + k \in 1..(2 + n) - 1 /\ all[2 + k] = nested[k]
    BY <1>1, <1>5
  <2>3. ASSUME NEW k \in Int, k - 2 \in 1..n - 1 PROVE all[k] = nested[k - 2]
    <3>1. k - 2 \in 1..N /\ 2 + (k - 2) = k
      BY <1>1, <2>3
    <3> QED
      BY <1>5, <3>1
  <2>4. 1 \in 1..(2 + n) - 1 /\ 2 \in 1..(2 + n) - 1
    OBVIOUS
  <2> QED
    BY <1>5, <2>1, <2>2, <2>3, <2>4
<1>10. ASSUME NEW m \in {N + 3, N + 4}
       PROVE  (\A k \in 1..m - 1 : all[k] = "silent") <=>
                /\ a = "silent" /\ b = "silent" /\ \A n \in 1..N : nested[n] = "silent"
                /\ m = N + 4 => c = "silent"
  <2>1. \A k : k \in 1..m - 1 <=> (k = 1 \/ k = 2 \/ (k \in Int /\ k - 2 \in 1..N) \/ (m = N + 4 /\ k = N + 3))
    BY <1>1
  <2>2. ASSUME NEW k \in Int, k - 2 \in 1..N PROVE all[k] = nested[k - 2]
    <3>1. 2 + (k - 2) = k
      OBVIOUS
    <3> QED
      BY <1>5, <2>2, <3>1
  <2>3. \A n \in 1..N : 2 + n \in Int /\ (2 + n) - 2 = n
    BY <1>1
  <2>4. \A n \in 1..N : 2 + n \in 1..m - 1
    BY <2>1, <2>3
  <2> QED
    BY <1>5, <2>1, <2>2, <2>4
<1>11. /\ Ends(N + 3) <=> /\ a = "silent" /\ b = "silent" /\ \A n \in 1..N : nested[n] = "silent"
                          /\ c = "restrictive"
       /\ Ends(N + 4) <=> /\ a = "silent" /\ b = "silent" /\ \A n \in 1..N : nested[n] = "silent"
                          /\ c = "silent" /\ d = "restrictive"
  <2>1. N + 3 # N + 4
    BY <1>1
  <2> QED
    BY <1>5, <1>10, <2>1
<1>12. \A n : n \in 1..N + 4 <=> (n = 1 \/ n = 2 \/ (\E k \in 1..N : n = 2 + k) \/ n = N + 3 \/ n = N + 4)
  <2>1. \A n \in 1..N + 4 : n = 1 \/ n = 2 \/ (n - 2 \in 1..N /\ n = 2 + (n - 2)) \/ n = N + 3 \/ n = N + 4
    BY <1>1
  <2>2. \A k \in 1..N : 2 + k \in 1..N + 4
    BY <1>1
  <2>3. 1 \in 1..N + 4 /\ 2 \in 1..N + 4 /\ N + 3 \in 1..N + 4 /\ N + 4 \in 1..N + 4
    BY <1>1
  <2> QED
    BY <2>1, <2>2, <2>3
<1> HIDE DEF Ends
<1>13. (\E n \in 1..N + 4 : Ends(n)) <=> (Ends(1) \/ Ends(2) \/ (\E n \in 1..N : Ends(2 + n)) \/ Ends(N + 3) \/ Ends(N + 4))
  BY <1>12
<1>14. FirstSaid(all) = "restrictive" <=> \E n \in 1..N + 4 : Ends(n)
  BY <1>6 DEF Ends
<1> QED
  BY <1>2, <1>7, <1>8, <1>9, <1>11, <1>13, <1>14 DEF Restricts, N

\* The manifests that speak in the index.
LEMMA ManifestsAre ==
    ASSUME Ready
    PROVE  \A m : m \in Manifests <=> m \in WholeManifests /\ Governs(m) /\ ~Excluded(m.path, scope)
<1>1. Sourced /\ Policy /\ round # "failed" /\ round # "tree" /\ Settled = WholeManifests /\ Listing
  BY AllSettled DEF Ready
<1>2. ToSet(files) \subseteq WholeFiles /\ WholeManifests \subseteq ToSet(files)
  BY <1>1, FilesInWhole DEF Listing
<1>3. OfKind("manifest", ToSet(files)) = WholeManifests
  BY <1>2 DEF OfKind, WholeManifests
<1>4. \A m \in WholeManifests : Parent(m.path) \in DOMAIN scope.documents \ scope.broken <=> Governs(m)
  BY <1>1 DEF Policy, Shut, Closed, Governs
<1> QED
  BY <1>3, <1>4 DEF Manifests

\* What the manifest of a directory says of the license, whoever could read it.
FieldOfAll(d) ==
    LET m == {f \in WholeFiles : f.path = ManifestPath(d) /\ ReadsAs(f, "manifest")}
    IN  IF m = {} THEN "silent" ELSE Says[(CHOOSE f \in m : TRUE).hash].license

LEMMA FieldOfAllIs ==
    ASSUME Sourced, NEW d \in RepoPath
    PROVE  /\ FieldOfAll(d) \in Terms
           /\ \A m \in WholeManifests : Parent(m.path) = d =>
                FieldOfAll(d) = IF ReadsAs(m, "manifest") THEN Says[m.hash].license ELSE "silent"
           /\ (~\E m \in WholeManifests : Parent(m.path) = d) => FieldOfAll(d) = "silent"
<1> DEFINE here == {f \in WholeFiles : f.path = ManifestPath(d) /\ ReadsAs(f, "manifest")}
           one  == CHOOSE f \in here : TRUE
<1>1. FieldOfAll(d) = IF here = {} THEN "silent" ELSE Says[one.hash].license
  BY DEF FieldOfAll
<1>2. \A f : f \in here <=> f \in WholeManifests /\ Parent(f.path) = d /\ ReadsAs(f, "manifest")
  BY ManifestIs DEF WholeManifests, OfKind
<1>3. here # {} => one \in here
  OBVIOUS
<1> HIDE DEF here, one
<1>4. here # {} => one \in WholeManifests /\ Parent(one.path) = d /\ ReadsAs(one, "manifest")
  BY <1>2, <1>3
<1>5. FieldOfAll(d) \in Terms
  <2>1. CASE here = {}
    BY <1>1, <2>1 DEF Terms
  <2>2. CASE here # {}
    <3>1. one.hash \in DOMAIN Says
      BY <1>4, <2>2, OneManifest
    <3> QED
      BY <1>1, <2>2, <3>1, SaysIs DEF Terms
  <2> QED
    BY <2>1, <2>2
<1>6. ASSUME NEW m \in WholeManifests, Parent(m.path) = d
      PROVE  FieldOfAll(d) = IF ReadsAs(m, "manifest") THEN Says[m.hash].license ELSE "silent"
  <2>1. CASE ReadsAs(m, "manifest")
    <3>1. here # {}
      BY <1>2, <1>6, <2>1
    <3>2. one = m
      BY <1>4, <1>6, <3>1, OneManifest
    <3> QED
      BY <1>1, <2>1, <3>1, <3>2
  <2>2. CASE ~ReadsAs(m, "manifest")
    <3>1. here = {}
      BY <1>2, <1>6, <2>2, OneManifest
    <3> QED
      BY <1>1, <2>2, <3>1
  <2> QED
    BY <2>1, <2>2
<1>7. (~\E m \in WholeManifests : Parent(m.path) = d) => FieldOfAll(d) = "silent"
  BY <1>1, <1>2
<1> QED
  BY <1>5, <1>6, <1>7

\* A manifest that was read is shown when something is that it governs.
LEMMA GovernsShown ==
    ASSUME Ready, NEW p \in WholePaths, ~Excluded(p, scope), p \notin Lost,
           NEW m \in WholeManifests, Within(Parent(m.path), p), Governs(m)
    PROVE  ~Excluded(m.path, scope)
<1>1. Sourced /\ Policy /\ round # "failed" /\ Settled = WholeManifests
  BY AllSettled DEF Ready
<1>2. /\ m.path \in RepoPath /\ m \in WholeFiles /\ m.path = ManifestPath(Parent(m.path)) /\ Parent(m.path) \in RepoPath
      /\ m.path # <<>>
  BY <1>1, OneManifest, FilesAre
<1>3. p \in RepoPath
  BY <1>1, PathsAre
<1> SUFFICES ASSUME Excluded(m.path, scope) PROVE FALSE
  OBVIOUS
<1>4. PICK e \in RepoPath : Within(e, m.path) /\ (e \in scope.excluded \/ (e \in scope.broken /\ m.path # ManifestPath(e)))
  BY <1>2, ExcludedIs
<1>5. e = m.path \/ Within(e, Parent(m.path))
  BY <1>2, <1>4, ParentIs
<1>6. CASE Within(e, Parent(m.path))
  <2>1. Within(e, p)
    BY <1>2, <1>3, <1>6, WithinChain
  <2>2. e \in scope.broken /\ p = ManifestPath(e)
    BY <1>3, <1>4, <2>1, ExcludedIs
  <2>3. PICK n \in Settled : e = Parent(n.path)
    BY <1>1, <2>2, BrokenIs
  <2>4. p = n.path /\ n \in WholeManifests
    BY <1>1, <2>2, <2>3, OneManifest
  <2> QED
    BY <2>2, <2>3, <2>4, LostIs
<1>7. CASE e = m.path
  <2>1. \A n \in WholeManifests : m.path # Parent(n.path)
    BY <1>1, <1>2, OneManifest, AboveFile, WithinSelf
  <2>2. CASE e \in scope.excluded
    <3>1. Sayso(m.path)
      BY <1>1, <1>7, <2>1, <2>2 DEF Policy, WithManifest
    <3>2. PICK n \in WholeManifests : ReadsAs(n, "manifest") /\ m.path \in Excludes(n)
      BY <3>1 DEF Sayso
    <3>3. TakenOut(m.path)
      BY <1>2, <3>2, WithinSelf DEF TakenOut, TakesOut
    <3>4. Parent(m.path) \in scope.excluded
      BY <3>3 DEF Governs
    <3> QED
      BY <1>2, <1>3, <3>4, ExcludedIs
  <2>3. CASE e \in scope.broken
    BY <1>1, <1>7, <2>1, <2>3, BrokenIs
  <2> QED
    BY <1>4, <2>2, <2>3
<1> QED
  BY <1>5, <1>6, <1>7

\* Above a path that is shown, the manifests say in the index what they say.
LEMMA FieldAgrees ==
    ASSUME Ready, NEW p \in WholePaths, ~Excluded(p, scope), p \notin Lost, NEW d \in RepoPath, Within(d, Parent(p))
    PROVE  /\ FieldAt(d) = FieldOfAll(d) /\ FieldAt(d) \in Terms
           /\ \A m \in WholeManifests : Parent(m.path) = d => m \in Manifests /\ FieldAt(d) = Says[m.hash].license
           /\ (~\E m \in WholeManifests : Parent(m.path) = d) => FieldAt(d) = "silent"
<1>1. Sourced
  BY DEF Ready
<1>2. Within(d, p)
  BY <1>1, PathsAre, WithinChain
<1> DEFINE here == {f \in Manifests : Parent(f.path) = d}
           one  == CHOOSE f \in here : TRUE
<1>3. FieldAt(d) = IF here = {} THEN "silent" ELSE Says[one.hash].license
  BY DEF FieldAt
<1>4. \A f : f \in here <=> f \in Manifests /\ Parent(f.path) = d
  OBVIOUS
<1>5. here # {} => one \in here
  OBVIOUS
<1> HIDE DEF here, one
<1>6. ASSUME NEW m \in WholeManifests, Parent(m.path) = d
      PROVE  m \in Manifests /\ FieldAt(d) = Says[m.hash].license /\ ReadsAs(m, "manifest")
  <2>1. Closed(m) \/ Governs(m)
    BY <1>2, <1>6, AboveIs
  <2>2. Closed(m) => p = m.path
    BY <1>2, <1>6, AboveIs
  <2>3. ~Closed(m)
    BY <2>2, LostIs DEF Closed
  <2>4. m \in Manifests
    BY <1>2, <1>6, <2>1, <2>3, GovernsShown, ManifestsAre
  <2>5. one \in Manifests /\ Parent(one.path) = d
    BY <1>4, <1>5, <1>6, <2>4
  <2>6. one = m
    BY <1>1, <1>6, <2>5, ManifestsAre, OneManifest
  <2> QED
    BY <1>3, <1>4, <1>6, <2>1, <2>3, <2>4, <2>6 DEF Governs
<1>7. (~\E m \in WholeManifests : Parent(m.path) = d) => FieldAt(d) = "silent"
  BY <1>3, <1>4, ManifestsAre
<1>8. FieldAt(d) = FieldOfAll(d)
  BY <1>1, <1>6, <1>7, FieldOfAllIs
<1> QED
  BY <1>1, <1>6, <1>7, <1>8, FieldOfAllIs

\* What the license file of a directory says.
SaidOfAll(d) ==
    LET p == LicenseFile(WholePaths, d)
    IN  IF p = Nowhere THEN "silent" ELSE IF Reads(WholeAt(p)) THEN Says[WholeAt(p).hash].license ELSE "restrictive"

LEMMA LicenseFileIs ==
    ASSUME Sourced, NEW d, LicenseFile(WholePaths, d) # Nowhere
    PROVE  /\ LicenseFile(WholePaths, d) \in WholePaths
           /\ WholeAt(LicenseFile(WholePaths, d)).type = "file"
<1> DEFINE named == {p \in WholePaths : Last(p) \in DOMAIN LicenseRank /\ Parent(p) = d}
           p     == LicenseFile(WholePaths, d)
<1>1. p = IF named = {} THEN Nowhere ELSE Plainest(named, LicenseRank)
  BY DEF LicenseFile
<1>2. Ranks(LicenseRank) /\ \A q \in named : Last(q) \in DOMAIN LicenseRank
  BY NamesAssumption
<1>3. named # {} => Plainest(named, LicenseRank) \in named
  BY <1>2, PlainestIs
<1>4. p \in named
  BY <1>1, <1>3
<1> HIDE DEF p
<1>5. p \in WholePaths /\ Last(p) \in DOMAIN LicenseRank
  BY <1>4
<1>6. WholeAt(p) \in WholeFiles /\ WholeAt(p).path = p
  BY <1>5, PathsAre
<1>7. Kind(p) # "manifest"
  <2>1. Kind(p) = "manifest" => WholeAt(p) \in WholeManifests
    BY <1>6 DEF WholeManifests, OfKind
  <2>2. Kind(p) = "manifest" => Last(p) = "SKILLCDN.md"
    BY <1>6, <2>1, NoOverview
  <2> QED
    BY <1>5, <2>2, NamesAssumption
<1>8. WholeAt(p).type = "file"
  BY <1>6, <1>7, FilesAre
<1> QED
  BY <1>5, <1>8 DEF p

LEMMA SaidOfAllIs == ASSUME Sourced, NEW d PROVE SaidOfAll(d) \in Terms
<1> DEFINE p == LicenseFile(WholePaths, d)
<1>1. SaidOfAll(d) = IF p = Nowhere THEN "silent"
                     ELSE IF Reads(WholeAt(p)) THEN Says[WholeAt(p).hash].license ELSE "restrictive"
  BY DEF SaidOfAll
<1>2. p # Nowhere => p \in WholePaths
  BY LicenseFileIs
<1> HIDE DEF p
<1>3. p # Nowhere => WholeAt(p).hash \in DOMAIN Says
  BY <1>2, PathsAre, FilesAre
<1> QED
  BY <1>1, <1>3, SaysIs DEF Terms

\* When no file was cut off, a license file says what it says, or is taken to restrict.
LEMMA FactIs ==
    ASSUME Sourced, ToSet(files) = WholeFiles, NEW d, NEW had
    PROVE  LicenseFact(d, had) \in {SaidOfAll(d), "restrictive"} /\ LicenseFact(d, had) \in Terms
<1> DEFINE p    == LicenseFile(WholePaths, d)
           file == FileAt(p)
           one  == CHOOSE g \in file : TRUE
<1>1. {f.path : f \in ToSet(files)} = WholePaths
  BY DEF WholePaths
<1>2. LicenseFileOf(d) = file
  BY <1>1 DEF LicenseFileOf
<1>3. LicenseFact(d, had) = IF file = {} THEN "silent"
                            ELSE IF HasText(one.hash, had) THEN Says[one.hash].license ELSE "restrictive"
  BY <1>2 DEF LicenseFact
<1>4. SaidOfAll(d) = IF p = Nowhere THEN "silent"
                     ELSE IF Reads(WholeAt(p)) THEN Says[WholeAt(p).hash].license ELSE "restrictive"
  BY DEF SaidOfAll
<1>5. p # Nowhere => p \in WholePaths /\ WholeAt(p).type = "file"
  BY LicenseFileIs
<1>6. \A f : f \in file <=> f \in WholeFiles /\ f.path = p
  BY DEF FileAt
<1>7. file # {} => one \in file
  OBVIOUS
<1> HIDE DEF p, file, one
<1>8. CASE p = Nowhere
  <2>1. \A f \in WholeFiles : f.path # Nowhere
    BY PathsAre DEF WholePaths
  <2>2. file = {}
    BY <1>6, <1>8, <2>1
  <2> QED
    BY <1>3, <1>4, <1>8, <2>2 DEF Terms
<1>9. CASE p # Nowhere
  <2>1. WholeAt(p) \in file /\ WholeAt(p) \in WholeFiles
    BY <1>5, <1>6, <1>9, PathsAre
  <2>2. one = WholeAt(p)
    BY <1>5, <1>6, <1>7, <1>9, <2>1, PathsAre
  <2>3. WholeAt(p).hash \in DOMAIN Says
    BY <2>1, FilesAre
  <2>4. HasText(one.hash, had) => Reads(WholeAt(p))
    BY <1>5, <1>9, <2>2 DEF HasText, Reads
  <2>5. LicenseFact(d, had) = IF HasText(one.hash, had) THEN Says[WholeAt(p).hash].license ELSE "restrictive"
    BY <1>3, <2>1, <2>2
  <2> QED
    BY <1>4, <1>9, <2>3, <2>4, <2>5, SaysIs DEF Terms
<1> QED
  BY <1>8, <1>9

\* The fields of the manifests at or above a directory are those of the directories below the root it is within.
LEMMA NestedIs ==
    ASSUME NEW dir \in RepoPath, NEW f, \A d \in RepoPath : Within(d, dir) => f[d] \in Terms
    PROVE  /\ NestedFields(f, dir) \in Seq(Terms) /\ Len(NestedFields(f, dir)) = Len(dir)
           /\ \A n \in 1..Len(dir) : \E d \in RepoPath :
                Within(d, dir) /\ Len(d) = Len(dir) + 1 - n /\ NestedFields(f, dir)[n] = f[d]
<1> DEFINE s == NestedFields(f, dir)
<1>1. dir \in Seq(STRING) /\ Len(dir) \in Nat
  BY DEF RepoPath
<1>2. s = [n \in 1..Len(dir) |-> f[SubSeq(dir, 1, Len(dir) + 1 - n)]]
  BY DEF NestedFields
<1> HIDE DEF s
<1>3. ASSUME NEW n \in 1..Len(dir)
      PROVE  \E d \in RepoPath : Within(d, dir) /\ Len(d) = Len(dir) + 1 - n /\ s[n] = f[d]
  <2> DEFINE m == Len(dir) + 1 - n
             d == SubSeq(dir, 1, m)
  <2>1. m \in 0..Len(dir) /\ m \in Nat
    BY <1>1, <1>3
  <2>2. d \in Seq(STRING) /\ Len(d) = m /\ \A i \in 1..m : d[i] = dir[i]
    <3> HIDE DEF m
    <3> QED
      BY <1>1, <2>1, SubSeqIs
  <2>3. s[n] = f[d]
    BY <1>2, <1>3
  <2> HIDE DEF d
  <2>4. d \in RepoPath
    BY <2>2 DEF RepoPath
  <2>5. Within(d, dir)
    <3> HIDE DEF m
    <3> QED
      BY <2>1, <2>2, <2>4, WithinIs
  <2> QED
    BY <2>2, <2>3, <2>4, <2>5
<1>4. \A n \in 1..Len(dir) : s[n] \in Terms
  BY <1>3
<1>5. s \in Seq(Terms) /\ Len(s) = Len(dir)
  BY <1>1, <1>2, <1>4
<1> QED
  BY <1>3, <1>5 DEF s

\* The license of a path, of the whole repository.
LEMMA WholeLicenseIs ==
    ASSUME Sourced, NEW path, NEW skill, NEW above, above = (IF skill = Nowhere THEN Parent(path) ELSE skill)
    PROVE  WholeLicense(path, skill) =
             ResolveLicense(
                IF skill = Nowhere THEN "silent" ELSE SaidOfAll(skill),
                IF skill = Nowhere THEN "silent" ELSE Says[WholeAt(Append(skill, "SKILL.md")).hash].license,
                NestedFields([d \in Prefixes(above) |-> FieldOfAll(d)], above),
                SaidOfAll(<<>>), FieldOfAll(<<>>))
<1>1. CASE skill = Nowhere
  BY <1>1 DEF WholeLicense, SaidOfAll, FieldOfAll
<1>2. CASE skill # Nowhere
  <2> DEFINE text == Says[WholeAt(Append(skill, "SKILL.md")).hash].license
  <2>1. <<SaidOfAll(skill), text>>[1] = SaidOfAll(skill) /\ <<SaidOfAll(skill), text>>[2] = text
    OBVIOUS
  <2> QED
    BY <1>2, <2>1 DEF WholeLicense, SaidOfAll, FieldOfAll
<1> QED
  BY <1>1, <1>2

\* The manifests above a file that is shown say of the license what they say in the whole repository.
LEMMA NestedAgree ==
    ASSUME Ready, NEW p \in WholePaths, ~Excluded(p, scope), p \notin Lost, NEW dir \in RepoPath, Within(dir, Parent(p))
    PROVE  /\ [d \in Prefixes(dir) |-> FieldAt(d)] = [d \in Prefixes(dir) |-> FieldOfAll(d)]
           /\ \A d \in RepoPath : Within(d, dir) =>
                [e \in Prefixes(dir) |-> FieldAt(e)][d] = FieldAt(d) /\ FieldAt(d) \in Terms
<1>1. Sourced /\ Parent(p) \in RepoPath
  BY PathsAre DEF Ready
<1>2. ASSUME NEW d \in RepoPath, Within(d, dir) PROVE FieldAt(d) = FieldOfAll(d) /\ FieldAt(d) \in Terms
  <2>1. Within(d, Parent(p))
    BY <1>1, <1>2, WithinChain
  <2> QED
    BY <2>1, FieldAgrees
<1>3. \A d \in RepoPath : d \in Prefixes(dir) <=> Within(d, dir)
  BY PrefixIs
<1>4. Prefixes(dir) \subseteq RepoPath
  BY PrefixIs
<1>5. \A d \in Prefixes(dir) : FieldAt(d) = FieldOfAll(d)
  BY <1>2, <1>3, <1>4
<1> QED
  BY <1>2, <1>3, <1>5

\* A skill under a restrictive license is not under another one in an index that knows every declaration.
LEMMA SkillLicenseIs ==
    ASSUME Known, ToSet(files) = WholeFiles, NEW f \in Skills, NEW had, NEW path,
           WholeLicense(path, Parent(f.path)) = "restrictive"
    PROVE  SkillLicense(f, had) = "restrictive"
<1> DEFINE dir  == Parent(f.path)
           text == Says[f.hash].license
           F    == [d \in Prefixes(dir) |-> FieldAt(d)]
           nested == NestedFields(F, dir)
           a    == SaidOfAll(dir)
           c    == SaidOfAll(<<>>)
           root == FieldAt(<<>>)
<1>1. Sourced /\ Ready
  BY DEF Known, Ready
<1>2. f \in WholeSkills /\ ReadSkill(f)
  BY SkillsAre
<1>3. /\ f \in WholeFiles /\ f.path \in RepoPath /\ f.path # <<>> /\ dir \in RepoPath /\ Last(f.path) = "SKILL.md"
      /\ f.hash \in DOMAIN Says /\ f.path \in WholePaths /\ f \notin WholeManifests /\ Kind(f.path) = "skill"
  BY <1>1, <1>2, OneSkill DEF WholePaths
<1>4. ~Excluded(f.path, scope)
  BY <1>2 DEF ReadSkill
<1>5. f.path \notin Lost
  <2> SUFFICES ASSUME f.path \in Lost PROVE FALSE
    OBVIOUS
  <2>1. PICK m \in WholeManifests : f.path = m.path
    BY LostIs
  <2>2. m \in WholeFiles /\ Kind(m.path) = "manifest"
    BY <1>1, OneManifest
  <2> QED
    BY <1>3, <2>1, <2>2
<1>6. dir # Nowhere
  BY <1>1, <1>3, PathsAre
<1>7. WholeAt(Append(dir, "SKILL.md")) = f
  <2> DEFINE named == Append(dir, "SKILL.md")
  <2>1. "SKILL.md" \in STRING
    BY NamesAssumption
  <2>2. named \in RepoPath /\ named # <<>> /\ Parent(named) = dir /\ Last(named) = "SKILL.md"
    <3> HIDE DEF dir
    <3> QED
      BY <1>3, <2>1, NamedIs
  <2> HIDE DEF named
  <2>3. named = f.path
    BY <1>3, <2>2, PathIs
  <2> QED
    BY <1>1, <1>3, <2>3, PathsAre DEF named
<1>8. Within(dir, dir) /\ Within(<<>>, dir) /\ <<>> \in RepoPath
  BY <1>3, WithinSelf
<1>9. /\ F = [d \in Prefixes(dir) |-> FieldOfAll(d)]
      /\ \A d \in RepoPath : Within(d, dir) => F[d] \in Terms
  BY <1>1, <1>3, <1>4, <1>5, <1>8, NestedAgree
<1>10. nested \in Seq(Terms)
  <2> HIDE DEF F, dir
  <2> QED
    BY <1>3, <1>9, NestedIs
<1>11. root = FieldOfAll(<<>>) /\ root \in Terms
  BY <1>1, <1>3, <1>4, <1>5, <1>8, FieldAgrees
<1>12. text \in Terms
  BY <1>3, SaysIs DEF Terms
<1>13. a \in Terms /\ c \in Terms
  BY <1>1, SaidOfAllIs
<1>14. LicenseFact(dir, had) \in {a, "restrictive"} /\ LicenseFact(dir, had) \in Terms
  BY <1>1, FactIs
<1>15. RootFact(had) \in {c, "restrictive"} /\ RootFact(had) \in Terms
  BY <1>1, FactIs DEF RootFact
<1>16. WholeLicense(path, dir) = ResolveLicense(a, text, nested, c, root)
  BY <1>1, <1>6, <1>7, <1>9, <1>11, WholeLicenseIs
<1>17. SkillLicense(f, had) = ResolveLicense(LicenseFact(dir, had), text, nested, RootFact(had), root)
  BY DEF SkillLicense
<1> HIDE DEF a, c, text, nested, root, dir, F
<1>18. Restricts(a, text, nested, c, root)
  <2>1. ResolveLicense(a, text, nested, c, root) = "restrictive"
    BY <1>16 DEF dir
  <2> QED
    BY <1>10, <1>11, <1>12, <1>13, <2>1, ResolveIs
<1>19. Restricts(LicenseFact(dir, had), text, nested, RootFact(had), root)
  BY <1>14, <1>15, <1>18 DEF Restricts
<1> QED
  BY <1>10, <1>11, <1>12, <1>14, <1>15, <1>17, <1>19, ResolveIs

-----------------------------------------------------------------------------
(* The index *)

\* A row says of its file what the build knows.
RowOf(r, f) ==
    /\ r.file = f
    /\ r.kind = IndexedKind(f)
    /\ r.visible <=> (f \in reads.unread \/ Served(f.path))
    /\ r.owner = OwningSkill(f.path, scope.skills)
    /\ r.license = IF f \in Skills THEN SkillLicense(f, bodies)
                   ELSE IF f \in Manifests THEN Says[f.hash].license ELSE "silent"

Indexed ==
    round = "done" =>
        /\ DOMAIN packIndex.rows = {f.path : f \in ToSet(files)}
        /\ \A f \in ToSet(files) : RowOf(packIndex.rows[f.path], f)
        /\ packIndex.license = ResolveLicense("silent", "silent", <<>>, RootFact(bodies), FieldAt(<<>>))

\* A build that is done.
Finished == Followed /\ Indexed /\ round = "done"

LEMMA RowsAre ==
    ASSUME Finished
    PROVE  /\ \A r \in IndexedRows :
                /\ r.file \in ToSet(files) /\ r.file \in WholeFiles /\ r.file.path \in WholePaths /\ RowOf(r, r.file)
                /\ r = packIndex.rows[r.file.path]
           /\ \A f \in ToSet(files) : packIndex.rows[f.path] \in IndexedRows /\ packIndex.rows[f.path].file = f
<1>1. /\ DOMAIN packIndex.rows = {f.path : f \in ToSet(files)}
      /\ \A f \in ToSet(files) : RowOf(packIndex.rows[f.path], f)
  BY DEF Finished, Indexed
<1>2. ToSet(files) \subseteq WholeFiles /\ \A f \in ToSet(files) : f.path \in WholePaths
  BY FilesInWhole DEF Finished, Followed, Known
<1>3. ASSUME NEW r \in IndexedRows
      PROVE  /\ r.file \in ToSet(files) /\ r.file \in WholeFiles /\ r.file.path \in WholePaths /\ RowOf(r, r.file)
             /\ r = packIndex.rows[r.file.path]
  <2>1. PICK f \in ToSet(files) : r = packIndex.rows[f.path]
    BY <1>1 DEF IndexedRows
  <2>2. RowOf(r, f) /\ r.file = f
    BY <1>1, <2>1 DEF RowOf
  <2> QED
    BY <1>2, <2>1, <2>2
<1>4. ASSUME NEW f \in ToSet(files) PROVE packIndex.rows[f.path] \in IndexedRows /\ packIndex.rows[f.path].file = f
  BY <1>1 DEF IndexedRows, RowOf
<1> QED
  BY <1>3, <1>4

LEMMA KindsAre ==
    ASSUME Known, NEW f \in ToSet(files)
    PROVE  /\ IndexedKind(f) = "skill" <=> f \in Skills
           /\ IndexedKind(f) = "manifest" <=> f \in Manifests
           /\ IndexedKind(f) # "broken" => f.path \notin Lost
<1>1. Ready /\ Sourced
  BY DEF Known, Ready
<1>2. Skills \subseteq WholeSkills /\ Manifests \subseteq WholeManifests
  BY <1>1, SkillsAre, ManifestsAre
<1>3. f \in Skills => f \notin Manifests
  BY <1>1, <1>2, OneSkill
<1>4. f \in Manifests => Parent(f.path) \notin scope.broken
  BY DEF Manifests
<1>5. f \in WholeFiles
  BY <1>1, FilesInWhole
<1>6. f.path \in Lost => f \in WholeManifests /\ Parent(f.path) \in scope.broken /\ Kind(f.path) = "manifest"
  <2>1. SUFFICES ASSUME f.path \in Lost
                 PROVE  f \in WholeManifests /\ Parent(f.path) \in scope.broken /\ Kind(f.path) = "manifest"
    OBVIOUS
  <2>2. PICK m \in WholeManifests : f.path = m.path /\ Parent(m.path) \in scope.broken
    BY <2>1, LostIs
  <2>3. m \in WholeFiles /\ Kind(m.path) = "manifest"
    BY <1>1, OneManifest
  <2>4. f = m
    BY <1>1, <1>5, <2>2, <2>3, OneFile
  <2> QED
    BY <2>2, <2>3, <2>4
<1>7. f.path \in Lost => f \notin Skills /\ f \notin Manifests
  BY <1>1, <1>2, <1>4, <1>6, OneSkill
<1>8. CASE f \in Skills
  BY <1>3, <1>7, <1>8 DEF IndexedKind
<1>9. CASE f \in Manifests
  BY <1>3, <1>7, <1>9 DEF IndexedKind
<1>10. CASE f \notin Skills /\ f \notin Manifests
  BY <1>6, <1>10 DEF IndexedKind
<1> QED
  BY <1>8, <1>9, <1>10

\* What an index serves is served by the whole repository, and is not withheld.
LEMMA ShownIsVisible ==
    ASSUME Finished, NEW r \in IndexedRows, r.visible, r.kind # "broken"
    PROVE  /\ r.file.path \in WholePaths /\ ~Excluded(r.file.path, scope) /\ r.file.path \notin Lost
           /\ r.file.path \notin Withheld /\ r.file.path \in WholeRepository.visible
<1> DEFINE f == r.file
<1>1. Followed /\ Known /\ Ready /\ Sourced
  BY DEF Finished, Followed, Known, Ready
<1>2. f \in ToSet(files) /\ f \in WholeFiles /\ f.path \in WholePaths /\ RowOf(r, f)
  BY RowsAre
<1> HIDE DEF f
<1>3. IndexedKind(f) # "broken" /\ (f \in reads.unread \/ Served(f.path))
  BY <1>2 DEF RowOf
<1>4. f.path \notin Lost
  BY <1>1, <1>2, <1>3, KindsAre
<1>5. f \in reads.unread => ReadSkill(f) /\ f \in Declared(Withheld)
  BY <1>1, SkillsAre
<1>6. ~Excluded(f.path, scope)
  BY <1>3, <1>5 DEF ReadSkill, Served
<1>7. f.path \notin Withheld
  BY <1>1, <1>4, <1>6, NotWithheld
<1>8. f.path \in WholeRepository.visible
  <2>1. CASE f \in reads.unread
    BY <1>5, <2>1, WholeIs
  <2>2. CASE Served(f.path)
    BY <1>1, <1>2, <1>7, <2>2, ServedIsVisible
  <2> QED
    BY <1>3, <2>1, <2>2
<1> QED
  BY <1>2, <1>4, <1>6, <1>7, <1>8 DEF f

LEMMA SkillsKnown ==
    ASSUME Known, EveryDeclarationRead PROVE ToSet(files) = WholeFiles /\ scope.skills = Parents(Genuine)
<1>1. ToSet(files) = WholeFiles /\ \A f \in Declared(Withheld) : Parent(f.path) \in scope.skills \/ f \in reads.unread
  BY DEF EveryDeclarationRead
<1>2. ASSUME NEW f \in Genuine PROVE Parent(f.path) \in scope.skills
  <2>1. f \in Declared(Withheld) /\ Says[f.hash].ok
    BY DEF Genuine, SkillsOf
  <2>2. f \notin reads.unread
    BY <2>1, SkillsAre
  <2> QED
    BY <1>1, <2>1, <2>2
<1>3. scope.skills \subseteq Parents(Genuine)
  BY ScopeIsLess, ScopeOfAllIs DEF Known, Ready
<1> QED
  BY <1>1, <1>2, <1>3 DEF Parents

\* The rows whose licenses may govern a path.
OwnersOf(path) == {r \in SkillRows : Within(r.owner, path)}
FieldsOf(path) == {r \in RuleRows(path) : Len(r.file.path) > 1 /\ r.license # "silent"}
NearestRow(rows) == CHOOSE r \in rows : \A o \in rows : Len(o.file.path) <= Len(r.file.path)

LEMMA NearestRowIs ==
    ASSUME NEW rows, NEW r \in rows, \A o \in rows : Len(o.file.path) <= Len(r.file.path)
    PROVE  NearestRow(rows) \in rows /\ \A o \in rows : Len(o.file.path) <= Len(NearestRow(rows).file.path)
BY DEF NearestRow

LEMMA LicenseOf ==
    ASSUME NEW p
    PROVE  LicenseAt(p) = IF OwnersOf(p) # {} THEN NearestRow(OwnersOf(p)).license
                          ELSE IF FieldsOf(p) # {} THEN NearestRow(FieldsOf(p)).license ELSE packIndex.license
BY DEF LicenseAt, OwnersOf, FieldsOf, NearestRow

LEMMA OwnersAre ==
    ASSUME Finished, NEW p \in WholePaths
    PROVE  /\ \A r \in OwnersOf(p) :
                /\ r.file \in Skills /\ r.file \in WholeSkills /\ r.license = SkillLicense(r.file, bodies)
                /\ Within(Parent(r.file.path), Parent(p)) /\ Parent(r.file.path) \in scope.skills
           /\ \A f \in Skills : Within(Parent(f.path), Parent(p)) =>
                packIndex.rows[f.path] \in OwnersOf(p) /\ packIndex.rows[f.path].file = f
<1>1. Followed /\ Known /\ Ready /\ Sourced
  BY DEF Finished, Followed, Known, Ready
<1>2. WholeAt(p) \in WholeFiles /\ WholeAt(p).path = p /\ p \in RepoPath /\ p # <<>> /\ Parent(p) \in RepoPath
  BY <1>1, PathsAre
<1>3. ASSUME NEW f \in Skills
      PROVE  /\ f \in WholeSkills /\ f \in WholeFiles /\ Parent(f.path) \in RepoPath /\ Parent(f.path) \in scope.skills
             /\ OwningSkill(f.path, scope.skills) = Parent(f.path) /\ f \in ToSet(files) /\ Served(f.path)
  <2>1. f \in WholeSkills /\ ReadSkill(f) /\ Parent(f.path) \in scope.skills
    BY <1>1, SkillsAre
  <2>2. ServedPath(f.path, scope) /\ OwningSkill(f.path, scope.skills) = Parent(f.path)
    BY <1>1, ServedSkill
  <2>3. ~Excluded(f.path, scope) /\ f \in ToSet(files)
    BY <2>1 DEF ReadSkill
  <2> QED
    BY <1>1, <2>1, <2>2, <2>3, OneSkill DEF Served
<1>4. ASSUME NEW r \in OwnersOf(p)
      PROVE  /\ r.file \in Skills /\ r.file \in WholeSkills /\ r.license = SkillLicense(r.file, bodies)
             /\ Within(Parent(r.file.path), Parent(p)) /\ Parent(r.file.path) \in scope.skills
  <2>1. r \in IndexedRows /\ r.visible /\ r.kind = "skill" /\ Within(r.owner, p)
    BY DEF OwnersOf, SkillRows, VisibleRows
  <2>2. r.file \in ToSet(files) /\ RowOf(r, r.file)
    BY <2>1, RowsAre
  <2>3. r.file \in Skills
    BY <1>1, <2>1, <2>2, KindsAre DEF RowOf
  <2>4. r.owner = Parent(r.file.path) /\ r.license = SkillLicense(r.file, bodies)
    BY <1>3, <2>2, <2>3 DEF RowOf
  <2>5. Within(Parent(r.file.path), Parent(p))
    BY <1>1, <1>2, <1>3, <2>1, <2>3, <2>4, AboveFile
  <2> QED
    BY <1>3, <2>3, <2>4, <2>5
<1>5. ASSUME NEW f \in Skills, Within(Parent(f.path), Parent(p))
      PROVE  packIndex.rows[f.path] \in OwnersOf(p) /\ packIndex.rows[f.path].file = f
  <2> DEFINE r == packIndex.rows[f.path]
  <2>1. r \in IndexedRows /\ r.file = f
    BY <1>3, RowsAre
  <2>2. RowOf(r, f)
    BY <2>1, RowsAre
  <2> HIDE DEF r
  <2>3. r.visible /\ r.kind = "skill" /\ r.owner = Parent(f.path)
    BY <1>1, <1>3, <2>2, KindsAre DEF RowOf
  <2>4. Within(Parent(f.path), p)
    BY <1>2, <1>3, <1>5, ParentIs
  <2>5. r \in OwnersOf(p)
    BY <2>1, <2>3, <2>4 DEF OwnersOf, SkillRows, VisibleRows
  <2> QED
    BY <2>1, <2>5 DEF r
<1> QED
  BY <1>4, <1>5

LEMMA FieldsAre ==
    ASSUME Finished, NEW p \in WholePaths, ~Excluded(p, scope), p \notin Lost
    PROVE  /\ \A r \in FieldsOf(p) :
                /\ r.file \in WholeManifests /\ Within(Parent(r.file.path), Parent(p)) /\ Len(Parent(r.file.path)) >= 1
                /\ r.license = FieldAt(Parent(r.file.path)) /\ r.license # "silent"
           /\ \A m \in WholeManifests :
                Within(Parent(m.path), Parent(p)) /\ Len(Parent(m.path)) >= 1 /\ FieldAt(Parent(m.path)) # "silent" =>
                    packIndex.rows[m.path] \in FieldsOf(p) /\ packIndex.rows[m.path].file = m
<1>1. Followed /\ Known /\ Ready /\ Sourced
  BY DEF Finished, Followed, Known, Ready
<1>2. WholeAt(p) \in WholeFiles /\ WholeAt(p).path = p /\ p \in RepoPath /\ p # <<>> /\ Parent(p) \in RepoPath
  BY <1>1, PathsAre
<1>3. ASSUME NEW m \in WholeManifests
      PROVE  /\ m \in WholeFiles /\ Parent(m.path) \in RepoPath /\ m.path \in RepoPath /\ m.path # <<>>
             /\ Len(m.path) = Len(Parent(m.path)) + 1 /\ Len(Parent(m.path)) \in Nat
  <2>1. m \in WholeFiles /\ Parent(m.path) \in RepoPath
    BY <1>1, OneManifest
  <2>2. m.path \in RepoPath /\ m.path # <<>>
    BY <1>1, <2>1, FilesAre
  <2>3. Len(m.path) \in Nat /\ Len(Parent(m.path)) = Len(m.path) - 1 /\ Len(Parent(m.path)) \in Nat
    BY <2>1, <2>2, ParentIs DEF RepoPath
  <2> QED
    BY <2>1, <2>2, <2>3
<1>4. ASSUME NEW m \in WholeManifests, Within(Parent(m.path), Parent(p))
      PROVE  m \in Manifests /\ FieldAt(Parent(m.path)) = Says[m.hash].license
  BY <1>1, <1>3, <1>4, FieldAgrees
<1>5. ASSUME NEW r \in FieldsOf(p)
      PROVE  /\ r.file \in WholeManifests /\ Within(Parent(r.file.path), Parent(p)) /\ Len(Parent(r.file.path)) >= 1
             /\ r.license = FieldAt(Parent(r.file.path)) /\ r.license # "silent"
  <2>1. r \in IndexedRows /\ r.kind = "manifest" /\ Within(Parent(r.file.path), p) /\ Len(r.file.path) > 1
          /\ r.license # "silent"
    BY DEF FieldsOf, RuleRows, VisibleRows
  <2>2. r.file \in ToSet(files) /\ RowOf(r, r.file)
    BY <2>1, RowsAre
  <2>3. r.file \in Manifests
    BY <1>1, <2>1, <2>2, KindsAre DEF RowOf
  <2>4. r.file \in WholeManifests
    BY <1>1, <2>3, ManifestsAre
  <2>5. r.file \notin Skills
    BY <1>1, <2>4, SkillsAre, OneSkill
  <2>6. r.license = Says[r.file.hash].license
    BY <2>2, <2>3, <2>5 DEF RowOf
  <2>7. Within(Parent(r.file.path), Parent(p))
    BY <1>1, <1>2, <1>3, <2>1, <2>4, AboveFile
  <2>8. Len(Parent(r.file.path)) >= 1
    BY <1>3, <2>1, <2>4
  <2> QED
    BY <1>4, <2>1, <2>4, <2>6, <2>7, <2>8
<1>6. ASSUME NEW m \in WholeManifests, Within(Parent(m.path), Parent(p)), Len(Parent(m.path)) >= 1,
             FieldAt(Parent(m.path)) # "silent"
      PROVE  packIndex.rows[m.path] \in FieldsOf(p) /\ packIndex.rows[m.path].file = m
  <2> DEFINE r == packIndex.rows[m.path]
  <2>1. m \in Manifests /\ FieldAt(Parent(m.path)) = Says[m.hash].license
    BY <1>4, <1>6
  <2>2. m \in ToSet(files) /\ Parent(m.path) \in DOMAIN scope.documents /\ ~Excluded(m.path, scope)
    BY <2>1 DEF Manifests, OfKind
  <2>3. r \in IndexedRows /\ r.file = m
    BY <2>2, RowsAre
  <2>4. RowOf(r, m)
    BY <2>3, RowsAre
  <2> HIDE DEF r
  <2>5. Served(m.path)
    BY <1>1, <2>2, ServedManifest DEF Served
  <2>6. m \notin Skills
    BY <1>1, SkillsAre, OneSkill
  <2>7. r.visible /\ r.kind = "manifest" /\ r.license = Says[m.hash].license
    BY <1>1, <2>1, <2>2, <2>4, <2>5, <2>6, KindsAre DEF RowOf
  <2>8. Within(Parent(m.path), p)
    BY <1>2, <1>3, <1>6, ParentIs
  <2>9. Len(m.path) > 1
    BY <1>3, <1>6
  <2>10. r \in FieldsOf(p)
    BY <1>6, <2>1, <2>3, <2>7, <2>8, <2>9 DEF FieldsOf, RuleRows, VisibleRows
  <2> QED
    BY <2>3, <2>10 DEF r
<1> QED
  BY <1>5, <1>6

\* The nearest skill above a path governs it.
LEMMA OwnedLicense ==
    ASSUME Finished, ToSet(files) = WholeFiles, NEW p \in WholePaths,
           OwningSkill(p, scope.skills) # Nowhere, WholeLicense(p, OwningSkill(p, scope.skills)) = "restrictive"
    PROVE  LicenseAt(p) = "restrictive"
<1> DEFINE S == OwningSkill(p, scope.skills)
<1>1. Followed /\ Known /\ Ready /\ Sourced
  BY DEF Finished, Followed, Known, Ready
<1>2. Parent(p) \in RepoPath /\ NoSegment \notin ToSet(Parent(p))
  BY <1>1, PathsAre
<1>3. /\ S \in scope.skills /\ S \in RepoPath /\ Within(S, Parent(p))
      /\ \A d \in RepoPath : d \in scope.skills /\ Within(d, Parent(p)) => Within(d, S)
  BY <1>2, NearestIs DEF OwningSkill
<1>4. WholeLicense(p, S) = "restrictive"
  OBVIOUS
<1> HIDE DEF S
<1>5. PICK f \in Skills : Parent(f.path) = S
  <2>1. scope.skills = Parents(Skills)
    BY <1>1, SkillsAre
  <2> QED
    BY <1>3, <2>1 DEF Parents
<1>6. packIndex.rows[f.path] \in OwnersOf(p) /\ packIndex.rows[f.path].file = f
  BY <1>3, <1>5, OwnersAre
<1>7. ASSUME NEW g \in WholeSkills
      PROVE  /\ g \in WholeFiles /\ Parent(g.path) \in RepoPath /\ Len(g.path) = Len(Parent(g.path)) + 1
             /\ Len(Parent(g.path)) \in Nat
  <2>1. g \in WholeFiles /\ Parent(g.path) \in RepoPath /\ g.path \in RepoPath /\ g.path # <<>>
    BY <1>1, OneSkill
  <2>2. Len(g.path) \in Nat /\ Len(Parent(g.path)) = Len(g.path) - 1 /\ Len(Parent(g.path)) \in Nat
    BY <2>1, ParentIs DEF RepoPath
  <2> QED
    BY <2>1, <2>2
<1>8. \A o \in OwnersOf(p) :
        /\ o.file \in Skills /\ o.file \in WholeSkills /\ o.license = SkillLicense(o.file, bodies)
        /\ Within(Parent(o.file.path), Parent(p)) /\ Parent(o.file.path) \in scope.skills
  BY OwnersAre
<1>9. f \in WholeSkills
  BY <1>6, <1>8
<1>10. ASSUME NEW o \in OwnersOf(p)
       PROVE  Within(Parent(o.file.path), S) /\ Len(o.file.path) <= Len(f.path)
  <2>1. Within(Parent(o.file.path), S)
    BY <1>3, <1>7, <1>8
  <2>2. Len(Parent(o.file.path)) <= Len(S)
    BY <1>3, <1>7, <1>8, <2>1, WithinLen
  <2> QED
    BY <1>5, <1>7, <1>8, <1>9, <2>1, <2>2
<1> DEFINE n == NearestRow(OwnersOf(p))
<1>11. n \in OwnersOf(p) /\ Len(f.path) <= Len(n.file.path)
  <2>1. \A o \in OwnersOf(p) : Len(o.file.path) <= Len(packIndex.rows[f.path].file.path)
    BY <1>6, <1>10
  <2>2. n \in OwnersOf(p) /\ \A o \in OwnersOf(p) : Len(o.file.path) <= Len(n.file.path)
    BY <1>6, <2>1, NearestRowIs
  <2> QED
    BY <1>6, <2>2
<1>12. LicenseAt(p) = n.license
  BY <1>6, LicenseOf
<1> HIDE DEF n
<1>13. n.file = f
  <2>1. Within(Parent(n.file.path), S) /\ n.file \in WholeSkills
    BY <1>8, <1>10, <1>11
  <2>2. Len(Parent(n.file.path)) <= Len(S) /\ (Len(Parent(n.file.path)) = Len(S) => Parent(n.file.path) = S)
    BY <1>3, <1>7, <2>1, WithinLen
  <2>3. Len(Parent(n.file.path)) = Len(S)
    BY <1>5, <1>7, <1>9, <1>11, <2>1, <2>2
  <2>4. Parent(n.file.path) = Parent(f.path)
    BY <1>5, <2>2, <2>3
  <2> QED
    BY <1>1, <1>9, <2>1, <2>4, OneSkill
<1>14. n.license = SkillLicense(f, bodies)
  BY <1>8, <1>11, <1>13
<1>15. SkillLicense(f, bodies) = "restrictive"
  BY <1>1, <1>4, <1>5, SkillLicenseIs
<1> QED
  BY <1>12, <1>14, <1>15

\* Where there is no skill, the manifests above a path govern it, and the repository.
LEMMA UnownedLicense ==
    ASSUME Finished, ToSet(files) = WholeFiles, NEW p \in WholePaths, ~Excluded(p, scope), p \notin Lost,
           OwningSkill(p, scope.skills) = Nowhere, WholeLicense(p, Nowhere) = "restrictive"
    PROVE  LicenseAt(p) = "restrictive"
<1> DEFINE dir  == Parent(p)
           F    == [d \in Prefixes(dir) |-> FieldAt(d)]
           nested == NestedFields(F, dir)
           c    == SaidOfAll(<<>>)
           root == FieldAt(<<>>)
<1>1. Followed /\ Known /\ Ready /\ Sourced
  BY DEF Finished, Followed, Known, Ready
<1>2. dir \in RepoPath /\ NoSegment \notin ToSet(dir) /\ Len(dir) \in Nat
  BY <1>1, PathsAre DEF RepoPath
<1>3. Within(dir, dir) /\ Within(<<>>, dir) /\ <<>> \in RepoPath
  BY <1>2, WithinSelf
<1>4. /\ F = [d \in Prefixes(dir) |-> FieldOfAll(d)]
      /\ \A d \in RepoPath : Within(d, dir) => F[d] = FieldAt(d) /\ FieldAt(d) \in Terms
  BY <1>1, <1>2, <1>3, NestedAgree
<1>5. /\ nested \in Seq(Terms) /\ Len(nested) = Len(dir)
      /\ \A n \in 1..Len(dir) : \E d \in RepoPath :
            Within(d, dir) /\ Len(d) = Len(dir) + 1 - n /\ nested[n] = F[d]
  <2>1. \A d \in RepoPath : Within(d, dir) => F[d] \in Terms
    BY <1>4
  <2> HIDE DEF F, dir
  <2> QED
    BY <1>2, <2>1, NestedIs
<1>6. root = FieldOfAll(<<>>) /\ root \in Terms
  BY <1>1, <1>3, FieldAgrees
<1>7. c \in Terms
  BY <1>1, SaidOfAllIs
<1>8. RootFact(bodies) \in {c, "restrictive"} /\ RootFact(bodies) \in Terms
  BY <1>1, FactIs DEF RootFact
<1>9. WholeLicense(p, Nowhere) = ResolveLicense("silent", "silent", nested, c, root)
  BY <1>1, <1>4, <1>6, WholeLicenseIs
<1>10. packIndex.license = ResolveLicense("silent", "silent", <<>>, RootFact(bodies), root)
  BY DEF Finished, Indexed
<1>11. OwnersOf(p) = {}
  <2> SUFFICES ASSUME NEW o \in OwnersOf(p) PROVE FALSE
    OBVIOUS
  <2>1. o.file \in WholeSkills /\ Within(Parent(o.file.path), Parent(p)) /\ Parent(o.file.path) \in scope.skills
    BY OwnersAre
  <2>2. Parent(o.file.path) \in RepoPath
    BY <1>1, <2>1, OneSkill
  <2> QED
    BY <1>2, <2>1, <2>2, NearestIs DEF OwningSkill
<1>12. LicenseAt(p) = IF FieldsOf(p) # {} THEN NearestRow(FieldsOf(p)).license ELSE packIndex.license
  BY <1>11, LicenseOf
<1>13. /\ \A r \in FieldsOf(p) :
            /\ r.file \in WholeManifests /\ Within(Parent(r.file.path), dir) /\ Len(Parent(r.file.path)) >= 1
            /\ r.license = FieldAt(Parent(r.file.path)) /\ r.license # "silent"
       /\ \A m \in WholeManifests :
            Within(Parent(m.path), dir) /\ Len(Parent(m.path)) >= 1 /\ FieldAt(Parent(m.path)) # "silent" =>
                packIndex.rows[m.path] \in FieldsOf(p) /\ packIndex.rows[m.path].file = m
  BY <1>1, FieldsAre
<1>14. ASSUME NEW m \in WholeManifests
       PROVE  /\ m \in WholeFiles /\ Parent(m.path) \in RepoPath /\ Len(m.path) = Len(Parent(m.path)) + 1
              /\ Len(Parent(m.path)) \in Nat
  <2>1. m \in WholeFiles /\ Parent(m.path) \in RepoPath
    BY <1>1, OneManifest
  <2>2. m.path \in RepoPath /\ m.path # <<>>
    BY <1>1, <2>1, FilesAre
  <2>3. Len(m.path) \in Nat /\ Len(Parent(m.path)) = Len(m.path) - 1 /\ Len(Parent(m.path)) \in Nat
    BY <2>1, <2>2, ParentIs DEF RepoPath
  <2> QED
    BY <2>1, <2>2, <2>3
<1>15. ASSUME NEW d \in RepoPath, Within(d, dir), FieldAt(d) # "silent"
       PROVE  \E m \in WholeManifests : Parent(m.path) = d
  BY <1>1, <1>15, FieldAgrees
<1>16. Restricts("silent", "silent", nested, c, root)
  <2>1. "silent" \in Terms
    BY DEF Terms
  <2>2. ResolveLicense("silent", "silent", nested, c, root) = "restrictive"
    BY <1>9
  <2> HIDE DEF nested, c, root
  <2> QED
    BY <1>5, <1>6, <1>7, <2>1, <2>2, ResolveIs
<1> HIDE DEF nested, F, dir, c, root
\* A directory below the root has its place among the fields.
<1>17. ASSUME NEW d \in RepoPath, Within(d, dir), Len(d) >= 1
       PROVE  Len(dir) + 1 - Len(d) \in 1..Len(dir) /\ nested[Len(dir) + 1 - Len(d)] = FieldAt(d)
  <2> DEFINE k == Len(dir) + 1 - Len(d)
  <2>1. Len(d) \in Nat /\ Len(d) <= Len(dir)
    BY <1>2, <1>17, WithinLen
  <2>2. k \in 1..Len(dir) /\ Len(dir) + 1 - k = Len(d)
    BY <1>2, <1>17, <2>1
  <2> HIDE DEF k
  <2>3. PICK e \in RepoPath : Within(e, dir) /\ Len(e) = Len(d) /\ nested[k] = F[e]
    BY <1>5, <2>2
  <2>4. Within(e, d)
    BY <1>2, <1>17, <2>1, <2>3, WithinLine
  <2>5. e = d
    BY <2>3, <2>4, WithinLen
  <2> QED
    BY <1>4, <1>17, <2>2, <2>3, <2>5 DEF k
<1>18. CASE \E n \in 1..Len(nested) : nested[n] = "restrictive" /\ \A k \in 1..n - 1 : nested[k] = "silent"
  <2>1. PICK n \in 1..Len(dir) : nested[n] = "restrictive" /\ \A k \in 1..n - 1 : nested[k] = "silent"
    BY <1>5, <1>18
  <2>2. PICK d \in RepoPath : Within(d, dir) /\ Len(d) = Len(dir) + 1 - n /\ nested[n] = F[d]
    BY <1>5, <2>1
  <2>3. FieldAt(d) = "restrictive"
    BY <1>4, <2>1, <2>2
  <2>4. PICK m \in WholeManifests : Parent(m.path) = d
    BY <1>15, <2>2, <2>3
  <2>5. Len(d) \in Nat /\ Len(d) >= 1
    BY <1>2, <2>1, <2>2
  <2>6. packIndex.rows[m.path] \in FieldsOf(p) /\ packIndex.rows[m.path].file = m
    BY <1>13, <2>2, <2>3, <2>4, <2>5
  <2>7. ASSUME NEW o \in FieldsOf(p)
        PROVE  Len(Parent(o.file.path)) <= Len(d) /\ Len(o.file.path) <= Len(m.path)
    <3> DEFINE e == Parent(o.file.path)
    <3>1. o.file \in WholeManifests /\ Within(e, dir) /\ Len(e) >= 1 /\ FieldAt(e) # "silent"
      BY <1>13
    <3>2. e \in RepoPath /\ Len(e) \in Nat /\ Len(o.file.path) = Len(e) + 1
      BY <1>14, <3>1
    <3> HIDE DEF e
    <3>3. Len(dir) + 1 - Len(e) \in 1..Len(dir) /\ nested[Len(dir) + 1 - Len(e)] # "silent"
      BY <1>17, <3>1, <3>2
    <3>4. ~(Len(dir) + 1 - Len(e) \in 1..n - 1)
      BY <2>1, <3>3
    <3>5. Len(e) <= Len(d)
      BY <1>2, <2>1, <2>2, <2>5, <3>2, <3>3, <3>4
    <3> QED
      BY <1>14, <2>4, <2>5, <3>2, <3>5 DEF e
  <2> DEFINE r == NearestRow(FieldsOf(p))
  <2>8. r \in FieldsOf(p) /\ Len(m.path) <= Len(r.file.path)
    <3>1. \A o \in FieldsOf(p) : Len(o.file.path) <= Len(packIndex.rows[m.path].file.path)
      BY <2>6, <2>7
    <3>2. r \in FieldsOf(p) /\ \A o \in FieldsOf(p) : Len(o.file.path) <= Len(r.file.path)
      BY <2>6, <3>1, NearestRowIs
    <3> QED
      BY <2>6, <3>2
  <2>9. LicenseAt(p) = r.license
    BY <1>12, <2>6
  <2> HIDE DEF r
  <2>10. /\ r.file \in WholeManifests /\ Within(Parent(r.file.path), dir) /\ r.license = FieldAt(Parent(r.file.path))
         /\ Parent(r.file.path) \in RepoPath
    BY <1>13, <1>14, <2>8
  <2>11. Len(Parent(r.file.path)) = Len(d)
    BY <1>14, <2>4, <2>5, <2>7, <2>8, <2>10
  <2>12. Within(Parent(r.file.path), d)
    BY <1>2, <2>2, <2>5, <2>10, <2>11, WithinLine
  <2>13. Parent(r.file.path) = d
    BY <2>10, <2>11, <2>12, WithinLen
  <2> QED
    BY <2>3, <2>9, <2>10, <2>13
<1>19. CASE ~\E n \in 1..Len(nested) : nested[n] = "restrictive" /\ \A k \in 1..n - 1 : nested[k] = "silent"
  <2>1. /\ \A n \in 1..Len(nested) : nested[n] = "silent"
        /\ c = "restrictive" \/ (c = "silent" /\ root = "restrictive")
    BY <1>16, <1>19 DEF Restricts
  <2>2. FieldsOf(p) = {}
    <3> SUFFICES ASSUME NEW o \in FieldsOf(p) PROVE FALSE
      OBVIOUS
    <3> DEFINE e == Parent(o.file.path)
    <3>1. o.file \in WholeManifests /\ Within(e, dir) /\ Len(e) >= 1 /\ FieldAt(e) # "silent"
      BY <1>13
    <3>2. e \in RepoPath
      BY <1>14, <3>1
    <3> HIDE DEF e
    <3>3. Len(dir) + 1 - Len(e) \in 1..Len(dir) /\ nested[Len(dir) + 1 - Len(e)] # "silent"
      BY <1>17, <3>1, <3>2
    <3> QED
      BY <1>5, <2>1, <3>3
  <2> DEFINE none == <<>>
  <2>3. none \in Seq(Terms) /\ Len(none) = 0
    OBVIOUS
  <2>4. packIndex.license = ResolveLicense("silent", "silent", none, RootFact(bodies), root)
    BY <1>10 DEF root
  <2> HIDE DEF none
  <2>5. "silent" \in Terms
    BY DEF Terms
  <2>6. Restricts("silent", "silent", none, RootFact(bodies), root)
    BY <1>8, <2>1, <2>3 DEF Restricts
  <2>7. ResolveLicense("silent", "silent", none, RootFact(bodies), root) = "restrictive"
    BY <1>6, <1>8, <2>3, <2>5, <2>6, ResolveIs
  <2> QED
    BY <1>12, <2>2, <2>4, <2>7
<1> QED
  BY <1>18, <1>19

LEMMA RestrictiveIs ==
    ASSUME Finished, EveryDeclarationRead, NEW p \in WholeRepository.restrictive
    PROVE  /\ p \in WholePaths /\ WholeLicense(p, OwningSkill(p, scope.skills)) = "restrictive"
           /\ ToSet(files) = WholeFiles
<1>1. Known
  BY DEF Finished, Followed
<1>2. ToSet(files) = WholeFiles /\ scope.skills = Parents(Genuine)
  BY <1>1, SkillsKnown
<1> QED
  BY <1>2, WholeIs

\* The license of a path restricts it where that of the whole repository does.
LEMMA LicenseAtIs ==
    ASSUME Finished, EveryDeclarationRead, NEW p \in WholeRepository.restrictive, ~Excluded(p, scope), p \notin Lost
    PROVE  LicenseAt(p) = "restrictive"
<1>1. p \in WholePaths /\ WholeLicense(p, OwningSkill(p, scope.skills)) = "restrictive" /\ ToSet(files) = WholeFiles
  BY RestrictiveIs
<1> QED
  BY <1>1, OwnedLicense, UnownedLicense

LEMMA SkillRowIs ==
    ASSUME Finished, NEW r \in SkillRows
    PROVE  /\ r \in IndexedRows /\ r.visible /\ r.kind # "broken" /\ r.file \in Skills
           /\ r.owner = Parent(r.file.path) /\ Parent(r.file.path) \in RepoPath /\ r.file.path \in RepoPath
           /\ Within(Parent(r.file.path), r.file.path)
           /\ EveryDeclarationRead /\ r.file.path \in WholeRepository.restrictive => r.license = "restrictive"
<1>1. Followed /\ Known /\ Ready /\ Sourced
  BY DEF Finished, Followed, Known, Ready
<1>2. r \in IndexedRows /\ r.visible /\ r.kind = "skill"
  BY DEF SkillRows, VisibleRows
<1>3. r.file \in ToSet(files) /\ RowOf(r, r.file) /\ r.file.path \in WholePaths
  BY <1>2, RowsAre
<1>4. r.file \in Skills
  BY <1>1, <1>2, <1>3, KindsAre DEF RowOf
<1>5. r.owner = Parent(r.file.path) /\ r.license = SkillLicense(r.file, bodies)
        /\ OwningSkill(r.file.path, scope.skills) = Parent(r.file.path)
  BY <1>1, <1>3, <1>4, ServedSkill DEF RowOf
<1>6. Parent(r.file.path) \in RepoPath /\ r.file.path \in RepoPath /\ Within(Parent(r.file.path), r.file.path)
  BY <1>1, <1>3, PathsAre
<1>7. ASSUME EveryDeclarationRead, r.file.path \in WholeRepository.restrictive PROVE r.license = "restrictive"
  <2>1. WholeLicense(r.file.path, Parent(r.file.path)) = "restrictive" /\ ToSet(files) = WholeFiles
    BY <1>5, <1>7, RestrictiveIs
  <2> QED
    BY <1>1, <1>4, <1>5, <2>1, SkillLicenseIs
<1> QED
  BY <1>2, <1>4, <1>5, <1>6, <1>7

LEMMA AllIsShown ==
    ASSUME Finished, NothingIsLeftOut
    PROVE  {r.file.path : r \in {q \in IndexedRows : q.visible}} = WholeRepository.visible
<1>1. Followed /\ Known /\ Ready /\ Sourced
  BY DEF Finished, Followed, Known, Ready
<1>2. ASSUME NEW r \in IndexedRows, r.visible PROVE r.file.path \in WholeRepository.visible
  <2>1. CASE r.kind # "broken"
    BY <1>2, <2>1, ShownIsVisible
  <2>2. CASE r.kind = "broken"
    <3> DEFINE m == r.file
    <3>1. m \in ToSet(files) /\ RowOf(r, m) /\ m.path \in WholePaths /\ m \in WholeFiles
      BY <1>2, RowsAre
    <3> HIDE DEF m
    <3>2. m \notin Skills /\ m \notin Manifests /\ IndexedKind(m) = "broken"
      BY <1>1, <2>2, <3>1, KindsAre DEF RowOf
    <3>3. Kind(m.path) = "manifest" /\ Parent(m.path) \in scope.broken
      BY <3>2 DEF IndexedKind
    <3>4. m \in WholeManifests
      BY <3>1, <3>3 DEF WholeManifests, OfKind
    <3>5. m \notin reads.unread
      BY <1>1, <3>4, SkillsAre, OneSkill DEF ReadSkill
    <3>6. Served(m.path)
      BY <1>2, <3>1, <3>5 DEF RowOf
    <3>7. round # "failed"
      BY DEF Finished
    <3>8. PICK n \in Settled : Parent(m.path) = Parent(n.path) /\ Closed(n)
      BY <1>1, <3>3, <3>7, BrokenIs DEF Ready
    <3>9. n \in WholeManifests
      BY <3>8 DEF Settled
    <3>10. n = m
      BY <1>1, <3>4, <3>8, <3>9, OneManifest
    <3>11. ~ReadsAs(m, "manifest") /\ ~Excluded(m.path, scope)
      BY <3>8, <3>10 DEF Closed
    <3>12. m.path \notin Withheld
      <4> SUFFICES ASSUME m.path \in Withheld PROVE FALSE
        OBVIOUS
      <4>1. PICK k \in WholeManifests : m.path = k.path /\ ReadsAs(k, "manifest")
        BY <1>1, <3>11, WithheldIsExcluded
      <4>2. k = m
        BY <1>1, <3>4, <4>1, OneManifest
      <4> QED
        BY <3>11, <4>1, <4>2
    <3>13. m.path \in WholeRepository.visible
      BY <1>1, <3>1, <3>6, <3>12, ServedIsVisible
    <3> QED
      BY <3>13 DEF m
  <2> QED
    BY <2>1, <2>2
<1>3. ASSUME NEW p \in WholeRepository.visible PROVE \E r \in IndexedRows : r.visible /\ r.file.path = p
  <2>1. p \in WholePaths /\ (Served(p) \/ \E f \in reads.unread : f.path = p)
    <3>1. round # "links"
      BY DEF Finished
    <3> QED
      BY <1>1, <3>1, VisibleIsServed
  <2> DEFINE f == WholeAt(p)
  <2>2. f \in WholeFiles /\ f.path = p /\ \A g \in WholeFiles : g.path = p => g = f
    BY <1>1, <2>1, PathsAre
  <2> HIDE DEF f
  <2>3. f \in ToSet(files)
    BY <1>1, <2>2, FilesInWhole
  <2>4. packIndex.rows[p] \in IndexedRows /\ packIndex.rows[p].file = f
    BY <2>2, <2>3, RowsAre
  <2>5. RowOf(packIndex.rows[p], f)
    BY <2>4, RowsAre
  <2>6. ASSUME NEW g \in reads.unread, g.path = p PROVE g = f
    <3>1. ReadSkill(g)
      BY <1>1, SkillsAre
    <3>2. g \in WholeFiles
      BY <3>1 DEF ReadSkill, WholeSkills, OfKind
    <3> QED
      BY <2>2, <2>6, <3>2
  <2>7. Served(f.path) \/ f \in reads.unread
    BY <2>1, <2>2, <2>6
  <2>8. packIndex.rows[p].visible
    BY <2>5, <2>7 DEF RowOf
  <2> QED
    BY <2>2, <2>4, <2>8
<1> QED
  BY <1>2, <1>3

LEMMA LoosensNothing ==
    ASSUME Finished PROVE ServesNoMore(WholeRepository, {r \in IndexedRows : r.visible})
<1>1. \A r \in {q \in IndexedRows : q.visible} : r.kind = "broken" \/ r.file.path \in WholeRepository.visible
  BY ShownIsVisible
<1>2. ASSUME EveryDeclarationRead, NEW r \in {q \in IndexedRows : q.visible},
             r.kind = "skill", r.file.path \in WholeRepository.restrictive
      PROVE  r.license = "restrictive"
  <2>1. r \in SkillRows
    BY <1>2 DEF SkillRows, VisibleRows
  <2> QED
    BY <1>2, <2>1, SkillRowIs
<1>3. NothingIsLeftOut => {r.file.path : r \in {q \in IndexedRows : q.visible}} = WholeRepository.visible
  BY AllIsShown
<1> QED
  BY <1>1, <1>2, <1>3 DEF ServesNoMore

LEMMA GivesNoMore ==
    ASSUME Finished, NEW mount \in Mounts
    PROVE  KeepsWithin(mount, FilesGiven(mount, {r.file.path : r \in {q \in IndexedRows : q.kind # "broken"}}), {},
                WholeRepository, EveryDeclarationRead)
<1> DEFINE paths == {r.file.path : r \in {q \in IndexedRows : q.kind # "broken"}}
           given == FilesGiven(mount, paths)
<1>1. ASSUME NEW p \in given
      PROVE  /\ Within(mount.path, p) /\ InFull(mount, p)
             /\ \E r \in IndexedRows : r.visible /\ r.kind # "broken" /\ r.file.path = p
  <2>1. p \in paths /\ (FileGiven(mount, p) \/ RawGiven(mount, p) \/ ResourceGiven(mount, p))
    BY DEF FilesGiven, OutlineGiven
  <2>2. PICK q \in IndexedRows : q.kind # "broken" /\ q.file.path = p
    BY <2>1
  <2>3. q = packIndex.rows[p]
    BY <2>2, RowsAre
  <2>4. Within(mount.path, p) /\ InFull(mount, p) /\ \E r \in Entry(p) : TRUE
    BY <2>1 DEF FileGiven, RawGiven, ResourceGiven
  <2>5. q.visible
    BY <2>3, <2>4 DEF Entry
  <2> QED
    BY <2>2, <2>4, <2>5
<1> HIDE DEF given
<1>2. ASSUME NEW p \in given
      PROVE  p \in WholeRepository.visible /\ p \notin Withheld /\ ~Excluded(p, scope) /\ p \notin Lost
  BY <1>1, ShownIsVisible
<1>3. ASSUME EveryDeclarationRead, ~mount.trusted, NEW p \in given, p \in WholeRepository.restrictive PROVE FALSE
  <2>1. LicenseAt(p) = "restrictive"
    BY <1>2, <1>3, LicenseAtIs
  <2> QED
    BY <1>1, <1>3, <2>1 DEF InFull, ServesInFull
<1>4. WholeRepository.withheld = Withheld
  BY WholeIs
<1>5. given \union {} \subseteq WholeRepository.visible \ WholeRepository.withheld
  BY <1>2, <1>4
<1>6. KeepsWithin(mount, given, {}, WholeRepository, EveryDeclarationRead)
  BY <1>1, <1>3, <1>5 DEF KeepsWithin
<1> QED
  BY <1>6 DEF given

LEMMA LoadsNoMore ==
    ASSUME Finished, NEW mount \in Mounts, NEW skill \in SkillRows, SkillTexts(mount, skill) # {}
    PROVE  KeepsWithin(mount, {skill.file.path}, SkillTexts(mount, skill), WholeRepository, EveryDeclarationRead)
<1> DEFINE texts == SkillTexts(mount, skill)
<1>1. Followed /\ Known /\ Ready /\ Sourced
  BY DEF Finished, Followed, Known, Ready
<1>2. Within(mount.path, skill.owner) /\ ServesInFull(skill.license, mount.trusted)
  BY DEF SkillTexts
<1>3. /\ skill \in IndexedRows /\ skill.visible /\ skill.kind # "broken"
      /\ skill.owner = Parent(skill.file.path) /\ Parent(skill.file.path) \in RepoPath /\ skill.file.path \in RepoPath
      /\ Within(Parent(skill.file.path), skill.file.path)
      /\ EveryDeclarationRead /\ skill.file.path \in WholeRepository.restrictive => skill.license = "restrictive"
  BY SkillRowIs
<1>4. mount.path \in RepoPath
  <2>1. PICK r \in IndexedRows : mount.path \in Prefixes(Parent(r.file.path))
    BY DEF Mounts
  <2>2. r.file.path \in WholePaths
    BY <2>1, RowsAre
  <2>3. Parent(r.file.path) \in RepoPath
    BY <1>1, <2>2, PathsAre
  <2> QED
    BY <2>1, <2>3, PrefixIs
<1>5. Within(mount.path, skill.file.path)
  BY <1>2, <1>3, <1>4, WithinChain
<1>6. ASSUME NEW p \in texts PROVE \E r \in IndexedRows : r.visible /\ r.kind # "broken" /\ r.file.path = p
  <2>1. p = skill.file.path \/ \E r \in RuleRows(skill.owner) \union
            {q \in VisibleRows : q.file.path \in ToSet(skill.include) /\ q.kind \in {"markdown", "json"}} :
                r.file.path = p
    BY <1>2 DEF SkillTexts
  <2> QED
    BY <1>3, <2>1 DEF RuleRows, VisibleRows
<1> HIDE DEF texts
<1>7. ASSUME NEW p \in {skill.file.path} \union texts PROVE p \in WholeRepository.visible /\ p \notin Withheld
  BY <1>3, <1>6, ShownIsVisible
<1>8. WholeRepository.withheld = Withheld
  BY WholeIs
<1>9. {skill.file.path} \union texts \subseteq WholeRepository.visible \ WholeRepository.withheld
  BY <1>7, <1>8
<1>10. EveryDeclarationRead /\ ~mount.trusted => {skill.file.path} \intersect WholeRepository.restrictive = {}
  BY <1>2, <1>3 DEF ServesInFull
<1>11. \A p \in {skill.file.path} : Within(mount.path, p)
  BY <1>5
<1>12. KeepsWithin(mount, {skill.file.path}, texts, WholeRepository, EveryDeclarationRead)
  BY <1>9, <1>10, <1>11 DEF KeepsWithin
<1> QED
  BY <1>12 DEF texts

-----------------------------------------------------------------------------
(* The steps of a build *)

\* The records keep their fields.
Shaped ==
    /\ DOMAIN scope = {"skills", "documents", "included", "excluded", "broken"}
    /\ DOMAIN reads = {"documents", "unread"}
    /\ DOMAIN follow = {"overviews", "linked", "frontier"}

BuildInv == Shaped /\ Sourced /\ depth \in Nat /\ Listing /\ Policy /\ SkillsAreRead /\ LinksAreFollowed /\ Indexed

\* What the whole repository says changes with the repository only.
LEMMA SourceSame ==
    ASSUME source' = source
    PROVE  /\ WholeFiles' = WholeFiles /\ WholePaths' = WholePaths /\ WholeManifests' = WholeManifests
           /\ WholeSkills' = WholeSkills /\ Sourced' = Sourced /\ BudgetType' = BudgetType
<1>1. WholeFiles' = WholeFiles
  BY DEF WholeFiles
<1>2. WholePaths' = WholePaths
  BY <1>1 DEF WholePaths
<1>3. WholeManifests' = WholeManifests /\ WholeSkills' = WholeSkills
  BY <1>1 DEF WholeManifests, WholeSkills
<1>4. Sourced' = Sourced
  BY DEF Sourced
<1>5. BudgetType' = BudgetType
  BY <1>1 DEF BudgetType
<1> QED
  BY <1>1, <1>2, <1>3, <1>4, <1>5

LEMMA WholeSame ==
    ASSUME source' = source
    PROVE  /\ Withheld' = Withheld /\ Declared(Withheld)' = Declared(Withheld) /\ Genuine' = Genuine
           /\ ScopeOfAll' = ScopeOfAll /\ ServedAll(ScopeOfAll)' = ServedAll(ScopeOfAll)
<1>1. WholeFiles' = WholeFiles /\ WholePaths' = WholePaths
  BY SourceSame
<1>2. Withheld' = Withheld
  BY <1>1 DEF Withheld, WithheldBy
<1>3. Declared(Withheld)' = Declared(Withheld)
  BY <1>1, <1>2 DEF Declared
<1>4. Genuine' = Genuine
  BY <1>3 DEF Genuine
<1>5. \A path : (WholeAt(path))' = WholeAt(path)
  BY <1>1 DEF WholeAt
<1>6. ScopeOfAll' = ScopeOfAll
  BY <1>1, <1>2, <1>4, <1>5 DEF ScopeOfAll, WholeScope
<1>7. ServedAll(ScopeOfAll)' = ServedAll(ScopeOfAll)
  BY <1>1, <1>6 DEF ServedAll
<1> QED
  BY <1>2, <1>3, <1>4, <1>6, <1>7

\* What is withheld does not change any more once the manifests are read.
SameWithheld == scope'.documents = scope.documents /\ scope'.excluded = scope.excluded /\ scope'.broken = scope.broken

LEMMA PolicyKept ==
    ASSUME Policy, source' = source, round # "failed", SameWithheld,
           (round \in Opened /\ round' \in Opened) \/ (round' = round /\ depth' = depth),
           NothingIsLeftOut' => NothingIsLeftOut
    PROVE  Policy'
<1>1. WholeManifests' = WholeManifests
  BY SourceSame
<1>2. Settled' = Settled
  BY <1>1 DEF Settled
<1>3. Parents(Settled)' = Parents(Settled)
  BY <1>2 DEF Parents
<1>4. \A p : (TakenOut(p))' = TakenOut(p)
  BY <1>1 DEF TakenOut
<1>5. \A p : (TakenBelow(p))' = TakenBelow(p)
  BY <1>1, <1>4 DEF TakenBelow
<1>6. \A p : Excluded(p, scope)' = Excluded(p, scope)
  BY DEF Excluded, SameWithheld
<1>7. \A m : Shut(m) => Shut(m)'
  BY DEF Shut, SameWithheld
<1>8. \A m : Closed(m) => Closed(m)'
  BY <1>6 DEF Closed, SameWithheld
<1>9. \A m : Governs(m) => Governs(m)'
  BY <1>4 DEF Governs, SameWithheld
<1>10. \A e : Sayso(e)' = Sayso(e)
  BY <1>1 DEF Sayso
<1>11. \A e : WithManifest(e) => WithManifest(e)'
  BY <1>1, <1>5 DEF WithManifest
<1>12. round # "failed"
  OBVIOUS
<1> QED
  BY <1>2, <1>3, <1>7, <1>8, <1>9, <1>10, <1>11, <1>12 DEF Policy, SameWithheld

\* Nor do the skills once they are read.
LEMMA SkillsKept ==
    ASSUME SkillsAreRead, source' = source, files' = files, scope' = scope, round \in Skilled, round' \in Skilled,
           reads'.unread = reads.unread, follow'.overviews = follow.overviews,
           NothingIsLeftOut' => NothingIsLeftOut
    PROVE  SkillsAreRead'
<1>1. WholeSkills' = WholeSkills
  BY SourceSame
<1>2. \A f : ReadSkill(f)' = ReadSkill(f)
  BY <1>1 DEF ReadSkill
<1>3. Skills' = Skills
  BY DEF Skills
<1>4. Overviews(scope)' = Overviews(scope)
  BY DEF Overviews
<1> QED
  BY <1>1, <1>2, <1>3, <1>4 DEF SkillsAreRead

LEMMA ListingKept ==
    ASSUME Listing, source' = source, files' = files, round \in Opened \union {"manifests"}, round' # "tree", round' # "archive",
           budget' \in BudgetType, budget.cut => budget'.cut, bodies'.held \subseteq bodies'.asked
    PROVE  Listing'
<1>1. /\ WholeFiles' = WholeFiles /\ WholeManifests' = WholeManifests /\ BudgetType' = BudgetType
  BY SourceSame
<1>2. round # "failed" /\ round # "tree"
  BY DEF Opened
<1> QED
  BY <1>1, <1>2 DEF Listing

LEMMA LeftOutKept ==
    ASSUME source' = source, files' = files, budget.cut => budget'.cut,
           bodies'.asked = bodies'.held => bodies.asked = bodies.held
    PROVE  NothingIsLeftOut' => NothingIsLeftOut
BY DEF NothingIsLeftOut

\* Nor what is reached from what is served.
LEMMA ReachedKept ==
    ASSUME source' = source, files' = files, scope'.broken = scope.broken
    PROVE  Base' = Base /\ Reached' = Reached
<1>1. WholeFiles' = WholeFiles /\ WholePaths' = WholePaths /\ WholeManifests' = WholeManifests
  BY SourceSame
<1>2. Withheld' = Withheld /\ ScopeOfAll' = ScopeOfAll /\ ServedAll(ScopeOfAll)' = ServedAll(ScopeOfAll)
  BY WholeSame
<1>3. Lost' = Lost
  BY <1>1 DEF Lost
<1>4. Base = WithOverviews(ServedAll(ScopeOfAll), Withheld)
  BY DEF Base, ScopeOfAll, Genuine
<1>5. Base' = WithOverviews(ServedAll(ScopeOfAll), Withheld)'
  BY DEF Base, ScopeOfAll, Genuine
<1>6. Base' = Base
  BY <1>2, <1>3, <1>4, <1>5 DEF WithOverviews
<1>7. \A f : LinksOf(f, Withheld)' = LinksOf(f, Withheld)
  BY <1>1, <1>2 DEF LinksOf
<1>8. \A R : NextReach(R)' = NextReach(R)
  BY <1>1, <1>7 DEF NextReach
<1>9. \A r : Reaches(r)' = Reaches(r)
  BY <1>6, <1>8 DEF Reaches
<1>10. Reached' = Reached
  BY <1>9 DEF Reached
<1> QED
  BY <1>6, <1>10

LEMMA LinksKept ==
    ASSUME LinksAreFollowed, source' = source, files' = files, scope' = scope, follow' = follow, follow.frontier = <<>>,
           round \in Linking, round' \in Linking, depth' \in Nat, NothingIsLeftOut' => NothingIsLeftOut
    PROVE  LinksAreFollowed'
<1>1. Reached' = Reached
  BY ReachedKept
<1>2. WholeFiles' = WholeFiles /\ WholePaths' = WholePaths /\ Withheld' = Withheld
  BY SourceSame, WholeSame
<1>3. \A p : Served(p)' = Served(p)
  BY DEF Served
<1>4. \A f : LinksOf(f, Withheld)' = LinksOf(f, Withheld)
  BY <1>2 DEF LinksOf
<1>5. ToSet(follow.frontier) = {}
  BY NoMembers
<1>6. round' \notin {"failed"}
  BY DEF Linking, Skilled, Opened
<1>7. follow'.frontier \in Seq(ToSet(files)')
  BY DEF LinksAreFollowed
<1>8. follow'.linked \subseteq Reached'[MaxReferenceDepth]
  BY <1>1 DEF LinksAreFollowed
<1>9. NothingIsLeftOut' => \A g \in WholeFiles' :
        Speaks(g) /\ Served(g.path)' /\ g \notin ToSet(follow.frontier) => \A q \in LinksOf(g, Withheld)' : Served(q)'
  BY <1>2, <1>3, <1>4 DEF LinksAreFollowed
<1> QED
  BY <1>5, <1>6, <1>7, <1>8, <1>9 DEF LinksAreFollowed

\* After the links, nothing that decides what is served changes.
LEMMA LateStep ==
    ASSUME BuildInv, UNCHANGED <<source, files, scope, reads, follow>>, follow.frontier = <<>>,
           round \in Linking \ {"done"}, round' \in Linking, depth' = 0, budget' \in BudgetType, budget.cut => budget'.cut,
           bodies'.held \subseteq bodies'.asked, bodies'.asked = bodies'.held => bodies.asked = bodies.held, Indexed'
    PROVE  BuildInv'
<1>1. NothingIsLeftOut' => NothingIsLeftOut
  BY LeftOutKept
<1>2. /\ round \in Opened /\ round' \in Opened /\ round' # "tree" /\ round' # "archive"
      /\ round \in Skilled /\ round' \in Skilled
  BY DEF Linking, Skilled, Opened
<1>3. Sourced' /\ depth' \in Nat
  BY SourceSame DEF BuildInv
<1>4. Listing'
  BY <1>2, ListingKept DEF BuildInv
<1>5. Policy'
  <2>1. round # "failed"
    BY <1>2 DEF Opened
  <2> QED
    BY <1>1, <1>2, <2>1, PolicyKept DEF BuildInv, SameWithheld
<1>6. SkillsAreRead'
  BY <1>1, <1>2, SkillsKept DEF BuildInv
<1>7. LinksAreFollowed'
  BY <1>1, <1>3, LinksKept DEF BuildInv
<1>8. Shaped'
  BY DEF Shaped, BuildInv
<1> QED
  BY <1>8, <1>3, <1>4, <1>5, <1>6, <1>7 DEF BuildInv

LEMMA BuildingIs ==
    ASSUME BuildInv, round # "failed"
    PROVE  /\ Sourced /\ budget \in BudgetType /\ bodies.held \subseteq bodies.asked /\ files \in Seq(WholeFiles)
           /\ source.limits.tree \in Nat /\ source.limits.file \in Nat /\ source.limits.license \in Nat
           /\ source.limits.read \in Nat
           /\ ToSet(files) \subseteq WholeFiles
           /\ \A wanted : Only(files, wanted) \in Seq(WholeFiles)
           /\ \A wanted : ToSet(Only(files, wanted)) = ToSet(files) \intersect wanted
<1>1. /\ Sourced /\ budget \in BudgetType /\ bodies.held \subseteq bodies.asked /\ files \in Seq(WholeFiles)
  BY DEF BuildInv, Listing
<1>2. source.limits \in IndexLimits
  BY <1>1, SourceIs
<1>3. /\ source.limits.tree \in Nat /\ source.limits.file \in Nat /\ source.limits.license \in Nat
      /\ source.limits.read \in Nat
  BY <1>2 DEF IndexLimits
<1>4. ToSet(files) \subseteq WholeFiles
  BY <1>1, MembersAre
<1>5. \A wanted : Only(files, wanted) \in Seq(WholeFiles) /\ ToSet(Only(files, wanted)) = ToSet(files) \intersect wanted
  BY <1>1, OnlyIs
<1> QED
  BY <1>1, <1>3, <1>4, <1>5

LEMMA LinksEndStep == ASSUME BuildInv, LinksEnd PROVE BuildInv'
<1>1. /\ round = "links" /\ follow.frontier = <<>> /\ round' = "licenses" /\ depth' = 0
      /\ UNCHANGED <<source, files, budget, bodies, scope, reads, follow>>
  BY DEF LinksEnd, Goes
<1>2. budget' \in BudgetType /\ bodies'.held \subseteq bodies'.asked
  BY <1>1, BuildingIs
<1>3. Indexed' /\ round \in Linking \ {"done"} /\ round' \in Linking
  BY <1>1 DEF Indexed, Linking, Skilled, Opened
<1> QED
  BY <1>1, <1>2, <1>3, LateStep

LEMMA BuildFailsStep == ASSUME BuildInv, BuildFails PROVE BuildInv'
<1>1. round' = "failed" /\ depth' = 0 /\ source' = source
  BY DEF BuildFails, Goes
<1>2. Sourced'
  BY <1>1, SourceSame DEF BuildInv
<1>3. LinksAreFollowed' /\ SkillsAreRead' /\ Policy' /\ Listing' /\ Indexed'
  BY <1>1 DEF LinksAreFollowed, SkillsAreRead, Policy, Listing, Indexed, Linking, Skilled, Opened
<1>4. Shaped'
  BY DEF Shaped, BuildInv, BuildFails
<1> QED
  BY <1>4, <1>1, <1>2, <1>3 DEF BuildInv

LEMMA SpendIs ==
    ASSUME BuildInv, round # "failed", NEW fs \in Seq(WholeFiles), NEW most \in Nat, NEW wanted,
           NEW had \in Fetched(wanted)
    PROVE  /\ AdmitEach(fs, most) \in BudgetType /\ (budget.cut => AdmitEach(fs, most).cut)
           /\ AdmitEach(fs, most).admitted \subseteq WholeFiles
           /\ ~AdmitEach(fs, most).cut => \A f \in ToSet(fs) : f.size <= most => f \in AdmitEach(fs, most).admitted
           /\ had.held \subseteq had.asked /\ bodies.held \subseteq had.held
           /\ had.asked = had.held => bodies.asked = bodies.held /\ \A f \in wanted : f.hash \in had.held
<1>1. Sourced /\ budget \in BudgetType /\ bodies.held \subseteq bodies.asked
  BY BuildingIs
<1>2. /\ AdmitEach(fs, most) \in BudgetType /\ (budget.cut => AdmitEach(fs, most).cut)
      /\ ~AdmitEach(fs, most).cut => \A f \in ToSet(fs) : f.size <= most => f \in AdmitEach(fs, most).admitted
  BY <1>1, AdmitEachIs
<1>3. AdmitEach(fs, most).admitted \subseteq WholeFiles
  BY <1>2 DEF BudgetType
<1>4. /\ had.held \subseteq had.asked /\ bodies.held \subseteq had.held
      /\ had.asked = had.held => bodies.asked = bodies.held /\ \A f \in wanted : f.hash \in had.held
  BY <1>1, FetchedIs
<1> QED
  BY <1>2, <1>3, <1>4

LEMMA ReadLicensesStep == ASSUME BuildInv, ReadLicenses PROVE BuildInv'
<1> DEFINE most   == source.limits.license
           skills == Only(files, Skills)
           per    == [n \in DOMAIN skills |-> Only(files, LicenseFileOf(Parent(skills[n].path)))]
           found  == Only(files, LicenseFileOf(<<>>)) \o FlattenSeq(per)
           wanted == {f \in ToSet(found) : f.hash \notin bodies.asked /\ f.size <= most}
           spent  == AdmitEach(Only(found, wanted), most)
<1>1. /\ round = "licenses" /\ round' = "resources" /\ depth' = 0
      /\ budget' = spent /\ bodies' \in Fetched(wanted \intersect spent.admitted)
      /\ UNCHANGED <<source, files, scope, reads, follow, packIndex>>
  BY DEF ReadLicenses, Goes
<1>2. most \in Nat /\ skills \in Seq(WholeFiles) /\ \A w : Only(files, w) \in Seq(WholeFiles)
  BY <1>1, BuildingIs
<1>3. per \in Seq(Seq(WholeFiles))
  <2> HIDE DEF skills
  <2>1. Len(skills) \in Nat /\ DOMAIN skills = 1..Len(skills)
    BY <1>2
  <2> QED
    BY <1>2, <2>1
<1>4. FlattenSeq(per) \in Seq(WholeFiles)
  <2> HIDE DEF per
  <2> QED
    BY <1>3, FlattenMembers
<1>5. found \in Seq(WholeFiles)
  <2> DEFINE rest == FlattenSeq(per)
             root == Only(files, LicenseFileOf(<<>>))
  <2>1. root \in Seq(WholeFiles) /\ rest \in Seq(WholeFiles)
    BY <1>2, <1>4
  <2> HIDE DEF rest, root
  <2>2. root \o rest \in Seq(WholeFiles)
    BY <2>1, JoinMembers
  <2> QED
    BY <2>2 DEF rest, root
<1> HIDE DEF found
<1>6. Only(found, wanted) \in Seq(WholeFiles)
  <2> HIDE DEF wanted
  <2> QED
    BY <1>5, OnlyIs
<1> DEFINE fs == Only(found, wanted)
           asked == wanted \intersect spent.admitted
<1>7. fs \in Seq(WholeFiles) /\ spent = AdmitEach(fs, most) /\ bodies' \in Fetched(asked)
  BY <1>1, <1>6
<1> HIDE DEF fs, asked, wanted, spent, most
<1>8. /\ spent \in BudgetType /\ (budget.cut => spent.cut)
      /\ bodies'.held \subseteq bodies'.asked /\ (bodies'.asked = bodies'.held => bodies.asked = bodies.held)
  BY <1>1, <1>2, <1>7, SpendIs
<1>9. Indexed' /\ round \in Linking \ {"done"} /\ round' \in Linking
  BY <1>1 DEF Indexed, Linking, Skilled, Opened
<1>10. follow.frontier = <<>>
  BY <1>1, <1>9 DEF BuildInv, LinksAreFollowed
<1> QED
  BY <1>1, <1>8, <1>9, <1>10, LateStep

\* What a license file says, by what is at hand.
FactOf(file, had) ==
    IF file = {} THEN "silent"
    ELSE LET f == CHOOSE g \in file : TRUE
         IN  IF HasText(f.hash, had) THEN Says[f.hash].license ELSE "restrictive"

\* What the rows are made of.
LEMMA RowsKept ==
    ASSUME NEW had, bodies' = had, UNCHANGED <<source, files, scope, reads, follow>>
    PROVE  /\ Skills' = Skills /\ Manifests' = Manifests
           /\ \A f : IndexedKind(f)' = IndexedKind(f) /\ SkillLicense(f, bodies)' = SkillLicense(f, had)
           /\ \A p : Served(p)' = Served(p)
           /\ FieldAt(<<>>)' = FieldAt(<<>>) /\ RootFact(bodies)' = RootFact(had)
<1>2. Skills' = Skills /\ Manifests' = Manifests
  BY DEF Skills, Manifests
<1>3. \A f : IndexedKind(f)' = IndexedKind(f)
  BY <1>2 DEF IndexedKind
<1>4. \A p : Served(p)' = Served(p)
  BY DEF Served
<1>5. \A d : FieldAt(d)' = FieldAt(d)
  BY <1>2 DEF FieldAt
<1>6. \A d : LicenseFileOf(d)' = LicenseFileOf(d)
  BY DEF LicenseFileOf, FileAt
<1>7. \A d : LicenseFact(d, bodies)' = LicenseFact(d, had)
  <2>1. \A d, h : LicenseFact(d, h) = FactOf(LicenseFileOf(d), h)
    BY DEF LicenseFact, FactOf
  <2>2. \A d : LicenseFact(d, bodies)' = FactOf(LicenseFileOf(d)', bodies')
    BY DEF LicenseFact, FactOf
  <2> QED
    BY <1>6, <2>1, <2>2
<1>8. RootFact(bodies)' = RootFact(had)
  BY <1>7 DEF RootFact
<1>9. \A f : SkillLicense(f, bodies)' = SkillLicense(f, had)
  BY <1>5, <1>7, <1>8 DEF SkillLicense
<1> QED
  BY <1>2, <1>3, <1>4, <1>5, <1>8, <1>9

LEMMA IndexKept ==
    ASSUME Indexed, round = "done", UNCHANGED <<source, round, files, bodies, scope, reads, follow, packIndex>>
    PROVE  Indexed'
<1> DEFINE had == bodies
<1>1. /\ Skills' = Skills /\ Manifests' = Manifests
      /\ \A f : IndexedKind(f)' = IndexedKind(f) /\ SkillLicense(f, bodies)' = SkillLicense(f, had)
      /\ \A p : Served(p)' = Served(p)
      /\ FieldAt(<<>>)' = FieldAt(<<>>) /\ RootFact(bodies)' = RootFact(had)
  <2> HIDE DEF had
  <2>1. bodies' = had
    BY DEF had
  <2> QED
    BY <2>1, RowsKept
<1>2. \A f \in ToSet(files) : RowOf(packIndex.rows[f.path], f)'
  BY <1>1 DEF Indexed, RowOf
<1> QED
  BY <1>1, <1>2 DEF Indexed

LEMMA RowsPut ==
    ASSUME BuildInv, round # "failed", NEW had, bodies' = had, UNCHANGED <<source, files, scope, reads, follow>>,
           packIndex' = [rows    |-> [p \in {f.path : f \in ToSet(files)} |-> Row(CHOOSE f \in FileAt(p) : TRUE, had)],
                         license |-> ResolveLicense("silent", "silent", <<>>, RootFact(had), FieldAt(<<>>))]
    PROVE  Indexed'
<1>1. Sourced /\ ToSet(files) \subseteq WholeFiles
  BY BuildingIs
<1>2. /\ Skills' = Skills /\ Manifests' = Manifests
      /\ \A f : IndexedKind(f)' = IndexedKind(f) /\ SkillLicense(f, bodies)' = SkillLicense(f, had)
      /\ \A p : Served(p)' = Served(p)
      /\ FieldAt(<<>>)' = FieldAt(<<>>) /\ RootFact(bodies)' = RootFact(had)
  BY RowsKept
<1>3. packIndex'.license = ResolveLicense("silent", "silent", <<>>, RootFact(bodies)', FieldAt(<<>>)')
  BY <1>2
<1>4. DOMAIN packIndex'.rows = {f.path : f \in ToSet(files)'}
  OBVIOUS
<1>5. ASSUME NEW f \in ToSet(files) PROVE RowOf(packIndex.rows[f.path], f)'
  <2>1. FileAt(f.path) = {f}
    BY <1>1, OneFile DEF FileAt
  <2>2. packIndex'.rows[f.path] = Row(f, had)
    BY <2>1
  <2>3. LET r == Row(f, had)
        IN  /\ r.file = f /\ r.kind = IndexedKind(f) /\ r.owner = OwningSkill(f.path, scope.skills)
            /\ r.visible = (f \in reads.unread \/ Served(f.path))
            /\ r.license = IF f \in Skills THEN SkillLicense(f, had)
                           ELSE IF f \in Manifests THEN Says[f.hash].license ELSE "silent"
    BY DEF Row
  <2> QED
    BY <1>2, <2>2, <2>3 DEF RowOf
<1> QED
  BY <1>3, <1>4, <1>5 DEF Indexed

LEMMA SharedIn ==
    ASSUME BuildInv, round # "failed", NEW skill \in WholeFiles PROVE SharedPages(skill) \in Seq(WholeFiles)
<1> DEFINE ps == Includes(skill)
           per == [n \in DOMAIN ps |->
                    Only(files, {f \in FileAt(ps[n]) : ~Within(Parent(skill.path), f.path)})]
<1>1. Says[skill.hash].include \in Seq(RepoPath)
  BY BuildingIs, FilesAre, SaysIs
<1>2. ps \in Seq(RepoPath)
  BY <1>1, OnlyIs DEF Includes
<1>3. \A w : Only(files, w) \in Seq(WholeFiles)
  BY BuildingIs
<1>4. SharedPages(skill) = FlattenSeq(per)
  BY DEF SharedPages
<1> HIDE DEF ps
<1>5. per \in Seq(Seq(WholeFiles))
  <2>1. Len(ps) \in Nat /\ DOMAIN ps = 1..Len(ps)
    BY <1>2
  <2> QED
    BY <1>3, <2>1
<1> HIDE DEF per
<1> QED
  BY <1>4, <1>5, FlattenMembers

LEMMA ReadResourcesStep == ASSUME BuildInv, ReadResources PROVE BuildInv'
<1> DEFINE skills == Only(files, {f \in Skills : Listable(f)})
           per     == [n \in DOMAIN skills |->
                        Only(files, WithinReadLimit(Parent(skills[n].path))) \o SharedPages(skills[n])]
           brought == FlattenSeq(per)
           wanted  == FirstOfEach(Only(brought, {f \in ToSet(brought) : f.hash \notin bodies.asked}))
           most    == source.limits.read
           spent   == AdmitEach(wanted, most)
           asked   == ToSet(wanted) \intersect spent.admitted
<1>1. /\ round = "resources" /\ round' = "done" /\ depth' = 0 /\ budget' = spent
      /\ UNCHANGED <<source, files, scope, reads, follow>>
  BY DEF ReadResources, Goes
<1>2. PICK had \in Fetched(asked) :
        /\ bodies' = had
        /\ packIndex' = [rows    |-> [p \in {f.path : f \in ToSet(files)} |-> Row(CHOOSE f \in FileAt(p) : TRUE, had)],
                         license |-> ResolveLicense("silent", "silent", <<>>, RootFact(had), FieldAt(<<>>))]
  BY DEF ReadResources
<1>3. most \in Nat /\ skills \in Seq(WholeFiles) /\ \A w : Only(files, w) \in Seq(WholeFiles)
  BY <1>1, BuildingIs
<1>4. Indexed'
  BY <1>1, <1>2, RowsPut
<1>5. per \in Seq(Seq(WholeFiles))
  <2> HIDE DEF skills
  <2>1. Len(skills) \in Nat /\ DOMAIN skills = 1..Len(skills)
    BY <1>3
  <2>2. ASSUME NEW n \in 1..Len(skills)
        PROVE  Only(files, WithinReadLimit(Parent(skills[n].path))) \o SharedPages(skills[n]) \in Seq(WholeFiles)
    <3>1. skills[n] \in WholeFiles
      BY <1>3, <2>2
    <3>2. SharedPages(skills[n]) \in Seq(WholeFiles)
      BY <1>1, <3>1, SharedIn
    <3>3. Only(files, WithinReadLimit(Parent(skills[n].path))) \in Seq(WholeFiles)
      BY <1>3
    <3> QED
      BY <3>2, <3>3, JoinMembers
  <2> QED
    BY <2>1, <2>2
<1>6. brought \in Seq(WholeFiles)
  <2> HIDE DEF per
  <2> QED
    BY <1>5, FlattenMembers
<1> HIDE DEF brought
<1>7. wanted \in Seq(WholeFiles)
  <2> DEFINE once == Only(brought, {f \in ToSet(brought) : f.hash \notin bodies.asked})
  <2>1. once \in Seq(WholeFiles)
    BY <1>6, OnlyIs
  <2> HIDE DEF once
  <2>2. FirstOfEach(once) \in Seq(WholeFiles)
    BY <2>1, OnlyIs DEF FirstOfEach
  <2> QED
    BY <2>2 DEF once
<1> DEFINE got == asked
<1>8. spent = AdmitEach(wanted, most) /\ had \in Fetched(got)
  BY <1>2
<1> HIDE DEF got, wanted, spent, most
<1>9. /\ spent \in BudgetType /\ (budget.cut => spent.cut)
      /\ bodies'.held \subseteq bodies'.asked /\ (bodies'.asked = bodies'.held => bodies.asked = bodies.held)
  BY <1>1, <1>2, <1>3, <1>7, <1>8, SpendIs
<1>10. round \in Linking \ {"done"} /\ round' \in Linking
  BY <1>1 DEF Linking, Skilled, Opened
<1>11. follow.frontier = <<>>
  BY <1>1, <1>10 DEF BuildInv, LinksAreFollowed
<1> QED
  BY <1>1, <1>4, <1>9, <1>10, <1>11, LateStep

LEMMA BuildInitHolds == ASSUME BuildInit PROVE BuildInv
<1>1. /\ source \in [files : Repository, limits : Limits] /\ round = "tree" /\ depth = 0 /\ files = <<>>
      /\ budget = [admitted |-> {}, bytes |-> 0, cut |-> FALSE] /\ bodies = [asked |-> {}, held |-> {}]
      /\ scope = [skills |-> {}, documents |-> <<>>, included |-> {}, excluded |-> {}, broken |-> {}]
      /\ follow = [overviews |-> {}, linked |-> {}, frontier |-> <<>>]
  BY DEF BuildInit
<1>2. Sourced /\ depth \in Nat
  BY <1>1 DEF Sourced
<1>3. budget \in BudgetType
  BY <1>1 DEF BudgetType
<1>4. files \in Seq(WholeFiles) /\ bodies.asked = bodies.held /\ bodies.held \subseteq bodies.asked
  BY <1>1
<1>5. DOMAIN scope.documents = {} /\ scope.excluded = {} /\ scope.broken = {}
  BY <1>1
<1>6. Listing
  BY <1>1, <1>3, <1>4, <1>5 DEF Listing
<1>7. Settled = {}
  BY <1>1 DEF Settled, Opened
<1>8. Policy
  BY <1>5, <1>7 DEF Policy
<1>9. SkillsAreRead /\ Indexed
  BY <1>1 DEF SkillsAreRead, Indexed, Skilled, Opened
<1>10. LinksAreFollowed
  BY <1>1 DEF LinksAreFollowed, Linking, Skilled, Opened
<1>11. Shaped
  BY DEF Shaped, BuildInit
<1> QED
  BY <1>11, <1>2, <1>6, <1>8, <1>9, <1>10 DEF BuildInv

\* Before a manifest is read nothing is excluded.
LEMMA NothingSettled ==
    ASSUME source' = source, Sourced, UNCHANGED scope, DOMAIN scope.documents = {}, scope.excluded = {}, scope.broken = {},
           round' = "archive" \/ (round' = "manifests" /\ depth' = 0)
    PROVE  Policy'
<1>1. WholeManifests' = WholeManifests
  BY SourceSame
<1>2. \A m \in WholeManifests : Len(m.path) \in Nat \ {0}
  <2> TAKE m \in WholeManifests
  <2>1. m \in WholeFiles
    BY OneManifest
  <2> QED
    BY <2>1, FilesAre, ParentIs
<1>3. Settled' = {}
  <2>1. \A m \in WholeManifests' : ~(round' \in Opened \/ (round' = "manifests" /\ Len(m.path) <= depth'))
    BY <1>1, <1>2 DEF Opened
  <2> QED
    BY <2>1 DEF Settled
<1> QED
  BY <1>3 DEF Policy

LEMMA ReadTreeStep == ASSUME BuildInv, ReadTree PROVE BuildInv'
<1> DEFINE listed == Candidates(source.files)
           most   == source.limits.tree
<1>1. /\ round = "tree" /\ UNCHANGED <<source, bodies, scope, reads, follow, packIndex>> /\ depth' = 0
  BY DEF ReadTree, Goes
<1>2. Sourced /\ Sourced' /\ depth' \in Nat /\ most \in Nat /\ budget \in BudgetType
  BY <1>1, BuildingIs, SourceSame
<1>3. /\ bodies.held \subseteq bodies.asked /\ bodies.asked = bodies.held
      /\ DOMAIN scope.documents = {} /\ scope.excluded = {} /\ scope.broken = {}
  BY <1>1 DEF BuildInv, Listing
<1>4. follow.linked = {}
  BY <1>1 DEF BuildInv, LinksAreFollowed, Linking, Skilled, Opened
<1>5. /\ WholeFiles' = WholeFiles /\ WholeManifests' = WholeManifests /\ BudgetType' = BudgetType
  BY <1>1, SourceSame
<1>6. round' \in {"archive", "failed"}
  BY DEF ReadTree, Goes
<1>7. SkillsAreRead' /\ Indexed'
  BY <1>6 DEF SkillsAreRead, Indexed, Skilled, Opened
<1>8. LinksAreFollowed'
  BY <1>1, <1>4, <1>6 DEF LinksAreFollowed, Linking, Skilled, Opened
<1>9. Policy'
  <2>1. round' = "archive" => Policy'
    BY <1>1, <1>2, <1>3, NothingSettled
  <2>2. round' = "failed" => Policy'
    BY DEF Policy
  <2> QED
    BY <1>6, <2>1, <2>2
<1>10. ASSUME round' = "archive" PROVE Listing'
  <2>1. /\ ~(Len(listed) > most /\ Kind(listed[most + 1].path) = "manifest")
        /\ files' = IF Len(listed) > most THEN SubSeq(listed, 1, most) ELSE listed
        /\ budget' = [budget EXCEPT !.cut = Len(listed) > most]
    BY <1>10 DEF ReadTree, Goes
  <2>2. /\ listed \in Seq(WholeFiles) /\ ToSet(listed) = WholeFiles
        /\ \E K \in Nat : \A n \in 1..Len(listed) : n <= K <=> listed[n] \in WholeManifests
    BY <1>2, CandidatesAre
  <2> HIDE DEF listed, most
  <2>3. PICK K \in Nat : \A n \in 1..Len(listed) : n <= K <=> listed[n] \in WholeManifests
    BY <2>2
  <2>4. budget' \in BudgetType /\ (~budget'.cut <=> ~(Len(listed) > most))
    <3> DEFINE cut == Len(listed) > most
    <3>1. cut \in BOOLEAN /\ budget' = [budget EXCEPT !.cut = cut]
      BY <2>1
    <3> HIDE DEF cut
    <3>2. budget' \in BudgetType /\ budget'.cut = cut
      BY <1>2, <3>1 DEF BudgetType
    <3> QED
      BY <3>2 DEF cut
  <2>5. Len(listed) \in Nat /\ \A n \in 1..Len(listed) : listed[n] \in WholeFiles
    BY <2>2
  <2>6. CASE Len(listed) > most
    <3>1. most \in 0..Len(listed)
      BY <1>2, <2>5, <2>6
    <3>2. /\ files' \in Seq(WholeFiles) /\ Len(files') = most
          /\ \A k \in 1..most : files'[k] = listed[k]
      <4>1. files' = SubSeq(listed, 1, most)
        BY <2>1, <2>6
      <4> QED
        BY <2>2, <3>1, <4>1, SubSeqIs
    <3>3. K <= most
      <4>1. most + 1 \in 1..Len(listed)
        BY <1>2, <2>5, <2>6
      <4>2. listed[most + 1] \notin WholeManifests
        <5>1. Kind(listed[most + 1].path) # "manifest"
          BY <2>1, <2>6
        <5> QED
          BY <1>2, <5>1, OneManifest
      <4>3. ~(most + 1 <= K)
        BY <2>3, <4>1, <4>2
      <4> QED
        BY <1>2, <2>3, <4>3
    <3>4. WholeManifests \subseteq ToSet(files')
      <4> SUFFICES ASSUME NEW m \in WholeManifests PROVE m \in ToSet(files')
        OBVIOUS
      <4>1. m \in ToSet(listed)
        BY <1>2, <2>2, OneManifest
      <4>2. PICK n \in 1..Len(listed) : m = listed[n]
        BY <2>2, <4>1, MemberIs
      <4>3. n <= K /\ n \in 1..most
        BY <1>2, <2>3, <2>5, <3>3, <4>2
      <4>4. m = files'[n] /\ n \in 1..Len(files')
        BY <3>2, <4>2, <4>3
      <4> QED
        BY <3>2, <4>4, MemberIs
    <3> QED
      BY <1>1, <1>3, <1>5, <1>10, <2>4, <2>6, <3>2, <3>4 DEF Listing
  <2>7. CASE ~(Len(listed) > most)
    <3>1. files' = listed
      BY <2>1, <2>7
    <3>2. WholeManifests \subseteq WholeFiles
      BY <1>2, OneManifest
    <3>3. ToSet(files') = WholeFiles
      BY <2>2, <3>1
    <3> QED
      BY <1>1, <1>3, <1>5, <1>10, <2>2, <2>4, <3>1, <3>2, <3>3 DEF Listing
  <2> QED
    BY <2>6, <2>7
<1>11. Listing'
  <2>1. round' = "failed" => Listing'
    BY DEF Listing
  <2> QED
    BY <1>6, <1>10, <2>1
<1>12. Shaped'
  BY <1>1 DEF Shaped, BuildInv
<1> QED
  BY <1>12, <1>2, <1>7, <1>8, <1>9, <1>11 DEF BuildInv

LEMMA ReadArchiveStep == ASSUME BuildInv, ReadArchive PROVE BuildInv'
<1>1. /\ round = "archive" /\ round' = "manifests" /\ depth' = 0 /\ bodies'.asked = bodies'.held
      /\ UNCHANGED <<source, files, budget, scope, reads, follow, packIndex>>
  BY DEF ReadArchive, Goes
<1>2. Sourced /\ Sourced' /\ depth' \in Nat
  BY <1>1, BuildingIs, SourceSame
<1>3. /\ DOMAIN scope.documents = {} /\ scope.excluded = {} /\ scope.broken = {} /\ budget \in BudgetType
      /\ files \in Seq(WholeFiles) /\ WholeManifests \subseteq ToSet(files) /\ (~budget.cut => ToSet(files) = WholeFiles)
  BY <1>1 DEF BuildInv, Listing
<1>4. /\ WholeFiles' = WholeFiles /\ WholeManifests' = WholeManifests /\ BudgetType' = BudgetType
  BY <1>1, SourceSame
<1>5. Listing'
  BY <1>1, <1>3, <1>4 DEF Listing
<1>6. Policy'
  BY <1>1, <1>2, <1>3, NothingSettled
<1>7. SkillsAreRead' /\ Indexed' /\ LinksAreFollowed'
  BY <1>1 DEF BuildInv, SkillsAreRead, Indexed, LinksAreFollowed, Linking, Skilled, Opened
<1>8. Shaped'
  BY <1>1 DEF Shaped, BuildInv
<1> QED
  BY <1>8, <1>2, <1>5, <1>6, <1>7 DEF BuildInv

\* The manifests of one depth, some of them read, and what that adds to the policy.
Turn(here, permitted, read, out) ==
    /\ here = {m \in WholeManifests : Len(m.path) = depth + 1}
    /\ permitted = {m \in here : ~Excluded(m.path, scope)}
    /\ read \subseteq permitted /\ \A m \in read : ReadsAs(m, "manifest")
    /\ out = UNION {Excludes(f) : f \in read}
    /\ Settled' = Settled \union here /\ Settled = {m \in WholeManifests : Len(m.path) <= depth}
    /\ NothingIsLeftOut' => NothingIsLeftOut
    /\ NothingIsLeftOut' => \A m \in permitted : ReadsAs(m, "manifest") => m \in read
    /\ DOMAIN scope'.documents = DOMAIN scope.documents \union Parents(permitted)
    /\ \A d \in DOMAIN scope.documents \ Parents(permitted) : scope'.documents[d] = scope.documents[d]
    /\ \A d \in Parents(permitted) :
            scope'.documents[d] = UNION {Declares(f) : f \in {g \in read : Parent(g.path) = d}}
    /\ scope'.broken = scope.broken \union (Parents(permitted) \ Parents(read))
    /\ scope'.excluded = scope.excluded \union Parents(here \ permitted) \union out
            \union Parents({f \in read : \E x \in out : Within(x, f.path)})

LEMMA PolicyGrows ==
    ASSUME Sourced, Policy, round = "manifests", depth \in Nat, source' = source, round' \in {"manifests", "skills"},
           NEW here, NEW permitted, NEW read, NEW out, Turn(here, permitted, read, out)
    PROVE  Policy'
<1> USE DEF Turn
<1>1. WholeManifests' = WholeManifests
  BY SourceSame
<1>2. /\ DOMAIN scope.documents \subseteq Parents(Settled) /\ scope.broken \subseteq DOMAIN scope.documents
      /\ \A m \in Settled : Shut(m) \/ Closed(m) \/ Governs(m)
      /\ scope.excluded \subseteq RepoPath
      /\ \A e \in scope.excluded : Sayso(e) \/ WithManifest(e)
  BY DEF Policy
<1>3. ASSUME NEW m \in WholeManifests
      PROVE  /\ m \in WholeFiles /\ m.path \in RepoPath /\ Parent(m.path) \in RepoPath /\ m.path \in WholePaths
             /\ Len(m.path) \in Nat /\ Len(Parent(m.path)) \in Nat /\ Len(m.path) = Len(Parent(m.path)) + 1
             /\ \A n \in WholeManifests : Parent(n.path) = Parent(m.path) => n = m
             /\ m.path = ManifestPath(Parent(m.path)) /\ Within(Parent(m.path), m.path)
  <2>1. /\ m \in WholeFiles /\ m.path \in RepoPath /\ Parent(m.path) \in RepoPath
        /\ \A n \in WholeManifests : Parent(n.path) = Parent(m.path) => n = m
        /\ m.path = ManifestPath(Parent(m.path)) /\ Within(Parent(m.path), m.path)
    BY OneManifest
  <2>2. m.path # <<>>
    BY <2>1, FilesAre
  <2>3. Len(m.path) \in Nat /\ Len(Parent(m.path)) \in Nat /\ Len(Parent(m.path)) = Len(m.path) - 1
    BY <2>1, <2>2, ParentIs DEF RepoPath
  <2> QED
    BY <2>1, <2>3 DEF WholePaths
<1>4. here \subseteq WholeManifests /\ permitted \subseteq here /\ Settled \subseteq WholeManifests
  OBVIOUS
\* A manifest of this depth is not at or above another one that had its turn.
<1>5. ASSUME NEW m \in Settled \union here, NEW n \in here, Within(Parent(n.path), m.path) PROVE n = m
  <2>1. Within(Parent(n.path), Parent(m.path))
    BY <1>3, <1>4, <1>5, AboveFile
  <2>2. Len(Parent(n.path)) = depth /\ Len(Parent(m.path)) <= depth
    BY <1>3, <1>4
  <2>3. Len(Parent(n.path)) <= Len(Parent(m.path)) /\ (Len(Parent(n.path)) = Len(Parent(m.path)) => Parent(n.path) = Parent(m.path))
    BY <1>3, <1>4, <2>1, WithinLen
  <2>4. Parent(n.path) = Parent(m.path)
    BY <1>3, <1>4, <2>2, <2>3
  <2> QED
    BY <1>3, <1>4, <2>4
<1>6. ASSUME NEW m \in Settled, NEW n \in here PROVE Parent(m.path) # Parent(n.path)
  <2>1. m # n
    BY <1>3, <1>4
  <2> QED
    BY <1>3, <1>4, <2>1
<1>7. \A d \in Parents(Settled) : d \notin Parents(here) /\ d \notin Parents(permitted)
  BY <1>4, <1>6 DEF Parents
<1>8. \A d \in DOMAIN scope.documents : d \notin Parents(here) /\ d \notin Parents(permitted)
  BY <1>2, <1>7
<1>9. \A m \in here : Parent(m.path) \in Parents(permitted) <=> m \in permitted
  BY <1>3, <1>4 DEF Parents
<1>10. \A m \in here : Parent(m.path) \in Parents(read) <=> m \in read
  BY <1>3, <1>4 DEF Parents
<1>11. \A m \in Settled : Parent(m.path) \notin Parents(permitted)
  BY <1>7 DEF Parents
<1>12. ASSUME NEW x \in out PROVE \E n \in read : x \in Excludes(n) /\ x \in RepoPath /\ Within(Parent(n.path), x)
  <2>1. PICK n \in read : x \in Excludes(n)
    OBVIOUS
  <2>2. n \in WholeManifests
    BY <1>4
  <2> QED
    BY <2>1, <2>2, ExcludesAre
<1>13. scope'.excluded \subseteq RepoPath
  <2>1. Parents(here \ permitted) \subseteq RepoPath /\ Parents({f \in read : \E x \in out : Within(x, f.path)}) \subseteq RepoPath
    BY <1>3, <1>4 DEF Parents
  <2>2. out \subseteq RepoPath
    BY <1>12
  <2> QED
    BY <1>2, <2>1, <2>2
\* What one of this depth adds does not reach another manifest that had its turn.
<1>14. ASSUME NEW m \in Settled \union here, m \notin read, m \notin here \ permitted, ~Excluded(m.path, scope)
       PROVE  ~Excluded(m.path, scope')
  <2> SUFFICES ASSUME Excluded(m.path, scope') PROVE FALSE
    OBVIOUS
  <2>1. m \in WholeManifests
    BY <1>4
  <2>2. PICK d \in RepoPath :
            Within(d, m.path) /\ (d \in scope'.excluded \/ (d \in scope'.broken /\ m.path # ManifestPath(d)))
    BY <1>3, <2>1, ExcludedIs
  <2>3. ~(d \in scope.excluded) /\ ~(d \in scope.broken /\ m.path # ManifestPath(d))
    BY <1>3, <1>14, <2>1, <2>2, ExcludedIs
  <2>4. ASSUME NEW n \in here, d = Parent(n.path) PROVE n = m
    BY <1>5, <2>2, <2>4
  <2>5. CASE d \in Parents(here \ permitted)
    BY <1>4, <1>14, <2>4, <2>5 DEF Parents
  <2>6. CASE d \in out
    <3>1. PICK n \in read : Within(Parent(n.path), d)
      BY <1>12, <2>6
    <3>2. Within(Parent(n.path), m.path)
      BY <1>3, <1>4, <2>1, <2>2, <3>1, WithinChain
    <3>3. n = m
      BY <1>4, <1>5, <3>2
    <3> QED
      BY <1>14, <3>3
  <2>7. CASE d \in Parents({f \in read : \E x \in out : Within(x, f.path)})
    BY <1>4, <1>14, <2>4, <2>7 DEF Parents
  <2>8. CASE d \in Parents(permitted) \ Parents(read) /\ m.path # ManifestPath(d)
    BY <1>3, <1>4, <2>1, <2>4, <2>8 DEF Parents
  <2> QED
    BY <2>2, <2>3, <2>5, <2>6, <2>7, <2>8
<1>15. \A p : (TakenOut(p))' = TakenOut(p)
  BY <1>1 DEF TakenOut
<1>16. \A p : (TakenBelow(p))' = TakenBelow(p)
  BY <1>1, <1>15 DEF TakenBelow
<1>17. ASSUME NEW m \in Settled PROVE (Shut(m) \/ Closed(m) \/ Governs(m))'
  <2>1. /\ m \notin here /\ m \notin read /\ Parent(m.path) \notin Parents(permitted)
    BY <1>4, <1>6, <1>11
  <2>2. Shut(m) => Shut(m)'
    BY <2>1 DEF Shut
  <2>3. Closed(m) => Closed(m)'
    <3> SUFFICES ASSUME Closed(m) PROVE Closed(m)'
      OBVIOUS
    <3>1. ~Excluded(m.path, scope)'
      BY <1>14, <2>1 DEF Closed
    <3>2. Parent(m.path) \in scope.broken /\ Parent(m.path) \in DOMAIN scope.documents
      BY <1>2 DEF Closed
    <3>3. scope'.documents[Parent(m.path)] = {}
      BY <2>1, <3>2 DEF Closed
    <3> QED
      BY <3>1, <3>2, <3>3 DEF Closed
  <2>4. Governs(m) => Governs(m)'
    BY <1>15, <2>1 DEF Governs
  <2> QED
    BY <1>2, <2>2, <2>3, <2>4
<1>18. ASSUME NEW m \in here PROVE (Shut(m) \/ Closed(m) \/ Governs(m))'
  <2>1. m \in WholeManifests /\ Parent(m.path) \notin DOMAIN scope.documents /\ Parent(m.path) \notin scope.broken
    <3>1. Parent(m.path) \in Parents(here)
      BY DEF Parents
    <3> QED
      BY <1>2, <1>4, <1>8, <3>1
  <2>2. CASE m \notin permitted
    <3>1. Parent(m.path) \notin DOMAIN scope'.documents
      BY <1>9, <2>1, <2>2
    <3>2. Parent(m.path) \in scope'.excluded
      BY <2>2 DEF Parents
    <3> QED
      BY <3>1, <3>2 DEF Shut
  <2>3. CASE m \in permitted /\ m \notin read
    <3>1. Parent(m.path) \in Parents(permitted) /\ Parent(m.path) \notin Parents(read)
      BY <1>9, <1>10, <2>3
    <3>2. Parent(m.path) \in scope'.broken
      BY <3>1
    <3>3. scope'.documents[Parent(m.path)] = {}
      <4>1. {g \in read : Parent(g.path) = Parent(m.path)} = {}
        BY <3>1 DEF Parents
      <4> QED
        BY <3>1, <4>1
    <3>4. ~Excluded(m.path, scope)'
      BY <1>14, <2>3
    <3>5. NothingIsLeftOut' => ~ReadsAs(m, "manifest")
      BY <2>3
    <3> QED
      BY <3>2, <3>3, <3>4, <3>5 DEF Closed
  <2>4. CASE m \in read
    <3>1. m \in permitted /\ ReadsAs(m, "manifest") /\ ~Excluded(m.path, scope)
      BY <2>4
    <3>2. Parent(m.path) \in Parents(permitted) /\ Parent(m.path) \in Parents(read)
      BY <1>9, <1>10, <2>4, <3>1
    <3>3. Parent(m.path) \in DOMAIN scope'.documents \ scope'.broken
      BY <2>1, <3>2
    <3>4. scope'.documents[Parent(m.path)] = Declares(m)
      <4>1. {g \in read : Parent(g.path) = Parent(m.path)} = {m}
        BY <1>3, <1>4, <2>4
      <4>2. scope'.documents[Parent(m.path)] = UNION {Declares(f) : f \in {m}}
        BY <3>2, <4>1
      <4>3. UNION {Declares(f) : f \in {m}} = Declares(m)
        OBVIOUS
      <4> QED
        BY <4>2, <4>3
    <3>5. Excludes(m) \subseteq out /\ Excludes(m) \subseteq scope'.excluded
      BY <2>4
    <3>6. ASSUME TakenOut(m.path) PROVE Parent(m.path) \in scope'.excluded
      <4>1. PICK n \in WholeManifests : TakesOut(n, m.path)
        BY <3>6 DEF TakenOut
      <4>2. Within(Parent(n.path), m.path)
        BY <1>3, <2>1, <4>1, TakesOutBelow
      <4>3. Within(Parent(n.path), Parent(m.path))
        BY <1>3, <2>1, <4>2, AboveFile
      <4>4. Len(n.path) <= depth + 1
        <5>1. Len(Parent(n.path)) <= Len(Parent(m.path))
          BY <1>3, <2>1, <4>3, WithinLen
        <5> QED
          BY <1>3, <2>1, <5>1
      <4>5. n \notin Settled
        <5> SUFFICES ASSUME n \in Settled PROVE FALSE
          OBVIOUS
        <5>1. m.path = n.path
          BY <1>3, <2>1, <3>1, <4>1, SettledTakes
        <5> QED
          BY <1>3, <2>1, <5>1
      <4>6. n \in here
        BY <1>3, <4>4, <4>5
      <4>7. n = m
        BY <1>5, <4>2, <4>6
      <4>8. \E x \in Excludes(m) : Within(x, m.path)
        BY <3>1, <4>1, <4>7 DEF TakesOut
      <4>9. \E x \in out : Within(x, m.path)
        BY <3>5, <4>8
      <4> QED
        BY <2>4, <4>9 DEF Parents
    <3> QED
      BY <1>15, <3>1, <3>3, <3>4, <3>5, <3>6 DEF Governs
  <2> QED
    BY <2>2, <2>3, <2>4
<1>19. ASSUME NEW e \in scope'.excluded PROVE (Sayso(e) \/ WithManifest(e))'
  <2>1. Sayso(e) => Sayso(e)'
    BY <1>1 DEF Sayso
  <2>2. WithManifest(e) => WithManifest(e)'
    BY <1>1, <1>16 DEF WithManifest
  <2>3. CASE e \in scope.excluded
    BY <1>2, <2>1, <2>2, <2>3
  <2>4. CASE e \in Parents(here \ permitted)
    <3>1. PICK n \in here : n \notin permitted /\ e = Parent(n.path)
      BY <2>4 DEF Parents
    <3>2. Excluded(n.path, scope) /\ n \in WholeManifests
      BY <1>4, <3>1
    <3>3. NothingIsLeftOut => TakenOut(n.path) \/ TakenBelow(n.path)
      BY <1>3, <3>2, ExcludedWhy
    <3>4. TakenOut(n.path) => TakenBelow(e)
      BY <1>3, <3>1, <3>2, WithinSelf DEF TakenBelow
    <3>5. TakenBelow(n.path) => TakenBelow(e)
      <4> SUFFICES ASSUME TakenBelow(n.path) PROVE TakenBelow(e)
        OBVIOUS
      <4>1. PICK k \in WholeManifests : TakenOut(k.path) /\ Within(Parent(k.path), n.path)
        BY DEF TakenBelow
      <4>2. Within(Parent(k.path), e)
        BY <1>3, <3>1, <3>2, <4>1, AboveFile
      <4> QED
        BY <4>1, <4>2 DEF TakenBelow
    <3>6. WithManifest(e)'
      BY <1>1, <1>16, <3>1, <3>2, <3>3, <3>4, <3>5 DEF WithManifest
    <3> QED
      BY <3>6
  <2>5. CASE e \in out
    <3>1. PICK n \in read : e \in Excludes(n)
      BY <2>5
    <3>2. n \in WholeManifests /\ ReadsAs(n, "manifest")
      BY <1>4
    <3> QED
      BY <1>1, <3>1, <3>2 DEF Sayso
  <2>6. CASE e \in Parents({f \in read : \E x \in out : Within(x, f.path)})
    <3>1. PICK f \in read : e = Parent(f.path) /\ \E x \in out : Within(x, f.path)
      BY <2>6 DEF Parents
    <3>2. PICK x \in out : Within(x, f.path)
      BY <3>1
    <3>3. PICK g \in read : x \in Excludes(g)
      BY <1>12
    <3>4. g \in WholeManifests /\ ReadsAs(g, "manifest") /\ f \in WholeManifests
      BY <1>4
    <3>5. TakesOut(g, f.path)
      BY <3>2, <3>3, <3>4 DEF TakesOut
    <3>6. TakenOut(f.path)
      BY <3>4, <3>5 DEF TakenOut
    <3>7. TakenBelow(e)
      BY <1>3, <3>1, <3>4, <3>6, WithinSelf DEF TakenBelow
    <3> QED
      BY <1>1, <1>16, <3>1, <3>4, <3>7 DEF WithManifest
  <2> QED
    BY <2>3, <2>4, <2>5, <2>6
<1>20. /\ DOMAIN scope'.documents \subseteq Parents(Settled)'
       /\ scope'.broken \subseteq DOMAIN scope'.documents
  <2>1. Parents(Settled)' = {Parent(f.path) : f \in Settled \union here}
    BY DEF Parents
  <2>2. Parents(Settled) \subseteq Parents(Settled)' /\ Parents(permitted) \subseteq Parents(Settled)'
    BY <1>4, <2>1 DEF Parents
  <2> QED
    BY <1>2, <2>2
<1> QED
  BY <1>13, <1>17, <1>18, <1>19, <1>20 DEF Policy

LEMMA ReadManifestsStep == ASSUME BuildInv, ReadManifests PROVE BuildInv'
<1> DEFINE here      == {f \in OfKind("manifest", ToSet(files)) : Len(f.path) = depth + 1}
           permitted == {f \in here : ~Excluded(f.path, scope)}
           regular   == {f \in permitted : f.type = "file"}
           fs        == Only(files, regular)
           most      == source.limits.file
           spent     == AdmitEach(fs, most)
           asked     == regular \intersect spent.admitted
<1>1. /\ round = "manifests"
      /\ IF \A f \in OfKind("manifest", ToSet(files)) : Len(f.path) <= depth + 1
         THEN Goes("skills") ELSE round' = round /\ depth' = depth + 1
      /\ UNCHANGED <<source, files, reads, follow, packIndex>>
  BY DEF ReadManifests
<1> DEFINE readOf(had) == {f \in asked : HasText(f.hash, had) /\ Says[f.hash].ok}
<1>2. PICK had \in Fetched(asked) :
        LET read == readOf(had)
            out  == UNION {Excludes(f) : f \in read}
        IN  /\ bodies' = had
            /\ budget' = [spent EXCEPT !.cut = @ \/ ~(regular \subseteq spent.admitted)]
            /\ scope' = [scope EXCEPT
                    !.documents = [d \in DOMAIN scope.documents \union Parents(permitted) |->
                        IF d \in Parents(permitted)
                        THEN UNION {Declares(f) : f \in {g \in read : Parent(g.path) = d}}
                        ELSE scope.documents[d]],
                    !.broken = @ \union (Parents(permitted) \ Parents(read)),
                    !.excluded = @ \union Parents(here \ permitted) \union out
                        \union Parents({f \in read : \E x \in out : Within(x, f.path)})]
  BY DEF ReadManifests
<1> DEFINE read == readOf(had)
           out  == UNION {Excludes(f) : f \in read}
           cut  == spent.cut \/ ~(regular \subseteq spent.admitted)
<1>3. /\ Sourced /\ depth \in Nat /\ Policy /\ Listing /\ files \in Seq(WholeFiles) /\ ToSet(files) \subseteq WholeFiles
      /\ WholeManifests \subseteq ToSet(files)
  BY <1>1, BuildingIs DEF BuildInv, Listing
<1>4. OfKind("manifest", ToSet(files)) = WholeManifests
  BY <1>3 DEF WholeManifests, OfKind
<1>5. here = {m \in WholeManifests : Len(m.path) = depth + 1}
  BY <1>4
<1>6. fs \in Seq(WholeFiles) /\ ToSet(fs) = ToSet(files) \intersect regular /\ most \in Nat
  BY <1>1, BuildingIs
<1>7. regular \subseteq ToSet(files)
  BY <1>3, <1>5
<1>8. had \in Fetched(asked) /\ bodies' = had
  BY <1>2
<1>9. budget' = [spent EXCEPT !.cut = cut] /\ cut \in BOOLEAN
  BY <1>2
<1>10. /\ DOMAIN scope'.documents = DOMAIN scope.documents \union Parents(permitted)
       /\ \A d \in DOMAIN scope.documents \ Parents(permitted) : scope'.documents[d] = scope.documents[d]
       /\ \A d \in Parents(permitted) :
            scope'.documents[d] = UNION {Declares(f) : f \in {g \in read : Parent(g.path) = d}}
       /\ scope'.broken = scope.broken \union (Parents(permitted) \ Parents(read))
       /\ scope'.excluded = scope.excluded \union Parents(here \ permitted) \union out
            \union Parents({f \in read : \E x \in out : Within(x, f.path)})
  <2>1. {"documents", "broken", "excluded"} \subseteq DOMAIN scope
    BY DEF BuildInv, Shaped
  <2> DEFINE docs == [d \in DOMAIN scope.documents \union Parents(permitted) |->
                        IF d \in Parents(permitted)
                        THEN UNION {Declares(f) : f \in {g \in read : Parent(g.path) = d}}
                        ELSE scope.documents[d]]
             shut == scope.broken \union (Parents(permitted) \ Parents(read))
             gone == scope.excluded \union Parents(here \ permitted) \union out
                        \union Parents({f \in read : \E x \in out : Within(x, f.path)})
  <2>2. scope' = [scope EXCEPT !.documents = docs, !.broken = shut, !.excluded = gone]
    BY <1>2
  <2> HIDE DEF docs, shut, gone
  <2>3. scope'.documents = docs /\ scope'.broken = shut /\ scope'.excluded = gone
    BY <2>1, <2>2
  <2> QED
    BY <2>3 DEF docs, shut, gone
<1>11. /\ DOMAIN scope' = DOMAIN scope /\ \A k \in {"skills", "included"} : scope'[k] = scope[k]
  BY <1>2
<1> HIDE DEF fs, most
<1>12. /\ spent \in BudgetType /\ (budget.cut => spent.cut)
       /\ bodies'.held \subseteq bodies'.asked /\ (bodies'.asked = bodies'.held => bodies.asked = bodies.held)
       /\ bodies'.asked = bodies'.held => \A f \in asked : f.hash \in had.held
  <2> HIDE DEF asked
  <2>1. round # "failed"
    BY <1>1
  <2> QED
    BY <1>6, <1>8, <2>1, SpendIs
<1>13. budget' \in BudgetType /\ budget'.cut = cut
  <2> HIDE DEF spent, cut
  <2> QED
    BY <1>9, <1>12 DEF BudgetType
<1>14. NothingIsLeftOut' => NothingIsLeftOut
  BY <1>1, <1>12, <1>13, LeftOutKept
<1>15. ASSUME NothingIsLeftOut', NEW m \in permitted, ReadsAs(m, "manifest") PROVE m \in read
  <2>1. ~cut /\ bodies'.asked = bodies'.held
    BY <1>13, <1>15 DEF NothingIsLeftOut
  <2>2. m.type = "file" /\ Says[m.hash].text /\ Says[m.hash].ok
    BY <1>15 DEF ReadsAs, Reads
  <2>3. m \in regular /\ m \in spent.admitted
    BY <2>1, <2>2
  <2>4. m \in asked /\ m.hash \in had.held
    BY <1>12, <2>1, <2>3
  <2> QED
    BY <2>2, <2>4 DEF HasText
<1>16. \A m \in read : ReadsAs(m, "manifest")
  <2> SUFFICES ASSUME NEW m \in read PROVE ReadsAs(m, "manifest")
    OBVIOUS
  <2>1. m \in asked /\ Says[m.hash].ok /\ Says[m.hash].text /\ m.type = "file" /\ m \in here
    BY DEF HasText
  <2>2. Kind(m.path) = "manifest"
    BY <2>1 DEF OfKind
  <2> QED
    BY <2>1, <2>2 DEF ReadsAs, Reads
<1>17. read \subseteq permitted /\ out = UNION {Excludes(f) : f \in read} /\ permitted = {m \in here : ~Excluded(m.path, scope)}
  OBVIOUS
<1>18. WholeManifests' = WholeManifests /\ BudgetType' = BudgetType /\ Sourced'
  BY <1>1, <1>3, SourceSame
<1>19. /\ Settled = {m \in WholeManifests : Len(m.path) <= depth}
       /\ \A m \in WholeManifests : Len(m.path) \in Nat
  <2>1. \A m \in WholeManifests : Len(m.path) \in Nat
    <3> TAKE m \in WholeManifests
    <3>1. m.path \in RepoPath
      BY <1>3, OneManifest
    <3> QED
      BY <3>1 DEF RepoPath
  <2> QED
    BY <1>1, <2>1 DEF Settled, Opened
<1>20. depth' \in Nat /\ round' \in {"manifests", "skills"} /\ Settled' = Settled \union here
  <2>1. CASE \A f \in WholeManifests : Len(f.path) <= depth + 1
    <3>1. round' = "skills" /\ depth' = 0
      BY <1>1, <1>4, <2>1 DEF Goes
    <3>2. Settled' = WholeManifests
      BY <1>18, <3>1 DEF Settled, Opened
    <3>3. WholeManifests = Settled \union here
      BY <1>3, <1>5, <1>19, <2>1
    <3> QED
      BY <3>1, <3>2, <3>3
  <2>2. CASE ~\A f \in WholeManifests : Len(f.path) <= depth + 1
    <3>1. round' = "manifests" /\ depth' = depth + 1
      BY <1>1, <1>4, <2>2
    <3>2. Settled' = {m \in WholeManifests : Len(m.path) <= depth + 1}
      BY <1>18, <3>1 DEF Settled, Opened
    <3>3. Settled' = Settled \union here
      BY <1>3, <1>5, <1>19, <3>2
    <3> QED
      BY <1>3, <3>1, <3>3
  <2> QED
    BY <2>1, <2>2
<1> HIDE DEF here, permitted, read, out, spent, cut, asked, regular
<1>21. Policy'
  <2>1. /\ Sourced /\ Policy /\ round = "manifests" /\ depth \in Nat /\ source' = source
        /\ round' \in {"manifests", "skills"}
    BY <1>1, <1>3, <1>20
  <2>2. NothingIsLeftOut' => \A m \in permitted : ReadsAs(m, "manifest") => m \in read
    BY <1>15
  <2>3. Turn(here, permitted, read, out)
    BY <1>5, <1>10, <1>14, <1>16, <1>17, <1>19, <1>20, <2>2 DEF Turn
  <2> QED
    BY <2>1, <2>3, PolicyGrows
<1>22. Listing'
  <2>1. budget.cut => budget'.cut
    BY <1>12, <1>13 DEF cut
  <2>2. round \in Opened \union {"manifests"} /\ round' # "tree" /\ round' # "archive"
    BY <1>1, <1>20
  <2> QED
    BY <1>1, <1>3, <1>12, <1>13, <2>1, <2>2, ListingKept
<1>23. SkillsAreRead' /\ Indexed'
  BY <1>20 DEF SkillsAreRead, Indexed, Skilled, Opened
<1>24. LinksAreFollowed'
  <2>1. round \notin Linking \union {"failed"} /\ round' \notin Linking
    BY <1>1, <1>20 DEF Linking, Skilled, Opened
  <2> QED
    BY <1>1, <2>1 DEF BuildInv, LinksAreFollowed
<1>25. Shaped'
  BY <1>1, <1>11 DEF BuildInv, Shaped
<1> QED
  BY <1>18, <1>20, <1>21, <1>22, <1>23, <1>24, <1>25 DEF BuildInv

LEMMA ReadSkillsStep == ASSUME BuildInv, ReadSkills PROVE BuildInv'
<1> DEFINE permitted == {f \in OfKind("skill", ToSet(files)) : ~Excluded(f.path, scope)}
           fs    == Only(files, permitted)
           most  == source.limits.file
           spent == AdmitEach(fs, most)
           asked == permitted \intersect spent.admitted
           cut   == spent.cut \/ ~(permitted \subseteq spent.admitted)
           readOf(had)   == {f \in asked : HasText(f.hash, had)}
           skillsOf(had) == {f \in readOf(had) : Says[f.hash].ok}
           scopeOf(had)  == [scope EXCEPT !.skills = Parents(skillsOf(had)),
                                          !.included = UNION {OwnIncludes(f) : f \in skillsOf(had)}]
<1>1. round = "skills" /\ round' = "documents" /\ depth' = 0 /\ UNCHANGED <<source, files, packIndex>>
  BY DEF ReadSkills, Goes
<1>2. PICK had \in Fetched(asked) :
        /\ bodies' = had
        /\ budget' = [spent EXCEPT !.cut = @ \/ ~(permitted \subseteq spent.admitted)]
        /\ scope' = scopeOf(had)
        /\ reads' = [documents |-> readOf(had) \ skillsOf(had), unread |-> readOf(had) \ skillsOf(had)]
        /\ follow' = [follow EXCEPT !.overviews = Overviews(scopeOf(had))]
  BY DEF ReadSkills
<1> DEFINE read   == readOf(had)
           skills == skillsOf(had)
<1>3. /\ Sourced /\ Policy /\ Listing /\ ToSet(files) \subseteq WholeFiles
      /\ fs \in Seq(WholeFiles) /\ ToSet(fs) = ToSet(files) \intersect permitted /\ most \in Nat
  BY <1>1, BuildingIs DEF BuildInv
<1>4. had \in Fetched(asked) /\ bodies' = had
  BY <1>2
<1>5. budget' = [spent EXCEPT !.cut = cut] /\ cut \in BOOLEAN
  BY <1>2
<1>6. /\ scope'.skills = Parents(skills) /\ scope'.included = UNION {OwnIncludes(f) : f \in skills}
      /\ SameWithheld /\ DOMAIN scope' = DOMAIN scope
  <2>1. {"skills", "included", "documents", "excluded", "broken"} \subseteq DOMAIN scope
    BY DEF BuildInv, Shaped
  <2> HIDE DEF skillsOf
  <2> QED
    BY <1>2, <2>1 DEF SameWithheld
<1>7. /\ follow'.overviews = Overviews(scope') /\ follow'.linked = follow.linked /\ follow'.frontier = follow.frontier
      /\ DOMAIN follow' = DOMAIN follow
  <2>1. DOMAIN follow = {"overviews", "linked", "frontier"}
    BY DEF BuildInv, Shaped
  <2>2. follow' = [follow EXCEPT !.overviews = Overviews(scope')]
    BY <1>2
  <2> QED
    BY <2>1, <2>2
<1>8. reads'.unread = read \ skills /\ DOMAIN reads' = {"documents", "unread"}
  BY <1>2
<1>9. permitted \subseteq WholeSkills /\ permitted \subseteq ToSet(files)
        /\ OfKind("skill", ToSet(files)) = {f \in WholeSkills : f \in ToSet(files)}
  BY <1>3 DEF WholeSkills, OfKind
<1> HIDE DEF fs, most
<1>10. /\ spent \in BudgetType /\ (budget.cut => spent.cut)
       /\ bodies'.held \subseteq bodies'.asked /\ (bodies'.asked = bodies'.held => bodies.asked = bodies.held)
       /\ bodies'.asked = bodies'.held => \A f \in asked : f.hash \in had.held
  <2> HIDE DEF asked
  <2>1. round # "failed"
    BY <1>1
  <2> QED
    BY <1>3, <1>4, <2>1, SpendIs
<1>11. budget' \in BudgetType /\ budget'.cut = cut
  <2> HIDE DEF spent, cut
  <2> QED
    BY <1>5, <1>10 DEF BudgetType
<1>12. NothingIsLeftOut' => NothingIsLeftOut
  BY <1>1, <1>10, <1>11, LeftOutKept
<1>13. /\ WholeSkills' = WholeSkills /\ Sourced' /\ depth' \in Nat
  BY <1>1, <1>3, SourceSame
<1>14. \A p : Excluded(p, scope)' = Excluded(p, scope)
  BY <1>6 DEF Excluded, SameWithheld
<1>15. \A f : ReadSkill(f)' <=> (f \in permitted /\ Reads(f))
  BY <1>1, <1>9, <1>13, <1>14 DEF ReadSkill
<1>16. ASSUME NEW f \in read PROVE f \in permitted /\ Reads(f)
  <2>1. f \in permitted /\ Says[f.hash].text /\ f \in WholeSkills
    BY <1>9 DEF HasText
  <2>2. f.type = "file"
    BY <1>3, <2>1, OneSkill
  <2> QED
    BY <2>1, <2>2 DEF Reads
<1>17. skills \subseteq read /\ \A f \in read : f \in skills <=> Says[f.hash].ok
  OBVIOUS
<1>18. \A f \in WholeSkills : Parent(f.path) \in Parents(skills) <=> f \in skills
  <2>1. skills \subseteq WholeSkills
    BY <1>9, <1>16, <1>17
  <2> HIDE DEF skills
  <2> QED
    BY <1>3, <2>1, OneSkill DEF Parents
<1>19. Skills' = skills
  <2>1. Skills' = {f \in OfKind("skill", ToSet(files)) : Parent(f.path) \in Parents(skills)}
    BY <1>1, <1>6 DEF Skills
  <2>2. skills \subseteq WholeSkills /\ skills \subseteq ToSet(files)
    BY <1>9, <1>16, <1>17
  <2> HIDE DEF skills
  <2> QED
    BY <1>9, <1>18, <2>1, <2>2
<1>20. ASSUME NothingIsLeftOut', NEW f \in permitted, Reads(f) PROVE f \in read
  <2>1. ~cut /\ bodies'.asked = bodies'.held
    BY <1>11, <1>20 DEF NothingIsLeftOut
  <2>2. f \in asked /\ f.hash \in had.held /\ Says[f.hash].text
    BY <1>10, <1>20, <2>1 DEF Reads
  <2> QED
    BY <2>2 DEF HasText
<1> HIDE DEF read, skills, permitted, spent, asked, cut, readOf, skillsOf, scopeOf
<1>21. SkillsAreRead'
  <2>1. \A d \in scope'.skills :
            \E f \in WholeSkills' : d = Parent(f.path) /\ ReadSkill(f)' /\ Says[f.hash].ok
    BY <1>6, <1>9, <1>13, <1>15, <1>16, <1>17 DEF Parents
  <2>2. \A f \in reads'.unread : ReadSkill(f)' /\ ~Says[f.hash].ok
    BY <1>8, <1>15, <1>16, <1>17
  <2>3. NothingIsLeftOut' => \A f \in WholeSkills' :
            ReadSkill(f)' => IF Says[f.hash].ok THEN Parent(f.path) \in scope'.skills ELSE f \in reads'.unread
    BY <1>6, <1>8, <1>13, <1>15, <1>17, <1>18, <1>20
  <2>4. scope'.included = UNION {OwnIncludes(f) : f \in Skills'}
    BY <1>6, <1>19
  <2>5. follow'.overviews = Overviews(scope)'
    <3>1. Overviews(scope)' = Overviews(scope')
      BY <1>1 DEF Overviews
    <3> QED
      BY <1>7, <3>1
  <2> QED
    BY <2>1, <2>2, <2>3, <2>4, <2>5 DEF SkillsAreRead
<1>22. Policy'
  BY <1>1, <1>3, <1>6, <1>12, PolicyKept DEF Opened
<1>23. Listing'
  <2>1. budget.cut => budget'.cut
    BY <1>10, <1>11 DEF cut
  <2>2. round \in Opened \union {"manifests"} /\ round' # "tree" /\ round' # "archive"
    BY <1>1 DEF Opened
  <2> QED
    BY <1>1, <1>3, <1>10, <1>11, <2>1, <2>2, ListingKept
<1>24. LinksAreFollowed' /\ Indexed'
  <2>1. follow.linked = {}
    BY <1>1 DEF BuildInv, LinksAreFollowed, Linking, Skilled, Opened
  <2> QED
    BY <1>1, <1>7, <2>1 DEF LinksAreFollowed, Indexed, Linking, Skilled, Opened
<1>25. Shaped'
  BY <1>6, <1>7, <1>8 DEF BuildInv, Shaped
<1> QED
  BY <1>13, <1>21, <1>22, <1>23, <1>24, <1>25 DEF BuildInv

LEMMA NotLost ==
    ASSUME Known, NEW f \in WholeFiles
    PROVE  /\ Kind(f.path) # "manifest" => f.path \notin Lost
           /\ f \in Manifests => f.path \notin Lost
<1>1. ASSUME f.path \in Lost PROVE f \in WholeManifests /\ Parent(f.path) \in scope.broken /\ Kind(f.path) = "manifest"
  <2>1. PICK m \in WholeManifests : f.path = m.path /\ Parent(m.path) \in scope.broken
    BY <1>1, LostIs
  <2>2. m \in WholeFiles /\ Kind(m.path) = "manifest"
    BY OneManifest DEF Known, Ready
  <2>3. f = m
    BY <2>1, <2>2, OneFile DEF Known, Ready
  <2> QED
    BY <2>1, <2>2, <2>3
<1> QED
  BY <1>1 DEF Manifests

\* What speaks with its links, of the files that are shown: the skills and the manifests that were read,
\* and Markdown.
LEMMA SpeakersAre ==
    ASSUME Known, NEW f \in WholeFiles
    PROVE  /\ f \in Skills \union Manifests => Speaks(f)
           /\ Kind(f.path) = "markdown" /\ Says[f.hash].text => Speaks(f)
           /\ NothingIsLeftOut /\ Speaks(f) /\ ~Excluded(f.path, scope) =>
                f \in Skills \union Manifests \/ Kind(f.path) = "markdown"
<1>1. Ready /\ Sourced
  BY DEF Known, Ready
<1>2. f \in Skills => Speaks(f)
  <2> SUFFICES ASSUME f \in Skills PROVE Speaks(f)
    OBVIOUS
  <2>1. ReadSkill(f) /\ Says[f.hash].ok
    BY SkillsAre
  <2>2. Kind(f.path) = "skill" /\ Reads(f)
    BY <2>1 DEF ReadSkill, WholeSkills, OfKind
  <2> QED
    BY <2>1, <2>2 DEF Speaks, ReadsAs
<1>3. f \in Manifests => Speaks(f)
  BY <1>1, ManifestsAre DEF Governs, Speaks, ReadsAs
<1>4. Kind(f.path) = "markdown" /\ Says[f.hash].text => Speaks(f)
  BY <1>1, FilesAre DEF Speaks, Reads
<1>5. ASSUME NothingIsLeftOut, Speaks(f), ~Excluded(f.path, scope), Kind(f.path) # "markdown"
      PROVE  f \in Skills \union Manifests
  <2>1. ReadsAs(f, "skill") \/ ReadsAs(f, "manifest")
    BY <1>5 DEF Speaks
  <2>2. ToSet(files) = WholeFiles
    BY <1>1, <1>5, FilesInWhole
  <2>3. CASE ReadsAs(f, "skill")
    <3>1. f \in WholeSkills /\ Reads(f) /\ Says[f.hash].ok
      BY <2>3 DEF ReadsAs, WholeSkills, OfKind
    <3>2. ReadSkill(f)
      BY <1>5, <2>2, <3>1 DEF ReadSkill
    <3>3. Parent(f.path) \in scope.skills
      BY <1>5, <3>1, <3>2 DEF Known, SkillsAreRead
    <3> QED
      BY <3>1, <3>3, SkillsAre
  <2>4. CASE ReadsAs(f, "manifest")
    <3>1. f \in WholeManifests
      BY <2>4 DEF ReadsAs, WholeManifests, OfKind
    <3>2. Shut(f) \/ Closed(f) \/ Governs(f)
      BY <1>1, <3>1, AllSettled DEF Ready, Policy
    <3>3. ~Shut(f)
      <4>1. f.path \in RepoPath /\ Parent(f.path) \in RepoPath /\ Within(Parent(f.path), f.path)
        BY <1>1, <3>1, OneManifest
      <4> QED
        BY <1>5, <4>1, ExcludedIs DEF Shut
    <3>4. ~Closed(f)
      BY <1>5, <2>4 DEF Closed
    <3> QED
      BY <1>1, <1>5, <3>1, <3>2, <3>3, <3>4, ManifestsAre
  <2> QED
    BY <2>1, <2>3, <2>4
<1> QED
  BY <1>2, <1>3, <1>4, <1>5

LEMMA ReadDocumentsStep == ASSUME BuildInv, ReadDocuments PROVE BuildInv'
<1> DEFINE wanted == {f \in ToSet(files) : Kind(f.path) \in {"markdown", "json"} /\ Served(f.path)}
           fs    == Only(files, wanted)
           most  == source.limits.file
           spent == AdmitEach(fs, most)
           asked == wanted \intersect spent.admitted
           readOf(had) == {f \in asked : HasText(f.hash, had)}
           frontier(had) == Only(files, Skills) \o Only(files, Manifests) \o Only(files, OfKind("markdown", readOf(had)))
<1>1. round = "documents" /\ round' = "links" /\ depth' = 0 /\ UNCHANGED <<source, files, scope, packIndex>>
  BY DEF ReadDocuments, Goes
<1>2. PICK had \in Fetched(asked) :
        /\ bodies' = had
        /\ budget' = spent
        /\ reads' = [reads EXCEPT !.documents = @ \union readOf(had)]
        /\ follow' = [follow EXCEPT !.frontier = frontier(had)]
  BY DEF ReadDocuments
<1> DEFINE read == readOf(had)
           next == frontier(had)
<1>3. /\ Sourced /\ Known /\ Ready /\ ToSet(files) \subseteq WholeFiles /\ files \in Seq(WholeFiles)
      /\ fs \in Seq(WholeFiles) /\ ToSet(fs) = ToSet(files) \intersect wanted /\ most \in Nat
  BY <1>1, BuildingIs DEF BuildInv, Known, Ready, Opened, Skilled
<1>4. had \in Fetched(asked) /\ bodies' = had
  BY <1>2
<1>5. reads'.unread = reads.unread /\ DOMAIN reads' = DOMAIN reads
  BY <1>2 DEF BuildInv, Shaped
<1>6. /\ follow'.overviews = follow.overviews /\ follow'.linked = follow.linked /\ DOMAIN follow' = DOMAIN follow
      /\ follow'.frontier = next
  <2>1. DOMAIN follow = {"overviews", "linked", "frontier"}
    BY DEF BuildInv, Shaped
  <2> HIDE DEF frontier
  <2> QED
    BY <1>2, <2>1
<1>7. follow.linked = {}
  BY <1>1 DEF BuildInv, LinksAreFollowed, Linking, Skilled, Opened
<1> HIDE DEF fs, most
<1>8. /\ spent \in BudgetType /\ (budget.cut => spent.cut)
      /\ ~spent.cut => \A f \in ToSet(fs) : f.size <= most => f \in spent.admitted
      /\ bodies'.held \subseteq bodies'.asked /\ (bodies'.asked = bodies'.held => bodies.asked = bodies.held)
      /\ bodies'.asked = bodies'.held => \A f \in asked : f.hash \in had.held
  <2> HIDE DEF asked
  <2>1. round # "failed"
    BY <1>1
  <2> QED
    BY <1>3, <1>4, <2>1, SpendIs
<1>9. budget' = spent
  BY <1>2
<1>10. NothingIsLeftOut' => NothingIsLeftOut
  BY <1>1, <1>8, <1>9, LeftOutKept
<1>11. \A p : Served(p)' = Served(p)
  BY <1>1, <1>6 DEF Served
<1>12. Reached' = Reached
  BY <1>1, ReachedKept
<1>13. /\ WholeFiles' = WholeFiles /\ WholePaths' = WholePaths /\ Withheld' = Withheld
       /\ BudgetType' = BudgetType /\ Sourced' = Sourced
  BY <1>1, SourceSame, WholeSame
\* The frontier holds the skills, the manifests and the Markdown that was read.
<1>14. /\ next \in Seq(ToSet(files))
       /\ ToSet(next) = (ToSet(files) \intersect Skills) \union (ToSet(files) \intersect Manifests)
                            \union (ToSet(files) \intersect OfKind("markdown", read))
  <2>1. files \in Seq(ToSet(files))
    BY <1>3, MembersAre
  <2> DEFINE a == Only(files, Skills)
             b == Only(files, Manifests)
             c == Only(files, OfKind("markdown", read))
  <2>2. /\ a \in Seq(ToSet(files)) /\ ToSet(a) = ToSet(files) \intersect Skills
        /\ b \in Seq(ToSet(files)) /\ ToSet(b) = ToSet(files) \intersect Manifests
        /\ c \in Seq(ToSet(files)) /\ ToSet(c) = ToSet(files) \intersect OfKind("markdown", read)
    <3> HIDE DEF read
    <3> QED
      BY <2>1, OnlyIs
  <2>3. next = a \o b \o c
    OBVIOUS
  <2> HIDE DEF a, b, c, next
  <2> DEFINE ab == a \o b
  <2>4. ab \in Seq(ToSet(files)) /\ ToSet(ab) = ToSet(a) \union ToSet(b)
    BY <2>2, JoinMembers
  <2>5. next = ab \o c
    BY <2>3
  <2> HIDE DEF ab
  <2>6. ab \o c \in Seq(ToSet(files)) /\ ToSet(ab \o c) = ToSet(ab) \union ToSet(c)
    BY <2>2, <2>4, JoinMembers
  <2> QED
    BY <2>2, <2>4, <2>5, <2>6
<1>15. \A f \in read : f \in wanted /\ Says[f.hash].text /\ (NothingIsLeftOut' => f.hash \in had.held)
  BY DEF HasText
<1>16. ASSUME NothingIsLeftOut', NEW f \in wanted, Says[f.hash].text PROVE f \in read
  <2>1. ~spent.cut /\ bodies'.asked = bodies'.held /\ f.size <= most
    BY <1>1, <1>9, <1>16 DEF NothingIsLeftOut, most
  <2>2. f \in ToSet(fs)
    BY <1>3
  <2>3. f \in asked /\ f.hash \in had.held
    BY <1>8, <2>1, <2>2
  <2> QED
    BY <1>16, <2>3 DEF HasText
<1> HIDE DEF read, next, readOf, frontier, spent, asked
<1>17. ASSUME NEW f \in ToSet(next)
       PROVE  Speaks(f) /\ (Served(f.path) => f.path \in Reached[0])
  <2>1. /\ f \in WholeFiles /\ f.path \in WholePaths
        /\ f \in Skills \/ f \in Manifests \/ (Kind(f.path) = "markdown" /\ f \in read)
    BY <1>3, <1>14 DEF OfKind, WholePaths
  <2>2. Speaks(f)
    BY <1>3, <1>15, <2>1, SpeakersAre
  <2>3. f.path \notin Lost
    <3>1. f \in Skills => Kind(f.path) # "manifest"
      BY <1>3, SkillsAre DEF WholeSkills, OfKind
    <3> QED
      BY <1>3, <2>1, <3>1, NotLost
  <2>4. ASSUME Served(f.path) PROVE f.path \in Reached[0]
    <3>1. ~Excluded(f.path, scope) /\ (ServedPath(f.path, scope) \/ f.path \in follow.overviews)
      BY <1>7, <2>4 DEF Served
    <3>2. f.path \notin Withheld
      BY <1>3, <2>3, <3>1, NotWithheld
    <3>3. f.path \in Base
      BY <1>3, <2>1, <3>1, <3>2, ServedIsBase
    <3> QED
      BY <3>3, ReachedIs
  <2> QED
    BY <2>2, <2>4
<1>18. ASSUME NothingIsLeftOut', NEW g \in WholeFiles, Speaks(g), Served(g.path) PROVE g \in ToSet(next)
  <2>1. ~Excluded(g.path, scope) /\ NothingIsLeftOut
    BY <1>10, <1>18 DEF Served
  <2>2. g \in Skills \union Manifests \/ Kind(g.path) = "markdown"
    BY <1>3, <1>18, <2>1, SpeakersAre
  <2>3. g \in ToSet(files)
    BY <1>3, <2>1, FilesInWhole
  <2>4. Kind(g.path) = "markdown" => g \in OfKind("markdown", read)
    <3>1. Says[g.hash].text
      BY <1>18 DEF Speaks, Reads
    <3> QED
      BY <1>16, <1>18, <2>3, <3>1 DEF OfKind
  <2> QED
    BY <1>14, <2>2, <2>3, <2>4
<1>19. LinksAreFollowed'
  <2>1. round' \in Linking /\ round' = "links" /\ depth' = 0 /\ 0 \in Nat /\ 0 <= MaxReferenceDepth
    BY <1>1, BuildAssumption DEF Linking, Skilled, Opened
  <2>2. follow'.frontier \in Seq(ToSet(files)')
    BY <1>1, <1>6, <1>14
  <2>3. follow'.linked \subseteq Reached'[MaxReferenceDepth]
    BY <1>6, <1>7
  <2>4. \A f \in ToSet(follow'.frontier) :
            Speaks(f) /\ (Served(f.path)' => depth' <= MaxReferenceDepth /\ f.path \in Reached'[depth'])
    BY <1>6, <1>11, <1>12, <1>17, <2>1
  <2>5. NothingIsLeftOut' => \A g \in WholeFiles' :
            Speaks(g) /\ Served(g.path)' /\ g \notin ToSet(follow'.frontier) =>
                \A q \in LinksOf(g, Withheld)' : Served(q)'
    BY <1>6, <1>11, <1>13, <1>18
  <2> QED
    BY <2>1, <2>2, <2>3, <2>4, <2>5 DEF LinksAreFollowed
<1>20. Policy' /\ SkillsAreRead'
  <2>1. /\ SameWithheld /\ round \in Opened /\ round' \in Opened /\ round \in Skilled /\ round' \in Skilled
    BY <1>1 DEF SameWithheld, Opened, Skilled
  <2> QED
    BY <1>1, <1>5, <1>6, <1>10, <2>1, PolicyKept, SkillsKept DEF BuildInv
<1>21. Listing'
  <2>1. round \in Opened \union {"manifests"} /\ round' # "tree" /\ round' # "archive"
    BY <1>1 DEF Opened
  <2> QED
    BY <1>1, <1>8, <1>9, <2>1, ListingKept DEF BuildInv
<1>22. Indexed' /\ Shaped' /\ depth' \in Nat /\ Sourced'
  BY <1>1, <1>3, <1>5, <1>6, <1>13 DEF Indexed, BuildInv, Shaped
<1> QED
  BY <1>19, <1>20, <1>21, <1>22 DEF BuildInv

LEMMA TargetsAre ==
    ASSUME Sourced, files \in Seq(WholeFiles), NEW from \in Seq(ToSet(files))
    PROVE  /\ Targets(from) \in Seq(ToSet(files))
           /\ \A f : f \in ToSet(Targets(from)) <=>
                f \in ToSet(files) /\ Followable(f.path) /\ \E g \in ToSet(from) : f.path \in ToSet(Says[g.hash].refs)
<1> DEFINE per   == [n \in DOMAIN from |-> Says[from[n].hash].refs]
           refs  == FlattenSeq(per)
           good  == {p \in ToSet(refs) : FileAt(p) # {} /\ Followable(p)}
           there == Only(refs, good)
           at(p) == CHOOSE f \in FileAt(p) : TRUE
<1>1. Targets(from) = [n \in DOMAIN there |-> at(there[n])]
  BY DEF Targets
<1>2. ToSet(files) \subseteq WholeFiles
  BY MembersAre
<1>3. Len(from) \in Nat /\ DOMAIN from = 1..Len(from) /\ \A n \in 1..Len(from) : from[n] \in ToSet(files)
  OBVIOUS
<1>4. \A n \in 1..Len(from) : Says[from[n].hash].refs \in Seq(RepoPath)
  <2> TAKE n \in 1..Len(from)
  <2>1. from[n].hash \in DOMAIN Says
    BY <1>2, <1>3, FilesAre
  <2> QED
    BY <2>1, SaysIs
<1>5. per \in Seq(Seq(RepoPath)) /\ Len(per) = Len(from) /\ \A n \in 1..Len(from) : per[n] = Says[from[n].hash].refs
  BY <1>3, <1>4
<1>6. /\ refs \in Seq(RepoPath)
      /\ \A p : p \in ToSet(refs) <=> \E n \in 1..Len(per) : p \in ToSet(per[n])
  <2> HIDE DEF per
  <2> QED
    BY <1>5, FlattenMembers
<1>7. \A p : p \in ToSet(refs) <=> \E g \in ToSet(from) : p \in ToSet(Says[g.hash].refs)
  <2>1. \A g : g \in ToSet(from) <=> \E n \in 1..Len(from) : g = from[n]
    BY MemberIs
  <2>2. Len(per) = Len(from) /\ \A n \in 1..Len(from) : per[n] = Says[from[n].hash].refs
    BY <1>5
  <2> HIDE DEF per, refs
  <2>3. ASSUME NEW p, p \in ToSet(refs) PROVE \E g \in ToSet(from) : p \in ToSet(Says[g.hash].refs)
    <3>1. PICK n \in 1..Len(from) : p \in ToSet(per[n])
      BY <1>6, <2>2, <2>3
    <3>2. from[n] \in ToSet(from) /\ p \in ToSet(Says[from[n].hash].refs)
      BY <2>1, <2>2, <3>1
    <3> QED
      BY <3>2
  <2>4. ASSUME NEW p, NEW g \in ToSet(from), p \in ToSet(Says[g.hash].refs) PROVE p \in ToSet(refs)
    <3>1. PICK n \in 1..Len(from) : g = from[n]
      BY <2>1
    <3>2. p \in ToSet(per[n])
      BY <2>2, <2>4, <3>1
    <3> QED
      BY <1>6, <2>2, <3>2
  <2> QED
    BY <2>3, <2>4
<1>8. there \in Seq(RepoPath) /\ ToSet(there) = ToSet(refs) \intersect good
  <2> HIDE DEF refs, good
  <2> QED
    BY <1>6, OnlyIs
<1>9. \A p : p \in ToSet(there) <=> p \in ToSet(refs) /\ FileAt(p) # {} /\ Followable(p)
  BY <1>8
<1> HIDE DEF there, good, refs, per
<1>10. ASSUME NEW p, FileAt(p) # {} PROVE at(p) \in ToSet(files) /\ at(p).path = p
  BY <1>10 DEF FileAt
<1>11. ASSUME NEW f \in ToSet(files) PROVE FileAt(f.path) = {f}
  BY <1>2, OneFile DEF FileAt
<1> HIDE DEF at
<1>12. \A f \in ToSet(files) : at(f.path) = f
  <2> TAKE f \in ToSet(files)
  <2>1. FileAt(f.path) # {}
    BY <1>11
  <2> QED
    BY <1>10, <1>11, <2>1 DEF FileAt
<1>13. Len(there) \in Nat /\ DOMAIN there = 1..Len(there) /\ \A n \in 1..Len(there) : there[n] \in ToSet(there)
  BY <1>8, MemberIs
<1>14. Targets(from) \in Seq(ToSet(files)) /\ Len(Targets(from)) = Len(there)
  BY <1>1, <1>9, <1>10, <1>13
<1>15. \A f : f \in ToSet(Targets(from)) <=> \E n \in 1..Len(there) : f = at(there[n])
  <2>1. \A f : f \in ToSet(Targets(from)) <=> \E n \in 1..Len(Targets(from)) : f = Targets(from)[n]
    BY <1>14, MemberIs
  <2> QED
    BY <1>1, <1>13, <1>14, <2>1
<1>16. ASSUME NEW f \in ToSet(Targets(from))
       PROVE  /\ f \in ToSet(files) /\ Followable(f.path)
              /\ \E g \in ToSet(from) : f.path \in ToSet(Says[g.hash].refs)
  <2>1. PICK n \in 1..Len(there) : f = at(there[n])
    BY <1>15
  <2>2. there[n] \in ToSet(there)
    BY <1>13
  <2>3. f.path = there[n] /\ f \in ToSet(files)
    BY <1>9, <1>10, <2>1, <2>2
  <2> QED
    BY <1>7, <1>9, <2>2, <2>3
<1>17. ASSUME NEW f \in ToSet(files), Followable(f.path), NEW g \in ToSet(from), f.path \in ToSet(Says[g.hash].refs)
       PROVE  f \in ToSet(Targets(from))
  <2>1. f.path \in ToSet(there)
    BY <1>7, <1>9, <1>11, <1>17
  <2>2. PICK n \in 1..Len(there) : there[n] = f.path
    BY <1>8, <2>1, MemberIs
  <2> QED
    BY <1>12, <1>15, <2>2
<1> QED
  BY <1>14, <1>16, <1>17

LEMMA FollowLinksStep == ASSUME BuildInv, FollowLinks PROVE BuildInv'
<1> DEFINE from    == Only(follow.frontier, {f \in ToSet(files) : Served(f.path)})
           targets == Targets(from)
           most    == source.limits.file
           deep    == depth >= MaxReferenceDepth
           over    == [budget EXCEPT !.cut = @ \/ targets # <<>>]
           spent   == IF deep THEN over ELSE AdmitEach(targets, most)
           next    == IF deep THEN {} ELSE ToSet(targets) \intersect spent.admitted
           readOf(had) == {f \in next : HasText(f.hash, had)}
<1>1. round = "links" /\ depth' = depth + 1 /\ round' = round /\ UNCHANGED <<source, files, scope, packIndex>>
  BY DEF FollowLinks
<1>2. PICK had \in Fetched(next) :
        /\ bodies' = had
        /\ budget' = spent
        /\ reads' = [reads EXCEPT !.documents = @ \union readOf(had)]
        /\ follow' = [follow EXCEPT !.linked = @ \union {f.path : f \in next}, !.frontier = Only(targets, readOf(had))]
  BY DEF FollowLinks
<1> DEFINE read == readOf(had)
<1>3. /\ Sourced /\ Known /\ Ready /\ ToSet(files) \subseteq WholeFiles /\ files \in Seq(WholeFiles) /\ most \in Nat
      /\ budget \in BudgetType /\ depth \in Nat
  BY <1>1, BuildingIs DEF BuildInv, Known, Ready, Opened, Skilled
<1>4. /\ round \in Linking /\ follow.frontier \in Seq(ToSet(files))
      /\ follow.linked \subseteq Reached[MaxReferenceDepth]
      /\ \A f \in ToSet(follow.frontier) :
            Speaks(f) /\ (Served(f.path) => depth <= MaxReferenceDepth /\ f.path \in Reached[depth])
      /\ NothingIsLeftOut => \A g \in WholeFiles :
            Speaks(g) /\ Served(g.path) /\ g \notin ToSet(follow.frontier) => \A q \in LinksOf(g, Withheld) : Served(q)
  BY <1>1 DEF BuildInv, LinksAreFollowed, Linking, Skilled, Opened
<1>5. from \in Seq(ToSet(files)) /\ \A f : f \in ToSet(from) <=> f \in ToSet(follow.frontier) /\ f \in ToSet(files) /\ Served(f.path)
  <2> DEFINE served == {f \in ToSet(files) : Served(f.path)}
  <2>1. \A f : f \in served <=> f \in ToSet(files) /\ Served(f.path)
    OBVIOUS
  <2> HIDE DEF served
  <2>2. Only(follow.frontier, served) \in Seq(ToSet(files))
        /\ ToSet(Only(follow.frontier, served)) = ToSet(follow.frontier) \intersect served
    BY <1>4, OnlyIs
  <2> QED
    BY <2>1, <2>2 DEF served
<1> HIDE DEF from
<1>6. /\ targets \in Seq(ToSet(files))
      /\ \A f : f \in ToSet(targets) <=>
            f \in ToSet(files) /\ Followable(f.path) /\ \E g \in ToSet(from) : f.path \in ToSet(Says[g.hash].refs)
  BY <1>3, <1>5, TargetsAre
<1> HIDE DEF targets, most
<1>7. targets \in Seq(WholeFiles) /\ (targets = <<>> => ToSet(targets) = {})
        /\ (ToSet(targets) # {} => targets # <<>>)
  <2>1. ToSet(targets) \subseteq WholeFiles
    BY <1>3, <1>6
  <2> QED
    BY <1>6, <2>1, SeqOver, NoMembers
<1>8. reads'.unread = reads.unread /\ DOMAIN reads' = DOMAIN reads
  BY <1>2 DEF BuildInv, Shaped
<1>9. /\ follow'.overviews = follow.overviews /\ follow'.linked = follow.linked \union {f.path : f \in next}
      /\ follow'.frontier = Only(targets, read) /\ DOMAIN follow' = DOMAIN follow
  <2>1. DOMAIN follow = {"overviews", "linked", "frontier"}
    BY DEF BuildInv, Shaped
  <2> HIDE DEF readOf, next
  <2> QED
    BY <1>2, <2>1
<1>10. had \in Fetched(next) /\ bodies' = had /\ budget' = spent
  BY <1>2
<1>11. /\ had.held \subseteq had.asked
       /\ had.asked = had.held => bodies.asked = bodies.held /\ \A f \in next : f.hash \in had.held
  <2>1. bodies.held \subseteq bodies.asked
    BY <1>1, BuildingIs
  <2> HIDE DEF next
  <2> QED
    BY <1>10, <2>1, FetchedIs
<1>12. /\ spent \in BudgetType /\ (budget.cut => spent.cut)
       /\ ~spent.cut => IF deep THEN ToSet(targets) = {} ELSE \A f \in ToSet(targets) : f.size <= most => f \in spent.admitted
  <2>1. CASE deep
    <3> DEFINE cut == budget.cut \/ targets # <<>>
    <3>1. over = [budget EXCEPT !.cut = cut] /\ cut \in BOOLEAN
      OBVIOUS
    <3> HIDE DEF cut, over
    <3>2. over \in BudgetType /\ over.cut = cut
      BY <1>3, <3>1 DEF BudgetType
    <3>3. budget.cut => cut
      BY DEF cut
    <3>4. ~cut => ToSet(targets) = {}
      BY <1>7 DEF cut
    <3> QED
      BY <2>1, <3>2, <3>3, <3>4
  <2>2. CASE ~deep
    <3>1. spent = AdmitEach(targets, most)
      BY <2>2
    <3>2. /\ AdmitEach(targets, most) \in BudgetType /\ (budget.cut => AdmitEach(targets, most).cut)
          /\ ~AdmitEach(targets, most).cut =>
                \A f \in ToSet(targets) : f.size <= most => f \in AdmitEach(targets, most).admitted
      BY <1>3, <1>7, AdmitEachIs
    <3> HIDE DEF spent
    <3> QED
      BY <2>2, <3>1, <3>2
  <2> QED
    BY <2>1, <2>2
<1>13. NothingIsLeftOut' => NothingIsLeftOut
  BY <1>1, <1>10, <1>11, <1>12, LeftOutKept
<1>14. /\ WholeFiles' = WholeFiles /\ WholePaths' = WholePaths /\ Withheld' = Withheld
       /\ BudgetType' = BudgetType /\ Sourced' = Sourced
  BY <1>1, SourceSame, WholeSame
<1>15. Reached' = Reached
  BY <1>1, ReachedKept
<1>16. \A p : Served(p)' <=> Served(p) \/ (~Excluded(p, scope) /\ p \in {f.path : f \in next})
  BY <1>1, <1>9 DEF Served
<1>17. \A f : f \in next <=> ~deep /\ f \in ToSet(targets) /\ f \in spent.admitted
  OBVIOUS
<1>18. \A f : f \in read <=> f \in next /\ HasText(f.hash, had)
  OBVIOUS
<1> HIDE DEF read, readOf, next, spent, over
<1>19. follow'.frontier \in Seq(ToSet(files)) /\ ToSet(follow'.frontier) = ToSet(targets) \intersect read
  BY <1>6, <1>9, OnlyIs
\* What is followed is reached one edge further.
<1>20. ASSUME NEW f \in next PROVE depth + 1 <= MaxReferenceDepth /\ f.path \in Reached[depth + 1]
  <2>1. ~deep /\ f \in ToSet(files) /\ Followable(f.path) /\ \E g \in ToSet(from) : f.path \in ToSet(Says[g.hash].refs)
    BY <1>6, <1>17
  <2>2. PICK g \in ToSet(from) : f.path \in ToSet(Says[g.hash].refs)
    BY <2>1
  <2>3. /\ g \in WholeFiles /\ Speaks(g) /\ depth <= MaxReferenceDepth /\ g.path \in Reached[depth]
    BY <1>3, <1>4, <1>5, <2>2
  <2>4. f \in WholeFiles /\ f.path \in WholePaths /\ ~Excluded(f.path, scope) /\ Kind(f.path) = "markdown"
    BY <1>3, <2>1 DEF Followable, WholePaths
  <2>5. f.path \notin Withheld
    <3>1. f.path \notin Lost
      BY <1>3, <2>4, NotLost
    <3> QED
      BY <1>3, <2>4, <3>1, NotWithheld
  <2>6. f.path \in LinksOf(g, Withheld)
    BY <2>2, <2>4, <2>5 DEF LinksOf
  <2>7. depth + 1 <= MaxReferenceDepth
    BY <1>3, <2>1, BuildAssumption
  <2> QED
    BY <1>3, <2>3, <2>6, <2>7, LinkReaches
<1>21. ASSUME NEW f \in ToSet(follow'.frontier)
       PROVE  Speaks(f) /\ depth' <= MaxReferenceDepth /\ f.path \in Reached[depth']
  <2>1. f \in next /\ Says[f.hash].text /\ f \in WholeFiles /\ Kind(f.path) = "markdown"
    BY <1>3, <1>6, <1>18, <1>19 DEF HasText, Followable
  <2> QED
    BY <1>1, <1>3, <1>20, <2>1, SpeakersAre
<1>22. follow'.linked \subseteq Reached[MaxReferenceDepth]
  <2> SUFFICES ASSUME NEW f \in next PROVE f.path \in Reached[MaxReferenceDepth]
    BY <1>4, <1>9
  <2>1. depth + 1 \in 0..MaxReferenceDepth /\ f.path \in Reached[depth + 1]
    BY <1>3, <1>20, BuildAssumption
  <2> QED
    BY <2>1, ReachedGrows
<1>23. ASSUME NothingIsLeftOut', NEW g \in WholeFiles, Speaks(g), Served(g.path)', g \notin ToSet(follow'.frontier),
              NEW q \in LinksOf(g, Withheld)
       PROVE  Served(q)'
  <2>1. /\ NothingIsLeftOut /\ ~spent.cut /\ had.asked = had.held /\ \A f \in ToSet(files) : f.size <= most
    BY <1>1, <1>10, <1>13, <1>23 DEF NothingIsLeftOut, most
  <2>2. ToSet(files) = WholeFiles
    BY <1>3, <2>1, FilesInWhole
  <2>3. /\ q \in ToSet(Says[g.hash].refs) /\ q \in WholePaths /\ Kind(q) = "markdown" /\ q \notin Withheld
    BY DEF LinksOf
  <2>4. ~Excluded(q, scope)
    BY <1>3, <2>1, <2>3, NothingElseWithheld
  <2>5. CASE Served(g.path)
    <3>1. CASE g \notin ToSet(follow.frontier)
      BY <1>4, <1>16, <1>23, <2>1, <2>5, <3>1
    <3>2. CASE g \in ToSet(follow.frontier)
      <4>1. g \in ToSet(from)
        BY <1>5, <2>2, <2>5, <3>2
      <4>2. CASE Served(q)
        BY <1>16, <4>2
      <4>3. CASE ~Served(q)
        <5>1. WholeAt(q) \in ToSet(files) /\ WholeAt(q).path = q
          BY <1>3, <2>2, <2>3, PathsAre
        <5>2. WholeAt(q) \in ToSet(targets)
          BY <1>6, <2>3, <2>4, <4>1, <4>3, <5>1 DEF Followable
        <5>3. ~deep /\ WholeAt(q) \in spent.admitted
          BY <1>12, <2>1, <5>1, <5>2
        <5>4. WholeAt(q) \in next
          BY <1>17, <5>2, <5>3
        <5> QED
          BY <1>16, <2>4, <5>1, <5>4
      <4> QED
        BY <4>2, <4>3
    <3> QED
      BY <3>1, <3>2
  <2>6. CASE ~Served(g.path)
    <3>1. PICK f \in next : g.path = f.path
      BY <1>16, <1>23, <2>6
    <3>2. f \in WholeFiles /\ f \in ToSet(targets)
      BY <1>3, <1>6, <1>17
    <3>3. f = g
      BY <1>3, <3>1, <3>2, OneFile
    <3>4. g.hash \in had.held /\ Says[g.hash].text
      BY <1>11, <1>23, <2>1, <3>1, <3>3 DEF Speaks, Reads
    <3>5. g \in read
      BY <1>18, <3>1, <3>3, <3>4 DEF HasText
    <3> QED
      BY <1>19, <1>23, <3>2, <3>3, <3>5
  <2> QED
    BY <2>5, <2>6
<1>24. LinksAreFollowed'
  <2>1. round' \in Linking /\ round' = "links" /\ depth' \in Nat
    BY <1>1, <1>3, <1>4
  <2>2. follow'.frontier \in Seq(ToSet(files)')
    BY <1>1, <1>19
  <2>3. follow'.linked \subseteq Reached'[MaxReferenceDepth]
    BY <1>15, <1>22
  <2>4. \A f \in ToSet(follow'.frontier) :
            Speaks(f) /\ (Served(f.path)' => depth' <= MaxReferenceDepth /\ f.path \in Reached'[depth'])
    BY <1>15, <1>21
  <2>5. NothingIsLeftOut' => \A g \in WholeFiles' :
            Speaks(g) /\ Served(g.path)' /\ g \notin ToSet(follow'.frontier) =>
                \A q \in LinksOf(g, Withheld)' : Served(q)'
    <3>1. \A g : LinksOf(g, Withheld)' = LinksOf(g, Withheld)
      BY <1>14 DEF LinksOf
    <3> QED
      BY <1>14, <1>23, <3>1
  <2> QED
    BY <2>1, <2>2, <2>3, <2>4, <2>5 DEF LinksAreFollowed
<1>25. Policy' /\ SkillsAreRead'
  <2>1. /\ SameWithheld /\ round \in Opened /\ round' \in Opened /\ round \in Skilled /\ round' \in Skilled
    BY <1>1 DEF SameWithheld, Opened, Skilled
  <2> QED
    BY <1>1, <1>8, <1>9, <1>13, <2>1, PolicyKept, SkillsKept DEF BuildInv
<1>26. Listing'
  <2>1. round \in Opened \union {"manifests"} /\ round' # "tree" /\ round' # "archive"
    BY <1>1 DEF Opened
  <2> QED
    BY <1>1, <1>10, <1>11, <1>12, <2>1, ListingKept DEF BuildInv
<1>27. Indexed' /\ Shaped' /\ depth' \in Nat /\ Sourced'
  BY <1>1, <1>3, <1>8, <1>9, <1>14 DEF Indexed, BuildInv, Shaped
<1> QED
  BY <1>24, <1>25, <1>26, <1>27 DEF BuildInv

\* A step that changes nothing keeps the invariant.
LEMMA BuildStutters == ASSUME BuildInv, UNCHANGED building PROVE BuildInv'
<1>1. UNCHANGED <<source, round, depth, files, budget, bodies, scope, reads, follow, packIndex>>
  BY DEF building
<1>2. CASE round = "failed"
  <2>1. LinksAreFollowed' /\ SkillsAreRead' /\ Policy' /\ Listing' /\ Indexed'
    BY <1>1, <1>2 DEF LinksAreFollowed, SkillsAreRead, Policy, Listing, Indexed, Linking, Skilled, Opened
  <2> QED
    BY <1>1, <2>1, SourceSame DEF BuildInv, Shaped
<1>3. CASE round # "failed"
  <2>1. NothingIsLeftOut' = NothingIsLeftOut
    BY <1>1 DEF NothingIsLeftOut
  <2>2. /\ WholeFiles' = WholeFiles /\ WholePaths' = WholePaths /\ WholeManifests' = WholeManifests
        /\ WholeSkills' = WholeSkills /\ BudgetType' = BudgetType /\ Sourced' = Sourced /\ Withheld' = Withheld
        /\ Reached' = Reached
    BY <1>1, SourceSame, WholeSame, ReachedKept
  <2>3. Listing'
    BY <1>1, <2>2 DEF BuildInv, Listing
  <2>4. Policy'
    BY <1>1, <1>3, <2>1, PolicyKept DEF BuildInv, SameWithheld
  <2>5. SkillsAreRead'
    <3>1. round' \in Skilled => SkillsAreRead'
      BY <1>1, <2>1, SkillsKept DEF BuildInv
    <3> QED
      BY <3>1 DEF SkillsAreRead
  <2>6. LinksAreFollowed'
    <3>1. \A p : Served(p)' = Served(p)
      BY <1>1 DEF Served
    <3>2. \A f : LinksOf(f, Withheld)' = LinksOf(f, Withheld)
      BY <2>2 DEF LinksOf
    <3> QED
      BY <1>1, <2>1, <2>2, <3>1, <3>2 DEF BuildInv, LinksAreFollowed
  <2>7. Indexed'
    <3>1. round = "done" => Indexed'
      BY <1>1, IndexKept DEF BuildInv
    <3> QED
      BY <1>1, <3>1 DEF Indexed
  <2> QED
    BY <1>1, <2>2, <2>3, <2>4, <2>5, <2>6, <2>7 DEF BuildInv, Shaped
<1> QED
  BY <1>2, <1>3

LEMMA BuildStepHolds == ASSUME BuildInv, [BuildStep]_building PROVE BuildInv'
BY ReadTreeStep, ReadArchiveStep, ReadManifestsStep, ReadSkillsStep, ReadDocumentsStep, FollowLinksStep,
   LinksEndStep, ReadLicensesStep, ReadResourcesStep, BuildFailsStep, BuildStutters DEF BuildStep

\* Whatever limit a build meets and whatever body it loses, at every round of build-index.ts: each manifest
\* of the repository that had its turn was read, and then all that it excludes is excluded; or its directory
\* was taken out, or closed because nobody could read it; the skills are the documents that were read and that
\* nothing excludes, with what they include; what is followed by links is what the whole repository links to.
THEOREM BuildIsSound == BuildSpec => []BuildInv
<1>1. BuildInit => BuildInv
  BY BuildInitHolds
<1>2. BuildInv /\ [BuildStep]_building => BuildInv'
  BY BuildStepHolds
<1> QED
  BY <1>1, <1>2, PTL DEF BuildSpec

\* A build that is done has read the manifests, the skills and the documents.
LEMMA DoneIsFinished == ASSUME BuildInv, round = "done" PROVE Finished
BY DEF BuildInv, Finished, Followed, Known, Ready, Opened, Skilled, Linking

LEMMA SoundLoosensNothing == ASSUME BuildInv PROVE NothingIsLoosened
BY DoneIsFinished, LoosensNothing DEF NothingIsLoosened

LEMMA SoundKeepsWithin == ASSUME BuildInv PROVE ReadersKeepWithin
<1> SUFFICES ASSUME round = "done", NEW mount \in Mounts
             PROVE  /\ KeepsWithin(mount, FilesGiven(mount, {r.file.path : r \in {q \in IndexedRows : q.kind # "broken"}}), {},
                           WholeRepository, EveryDeclarationRead)
                    /\ \A skill \in SkillRows : SkillTexts(mount, skill) # {} =>
                        KeepsWithin(mount, {skill.file.path}, SkillTexts(mount, skill), WholeRepository, EveryDeclarationRead)
  BY DEF ReadersKeepWithin
<1> QED
  BY DoneIsFinished, GivesNoMore, LoadsNoMore

\* The index of build-index.ts never serves more than the repository would if it was read whole: a tree that
\* was cut, a file too large, a budget that ran out and a body that was lost take away, and never bring back
\* what a manifest excludes or a restrictive license keeps; and an index that is not partial is the whole.
THEOREM IndexLoosensNothing == BuildSpec => []NothingIsLoosened
BY BuildIsSound, SoundLoosensNothing, PTL

\* No route of reader.ts gives, on a mount of any path and trust, a file outside the mount, a file that a
\* manifest withholds, or by its path a file under a restrictive license on a mount nobody vouched for.
THEOREM ReadersGiveNoMore == BuildSpec => []ReadersKeepWithin
BY BuildIsSound, SoundKeepsWithin, PTL

================================================================================
