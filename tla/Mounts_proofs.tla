------------------------------ MODULE Mounts_proofs ------------------------------
(***************************************************************************)
(* Theorems about what an address leads to: the names of repositories, to  *)
(* everyone (RepoNames) and to a person (PrivateNames), and the refs of a  *)
(* repository (Refs), for any number of processes and any times.  The      *)
(* three share no state.                                                   *)
(***************************************************************************)
EXTENDS RepoNames, Refs, PrivateNames, TLAPS

-----------------------------------------------------------------------------
(* Refs *)

\* An answer that is kept, or that a lookup holds on to, is no younger than the commit's time as the
\* ref's; what the host said just now was so just now, because no time passes while it is saved.
KeptIsAged == ref.commit # NoCommit => past[ref.commit] <= ref.age

HeldIsAged ==
    \A p \in RefReplica :
        /\ resolving[p].step = "asks" /\ resolving[p].cached # NoCommit =>
               past[resolving[p].cached] <= resolving[p].age
        /\ resolving[p].step = "saves" => past[resolving[p].commit] = 0

Recent == RefsTypeOK /\ KeptIsAged /\ HeldIsAged /\ ServedIsRecent

\* What can be in resolving.
Resolving ==
    {NotAsking} \union [step: {"asks"}, cached: Commit \union {NoCommit}, age: RefAge]
                \union [step: {"saves"}, commit: Commit]

LEMMA AgesAreNumbers == /\ RefTtl \in Nat /\ RefGrace \in Nat /\ LongAgo \in Nat /\ NoCommit \notin Commit
                        /\ \A a \in RefAge : a \in Nat /\ a <= LongAgo
BY RefsAssumption DEF LongAgo, RefAge

LEMMA RecentInit == RefsInit => Recent
<1> SUFFICES ASSUME RefsInit PROVE Recent
  OBVIOUS
<1>1. 0 \in RefAge /\ LongAgo \in RefAge
  BY AgesAreNumbers DEF RefAge
<1>2. past \in [Commit -> RefAge] /\ past[head] = 0
  BY <1>1 DEF RefsInit
<1>3. RefsTypeOK
  BY <1>1, <1>2 DEF RefsInit, RefsTypeOK, NoRef
<1>4. KeptIsAged /\ ServedIsRecent
  BY DEF RefsInit, KeptIsAged, ServedIsRecent, NoRef
<1>5. HeldIsAged
  BY DEF RefsInit, HeldIsAged, NotAsking
<1> QED
  BY <1>3, <1>4, <1>5 DEF Recent

LEMMA CachedStep == Recent /\ ResolveCached => Recent'
<1> SUFFICES ASSUME Recent, ResolveCached PROVE Recent'
  OBVIOUS
<1>1. past[ref.commit] <= ref.age /\ ref.age < RefTtl /\ ref.age \in RefAge /\ past[ref.commit] \in RefAge /\ ref.commit \in Commit
  BY DEF Recent, RefsTypeOK, KeptIsAged, ResolveCached, Trusted
<1>2. served' = [commit |-> ref.commit, borrowed |-> FALSE, age |-> past[ref.commit]]
  BY DEF ResolveCached, Serve
<1>3. ServedIsRecent'
  <2>1. served'.age < RefTtl + 0 /\ served'.borrowed = FALSE
    BY <1>1, <1>2, AgesAreNumbers
  <2> QED
    BY <2>1 DEF ServedIsRecent
<1>4. RefsTypeOK'
  BY <1>1, <1>2 DEF Recent, RefsTypeOK, ResolveCached
<1> QED
  BY <1>3, <1>4 DEF Recent, ResolveCached, KeptIsAged, HeldIsAged

LEMMA AsksStep == ASSUME NEW p \in RefReplica PROVE Recent /\ ResolveAsks(p) => Recent'
<1> SUFFICES ASSUME Recent, ResolveAsks(p) PROVE Recent'
  OBVIOUS
<1> DEFINE held == [step |-> "asks", cached |-> ref.commit, age |-> ref.age]
<1>1. /\ held \in Resolving /\ held.step = "asks"
      /\ resolving \in [RefReplica -> Resolving] /\ resolving' = [resolving EXCEPT ![p] = held]
  BY DEF Recent, RefsTypeOK, ResolveAsks, Resolving
<1>2. resolving' \in [RefReplica -> Resolving]
  BY <1>1
<1>3. RefsTypeOK'
  BY <1>2 DEF Recent, RefsTypeOK, ResolveAsks, Resolving
<1>4. HeldIsAged'
  BY <1>1 DEF Recent, RefsTypeOK, HeldIsAged, KeptIsAged, ResolveAsks
<1> QED
  BY <1>3, <1>4 DEF Recent, ResolveAsks, KeptIsAged, ServedIsRecent

LEMMA SaysStep == ASSUME NEW p \in RefReplica PROVE Recent /\ HostSays(p) => Recent'
<1> SUFFICES ASSUME Recent, HostSays(p) PROVE Recent'
  OBVIOUS
<1> DEFINE held == [step |-> "saves", commit |-> head]
<1>1. /\ held \in Resolving /\ held.step = "saves" /\ past[head] = 0
      /\ resolving \in [RefReplica -> Resolving] /\ resolving' = [resolving EXCEPT ![p] = held]
  BY DEF Recent, RefsTypeOK, HostSays, Resolving
<1>2. resolving' \in [RefReplica -> Resolving]
  BY <1>1
<1>3. RefsTypeOK'
  BY <1>2 DEF Recent, RefsTypeOK, HostSays, Resolving
<1>4. HeldIsAged'
  BY <1>1 DEF Recent, RefsTypeOK, HeldIsAged, HostSays
<1> QED
  BY <1>3, <1>4 DEF Recent, HostSays, KeptIsAged, ServedIsRecent

\* A lookup that ends leaves what the others hold as it was.
LEMMA LookupEnds ==
    ASSUME NEW p \in RefReplica, Recent, past' = past,
           resolving' = [resolving EXCEPT ![p] = NotAsking]
    PROVE  HeldIsAged' /\ resolving' \in [RefReplica -> Resolving]
<1>1. resolving \in [RefReplica -> Resolving] /\ NotAsking \in Resolving /\ NotAsking.step = "none"
  BY DEF Recent, RefsTypeOK, Resolving, NotAsking
<1> QED
  BY <1>1 DEF Recent, HeldIsAged

LEMMA SilentStep == ASSUME NEW p \in RefReplica PROVE Recent /\ HostIsSilent(p) => Recent'
<1> SUFFICES ASSUME Recent, HostIsSilent(p) PROVE Recent'
  OBVIOUS
<1> DEFINE known == resolving[p]
<1>1. HeldIsAged' /\ resolving' \in [RefReplica -> Resolving]
  BY LookupEnds DEF HostIsSilent
<1>2. known \in [step: {"asks"}, cached: Commit \union {NoCommit}, age: RefAge]
  BY DEF Recent, RefsTypeOK, HostIsSilent, NotAsking
<1>3. CASE Borrowed(known.cached, known.age)
  <2>1. /\ known.cached \in Commit /\ past[known.cached] \in RefAge
        /\ past[known.cached] <= known.age /\ known.age < RefTtl + RefGrace
    BY <1>2, <1>3 DEF Recent, RefsTypeOK, HeldIsAged, Borrowed
  <2>2. served' = [commit |-> known.cached, borrowed |-> TRUE, age |-> past[known.cached]]
    BY <1>3 DEF HostIsSilent, Serve
  <2>3. ServedIsRecent' /\ served' \in {NotServed} \union [commit: Commit, borrowed: BOOLEAN, age: RefAge]
    BY <1>2, <2>1, <2>2, AgesAreNumbers DEF ServedIsRecent
  <2> QED
    BY <1>1, <2>3 DEF Recent, RefsTypeOK, HostIsSilent, KeptIsAged, Resolving
<1>4. CASE ~Borrowed(known.cached, known.age)
  BY <1>1, <1>4 DEF Recent, RefsTypeOK, HostIsSilent, KeptIsAged, ServedIsRecent, Resolving
<1> QED
  BY <1>3, <1>4

LEMMA SaveStep == ASSUME NEW p \in RefReplica PROVE Recent /\ SaveCachedRef(p) => Recent'
<1> SUFFICES ASSUME Recent, SaveCachedRef(p) PROVE Recent'
  OBVIOUS
<1> DEFINE commit == resolving[p].commit
<1>1. HeldIsAged' /\ resolving' \in [RefReplica -> Resolving]
  BY LookupEnds DEF SaveCachedRef
<1>2. commit \in Commit /\ past[commit] = 0
  <2>1. resolving[p] \in [step: {"saves"}, commit: Commit]
    BY DEF Recent, RefsTypeOK, SaveCachedRef, NotAsking
  <2> QED
    BY <2>1 DEF Recent, HeldIsAged, SaveCachedRef
<1>3. Previous(commit) \in Commit \union {NoCommit}
  BY DEF Recent, RefsTypeOK, Previous
<1>4. 0 \in RefAge
  BY AgesAreNumbers DEF RefAge
<1>5. ref' = [commit |-> commit, previous |-> Previous(commit), age |-> 0]
  BY DEF SaveCachedRef
<1>6. served' = [commit |-> commit, borrowed |-> FALSE, age |-> 0]
  BY <1>2 DEF SaveCachedRef, Serve
<1>7. RefsTypeOK'
  <2>1. firm' \in BOOLEAN
    BY DEF Recent, RefsTypeOK, SaveCachedRef
  <2> QED
    BY <1>1, <1>2, <1>3, <1>4, <1>5, <1>6, <2>1 DEF Recent, RefsTypeOK, SaveCachedRef, Resolving
<1>8. KeptIsAged' /\ ServedIsRecent'
  BY <1>2, <1>5, <1>6 DEF KeptIsAged, ServedIsRecent, SaveCachedRef
<1> QED
  BY <1>1, <1>7, <1>8 DEF Recent

LEMMA DiesStep == ASSUME NEW p \in RefReplica PROVE Recent /\ ResolveDies(p) => Recent'
<1> SUFFICES ASSUME Recent, ResolveDies(p) PROVE Recent'
  OBVIOUS
<1>1. HeldIsAged' /\ resolving' \in [RefReplica -> Resolving]
  BY LookupEnds DEF ResolveDies
<1> QED
  BY <1>1 DEF Recent, RefsTypeOK, ResolveDies, KeptIsAged, ServedIsRecent, Resolving

LEMMA IndexesStep == Recent /\ Indexes => Recent'
BY DEF Recent, RefsTypeOK, Indexes, KeptIsAged, HeldIsAged, ServedIsRecent

LEMMA PushStep == Recent /\ Push => Recent'
<1> SUFFICES ASSUME Recent, Push PROVE Recent'
  OBVIOUS
<1>1. PICK c \in Commit \ {head} : head' = c /\ past' = [past EXCEPT ![c] = 0]
  BY DEF Push
<1>2. /\ past \in [Commit -> RefAge] /\ 0 \in RefAge
  BY AgesAreNumbers DEF Recent, RefsTypeOK, RefAge
<1>3. \A d \in Commit : past'[d] <= past[d] /\ (past[d] = 0 => past'[d] = 0)
  BY <1>1, <1>2, AgesAreNumbers
<1>4. RefsTypeOK'
  BY <1>1, <1>2 DEF Recent, RefsTypeOK, Push
<1>5. KeptIsAged'
  BY <1>2, <1>3, <1>4, AgesAreNumbers DEF Recent, RefsTypeOK, KeptIsAged, Push
<1>6. HeldIsAged'
  <2> SUFFICES ASSUME NEW p \in RefReplica
               PROVE  /\ resolving[p].step = "asks" /\ resolving[p].cached # NoCommit =>
                             past'[resolving[p].cached] <= resolving[p].age
                      /\ resolving[p].step = "saves" => past'[resolving[p].commit] = 0
    BY DEF HeldIsAged, Push
  <2>1. ASSUME resolving[p].step = "asks", resolving[p].cached # NoCommit
        PROVE  past'[resolving[p].cached] <= resolving[p].age
    <3>1. resolving[p] \in [step: {"asks"}, cached: Commit \union {NoCommit}, age: RefAge]
      BY <2>1 DEF Recent, RefsTypeOK, NotAsking
    <3>2. resolving[p].cached \in Commit /\ past[resolving[p].cached] <= resolving[p].age
      BY <2>1, <3>1 DEF Recent, HeldIsAged
    <3>3. past'[resolving[p].cached] \in RefAge
      BY <1>4, <3>2 DEF RefsTypeOK
    <3> QED
      BY <1>2, <1>3, <3>1, <3>2, <3>3, AgesAreNumbers
  <2>2. ASSUME resolving[p].step = "saves" PROVE past'[resolving[p].commit] = 0
    <3>1. resolving[p] \in [step: {"saves"}, commit: Commit]
      BY <2>2 DEF Recent, RefsTypeOK, NotAsking
    <3> QED
      BY <1>3, <2>2, <3>1 DEF Recent, HeldIsAged
  <2> QED
    BY <2>1, <2>2
<1> QED
  BY <1>4, <1>5, <1>6 DEF Recent, Push, ServedIsRecent

LEMMA ExpireStep == Recent /\ ExpireRepoRefs => Recent'
<1> SUFFICES ASSUME Recent, ExpireRepoRefs PROVE Recent'
  OBVIOUS
<1>1. /\ ref' = [ref EXCEPT !.age = DueRef(@)]
      /\ ref \in [commit: Commit \union {NoCommit}, previous: Commit \union {NoCommit}, age: RefAge]
  BY DEF ExpireRepoRefs, Recent, RefsTypeOK
<1>2. DueRef(ref.age) \in RefAge /\ ref.age <= DueRef(ref.age)
  BY <1>1, AgesAreNumbers DEF DueRef, RefAge, LongAgo
<1>3. ref' = [commit |-> ref.commit, previous |-> ref.previous, age |-> DueRef(ref.age)]
  BY <1>1
<1>4. RefsTypeOK'
  BY <1>1, <1>2, <1>3 DEF Recent, RefsTypeOK, ExpireRepoRefs
<1>5. KeptIsAged'
  BY <1>1, <1>2, <1>3, AgesAreNumbers DEF Recent, RefsTypeOK, KeptIsAged, ExpireRepoRefs
<1> QED
  BY <1>4, <1>5 DEF Recent, ExpireRepoRefs, HeldIsAged, ServedIsRecent

LEMMA LostStep == Recent /\ PushIsLost => Recent'
BY DEF Recent, RefsTypeOK, PushIsLost, KeptIsAged, HeldIsAged, ServedIsRecent

LEMMA TickStep == Recent /\ RefsTick => Recent'
<1> SUFFICES ASSUME Recent, RefsTick PROVE Recent'
  OBVIOUS
<1> DEFINE later(a) == IF a = LongAgo THEN a ELSE a + 1
<1>1. \A a \in RefAge : later(a) \in RefAge /\ \A b \in RefAge : b <= a => later(b) <= later(a) /\ b <= later(a)
  BY AgesAreNumbers DEF RefAge
<1>2. past \in [Commit -> RefAge] /\ past[head] = 0 /\ head \in Commit
  BY DEF Recent, RefsTypeOK
<1>3. past' = [c \in Commit |-> IF c = head THEN past[c] ELSE later(past[c])]
  BY DEF RefsTick
<1>4. past' \in [Commit -> RefAge] /\ past'[head] = 0
  BY <1>1, <1>2, <1>3
<1>5. /\ ref \in [commit: Commit \union {NoCommit}, previous: Commit \union {NoCommit}, age: RefAge]
      /\ ref' = [commit |-> ref.commit, previous |-> ref.previous, age |-> later(ref.age)]
  BY DEF Recent, RefsTypeOK, RefsTick
<1>6. RefsTypeOK'
  BY <1>1, <1>4, <1>5 DEF Recent, RefsTypeOK, RefsTick
<1>7. KeptIsAged'
  BY <1>1, <1>2, <1>3, <1>5 DEF Recent, KeptIsAged
<1>8. HeldIsAged'
  BY DEF HeldIsAged, RefsTick, NotAsking
<1> QED
  BY <1>6, <1>7, <1>8 DEF Recent, RefsTick, ServedIsRecent

LEMMA RecentStep == Recent /\ [RefsNext]_refs => Recent'
<1> SUFFICES ASSUME Recent, [RefsNext]_refs PROVE Recent'
  OBVIOUS
<1>1. CASE UNCHANGED refs
  BY <1>1 DEF Recent, RefsTypeOK, KeptIsAged, HeldIsAged, ServedIsRecent, refs
<1>2. CASE RefsNext
  BY <1>2, CachedStep, AsksStep, SaysStep, SilentStep, SaveStep, DiesStep, IndexesStep, PushStep,
     ExpireStep, LostStep, TickStep DEF RefsNext
<1> QED
  BY <1>1, <1>2

LEMMA AlwaysRecent == RefsSpec => []Recent
BY RecentInit, RecentStep, PTL DEF RefsSpec

-----------------------------------------------------------------------------

\* The row of the ref, the lookups under way and what is served keep their types.
THEOREM RefTypesHold == RefsSpec => []RefsTypeOK
<1>1. Recent => RefsTypeOK
  BY DEF Recent
<1> QED
  BY <1>1, AlwaysRecent, PTL

\* However lookups of any number of processes, pushes, lost and repeated events and failures of the
\* host interleave, what is served was the ref's commit within the time to live, and within the grace
\* on top of it when it was served on borrowed time.
THEOREM ServedIsRecentHolds == RefsSpec => []ServedIsRecent
<1>1. Recent => ServedIsRecent
  BY DEF Recent
<1> QED
  BY <1>1, AlwaysRecent, PTL

\* A ref that was kept at a commit with an index has one to serve for good.
THEOREM PackStaysHolds == RefsSpec => []PackStays
<1> DEFINE Inv == PackStays /\ indexed \subseteq Commit
<1>1. RefsInit => Inv
  BY DEF RefsInit, PackStays
<1>2. Recent /\ Inv /\ [RefsNext]_refs => Inv'
  <2> SUFFICES ASSUME Recent, PackStays, [RefsNext]_refs PROVE PackStays'
    BY RecentStep DEF Recent, RefsTypeOK
  <2>1. ASSUME NEW p \in RefReplica, SaveCachedRef(p) PROVE PackStays'
    <3> DEFINE commit == resolving[p].commit
    <3>1. /\ ref' = [commit |-> commit, previous |-> Previous(commit), age |-> 0]
          /\ firm' = (firm \/ commit \in indexed) /\ indexed' = indexed
      BY <2>1 DEF SaveCachedRef
    <3>2. indexed \subseteq Commit /\ NoCommit \notin Commit
      BY AgesAreNumbers DEF Recent, RefsTypeOK
    <3>3. CASE commit \in indexed
      BY <3>1, <3>3 DEF PackStays
    <3>4. CASE commit \notin indexed
      BY <3>1, <3>2, <3>4 DEF PackStays, Previous
    <3> QED
      BY <3>3, <3>4
  <2>2. CASE Indexes
    BY <2>2 DEF Indexes, PackStays
  <2>3. ASSUME ref'.commit = ref.commit, ref'.previous = ref.previous, UNCHANGED <<indexed, firm>>
        PROVE  PackStays'
    BY <2>3 DEF PackStays
  <2>4. CASE ExpireRepoRefs
    <3>1. ref'.commit = ref.commit /\ ref'.previous = ref.previous
      BY <2>4 DEF ExpireRepoRefs, Recent, RefsTypeOK
    <3> QED
      BY <2>3, <2>4, <3>1 DEF ExpireRepoRefs
  <2>5. CASE RefsTick
    <3>1. ref'.commit = ref.commit /\ ref'.previous = ref.previous
      BY <2>5 DEF RefsTick, Recent, RefsTypeOK
    <3> QED
      BY <2>3, <2>5, <3>1 DEF RefsTick
  <2>6. CASE UNCHANGED <<ref, indexed, firm>>
    BY <2>6 DEF PackStays
  <2> QED
    BY <2>1, <2>2, <2>4, <2>5, <2>6
    DEF RefsNext, refs, ResolveCached, ResolveAsks, HostSays, HostIsSilent, ResolveDies, Push, PushIsLost
<1>3. Inv => PackStays
  OBVIOUS
<1> QED
  BY <1>1, <1>2, <1>3, AlwaysRecent, PTL DEF RefsSpec

-----------------------------------------------------------------------------
(* RepoNames *)

Row == [repo: Shown, age: Age]
ALookup ==
    {AtRest} \union
    [step: {"noted", "asking", "public", "private", "not_found", "closing", "missing"},
     anyone: BOOLEAN, row: Row]

Answers == {NoAnswer} \union [what: {"found", "missing", "unavailable"}, borrowed: BOOLEAN, age: Age]

\* The host showed this under the name, or nothing, no longer ago than this.
WasSo(x, age) == host.ago[x] <= age

\* A row, if there is one, is no younger than what it says.
RowIsSo(row) == row.repo # None => WasSo(row.repo, row.age)

\* What is kept is no younger than what it says of the name, and what a process or a note still
\* believes missing will not be believed past the time to live.
KeptIsSo ==
    /\ host.ago[host.shows] = 0
    /\ Public(alias.repo) => WasSo(alias.repo, alias.age)
    /\ note # None /\ note < RepoTtl => WasSo(None, note)
    /\ \A p \in Replica : missing[p] > 0 => host.ago[None] + missing[p] <= RepoTtl

\* What a lookup or a person's request has in hand is what the host said a moment ago, or what the
\* lookup read before it asked.
LookupIsSo(l) ==
    l # AtRest =>
        /\ l.step \in {"noted", "asking"} => RowIsSo(l.row)
        /\ l.step \in {"public", "private", "closing"} => l.row.repo # None
        /\ l.step = "public" => WasSo(l.row.repo, 0)
        /\ l.step \in {"private", "not_found", "closing", "missing"} => WasSo(None, 0)

PersonIsSo ==
    /\ person.step \in {"public", "private"} => person.repo # None
    /\ person.step = "public" => WasSo(person.repo, 0)

HeldIsSo == (\A p \in Replica : LookupIsSo(lookup[p])) /\ PersonIsSo

NamedRight ==
    RepoNamesTypeOK /\ KeptIsSo /\ HeldIsSo /\ FoundIsRecent /\ MissingIsRecent /\ ListedIsNamed

LEMMA NameTimes ==
    /\ RepoTtl \in Nat /\ StaleGrace \in Nat /\ Oldest = RepoTtl + StaleGrace /\ Oldest \in Nat /\ None \notin Int
    /\ Age = 0..Oldest /\ 0 \in Age /\ Oldest \in Age /\ RepoTtl \in Age /\ RepoTtl <= Oldest /\ None \notin Age
    /\ None \notin Repository /\ Shown = Repository \union {None}
BY RepoNamesAssumption DEF Oldest, Age, Shown

LEMMA LookupsAre == RepoNamesTypeOK => lookup \in [Replica -> ALookup] /\ told \in Answers /\ alias \in Row
BY DEF RepoNamesTypeOK, ALookup, Answers, Row

LEMMA HostIs == RepoNamesTypeOK => /\ host.shows \in Shown /\ host.ago \in [Shown -> Age]
                                   /\ \A x \in Shown : host.ago[x] \in Age /\ host.ago[x] \in Nat
BY NameTimes DEF RepoNamesTypeOK

LEMMA NowIs == ASSUME NEW r \in Shown PROVE Now(r) \in Row /\ Now(r).repo = r /\ Now(r).age = 0 /\ NoAlias \in Row /\ NoAlias.repo = None
BY NameTimes DEF Now, NoAlias, Row

LEMMA NamesInit == RepoNamesInit => NamedRight
<1> SUFFICES ASSUME RepoNamesInit PROVE NamedRight
  OBVIOUS
<1>1. PICK now \in Shown : host = [shows |-> now, ago |-> [x \in Shown |-> IF x = now THEN 0 ELSE Oldest]]
  BY DEF RepoNamesInit
<1>2. host \in [shows: Shown, ago: [Shown -> Age]] /\ host.ago[host.shows] = 0
  BY <1>1, NameTimes
<1>3. RepoNamesTypeOK
  <2>1. missing \in [Replica -> 0..RepoTtl] /\ lookup \in [Replica -> {AtRest}]
    BY NameTimes DEF RepoNamesInit
  <2>2. alias \in [repo: Shown, age: Age]
    BY NameTimes DEF RepoNamesInit, NoAlias
  <2>3. person \in [step: {"none", "public", "private", "forgets"}, repo: Shown]
    BY NameTimes DEF RepoNamesInit, NoPerson
  <2>4. events \in [sent: SUBSET [what: {"closed", "changed"}, repo: Repository], applying: Shown]
    BY NameTimes DEF RepoNamesInit
  <2> QED
    BY <1>2, <2>1, <2>2, <2>3, <2>4 DEF RepoNamesInit, RepoNamesTypeOK
<1>4. KeptIsSo
  BY <1>2, NameTimes DEF RepoNamesInit, KeptIsSo, Public, NoAlias
<1>5. HeldIsSo
  BY DEF RepoNamesInit, HeldIsSo, LookupIsSo, PersonIsSo, NoPerson
<1>6. FoundIsRecent /\ MissingIsRecent /\ ListedIsNamed
  BY DEF RepoNamesInit, FoundIsRecent, MissingIsRecent, ListedIsNamed, NoAnswer
<1> QED
  BY <1>3, <1>4, <1>5, <1>6 DEF NamedRight

\* An answer that is told for the time it may be told for, or none.
ToldRight(answer) ==
    \/ answer = NoAnswer
    \/ \E b \in BOOLEAN : answer = Told("unavailable", None, b)
    \/ \E r \in Repository :
         /\ answer = Told("found", r, FALSE)
         /\ host.ago[r] = 0 \/ host.ago[r] < RepoTtl
    \/ \E r \in Repository :
         /\ answer = Told("found", r, TRUE)
         /\ host.ago[r] = 0 \/ host.ago[r] < RepoTtl + StaleGrace
    \/ /\ \E b \in BOOLEAN : answer = Told("missing", None, b)
       /\ host.ago[None] = 0 \/ host.ago[None] < RepoTtl

LEMMA ToldIs ==
    ASSUME RepoNamesTypeOK, NEW what \in {"found", "missing", "unavailable"}, NEW x \in Shown, NEW b \in BOOLEAN
    PROVE  /\ Told(what, x, b) \in Answers
           /\ Told(what, x, b).what = what /\ Told(what, x, b).borrowed = b /\ Told(what, x, b).age = host.ago[x]
BY HostIs DEF Told, Answers

LEMMA ToldIsRecent ==
    ASSUME RepoNamesTypeOK, ToldRight(told') PROVE told' \in Answers /\ FoundIsRecent' /\ MissingIsRecent'
<1>1. CASE told' = NoAnswer
  BY <1>1 DEF Answers, FoundIsRecent, MissingIsRecent, NoAnswer
<1>2. ASSUME NEW b \in BOOLEAN, told' = Told("unavailable", None, b)
      PROVE  told' \in Answers /\ FoundIsRecent' /\ MissingIsRecent'
  <2>1. told' \in Answers /\ told'.what = "unavailable"
    BY <1>2, ToldIs, NameTimes
  <2> QED
    BY <2>1 DEF FoundIsRecent, MissingIsRecent
<1>3. ASSUME NEW r \in Repository, told' = Told("found", r, FALSE), host.ago[r] = 0 \/ host.ago[r] < RepoTtl
      PROVE  told' \in Answers /\ FoundIsRecent' /\ MissingIsRecent'
  <2>1. told' \in Answers /\ told'.what = "found" /\ told'.borrowed = FALSE /\ (told'.age = 0 \/ told'.age < RepoTtl)
    BY <1>3, ToldIs, NameTimes
  <2> QED
    BY <2>1, NameTimes DEF FoundIsRecent, MissingIsRecent
<1>4. ASSUME NEW r \in Repository, told' = Told("found", r, TRUE), host.ago[r] = 0 \/ host.ago[r] < RepoTtl + StaleGrace
      PROVE  told' \in Answers /\ FoundIsRecent' /\ MissingIsRecent'
  <2>1. told' \in Answers /\ told'.what = "found" /\ told'.borrowed = TRUE /\ (told'.age = 0 \/ told'.age < RepoTtl + StaleGrace)
    BY <1>4, ToldIs, NameTimes
  <2> QED
    BY <2>1, NameTimes DEF FoundIsRecent, MissingIsRecent
<1>5. ASSUME NEW b \in BOOLEAN, told' = Told("missing", None, b), host.ago[None] = 0 \/ host.ago[None] < RepoTtl
      PROVE  told' \in Answers /\ FoundIsRecent' /\ MissingIsRecent'
  <2>1. told' \in Answers /\ told'.what = "missing" /\ (told'.age = 0 \/ told'.age < RepoTtl)
    BY <1>5, ToldIs, NameTimes
  <2> QED
    BY <2>1 DEF FoundIsRecent, MissingIsRecent
<1> QED
  BY <1>1, <1>2, <1>3, <1>4, <1>5 DEF ToldRight

-----------------------------------------------------------------------------

\* A lookup goes on or ends while the host is as it is: what is left to show is that what it has in
\* hand next, what is kept and what is told are right, and that no public row loses its name.
LEMMA LookupGoes ==
    ASSUME NamedRight, NEW p \in Replica, NEW l \in ALookup, LookupIsSo(l), lookup' = [lookup EXCEPT ![p] = l],
           UNCHANGED <<host, person, events>>, ToldRight(told'), KeptIsSo', ListedIsNamed',
           alias' \in Row, visibility' \in [Repository -> {"unseen", "public", "private"}],
           note' \in 0..RepoTtl \union {None},
           missing' \in [Replica -> 0..RepoTtl], adrift' \subseteq Repository
    PROVE  NamedRight'
<1>1. lookup \in [Replica -> ALookup] /\ lookup' \in [Replica -> ALookup]
  BY LookupsAre DEF NamedRight
<1>2. told' \in Answers /\ FoundIsRecent' /\ MissingIsRecent'
  BY ToldIsRecent DEF NamedRight
<1>3. RepoNamesTypeOK'
  BY <1>1, <1>2 DEF NamedRight, RepoNamesTypeOK, ALookup, Answers, Row
<1>4. HeldIsSo'
  BY <1>1 DEF NamedRight, HeldIsSo, LookupIsSo, PersonIsSo, RowIsSo, WasSo
<1> QED
  BY <1>2, <1>3, <1>4 DEF NamedRight

LEMMA RowsStay ==
    ASSUME NamedRight, UNCHANGED <<host, alias, visibility, note, missing, adrift>>
    PROVE  /\ KeptIsSo' /\ alias' \in Row /\ visibility' \in [Repository -> {"unseen", "public", "private"}]
           /\ note' \in 0..RepoTtl \union {None} /\ missing' \in [Replica -> 0..RepoTtl] /\ adrift' \subseteq Repository
BY LookupsAre DEF NamedRight, KeptIsSo, WasSo, Public, RepoNamesTypeOK

\* A lookup that does not close loses nothing by going on.
LEMMA OtherCloses ==
    ASSUME NamedRight, NEW p \in Replica, NEW l, lookup' = [lookup EXCEPT ![p] = l], lookup[p].step # "closing",
           UNCHANGED <<alias, visibility, adrift>>
    PROVE  ListedIsNamed'
<1>1. lookup \in [Replica -> ALookup]
  BY LookupsAre DEF NamedRight
<1> QED
  BY <1>1 DEF NamedRight, ListedIsNamed

LEMMA ALookupIs ==
    ASSUME NamedRight, NEW p \in Replica
    PROVE  /\ lookup[p] \in ALookup /\ LookupIsSo(lookup[p]) /\ AtRest \in ALookup /\ LookupIsSo(AtRest)
           /\ lookup[p].step # "none" =>
                /\ lookup[p] # AtRest /\ lookup[p].anyone \in BOOLEAN
                /\ lookup[p].row \in Row /\ lookup[p].row.repo \in Shown /\ lookup[p].row.age \in Age
<1>1. lookup[p] \in ALookup /\ LookupIsSo(lookup[p])
  BY LookupsAre DEF NamedRight, HeldIsSo
<1>2. AtRest \in ALookup /\ LookupIsSo(AtRest)
  BY DEF ALookup, LookupIsSo
<1>3. ASSUME NEW l \in ALookup, l.step # "none"
      PROVE  l # AtRest /\ l.anyone \in BOOLEAN /\ l.row \in Row /\ l.row.repo \in Shown /\ l.row.age \in Age
  BY <1>3 DEF ALookup, AtRest, Row
<1> QED
  BY <1>1, <1>2, <1>3

LEMMA FreshIsSo ==
    ASSUME NamedRight
    PROVE  /\ CachedPublic \in Row /\ RowIsSo(CachedPublic)
           /\ Fresh => alias.repo \in Repository /\ host.ago[alias.repo] < RepoTtl
<1>1. alias \in Row /\ NoAlias \in Row /\ NoAlias.repo = None
  BY LookupsAre, NowIs, NameTimes DEF NamedRight
<1>2. CachedPublic \in Row /\ RowIsSo(CachedPublic)
  BY <1>1 DEF NamedRight, CachedPublic, KeptIsSo, RowIsSo
<1>3. ASSUME Fresh PROVE alias.repo \in Repository /\ host.ago[alias.repo] < RepoTtl
  <2>1. alias.repo \in Repository /\ WasSo(alias.repo, alias.age) /\ alias.age < RepoTtl /\ alias.age \in Nat
    BY <1>1, <1>3, NameTimes DEF Fresh, Public, Row, NamedRight, KeptIsSo
  <2>2. host.ago[alias.repo] \in Nat
    BY <2>1, HostIs, NameTimes DEF NamedRight
  <2> QED
    BY <2>1, <2>2, NameTimes DEF WasSo
<1> QED
  BY <1>2, <1>3

LEMMA LookStep == ASSUME NamedRight, NEW p \in Replica, NEW anyone \in BOOLEAN, Look(p, anyone) PROVE NamedRight'
<1> USE DEF Look
<1>1. AtRest \in ALookup /\ LookupIsSo(AtRest) /\ lookup = [lookup EXCEPT ![p] = AtRest]
  BY ALookupIs, LookupsAre DEF NamedRight
<1>2. lookup[p].step # "closing"
  BY DEF AtRest
<1>3. CASE Fresh
  <2>1. ToldRight(told')
    BY <1>3, FreshIsSo DEF ToldRight
  <2>2. lookup' = [lookup EXCEPT ![p] = AtRest]
    BY <1>1, <1>3
  <2> QED
    BY <1>1, <1>2, <2>1, <2>2, RowsStay, OtherCloses, LookupGoes
<1>4. CASE ~Fresh
  <2> DEFINE l == [step |-> "noted", anyone |-> anyone, row |-> CachedPublic]
  <2>1. l \in ALookup /\ LookupIsSo(l)
    <3> HIDE DEF CachedPublic
    <3> QED
      BY FreshIsSo DEF ALookup, LookupIsSo
  <2>2. ToldRight(told') /\ lookup' = [lookup EXCEPT ![p] = l]
    BY <1>4 DEF ToldRight
  <2> HIDE DEF l
  <2> QED
    BY <1>2, <2>1, <2>2, RowsStay, OtherCloses, LookupGoes
<1> QED
  BY <1>3, <1>4

\* The next step of a lookup that has more to do.
NextOf(p, step, row) == [step |-> step, anyone |-> lookup[p].anyone, row |-> row]

LEMMA NextIs ==
    ASSUME NamedRight, NEW p \in Replica, lookup[p].step # "none", NEW row \in Row,
           NEW step \in {"noted", "asking", "public", "private", "not_found", "closing", "missing"},
           step \in {"noted", "asking"} => RowIsSo(row),
           step \in {"public", "private", "closing"} => row.repo # None,
           step = "public" => WasSo(row.repo, 0),
           step \in {"private", "not_found", "closing", "missing"} => WasSo(None, 0),
           Goes(p, step, row)
    PROVE  /\ NextOf(p, step, row) \in ALookup /\ LookupIsSo(NextOf(p, step, row))
           /\ lookup' = [lookup EXCEPT ![p] = NextOf(p, step, row)] /\ ToldRight(told')
<1>1. lookup[p].anyone \in BOOLEAN
  BY ALookupIs
<1>2. NextOf(p, step, row) \in ALookup
  BY <1>1 DEF NextOf, ALookup
<1>3. NextOf(p, step, row).step = step /\ NextOf(p, step, row).row = row
  BY DEF NextOf
<1>4. lookup' = [lookup EXCEPT ![p] = NextOf(p, step, row)] /\ ToldRight(told')
  BY DEF NextOf, ToldRight, Goes
<1>5. LookupIsSo(NextOf(p, step, row))
  <2> HIDE DEF NextOf
  <2> QED
    BY <1>3 DEF LookupIsSo
<1> QED
  BY <1>2, <1>4, <1>5

LEMMA LookMissingStep == ASSUME NamedRight, NEW p \in Replica, LookMissing(p) PROVE NamedRight'
<1> USE DEF LookMissing
<1>1. AtRest \in ALookup /\ LookupIsSo(AtRest) /\ lookup' = [lookup EXCEPT ![p] = AtRest]
  BY ALookupIs, LookupsAre DEF NamedRight
<1>2. lookup[p].step # "closing"
  BY DEF AtRest
<1>3. ToldRight(told')
  <2>1. missing[p] \in Nat /\ missing[p] > 0 /\ host.ago[None] \in Nat /\ host.ago[None] + missing[p] <= RepoTtl
    BY HostIs, NameTimes DEF NamedRight, RepoNamesTypeOK, KeptIsSo
  <2>2. host.ago[None] < RepoTtl
    BY <2>1, NameTimes
  <2> QED
    BY <2>2 DEF ToldRight
<1> QED
  BY <1>1, <1>2, <1>3, RowsStay, OtherCloses, LookupGoes

LEMMA ReadNoteStep == ASSUME NamedRight, NEW p \in Replica, ReadNote(p) PROVE NamedRight'
<1> USE DEF ReadNote
<1>1. CASE note # None /\ note < RepoTtl
  <2>1. note \in Nat /\ host.ago[None] \in Nat /\ host.ago[None] <= note /\ note < RepoTtl
    BY <1>1, HostIs, NameTimes DEF NamedRight, RepoNamesTypeOK, KeptIsSo, WasSo
  <2>2. ToldRight(told')
    <3>1. host.ago[None] < RepoTtl /\ told' = Told("missing", None, FALSE)
      BY <1>1, <2>1, NameTimes DEF Answer
    <3> QED
      BY <3>1 DEF ToldRight
  <2>3. missing' = [missing EXCEPT ![p] = RepoTtl - note] /\ RepoTtl - note \in 0..RepoTtl
    BY <1>1, <2>1, NameTimes DEF Remaining
  <2>4. missing' \in [Replica -> 0..RepoTtl]
    BY <2>3 DEF NamedRight, RepoNamesTypeOK
  <2>5. KeptIsSo'
    <3>1. ASSUME NEW q \in Replica, missing'[q] > 0 PROVE host.ago[None] + missing'[q] <= RepoTtl
      <4>1. CASE q = p
        <5>1. missing'[q] = RepoTtl - note
          BY <2>3, <4>1 DEF NamedRight, RepoNamesTypeOK
        <5> QED
          BY <2>1, <5>1, NameTimes
      <4>2. CASE q # p
        BY <2>3, <3>1, <4>2 DEF NamedRight, RepoNamesTypeOK, KeptIsSo
      <4> QED
        BY <4>1, <4>2
    <3> QED
      BY <3>1 DEF NamedRight, KeptIsSo, WasSo, Public
  <2> QED
    <3>1. lookup' = [lookup EXCEPT ![p] = AtRest] /\ lookup[p].step # "closing"
      BY <1>1 DEF Answer
    <3>2. ListedIsNamed'
      BY <3>1, OtherCloses
    <3>3. /\ alias' \in Row /\ visibility' \in [Repository -> {"unseen", "public", "private"}]
          /\ note' \in 0..RepoTtl \union {None} /\ adrift' \subseteq Repository
      BY LookupsAre DEF NamedRight, RepoNamesTypeOK
    <3> QED
      BY <2>2, <2>4, <2>5, <3>1, <3>2, <3>3, ALookupIs, LookupGoes
<1>2. CASE ~(note # None /\ note < RepoTtl)
  <2> DEFINE l == NextOf(p, "asking", lookup[p].row)
  <2>1. Goes(p, "asking", lookup[p].row)
    BY <1>2
  <2>2. lookup[p].step = "noted" /\ lookup[p] # AtRest /\ lookup[p].row \in Row /\ RowIsSo(lookup[p].row)
    BY ALookupIs DEF LookupIsSo
  <2>3. l \in ALookup /\ LookupIsSo(l) /\ lookup' = [lookup EXCEPT ![p] = l] /\ ToldRight(told')
    BY <2>1, <2>2, NextIs
  <2> HIDE DEF l
  <2> QED
    BY <1>2, <2>2, <2>3, RowsStay, OtherCloses, LookupGoes
<1> QED
  BY <1>1, <1>2

LEMMA AskedStep == ASSUME NamedRight, NEW p \in Replica, Asked(p) PROVE NamedRight'
<1> USE DEF Asked
<1>1. lookup[p].step = "asking" /\ lookup[p].row.repo \in Shown
  BY ALookupIs
<1>2. WasSo(host.shows, 0)
  BY NameTimes DEF NamedRight, KeptIsSo, WasSo
<1>3. PICK l \in ALookup : LookupIsSo(l) /\ lookup' = [lookup EXCEPT ![p] = l] /\ ToldRight(told')
  <2>1. CASE host.shows # None
    <3>1. host.shows \in Shown /\ Now(host.shows) \in Row /\ Now(host.shows).repo = host.shows
      BY HostIs, NowIs DEF NamedRight
    <3> QED
      BY <1>1, <1>2, <2>1, <3>1, NextIs
  <2>2. ASSUME host.shows = None, Goes(p, "not_found", [lookup[p].row EXCEPT !.age = Oldest])
        PROVE  \E l \in ALookup : LookupIsSo(l) /\ lookup' = [lookup EXCEPT ![p] = l] /\ ToldRight(told')
    <3>1. [lookup[p].row EXCEPT !.age = Oldest] \in Row
      BY <1>1, ALookupIs, NameTimes DEF Row
    <3> QED
      BY <1>1, <1>2, <2>2, <3>1, NextIs
  <2>3. ASSUME NEW r \in Repository, host.shows = None, Goes(p, "private", Now(r))
        PROVE  \E l \in ALookup : LookupIsSo(l) /\ lookup' = [lookup EXCEPT ![p] = l] /\ ToldRight(told')
    <3>1. Now(r) \in Row /\ Now(r).repo = r /\ r # None
      BY NowIs, NameTimes
    <3> QED
      BY <1>1, <1>2, <2>3, <3>1, NextIs
  <2> QED
    BY <2>1, <2>2, <2>3
<1> QED
  BY <1>1, <1>3, RowsStay, OtherCloses, LookupGoes

LEMMA NotAskedStep == ASSUME NamedRight, NEW p \in Replica, NotAsked(p) PROVE NamedRight'
<1> USE DEF NotAsked
<1>1. lookup' = [lookup EXCEPT ![p] = AtRest]
  BY DEF Answer
<1>2. ToldRight(told')
  <2>1. CASE Borrowable(lookup[p].row)
    <3>1. lookup[p] # AtRest /\ lookup[p].row.repo \in Repository /\ lookup[p].row.age \in Nat /\ LookupIsSo(lookup[p])
      BY <2>1, ALookupIs, NameTimes DEF Borrowable
    <3>2. host.ago[lookup[p].row.repo] <= lookup[p].row.age /\ host.ago[lookup[p].row.repo] \in Nat
      BY <3>1, HostIs, NameTimes DEF LookupIsSo, RowIsSo, WasSo, NamedRight
    <3>3. host.ago[lookup[p].row.repo] < RepoTtl + StaleGrace
      BY <2>1, <3>1, <3>2, NameTimes DEF Borrowable
    <3> QED
      BY <2>1, <3>1, <3>3 DEF ToldRight, Answer
  <2>2. CASE ~Borrowable(lookup[p].row)
    BY <2>2 DEF ToldRight, Answer
  <2> QED
    BY <2>1, <2>2
<1> QED
  BY <1>1, <1>2, ALookupIs, RowsStay, OtherCloses, LookupGoes

\* A lookup that found nothing tells so, or goes on to write it down.
LEMMA NothingIs ==
    ASSUME NamedRight, NEW p \in Replica, lookup[p].step # "none", WasSo(None, 0), Nothing(p)
    PROVE  \E l \in ALookup : LookupIsSo(l) /\ lookup' = [lookup EXCEPT ![p] = l] /\ ToldRight(told')
<1>1. CASE lookup[p].anyone
  <2>1. NoAlias \in Row /\ Goes(p, "missing", NoAlias)
    BY <1>1, NowIs, NameTimes DEF Nothing
  <2> QED
    BY <2>1, NextIs
<1>2. CASE ~lookup[p].anyone
  <2>1. host.ago[None] = 0
    BY HostIs, NameTimes DEF NamedRight, WasSo
  <2> QED
    BY <1>2, <2>1, ALookupIs DEF Nothing, Answer, ToldRight
<1> QED
  BY <1>1, <1>2

\* What is saved under the name is what the host showed a moment ago; what loses the name is noticed.
LEMMA SaveIs ==
    ASSUME NamedRight, NEW repo \in Repository, NEW as \in {"public", "private"}, as = "public" => WasSo(repo, 0),
           Save(repo, as), UNCHANGED <<host, note, missing>>
    PROVE  /\ KeptIsSo' /\ alias' \in Row /\ visibility' \in [Repository -> {"unseen", "public", "private"}]
           /\ adrift' \subseteq Repository
           /\ \A r \in Repository : visibility'[r] = "public" =>
                alias'.repo = r \/ r \in adrift'
                \/ (visibility[r] = "public" /\ alias.repo # r /\ r \notin adrift)
<1>1. alias' = Now(repo) /\ alias' \in Row /\ alias'.repo = repo /\ alias'.age = 0
  BY NowIs, NameTimes DEF Save
<1>2. visibility' = [visibility EXCEPT ![repo] = as] /\ visibility \in [Repository -> {"unseen", "public", "private"}]
  BY DEF Save, NamedRight, RepoNamesTypeOK
<1>3. adrift' = (adrift \union Losing(repo)) \ {repo}
  BY DEF Save
<1>4. alias \in Row /\ alias.repo \in Shown
  BY LookupsAre DEF NamedRight, Row
<1>5. adrift' \subseteq Repository
  BY <1>3, <1>4, NameTimes DEF NamedRight, RepoNamesTypeOK, Losing, Public
<1>6. KeptIsSo'
  BY <1>1, <1>2 DEF NamedRight, KeptIsSo, WasSo, Public
<1>7. ASSUME NEW r \in Repository, visibility'[r] = "public", r # repo, alias.repo = r PROVE r \in adrift'
  <2>1. Public(r)
    BY <1>2, <1>7, NameTimes DEF Public
  <2> QED
    BY <1>3, <1>7, <2>1 DEF Losing
<1> QED
  BY <1>1, <1>2, <1>3, <1>5, <1>6, <1>7

LEMMA SaveRepositoryStep == ASSUME NamedRight, NEW p \in Replica, SaveRepository(p) PROVE NamedRight'
<1> DEFINE repo == lookup[p].row.repo
           as == lookup[p].step
<1>0. /\ as \in {"public", "private"} /\ Save(repo, as) /\ UNCHANGED <<host, note, missing, person, events>>
      /\ IF as = "public" THEN Answer(p, "found", repo, FALSE) ELSE Nothing(p)
  BY DEF SaveRepository
<1>1. repo \in Repository /\ (as = "public" => WasSo(repo, 0)) /\ (as = "private" => WasSo(None, 0))
  BY <1>0, ALookupIs, NameTimes DEF LookupIsSo
<1>2. PICK l \in ALookup : LookupIsSo(l) /\ lookup' = [lookup EXCEPT ![p] = l] /\ ToldRight(told')
  <2>1. CASE as = "public"
    <3>1. host.ago[repo] = 0
      BY <1>1, <2>1, HostIs, NameTimes DEF NamedRight, WasSo
    <3> QED
      BY <1>0, <1>1, <2>1, <3>1, ALookupIs DEF Answer, ToldRight
  <2>2. CASE as = "private"
    BY <1>0, <1>1, <2>2, NothingIs
  <2> QED
    BY <1>0, <2>1, <2>2
<1> HIDE DEF repo
<1>3. /\ KeptIsSo' /\ alias' \in Row /\ visibility' \in [Repository -> {"unseen", "public", "private"}]
      /\ adrift' \subseteq Repository
      /\ \A r \in Repository : visibility'[r] = "public" =>
           alias'.repo = r \/ r \in adrift' \/ (visibility[r] = "public" /\ alias.repo # r /\ r \notin adrift)
  BY <1>0, <1>1, SaveIs
<1>4. ListedIsNamed'
  <2>1. lookup \in [Replica -> ALookup]
    BY LookupsAre DEF NamedRight
  <2>2. ASSUME NEW r \in Repository, NEW q \in Replica, lookup[q].step = "closing", lookup[q].row.repo = r
        PROVE  lookup'[q].step = "closing" /\ lookup'[q].row.repo = r
    BY <1>0, <1>2, <2>1, <2>2
  <2> QED
    BY <1>3, <2>2 DEF NamedRight, ListedIsNamed
<1>5. note' \in 0..RepoTtl \union {None} /\ missing' \in [Replica -> 0..RepoTtl] /\ UNCHANGED <<host, person, events>>
  BY <1>0 DEF NamedRight, RepoNamesTypeOK
<1> QED
  BY <1>2, <1>3, <1>4, <1>5, LookupGoes

LEMMA DeleteAliasStep == ASSUME NamedRight, NEW p \in Replica, DeleteAlias(p) PROVE NamedRight'
<1> USE DEF DeleteAlias
<1>1. WasSo(None, 0) /\ lookup[p].row \in Row /\ lookup[p].row.repo \in Shown
  BY ALookupIs DEF LookupIsSo
<1>2. CASE lookup[p].row.repo = None
  <2>1. PICK l \in ALookup : LookupIsSo(l) /\ lookup' = [lookup EXCEPT ![p] = l] /\ ToldRight(told')
    BY <1>1, <1>2, NothingIs
  <2> QED
    BY <1>2, <2>1, RowsStay, OtherCloses, LookupGoes
<1>3. CASE lookup[p].row.repo # None
  <2> DEFINE l == NextOf(p, "closing", lookup[p].row)
  <2>1. l \in ALookup /\ LookupIsSo(l) /\ lookup' = [lookup EXCEPT ![p] = l] /\ ToldRight(told')
    BY <1>1, <1>3, NextIs
  <2>2. alias' = NoAlias /\ adrift' = adrift \union Losing(lookup[p].row.repo) /\ UNCHANGED <<host, visibility, note, missing, person, events>>
    BY <1>3
  <2>3. alias' \in Row /\ alias'.repo = None /\ alias.repo \in Shown
    BY <2>2, LookupsAre, NowIs, NameTimes DEF NamedRight, Row
  <2>4. KeptIsSo'
    BY <2>2, <2>3 DEF NamedRight, KeptIsSo, WasSo, Public
  <2>5. lookup \in [Replica -> ALookup] /\ l.step = "closing" /\ l.row = lookup[p].row
    BY LookupsAre DEF NamedRight, NextOf
  <2>6. adrift' \subseteq Repository
    BY <2>2, <2>3, NameTimes DEF NamedRight, RepoNamesTypeOK, Losing, Public
  <2> HIDE DEF l
  <2>7. ASSUME NEW r \in Repository, visibility'[r] = "public"
        PROVE  r \in adrift' \/ \E q \in Replica : lookup'[q].step = "closing" /\ lookup'[q].row.repo = r
    <3>1. CASE alias.repo = r /\ r # lookup[p].row.repo
      BY <2>2, <2>7, <3>1, NameTimes DEF Losing, Public
    <3>2. CASE r = lookup[p].row.repo
      BY <2>1, <2>5, <3>2
    <3>3. ASSUME NEW q \in Replica, lookup[q].step = "closing", lookup[q].row.repo = r
          PROVE  lookup'[q].step = "closing" /\ lookup'[q].row.repo = r
      BY <2>1, <2>5, <3>3
    <3> QED
      BY <2>2, <2>7, <3>1, <3>2, <3>3 DEF NamedRight, ListedIsNamed
  <2>8. ListedIsNamed'
    BY <2>7 DEF ListedIsNamed
  <2>9. /\ visibility' \in [Repository -> {"unseen", "public", "private"}] /\ note' \in 0..RepoTtl \union {None}
        /\ missing' \in [Replica -> 0..RepoTtl]
    BY <2>2 DEF NamedRight, RepoNamesTypeOK
  <2> QED
    BY <2>1, <2>2, <2>3, <2>4, <2>6, <2>8, <2>9, LookupGoes
<1> QED
  BY <1>2, <1>3

\* What is written down as public no longer is listed no longer, and nothing else changes.
LEMMA NotPublicIs ==
    ASSUME NamedRight, NEW repo \in Repository
    PROVE  /\ NotPublic(repo) \in [Repository -> {"unseen", "public", "private"}] /\ NotPublic(repo)[repo] # "public"
           /\ \A r \in Repository : NotPublic(repo)[r] = "public" => visibility[r] = "public" /\ r # repo
BY DEF NotPublic, NamedRight, RepoNamesTypeOK

LEMMA CloseStep == ASSUME NamedRight, NEW p \in Replica, Close(p) PROVE NamedRight'
<1> DEFINE repo == lookup[p].row.repo
<1>0. /\ lookup[p].step = "closing" /\ visibility' = NotPublic(repo) /\ adrift' = adrift \ {repo} /\ Nothing(p)
      /\ UNCHANGED <<host, alias, note, missing, person, events>>
  BY DEF Close
<1>1. WasSo(None, 0) /\ repo \in Repository
  BY <1>0, ALookupIs, NameTimes DEF LookupIsSo
<1>2. PICK l \in ALookup : LookupIsSo(l) /\ lookup' = [lookup EXCEPT ![p] = l] /\ ToldRight(told')
  BY <1>0, <1>1, NothingIs
<1>3. /\ visibility' \in [Repository -> {"unseen", "public", "private"}]
      /\ \A r \in Repository : visibility'[r] = "public" => visibility[r] = "public" /\ r # repo
  BY <1>0, <1>1, NotPublicIs
<1>4. lookup \in [Replica -> ALookup] /\ alias \in Row /\ alias.repo \in Shown
  BY LookupsAre DEF NamedRight, Row
<1>5. KeptIsSo'
  BY <1>0, <1>3, <1>4, NameTimes DEF NamedRight, KeptIsSo, WasSo, Public
<1>6. ListedIsNamed'
  <2>1. ASSUME NEW r \in Repository, r # repo, NEW q \in Replica, lookup[q].step = "closing", lookup[q].row.repo = r
        PROVE  lookup'[q].step = "closing" /\ lookup'[q].row.repo = r
    BY <1>2, <1>4, <2>1
  <2> QED
    BY <1>0, <1>3, <2>1 DEF NamedRight, ListedIsNamed
<1>7. /\ alias' \in Row /\ note' \in 0..RepoTtl \union {None} /\ missing' \in [Replica -> 0..RepoTtl]
      /\ adrift' \subseteq Repository /\ UNCHANGED <<host, person, events>>
  BY <1>0, <1>4 DEF NamedRight, RepoNamesTypeOK
<1> QED
  BY <1>2, <1>3, <1>5, <1>6, <1>7, LookupGoes

LEMMA NoteMissingStep == ASSUME NamedRight, NEW p \in Replica, NoteMissing(p) PROVE NamedRight'
<1> USE DEF NoteMissing
<1>1. host.ago[None] = 0
  BY ALookupIs, HostIs, NameTimes DEF LookupIsSo, NamedRight, WasSo
<1>2. lookup' = [lookup EXCEPT ![p] = AtRest] /\ ToldRight(told')
  BY <1>1 DEF Answer, ToldRight
<1>3. missing' = [missing EXCEPT ![p] = RepoTtl] /\ missing' \in [Replica -> 0..RepoTtl]
  BY NameTimes DEF NamedRight, RepoNamesTypeOK
<1>4. KeptIsSo'
  <2>1. ASSUME NEW q \in Replica, missing'[q] > 0 PROVE host.ago[None] + missing'[q] <= RepoTtl
    <3>1. CASE q = p
      <4>1. missing'[q] = RepoTtl
        BY <1>3, <3>1 DEF NamedRight, RepoNamesTypeOK
      <4> QED
        BY <1>1, <4>1, NameTimes
    <3>2. CASE q # p
      BY <1>3, <2>1, <3>2 DEF NamedRight, RepoNamesTypeOK, KeptIsSo
    <3> QED
      BY <3>1, <3>2
  <2> QED
    BY <1>1, <2>1, NameTimes DEF NamedRight, KeptIsSo, WasSo, Public
<1>5. ListedIsNamed'
  BY <1>2, OtherCloses
<1> QED
  <2>1. /\ alias' \in Row /\ visibility' \in [Repository -> {"unseen", "public", "private"}]
        /\ note' \in 0..RepoTtl \union {None} /\ adrift' \subseteq Repository
    BY LookupsAre, NameTimes DEF NamedRight, RepoNamesTypeOK
  <2>2. AtRest \in ALookup /\ LookupIsSo(AtRest)
    BY ALookupIs
  <2>3. UNCHANGED <<host, person, events>>
    OBVIOUS
  <2> HIDE DEF NoteMissing
  <2> QED
    BY <1>2, <1>3, <1>4, <1>5, <2>1, <2>2, <2>3, LookupGoes

LEMMA RestartStep == ASSUME NamedRight, NEW p \in Replica, Restart(p) PROVE NamedRight'
<1> USE DEF Restart
<1>1. missing' \in [Replica -> 0..RepoTtl] /\ \A q \in Replica : missing'[q] \in {0, missing[q]}
  BY NameTimes DEF NamedRight, RepoNamesTypeOK
<1>2. KeptIsSo'
  BY <1>1 DEF NamedRight, KeptIsSo, WasSo, Public
<1>3. lookup \in [Replica -> ALookup]
  BY LookupsAre DEF NamedRight
<1>4. adrift' \subseteq Repository
  BY ALookupIs, NameTimes DEF NamedRight, RepoNamesTypeOK, LookupIsSo
<1>5. ListedIsNamed'
  <2>1. ASSUME NEW q \in Replica, lookup[q].step = "closing", q # p
        PROVE  lookup'[q] = lookup[q]
    BY <1>3, <2>1
  <2> QED
    BY <2>1 DEF NamedRight, ListedIsNamed
<1>6. ToldRight(told')
  BY DEF ToldRight
<1> QED
  BY <1>1, <1>2, <1>4, <1>5, <1>6, ALookupIs, LookupGoes, LookupsAre DEF NamedRight, RepoNamesTypeOK

-----------------------------------------------------------------------------

\* Steps that no lookup takes.
LEMMA OthersGo ==
    ASSUME NamedRight, UNCHANGED lookup, RepoNamesTypeOK', KeptIsSo', ListedIsNamed', FoundIsRecent', MissingIsRecent',
           PersonIsSo', \A l \in ALookup : LookupIsSo(l) => LookupIsSo(l)'
    PROVE  NamedRight'
<1>1. HeldIsSo'
  BY LookupsAre DEF NamedRight, HeldIsSo
<1> QED
  BY <1>1 DEF NamedRight

LEMMA SameHost == ASSUME UNCHANGED host, NEW l, LookupIsSo(l) PROVE LookupIsSo(l)'
BY DEF LookupIsSo, WasSo, RowIsSo

LEMMA KnownPublicStep == ASSUME NamedRight, KnownPublic PROVE NamedRight'
<1> USE DEF KnownPublic
<1>1. told' \in Answers /\ FoundIsRecent' /\ MissingIsRecent'
  BY FreshIsSo, ToldIsRecent DEF ToldRight, NamedRight
<1> QED
  BY <1>1, RowsStay, SameHost, OthersGo
     DEF NamedRight, RepoNamesTypeOK, Answers, ListedIsNamed, HeldIsSo, PersonIsSo, WasSo

LEMMA Untold == ASSUME told' = NoAnswer PROVE told' \in Answers /\ FoundIsRecent' /\ MissingIsRecent'
BY DEF NoAnswer, Answers, FoundIsRecent, MissingIsRecent

LEMMA PersonReadsStep == ASSUME NamedRight, PersonReads \/ PersonMisses PROVE NamedRight'
<1>1. UNCHANGED <<host, alias, visibility, note, missing, lookup, events, adrift>> /\ told' = NoAnswer
  BY DEF PersonReads, PersonMisses
<1>2. person' \in [step: {"none", "public", "private", "forgets"}, repo: Shown] /\ PersonIsSo'
  <2>1. host.shows \in Shown /\ host'.ago[host.shows] <= 0
    BY <1>1, HostIs, NameTimes DEF NamedRight, KeptIsSo
  <2> QED
    BY <2>1, NameTimes DEF PersonReads, PersonMisses, PersonIsSo, WasSo
<1>3. RepoNamesTypeOK' /\ ListedIsNamed'
  BY <1>1, <1>2 DEF NamedRight, RepoNamesTypeOK, ListedIsNamed
<1> QED
  BY <1>1, <1>2, <1>3, RowsStay, Untold, SameHost, OthersGo

LEMMA PersonEndsStep == ASSUME NamedRight, PersonSaves \/ PersonForgets PROVE NamedRight'
<1>1. UNCHANGED <<host, note, missing, lookup, events>> /\ told' = NoAnswer /\ person' = NoPerson
  BY DEF PersonSaves, PersonForgets
<1>2. /\ KeptIsSo' /\ alias' \in Row /\ visibility' \in [Repository -> {"unseen", "public", "private"}]
      /\ adrift' \subseteq Repository
      /\ \A r \in Repository : visibility'[r] = "public" =>
           alias'.repo = r \/ r \in adrift' \/ (visibility[r] = "public" /\ alias.repo # r /\ r \notin adrift)
  <2>1. CASE PersonSaves
    <3> DEFINE repo == person.repo
               as == person.step
    <3>1. Save(repo, as) /\ as \in {"public", "private"}
      BY <2>1 DEF PersonSaves
    <3>2. repo \in Repository /\ (as = "public" => WasSo(repo, 0))
      BY <3>1, NameTimes DEF NamedRight, RepoNamesTypeOK, HeldIsSo, PersonIsSo
    <3> HIDE DEF repo, as
    <3> QED
      BY <1>1, <3>1, <3>2, SaveIs
  <2>2. CASE PersonForgets
    <3>1. alias' = NoAlias /\ adrift' = adrift \union Losing(None) /\ UNCHANGED visibility
      BY <2>2 DEF PersonForgets
    <3>2. alias' \in Row /\ alias'.repo = None /\ alias.repo \in Shown
      BY <3>1, LookupsAre, NowIs, NameTimes DEF NamedRight, Row
    <3>3. KeptIsSo'
      BY <1>1, <3>1, <3>2 DEF NamedRight, KeptIsSo, WasSo, Public
    <3> QED
      BY <3>1, <3>2, <3>3, NameTimes DEF NamedRight, RepoNamesTypeOK, Losing, Public
  <2> QED
    BY <2>1, <2>2
<1>3. person' \in [step: {"none", "public", "private", "forgets"}, repo: Shown] /\ PersonIsSo'
  BY <1>1, NameTimes DEF NoPerson, PersonIsSo
<1>4. RepoNamesTypeOK'
  BY <1>1, <1>2, <1>3, Untold DEF NamedRight, RepoNamesTypeOK, Row, Answers
<1>5. ListedIsNamed'
  BY <1>1, <1>2 DEF NamedRight, ListedIsNamed
<1> QED
  BY <1>1, <1>2, <1>3, <1>4, <1>5, Untold, SameHost, OthersGo

LEMMA HostChangesStep == ASSUME NamedRight, HostChanges PROVE NamedRight'
<1>1. PICK now \in Shown \ {host.shows} :
        /\ host' = [shows |-> now, ago |-> [host.ago EXCEPT ![now] = 0]]
        /\ \E e \in ([what: {"closed", "changed"}, repo: {host.shows}] \union [what: {"changed"}, repo: {now}]) :
             e.repo # None /\ events' = [events EXCEPT !.sent = {e}]
        /\ told' = NoAnswer
        /\ UNCHANGED <<alias, visibility, note, missing, lookup, person, adrift>>
  BY DEF HostChanges
<1>2. /\ host' \in [shows: Shown, ago: [Shown -> Age]] /\ host'.ago[host'.shows] = 0
      /\ \A x \in Shown : host'.ago[x] \in Nat /\ host.ago[x] \in Nat /\ host'.ago[x] <= host.ago[x]
  BY <1>1, HostIs, NameTimes DEF NamedRight
<1>3. events' \in [sent: SUBSET [what: {"closed", "changed"}, repo: Repository], applying: Shown]
  <2>1. PICK e \in ([what: {"closed", "changed"}, repo: {host.shows}] \union [what: {"changed"}, repo: {now}]) :
             e.repo # None /\ events' = [events EXCEPT !.sent = {e}]
    BY <1>1
  <2>2. e \in [what: {"closed", "changed"}, repo: Repository]
    BY <2>1, HostIs, NameTimes DEF NamedRight
  <2> QED
    BY <2>1, <2>2 DEF NamedRight, RepoNamesTypeOK
<1>4. RepoNamesTypeOK'
  BY <1>1, <1>2, <1>3, Untold DEF NamedRight, RepoNamesTypeOK, Answers
<1>5. ASSUME NEW x \in Shown, NEW a \in Int, WasSo(x, a) PROVE WasSo(x, a)'
  BY <1>2, <1>5 DEF WasSo
<1>6. KeptIsSo'
  <2>1. alias.repo \in Shown /\ alias.age \in Int
    BY LookupsAre, NameTimes DEF NamedRight, Row
  <2>2. Public(alias.repo)' => WasSo(alias.repo, alias.age)'
    BY <1>1, <1>5, <2>1 DEF NamedRight, KeptIsSo, Public
  <2>3. note' # None /\ note' < RepoTtl => WasSo(None, note)'
    BY <1>1, <1>5, NameTimes DEF NamedRight, KeptIsSo, RepoNamesTypeOK
  <2>4. ASSUME NEW p \in Replica, missing'[p] > 0 PROVE host'.ago[None] + missing'[p] <= RepoTtl
    <3>1. missing'[p] = missing[p] /\ missing[p] \in Nat /\ host.ago[None] + missing[p] <= RepoTtl
      BY <1>1, <2>4, NameTimes DEF NamedRight, KeptIsSo, RepoNamesTypeOK
    <3> QED
      BY <1>2, <3>1, NameTimes
  <2> QED
    BY <1>2, <2>2, <2>3, <2>4 DEF KeptIsSo
<1>7. ASSUME NEW l \in ALookup, LookupIsSo(l) PROVE LookupIsSo(l)'
  <2>1. l # AtRest => l.row.repo \in Shown /\ l.row.age \in Int
    BY NameTimes DEF ALookup, Row
  <2> QED
    BY <1>5, <1>7, <2>1, NameTimes DEF LookupIsSo, RowIsSo
<1>8. PersonIsSo'
  <2>1. person.repo \in Shown
    BY DEF NamedRight, RepoNamesTypeOK
  <2> QED
    BY <1>1, <1>5, <2>1 DEF NamedRight, HeldIsSo, PersonIsSo
<1>9. ListedIsNamed'
  BY <1>1 DEF NamedRight, ListedIsNamed
<1> QED
  BY <1>1, <1>4, <1>6, <1>7, <1>8, <1>9, Untold, OthersGo

LEMMA EventStep == ASSUME NamedRight, ApplyEvent \/ ExpireAliases \/ EventLost PROVE NamedRight'
<1>1. UNCHANGED <<host, note, missing, lookup, person>> /\ told' = NoAnswer
  BY DEF ApplyEvent, ExpireAliases, EventLost
<1>2. /\ events' \in [sent: SUBSET [what: {"closed", "changed"}, repo: Repository], applying: Shown]
      /\ visibility' \in [Repository -> {"unseen", "public", "private"}] /\ adrift' \subseteq adrift
      /\ \A r \in Repository : visibility'[r] = "public" => visibility[r] = "public" /\ (r \in adrift => r \in adrift')
  <2>1. /\ events \in [sent: SUBSET [what: {"closed", "changed"}, repo: Repository], applying: Shown]
        /\ visibility \in [Repository -> {"unseen", "public", "private"}]
    BY DEF NamedRight, RepoNamesTypeOK
  <2>2. CASE ApplyEvent
    <3>1. PICK e \in events.sent, again \in BOOLEAN :
            /\ events' = [sent |-> IF again THEN events.sent ELSE {}, applying |-> e.repo]
            /\ visibility' = IF e.what = "closed" THEN NotPublic(e.repo) ELSE visibility
            /\ adrift' = IF e.what = "closed" THEN adrift \ {e.repo} ELSE adrift
      BY <2>2 DEF ApplyEvent
    <3>2. e.repo \in Repository /\ e.repo \in Shown
      BY <2>1, NameTimes
    <3>3. events' \in [sent: SUBSET [what: {"closed", "changed"}, repo: Repository], applying: Shown]
      BY <2>1, <3>1, <3>2
    <3>4. CASE e.what = "closed"
      BY <3>1, <3>2, <3>3, <3>4, NotPublicIs
    <3>5. CASE e.what # "closed"
      BY <2>1, <3>1, <3>3, <3>5
    <3> QED
      BY <3>4, <3>5
  <2>3. CASE ExpireAliases
    BY <2>1, <2>3, NameTimes DEF ExpireAliases
  <2>4. CASE EventLost
    BY <2>1, <2>4, NameTimes DEF EventLost
  <2> QED
    BY <2>2, <2>3, <2>4
<1>3. /\ alias \in Row /\ alias.repo \in Shown /\ alias.age \in Nat
      /\ alias' \in Row /\ alias'.repo = alias.repo /\ alias'.age \in Nat /\ alias.age <= alias'.age
  <2>1. alias \in Row /\ alias.repo \in Shown /\ alias.age \in Nat
    BY LookupsAre, NameTimes DEF NamedRight, Row
  <2>2. alias' = alias \/ (alias.age < RepoTtl /\ alias' = [alias EXCEPT !.age = RepoTtl])
    BY DEF ApplyEvent, ExpireAliases, EventLost
  <2> QED
    BY <2>1, <2>2, NameTimes DEF Row
<1>4. RepoNamesTypeOK'
  BY <1>1, <1>2, <1>3, Untold DEF NamedRight, RepoNamesTypeOK, Row, Answers
<1>5. KeptIsSo'
  <2>1. Public(alias.repo)' => Public(alias.repo)
    BY <1>2, <1>3, NameTimes DEF Public
  <2>2. Public(alias.repo)' => WasSo(alias.repo, alias.age)'
    <3> SUFFICES ASSUME Public(alias.repo)' PROVE WasSo(alias.repo, alias.age)'
      OBVIOUS
    <3>1. host.ago[alias.repo] <= alias.age /\ host.ago[alias.repo] \in Nat
      BY <1>3, <2>1, HostIs DEF NamedRight, KeptIsSo, WasSo
    <3> QED
      BY <1>1, <1>3, <3>1 DEF WasSo
  <2> QED
    BY <1>1, <2>2 DEF NamedRight, KeptIsSo, WasSo
<1>6. ListedIsNamed'
  BY <1>1, <1>2, <1>3 DEF NamedRight, ListedIsNamed
<1> QED
  BY <1>1, <1>4, <1>5, <1>6, Untold, SameHost, OthersGo DEF NamedRight, HeldIsSo, PersonIsSo, WasSo

LEMMA OlderIs ==
    ASSUME NEW a \in Age
    PROVE  Older(a) \in Age /\ Older(a) <= a + 1 /\ \A b \in Age : a <= b => Older(a) <= Older(b)
BY NameTimes DEF Older

LEMMA NameTick == ASSUME NamedRight, Tick PROVE NamedRight'
<1> USE DEF Tick
<1>1. /\ host \in [shows: Shown, ago: [Shown -> Age]] /\ alias \in Row /\ alias.repo \in Shown /\ alias.age \in Age
      /\ note \in 0..RepoTtl \union {None} /\ missing \in [Replica -> 0..RepoTtl]
  BY LookupsAre DEF NamedRight, RepoNamesTypeOK, Row
<1>2. /\ host' \in [shows: Shown, ago: [Shown -> Age]] /\ host'.shows = host.shows /\ host'.ago[host'.shows] = 0
      /\ \A x \in Shown : host'.ago[x] \in {0, Older(host.ago[x])}
  <2> DEFINE ago == [x \in Shown |-> IF x = host.shows THEN 0 ELSE Older(host.ago[x])]
  <2>1. host' = [host EXCEPT !.ago = ago]
    OBVIOUS
  <2>2. ago \in [Shown -> Age] /\ ago[host.shows] = 0 /\ \A x \in Shown : ago[x] \in {0, Older(host.ago[x])}
    <3>1. \A x \in Shown : host.ago[x] \in Age /\ Older(host.ago[x]) \in Age
      BY <1>1, OlderIs
    <3> QED
      BY <1>1, <3>1, NameTimes
  <2> HIDE DEF ago
  <2> QED
    BY <1>1, <2>1, <2>2
<1>3. /\ \A x \in Shown : host.ago[x] \in Nat /\ host'.ago[x] \in Nat /\ host'.ago[x] <= host.ago[x] + 1
      /\ \A x \in Shown, a \in Age : host.ago[x] <= a => host'.ago[x] <= Older(a)
  <2> SUFFICES ASSUME NEW x \in Shown
               PROVE  /\ host.ago[x] \in Nat /\ host'.ago[x] \in Nat /\ host'.ago[x] <= host.ago[x] + 1
                      /\ \A a \in Age : host.ago[x] <= a => host'.ago[x] <= Older(a)
    OBVIOUS
  <2>1. host.ago[x] \in Age /\ host'.ago[x] \in {0, Older(host.ago[x])}
    BY <1>1, <1>2
  <2>2. \A a \in Age : a \in Nat /\ Older(a) \in Nat
    BY OlderIs, NameTimes
  <2>3. Older(host.ago[x]) <= host.ago[x] + 1 /\ \A a \in Age : host.ago[x] <= a => Older(host.ago[x]) <= Older(a)
    BY <2>1, OlderIs
  <2>4. ASSUME NEW a \in Age, host.ago[x] <= a PROVE host'.ago[x] <= Older(a)
    BY <2>1, <2>2, <2>3, <2>4
  <2> QED
    BY <2>1, <2>2, <2>3, <2>4
<1>4. alias' \in Row /\ alias'.repo = alias.repo /\ alias'.age = Older(alias.age)
  BY <1>1, OlderIs DEF Row
<1>5. /\ note' \in 0..RepoTtl \union {None}
      /\ note' # None /\ note' < RepoTtl => note \in Nat /\ note < RepoTtl /\ note # None /\ note' = note + 1
  <2>1. CASE note = None
    BY <2>1, NameTimes DEF Older
  <2>2. CASE note = RepoTtl
    BY <1>1, <2>2, NameTimes
  <2>3. CASE note \in 0..RepoTtl /\ note # RepoTtl
    <3>1. note \in Nat /\ note < RepoTtl /\ note # None /\ note # Oldest
      BY <2>3, NameTimes
    <3>2. note' = note + 1
      BY <2>3, <3>1 DEF Older
    <3> QED
      BY <3>1, <3>2, NameTimes
  <2> QED
    BY <1>1, <2>1, <2>2, <2>3
<1>6. missing' \in [Replica -> 0..RepoTtl] /\ \A p \in Replica : missing'[p] > 0 => missing[p] > 0 /\ missing'[p] = missing[p] - 1
  BY <1>1, NameTimes
<1>7. UNCHANGED <<visibility, lookup, person, events, adrift>> /\ person = NoPerson /\ told' = NoAnswer
      /\ \A p \in Replica : lookup[p] = AtRest
  OBVIOUS
<1> HIDE DEF Tick
<1>8. RepoNamesTypeOK'
  BY <1>2, <1>4, <1>5, <1>6, <1>7, Untold DEF NamedRight, RepoNamesTypeOK, Row, Answers
<1>9. KeptIsSo'
  <2>1. Public(alias.repo)' => WasSo(alias.repo, alias.age)'
    <3> SUFFICES ASSUME Public(alias.repo)' PROVE WasSo(alias.repo, alias.age)'
      OBVIOUS
    <3>1. host.ago[alias.repo] <= alias.age
      BY <1>4, <1>7 DEF NamedRight, KeptIsSo, WasSo, Public
    <3> QED
      BY <1>1, <1>3, <1>4, <3>1 DEF WasSo
  <2>2. note' # None /\ note' < RepoTtl => WasSo(None, note)'
    <3> SUFFICES ASSUME note' # None, note' < RepoTtl PROVE host'.ago[None] <= note'
      BY DEF WasSo
    <3>1. note \in Nat /\ note < RepoTtl /\ note' = note + 1 /\ note # None
      BY <1>5
    <3>2. host.ago[None] <= note
      BY <3>1 DEF NamedRight, KeptIsSo, WasSo
    <3> QED
      BY <1>3, <3>1, <3>2, NameTimes
  <2>3. ASSUME NEW p \in Replica, missing'[p] > 0 PROVE host'.ago[None] + missing'[p] <= RepoTtl
    <3>1. missing[p] \in Nat /\ missing[p] > 0 /\ missing'[p] = missing[p] - 1
      BY <1>1, <1>6, <2>3, NameTimes
    <3>2. host.ago[None] + missing[p] <= RepoTtl
      BY <3>1 DEF NamedRight, KeptIsSo
    <3> QED
      BY <1>3, <3>1, <3>2, NameTimes
  <2> QED
    BY <1>2, <2>1, <2>2, <2>3 DEF KeptIsSo
<1>10. ListedIsNamed'
  BY <1>4, <1>7 DEF NamedRight, ListedIsNamed
<1>11. HeldIsSo'
  BY <1>7 DEF HeldIsSo, LookupIsSo, PersonIsSo, NoPerson
<1> QED
  BY <1>7, <1>8, <1>9, <1>10, <1>11, Untold DEF NamedRight

LEMMA NamedStep == NamedRight /\ [RepoNamesNext]_names => NamedRight'
<1> SUFFICES ASSUME NamedRight, [RepoNamesNext]_names PROVE NamedRight'
  OBVIOUS
<1>1. CASE UNCHANGED names
  BY <1>1 DEF names, NamedRight, RepoNamesTypeOK, KeptIsSo, HeldIsSo, PersonIsSo, LookupIsSo, RowIsSo, WasSo, Public,
     FoundIsRecent, MissingIsRecent, ListedIsNamed
<1>2. ASSUME NEW p \in Replica, LookupStep(p) PROVE NamedRight'
  BY <1>2, LookStep, LookMissingStep, ReadNoteStep, AskedStep, NotAskedStep, SaveRepositoryStep, DeleteAliasStep,
     CloseStep, NoteMissingStep, RestartStep DEF LookupStep
<1> QED
  BY <1>1, <1>2, KnownPublicStep, PersonReadsStep, PersonEndsStep, HostChangesStep, EventStep, NameTick DEF RepoNamesNext

LEMMA AlwaysNamedRight == RepoNamesInit /\ [][RepoNamesNext]_names => []NamedRight
BY NamesInit, NamedStep, PTL

\* What anyone is told of a name was so within the time that the host's answers are believed, for any
\* number of processes and of repositories that the name comes to mean, and any times.
THEOREM NamesRecent == RepoNamesInit /\ [][RepoNamesNext]_names => []NamesAreRecent
<1>1. NamedRight => NamesAreRecent
  BY DEF NamedRight, NamesAreRecent
<1> QED
  BY <1>1, AlwaysNamedRight, PTL

\* A repository that is written down as public has the name that leads to it, or is about to be closed,
\* but for those that lost the name to another repository, to a process that died between forgetting it
\* and closing them, or to one that forgot it when it had come to lead to them meanwhile.
THEOREM ListedNamed == RepoNamesInit /\ [][RepoNamesNext]_names => []ListedIsNamed
<1>1. NamedRight => ListedIsNamed
  BY DEF NamedRight
<1> QED
  BY <1>1, AlwaysNamedRight, PTL

-----------------------------------------------------------------------------
(* PrivateNames *)

Known == [repo: Repo \union {Nobody}, age: Since]

ARequest ==
    {Idle} \union
    [step: {"public", "asks", "reads", "missed"}, known: Known, visible: Repo \union {Nobody}, read: {Nobody}]
    \union [step: {"saves", "remembers"}, known: Known, visible: Repo, read: Repo]

\* What a row or a process keeps is no younger than what it is about, and what holds now is no time ago.
KeptWasSo ==
    /\ meant.ago[meant.now] = 0
    /\ \A r \in sight.now : sight.ago[r] = 0
    /\ IsNothing(meant.now, sight.now, installed) => sightless = 0
    /\ nameRow.repo # Nobody => meant.ago[nameRow.repo] <= nameRow.age
    /\ \A r \in Repo : permission[r] # NoYes => sight.ago[r] <= permission[r]
    /\ \A p \in Server : misses[p] > 0 => sightless + misses[p] <= PermTtl

\* What a request has in hand is what the person was shown a moment ago, and what the app read: two
\* that differ, or a question that was answered with nothing, are a moment at which the name was
\* nothing to them or came to mean another.
InHandWasSo(request) ==
    request # Idle =>
        /\ request.visible # Nobody =>
             /\ sight.ago[request.visible] = 0 /\ meant.ago[request.visible] = 0
             /\ request.visible = meant.now \/ sightless = 0
        /\ request.read # Nobody =>
             meant.ago[request.read] = 0 /\ (request.read = meant.now \/ sightless = 0)
        /\ request.step = "reads" => request.visible \in Repo
        /\ request.step = "missed" \/ (request.step = "public" /\ request.known # NoName) => sightless = 0

AskedRight == \A p \in Server : InHandWasSo(asking[p])

ShownRight == ShownWasVisible /\ ShownWasMeant /\ MissedWasNothing

PrivatelyRight == PrivateNamesTypeOK /\ KeptWasSo /\ AskedRight /\ ShownRight

LEMMA PrivateTimes ==
    /\ PermTtl \in Nat /\ NameTtl \in Nat /\ NameGrace \in Nat /\ Horizon \in Nat /\ Nobody \notin Repo
    /\ NoYes \in Nat /\ NoYes \notin 0..PermTtl /\ NameTtl <= Horizon
    /\ \A a \in Since : a \in Nat /\ a <= Horizon
    /\ NoName \in Known /\ Idle \in ARequest /\ 0 \in Since /\ Horizon \in Since
BY PrivateNamesAssumption DEF Horizon, NoYes, Since, NoName, Known, ARequest, Idle

LEMMA RequestIs ==
    ASSUME NEW s \in ARequest
    PROVE  /\ s.step = "none" => s = Idle
           /\ s.step # "none" => s # Idle /\ s.known \in Known /\ s.visible \in Repo \union {Nobody}
           /\ s.step \in {"public", "asks", "reads", "missed"} => s.read = Nobody
           /\ s.step \in {"saves", "remembers"} => s.visible \in Repo /\ s.read \in Repo
           /\ s.step \in {"none", "public", "asks", "reads", "missed", "saves", "remembers"}
BY DEF ARequest, Idle

LEMMA AskingIs == PrivateNamesTypeOK => asking \in [Server -> ARequest]
BY DEF PrivateNamesTypeOK, ARequest, Known

LEMMA PrivateInit == PrivateNamesInit => PrivatelyRight
<1> SUFFICES ASSUME PrivateNamesInit PROVE PrivatelyRight
  OBVIOUS
<1> USE PrivateTimes DEF PrivateNamesInit
<1>1. meant \in [now: Repo, ago: [Repo -> Since]] /\ meant.ago[meant.now] = 0
  OBVIOUS
<1>2. sight \in [now: SUBSET Repo, ago: [Repo -> 0..PermTtl]] /\ \A r \in sight.now : sight.ago[r] = 0
  OBVIOUS
<1>3. PrivateNamesTypeOK
  BY <1>1, <1>2 DEF PrivateNamesTypeOK, Known, ARequest, NoName, Unanswered
<1>4. KeptWasSo
  <2>1. IsNothing(meant.now, sight.now, installed) => sightless = 0
    OBVIOUS
  <2>2. nameRow.repo = Nobody /\ \A r \in Repo : permission[r] = NoYes
    BY DEF NoName
  <2>3. \A p \in Server : misses[p] > 0 => sightless + misses[p] <= PermTtl
    OBVIOUS
  <2>4. \A r \in Repo : permission[r] # NoYes => sight.ago[r] <= permission[r]
    BY <2>2
  <2>5. nameRow.repo # Nobody => meant.ago[nameRow.repo] <= nameRow.age
    BY <2>2
  <2> HIDE DEF PrivateNamesInit
  <2> QED
    BY <1>1, <1>2, <2>1, <2>3, <2>4, <2>5 DEF KeptWasSo
<1> QED
  BY <1>3, <1>4 DEF PrivatelyRight, AskedRight, InHandWasSo, ShownRight, ShownWasVisible, ShownWasMeant,
     MissedWasNothing, Unanswered

-----------------------------------------------------------------------------

\* A request goes on or ends, and what the host shows stays: what is left to show is that what it has
\* in hand next, what is kept, and what is told are right.
LEMMA RequestGoes ==
    ASSUME PrivatelyRight, NEW p \in Server, NEW s \in ARequest, InHandWasSo(s),
           asking' = [asking EXCEPT ![p] = s], UNCHANGED <<meant, sight, installed, sightless>>,
           nameRow' \in Known, permission' \in [Repo -> 0..PermTtl \union {NoYes}], misses' \in [Server -> 0..PermTtl],
           shown' \in {Unanswered} \union [what: {"found", "missing", "unavailable"}, repo: Repo \union {Nobody}],
           KeptWasSo', ShownRight'
    PROVE  PrivatelyRight'
<1>1. asking \in [Server -> ARequest] /\ asking' \in [Server -> ARequest]
  BY AskingIs DEF PrivatelyRight
<1>2. PrivateNamesTypeOK'
  BY <1>1 DEF PrivatelyRight, PrivateNamesTypeOK, ARequest, Known
<1>3. AskedRight'
  BY <1>1 DEF PrivatelyRight, AskedRight, InHandWasSo
<1> QED
  BY <1>2, <1>3 DEF PrivatelyRight

\* A step that leaves what is kept alone.
LEMMA NothingKept ==
    ASSUME PrivatelyRight, UNCHANGED <<meant, sight, installed, sightless, nameRow, permission, misses>>
    PROVE  /\ KeptWasSo' /\ nameRow' \in Known /\ misses' \in [Server -> 0..PermTtl]
           /\ permission' \in [Repo -> 0..PermTtl \union {NoYes}]
BY DEF PrivatelyRight, KeptWasSo, PrivateNamesTypeOK, Known

\* Nothing is told, or that the host cannot be asked.
LEMMA NothingTold ==
    ASSUME shown' = Unanswered \/ shown' = [what |-> "unavailable", repo |-> Nobody]
    PROVE  /\ ShownRight'
           /\ shown' \in {Unanswered} \union [what: {"found", "missing", "unavailable"}, repo: Repo \union {Nobody}]
BY DEF ShownRight, ShownWasVisible, ShownWasMeant, MissedWasNothing, Unanswered

LEMMA IdleIsRight == InHandWasSo(Idle)
BY DEF InHandWasSo

LEMMA FoundTold ==
    ASSUME NEW r \in Repo, shown' = [what |-> "found", repo |-> r], UNCHANGED <<meant, sight>>,
           sight.ago[r] = 0 \/ sight.ago[r] < PermTtl, meant.ago[r] = 0 \/ meant.ago[r] < NameTtl
    PROVE  /\ ShownRight'
           /\ shown' \in {Unanswered} \union [what: {"found", "missing", "unavailable"}, repo: Repo \union {Nobody}]
BY DEF ShownRight, ShownWasVisible, ShownWasMeant, MissedWasNothing

LEMMA MissingTold ==
    ASSUME shown' = [what |-> "missing", repo |-> Nobody], sightless' = 0 \/ sightless' < PermTtl
    PROVE  /\ ShownRight'
           /\ shown' \in {Unanswered} \union [what: {"found", "missing", "unavailable"}, repo: Repo \union {Nobody}]
BY DEF ShownRight, ShownWasVisible, ShownWasMeant, MissedWasNothing

LEMMA MissedStep == ASSUME PrivatelyRight, NEW p \in Server, Missed(p) PROVE PrivatelyRight'
<1>1. sightless \in Nat /\ misses[p] \in Nat /\ misses[p] > 0 /\ sightless + misses[p] <= PermTtl
  BY DEF PrivatelyRight, PrivateNamesTypeOK, KeptWasSo, Missed
<1>2. sightless' < PermTtl
  BY <1>1, PrivateTimes DEF Missed
<1> QED
  BY <1>2, IdleIsRight, MissingTold, NothingKept, RequestGoes, PrivateTimes DEF Missed, Show

LEMMA NameAsksStep == ASSUME PrivatelyRight, NEW p \in Server, Asks(p) PROVE PrivatelyRight'
<1> USE DEF Asks
<1>1. CASE Readable = NoName
  <2> DEFINE s == Request("public", NoName, Nobody, Nobody)
  <2>1. s \in ARequest /\ InHandWasSo(s)
    BY PrivateTimes DEF ARequest, Request, InHandWasSo
  <2> QED
    BY <1>1, <2>1, NothingTold, NothingKept, RequestGoes DEF Proceeds
<1>2. CASE Readable # NoName
  <2>1. Readable = nameRow /\ nameRow.repo \in Repo /\ permission[nameRow.repo] # NoYes /\ nameRow \in Known
    BY <1>2 DEF Readable, PrivatelyRight, PrivateNamesTypeOK, Known
  <2> DEFINE r == nameRow.repo
  <2>2. /\ permission[r] \in 0..PermTtl /\ sight.ago[r] \in 0..PermTtl /\ sight.ago[r] <= permission[r]
        /\ nameRow.age \in Since /\ meant.ago[r] \in Since /\ meant.ago[r] <= nameRow.age
    BY <2>1, PrivateTimes DEF PrivatelyRight, PrivateNamesTypeOK, KeptWasSo
  <2>3. CASE StillFresh(nameRow)
    <3>1. sight.ago[r] < PermTtl /\ meant.ago[r] < NameTtl
      BY <2>2, <2>3, PrivateTimes DEF StillFresh
    <3> QED
      BY <1>2, <2>1, <2>3, <3>1, FoundTold, IdleIsRight, NothingKept, RequestGoes, PrivateTimes DEF Show
  <2>4. CASE ~StillFresh(nameRow)
    <3> DEFINE s == Request("asks", nameRow, Nobody, Nobody)
    <3>1. s \in ARequest /\ InHandWasSo(s)
      BY <2>1 DEF ARequest, Request, InHandWasSo
    <3> QED
      BY <1>2, <2>1, <2>4, <3>1, NothingTold, NothingKept, RequestGoes DEF Proceeds
  <2> QED
    BY <2>3, <2>4
<1> QED
  BY <1>1, <1>2

LEMMA EveryoneStep == ASSUME PrivatelyRight, NEW p \in Server, AsEveryone(p) PROVE PrivatelyRight'
<1> DEFINE old == asking[p]
           s == [old EXCEPT !.step = IF old.known = NoName THEN "asks" ELSE "missed"]
<1>1. old \in ARequest /\ InHandWasSo(old) /\ old.step = "public"
  BY AskingIs DEF PrivatelyRight, AskedRight, AsEveryone
<1> HIDE DEF old
<1>2. s \in ARequest /\ InHandWasSo(s)
  BY <1>1 DEF ARequest, InHandWasSo, Idle
<1> QED
  BY <1>2, NothingTold, NothingKept, RequestGoes DEF Proceeds, AsEveryone, old

LEMMA AsPersonStep == ASSUME PrivatelyRight, NEW p \in Server, AsksAsPerson(p) PROVE PrivatelyRight'
<1> DEFINE old == asking[p]
<1>1. old \in ARequest /\ InHandWasSo(old) /\ old.step = "asks"
  BY AskingIs DEF PrivatelyRight, AskedRight, AsksAsPerson
<1> HIDE DEF old
<1>2. old.known \in Known /\ (old.known # NoName => old.known.repo \in Repo \union {Nobody})
  BY <1>1 DEF ARequest, Known, Idle
<1>3. /\ meant.now \in Repo /\ Visible \in Repo \union {Nobody} /\ Nobody \notin Repo
      /\ Visible = Nobody => sightless = 0
      /\ Visible # Nobody => Visible = meant.now /\ sight.ago[Visible] = 0 /\ meant.ago[Visible] = 0
  BY PrivateTimes DEF Visible, PrivatelyRight, PrivateNamesTypeOK, KeptWasSo, IsNothing
<1> USE DEF AsksAsPerson
<1>4. CASE Visible = Nobody
  <2> DEFINE s == [old EXCEPT !.step = AsNobody(old.known)]
  <2>1. s \in ARequest /\ InHandWasSo(s)
    BY <1>1, <1>3, <1>4 DEF ARequest, InHandWasSo, Idle, AsNobody
  <2>2. /\ IF old.known = NoName THEN UNCHANGED permission ELSE Remember(old.known.repo, FALSE)
        /\ Proceeds(p, s)
    BY <1>3, <1>4 DEF old
  <2>3. KeptWasSo' /\ permission' \in [Repo -> 0..PermTtl \union {NoYes}]
    <3>1. permission' \in [Repo -> 0..PermTtl \union {NoYes}] /\ \A r \in Repo : permission'[r] \in {permission[r], NoYes}
      BY <2>2 DEF Remember, PrivatelyRight, PrivateNamesTypeOK
    <3> QED
      BY <3>1 DEF PrivatelyRight, KeptWasSo
  <2> HIDE DEF s
  <2> QED
    BY <2>1, <2>2, <2>3, NothingTold, NothingKept, RequestGoes DEF Proceeds, PrivatelyRight, PrivateNamesTypeOK, Known
<1>5. CASE Visible # Nobody /\ Visible = old.known.repo /\ old.known.age < NameTtl
  <2> DEFINE r == old.known.repo
  <2>1. r \in Repo /\ sight.ago[r] = 0 /\ meant.ago[r] = 0
    BY <1>3, <1>5
  <2>2. Remember(r, TRUE) /\ Show(p, "found", r)
    BY <1>5 DEF old
  <2>3. KeptWasSo' /\ permission' \in [Repo -> 0..PermTtl \union {NoYes}]
    <3>1. permission' = [permission EXCEPT ![r] = 0] /\ UNCHANGED <<meant, sight, installed, sightless, nameRow, misses>>
      BY <2>2 DEF Remember
    <3> QED
      BY <2>1, <3>1, PrivateTimes DEF PrivatelyRight, PrivateNamesTypeOK, KeptWasSo
  <2> HIDE DEF r
  <2> QED
    BY <2>1, <2>2, <2>3, FoundTold, IdleIsRight, RequestGoes, PrivateTimes DEF Show, PrivatelyRight, PrivateNamesTypeOK, Known
<1>6. CASE Visible # Nobody /\ ~(Visible = old.known.repo /\ old.known.age < NameTtl)
  <2> DEFINE s == Request("reads", old.known, Visible, Nobody)
  <2>1. s \in ARequest /\ InHandWasSo(s)
    BY <1>2, <1>3, <1>6 DEF ARequest, Request, InHandWasSo
  <2> QED
    BY <1>6, <2>1, NothingTold, NothingKept, RequestGoes DEF Proceeds, old
<1> QED
  BY <1>4, <1>5, <1>6

LEMMA AsAppStep == ASSUME PrivatelyRight, NEW p \in Server, ReadsAsApp(p) PROVE PrivatelyRight'
<1> DEFINE old == asking[p]
           s == Request("saves", old.known, old.visible, meant.now)
<1>1. old \in ARequest /\ InHandWasSo(old) /\ old.step = "reads"
  BY AskingIs DEF PrivatelyRight, AskedRight, ReadsAsApp
<1> HIDE DEF old
<1>2. meant.now \in Repo /\ meant.ago[meant.now] = 0
  BY DEF PrivatelyRight, PrivateNamesTypeOK, KeptWasSo
<1>3. /\ old \in [step: {"public", "asks", "reads", "missed"}, known: Known, visible: Repo \union {Nobody}, read: {Nobody}]
      /\ old # Idle /\ old.visible \in Repo
  BY <1>1 DEF ARequest, Idle, InHandWasSo
<1>5. s \in ARequest
  BY <1>2, <1>3 DEF ARequest, Request
<1>6. InHandWasSo(s)
  BY <1>1, <1>2, <1>3, PrivateTimes DEF InHandWasSo, Request
<1> QED
  BY <1>5, <1>6, NothingTold, NothingKept, RequestGoes DEF Proceeds, ReadsAsApp, old

LEMMA NotInstalledStep == ASSUME PrivatelyRight, NEW p \in Server, NotInstalled(p) PROVE PrivatelyRight'
<1> DEFINE old == asking[p]
           s == Request(AsNobody(old.known), old.known, Nobody, Nobody)
<1>1. old \in ARequest /\ InHandWasSo(old) /\ old.step = "reads"
  BY AskingIs DEF PrivatelyRight, AskedRight, NotInstalled
<1> HIDE DEF old
<1>2. sightless = 0
  BY DEF PrivatelyRight, KeptWasSo, IsNothing, NotInstalled
<1>5. old \in [step: {"public", "asks", "reads", "missed"}, known: Known, visible: Repo \union {Nobody}, read: {Nobody}]
  BY <1>1 DEF ARequest, Idle
<1>7. s \in ARequest
  BY <1>5 DEF ARequest, AsNobody, Request
<1>3. s \in ARequest /\ InHandWasSo(s)
  BY <1>2, <1>7 DEF InHandWasSo, AsNobody, Request
<1>4. KeptWasSo' /\ nameRow' \in Known
  BY PrivateTimes DEF PrivatelyRight, KeptWasSo, NotInstalled, NoName
<1> QED
  BY <1>3, <1>4, NothingTold, RequestGoes DEF Proceeds, NotInstalled, old, PrivatelyRight, PrivateNamesTypeOK

LEMMA NotReadStep == ASSUME PrivatelyRight, NEW p \in Server, NotRead(p) PROVE PrivatelyRight'
<1> DEFINE old == asking[p]
           kept == Kept(old.known)
<1>1. old \in ARequest /\ InHandWasSo(old) /\ old.step = "reads"
  BY AskingIs DEF PrivatelyRight, AskedRight, NotRead
<1> HIDE DEF old
<1>2. old.visible \in Repo /\ sight.ago[old.visible] = 0 /\ meant.ago[old.visible] = 0
  BY <1>1, PrivateTimes DEF InHandWasSo, Idle
<1>3. CASE Stands(kept, old.visible)
  <2>1. Show(p, "found", old.visible)
    BY <1>3 DEF NotRead, old, Stands
  <2> QED
    BY <1>2, <2>1, FoundTold, IdleIsRight, NothingKept, RequestGoes, PrivateTimes DEF Show, NotRead
<1>4. CASE ~Stands(kept, old.visible)
  <2>1. Show(p, "unavailable", Nobody)
    BY <1>4 DEF NotRead, old
  <2> QED
    BY <2>1, NothingTold, IdleIsRight, NothingKept, RequestGoes, PrivateTimes DEF Show, NotRead
<1> QED
  BY <1>3, <1>4

LEMMA SavesStep == ASSUME PrivatelyRight, NEW p \in Server, Saves(p) PROVE PrivatelyRight'
<1> DEFINE old == asking[p]
           s == [old EXCEPT !.step = "remembers"]
<1>1. old \in ARequest /\ InHandWasSo(old) /\ old.step = "saves"
  BY AskingIs DEF PrivatelyRight, AskedRight, Saves
<1> HIDE DEF old
<1>2. s \in ARequest /\ InHandWasSo(s)
  BY <1>1 DEF ARequest, InHandWasSo, Idle
<1>3. old.read \in Repo /\ meant.ago[old.read] = 0
  BY <1>1, PrivateTimes DEF ARequest, InHandWasSo, Idle
<1>4. KeptWasSo' /\ nameRow' \in Known
  <2>1. nameRow' = [repo |-> old.read, age |-> 0] /\ UNCHANGED <<meant, sight, installed, sightless, permission, misses>>
    BY DEF Saves, old
  <2> QED
    BY <1>3, <2>1, PrivateTimes DEF PrivatelyRight, KeptWasSo, Known
<1> QED
  BY <1>2, <1>4, NothingTold, RequestGoes DEF Proceeds, Saves, old, PrivatelyRight, PrivateNamesTypeOK

LEMMA RemembersStep == ASSUME PrivatelyRight, NEW p \in Server, Remembers(p) PROVE PrivatelyRight'
<1> DEFINE old == asking[p]
<1>1. old \in ARequest /\ InHandWasSo(old) /\ old.step = "remembers"
  BY AskingIs DEF PrivatelyRight, AskedRight, Remembers
<1> HIDE DEF old
<1>2. /\ old.read \in Repo /\ old.visible \in Repo /\ old.known \in Known
      /\ sight.ago[old.visible] = 0 /\ meant.ago[old.visible] = 0 /\ (old.visible = meant.now \/ sightless = 0)
      /\ meant.ago[old.read] = 0 /\ (old.read = meant.now \/ sightless = 0)
  BY <1>1, PrivateTimes DEF ARequest, InHandWasSo, Idle
<1>3. CASE Allowed(old)
  <2>1. Remember(old.read, TRUE) /\ Show(p, "found", old.read) /\ old.read = old.visible
    BY <1>3 DEF Remembers, old, Allowed
  <2>2. KeptWasSo' /\ permission' \in [Repo -> 0..PermTtl \union {NoYes}]
    <3>1. permission' = [permission EXCEPT ![old.read] = 0] /\ UNCHANGED <<meant, sight, installed, sightless, nameRow, misses>>
      BY <2>1 DEF Remember, Remembers
    <3> QED
      BY <1>2, <2>1, <3>1, PrivateTimes DEF PrivatelyRight, PrivateNamesTypeOK, KeptWasSo
  <2> QED
    BY <1>2, <2>1, <2>2, FoundTold, IdleIsRight, RequestGoes, PrivateTimes
       DEF Show, Remembers, PrivatelyRight, PrivateNamesTypeOK, Known
<1>4. CASE ~Allowed(old)
  <2> DEFINE s == Request(AsNobody(old.known), old.known, Nobody, Nobody)
  <2>1. sightless = 0
    BY <1>2, <1>4 DEF Allowed
  <2>2. s \in ARequest /\ InHandWasSo(s)
    BY <1>2, <2>1 DEF ARequest, Request, InHandWasSo, AsNobody
  <2>3. permission' = [permission EXCEPT ![old.read] = NoYes] /\ Proceeds(p, s)
    BY <1>4 DEF Remembers, Remember, old
  <2>4. KeptWasSo' /\ permission' \in [Repo -> 0..PermTtl \union {NoYes}]
    <3>1. permission' = [permission EXCEPT ![old.read] = NoYes] /\ UNCHANGED <<meant, sight, installed, sightless, nameRow, misses>>
      BY <2>3 DEF Remembers
    <3> QED
      BY <3>1 DEF PrivatelyRight, PrivateNamesTypeOK, KeptWasSo
  <2> HIDE DEF s
  <2> QED
    BY <2>2, <2>3, <2>4, NothingTold, RequestGoes DEF Proceeds, Remembers, PrivatelyRight, PrivateNamesTypeOK, Known
<1> QED
  BY <1>3, <1>4

LEMMA NoteMissStep == ASSUME PrivatelyRight, NEW p \in Server, NoteMiss(p) PROVE PrivatelyRight'
<1>1. sightless = 0
  BY AskingIs, RequestIs DEF PrivatelyRight, AskedRight, InHandWasSo, NoteMiss, Idle
<1>2. misses' = [misses EXCEPT ![p] = PermTtl] /\ UNCHANGED <<meant, sight, installed, sightless, nameRow, permission>>
  BY DEF NoteMiss, MissTtl
<1>3. KeptWasSo' /\ misses' \in [Server -> 0..PermTtl]
  BY <1>1, <1>2, PrivateTimes DEF PrivatelyRight, PrivateNamesTypeOK, KeptWasSo
<1> QED
  BY <1>1, <1>3, MissingTold, IdleIsRight, RequestGoes, PrivateTimes
     DEF Show, NoteMiss, PrivatelyRight, PrivateNamesTypeOK, Known

LEMMA FailsStep == ASSUME PrivatelyRight, NEW p \in Server, Fails(p) PROVE PrivatelyRight'
BY NothingTold, IdleIsRight, NothingKept, RequestGoes, PrivateTimes DEF Show, Fails

-----------------------------------------------------------------------------

LEMMA HostMovesStep == ASSUME PrivatelyRight, HostMoves PROVE PrivatelyRight'
<1> USE DEF HostMoves
<1>1. /\ meant \in [now: Repo, ago: [Repo -> Since]] /\ meant.ago[meant.now] = 0
      /\ sight \in [now: SUBSET Repo, ago: [Repo -> 0..PermTtl]] /\ \A r \in sight.now : sight.ago[r] = 0
      /\ sightless \in 0..PermTtl /\ installed \in BOOLEAN
  BY DEF PrivatelyRight, PrivateNamesTypeOK, KeptWasSo
<1>2. /\ meant' \in [now: Repo, ago: [Repo -> Since]] /\ meant'.ago[meant'.now] = 0
      /\ \A r \in Repo : meant'.ago[r] \in {0, meant.ago[r]}
  BY <1>1, PrivateTimes
<1>3. /\ sight' \in [now: SUBSET Repo, ago: [Repo -> 0..PermTtl]] /\ \A r \in sight'.now : sight'.ago[r] = 0
      /\ \A r \in Repo : sight'.ago[r] \in {0, sight.ago[r]}
  BY <1>1, PrivateTimes
<1>4. /\ sightless' \in {0, sightless} /\ sightless' \in 0..PermTtl /\ installed' \in BOOLEAN
      /\ IsNothing(meant'.now, sight'.now, installed') => sightless' = 0
      /\ meant'.now # meant.now => sightless' = 0
  <2>1. installed' \in BOOLEAN
    BY <1>1
  <2>2. sightless' = IF meant'.now # meant.now \/ IsNothing(meant'.now, sight'.now, installed') THEN 0 ELSE sightless
    OBVIOUS
  <2> HIDE DEF HostMoves
  <2> QED
    BY <1>1, <2>1, <2>2, PrivateTimes
<1>5. PrivateNamesTypeOK'
  BY <1>2, <1>3, <1>4 DEF PrivatelyRight, PrivateNamesTypeOK, Unanswered
<1>6. KeptWasSo'
  <2>1. nameRow.repo # Nobody => meant'.ago[nameRow.repo] <= nameRow.age
    <3>1. nameRow.repo # Nobody => nameRow.repo \in Repo /\ meant.ago[nameRow.repo] <= nameRow.age /\ nameRow.age \in Nat
      BY PrivateTimes DEF PrivatelyRight, PrivateNamesTypeOK, KeptWasSo
    <3> QED
      BY <1>2, <3>1
  <2>2. \A r \in Repo : permission[r] # NoYes => sight'.ago[r] <= permission[r]
    BY <1>3, PrivateTimes DEF PrivatelyRight, PrivateNamesTypeOK, KeptWasSo
  <2>3. \A p \in Server : misses[p] > 0 => sightless' + misses[p] <= PermTtl
    BY <1>1, <1>4, PrivateTimes DEF PrivatelyRight, PrivateNamesTypeOK, KeptWasSo
  <2> QED
    BY <1>2, <1>3, <1>4, <2>1, <2>2, <2>3 DEF KeptWasSo
<1>7. AskedRight'
  <2> SUFFICES ASSUME NEW p \in Server PROVE InHandWasSo(asking[p])'
    BY DEF AskedRight
  <2> DEFINE old == asking[p]
  <2>1. old \in ARequest /\ InHandWasSo(old) /\ old' = old
    BY AskingIs DEF PrivatelyRight, AskedRight
  <2>2. old # Idle => old.visible \in Repo \union {Nobody} /\ old.read \in Repo \union {Nobody}
    BY <2>1 DEF ARequest
  <2> HIDE DEF old
  <2>3. InHandWasSo(old)'
    BY <1>2, <1>3, <1>4, <2>1, <2>2 DEF InHandWasSo
  <2> QED
    BY <2>3 DEF old
<1> QED
  BY <1>5, <1>6, <1>7, NothingTold DEF PrivatelyRight

LEMMA ForgetStep == ASSUME PrivatelyRight, ForgetPermissions PROVE PrivatelyRight'
<1>1. /\ permission' \in [Repo -> 0..PermTtl \union {NoYes}] /\ \A r \in Repo : permission'[r] \in {permission[r], NoYes}
      /\ UNCHANGED <<meant, sight, installed, sightless, nameRow, misses, asking>>
  BY DEF ForgetPermissions, PrivatelyRight, PrivateNamesTypeOK
<1>2. PrivateNamesTypeOK' /\ KeptWasSo' /\ AskedRight'
  BY <1>1 DEF ForgetPermissions, PrivatelyRight, PrivateNamesTypeOK, KeptWasSo, AskedRight, InHandWasSo, Unanswered
<1> QED
  BY <1>2, NothingTold DEF PrivatelyRight, ForgetPermissions

LEMMA AgedIs ==
    ASSUME NEW m \in Nat, NEW a \in 0..m
    PROVE  Aged(a, m) \in 0..m /\ Aged(a, m) >= a /\ Aged(a, m) <= a + 1 /\ \A b \in 0..m : a <= b => Aged(a, m) <= Aged(b, m)
BY DEF Aged

LEMMA PrivateTick == ASSUME PrivatelyRight, PrivateNamesTick PROVE PrivatelyRight'
<1> USE DEF PrivateNamesTick
<1>1. /\ meant \in [now: Repo, ago: [Repo -> Since]] /\ sight \in [now: SUBSET Repo, ago: [Repo -> 0..PermTtl]]
      /\ sightless \in 0..PermTtl /\ installed \in BOOLEAN /\ Since = 0..Horizon
      /\ nameRow \in Known /\ permission \in [Repo -> 0..PermTtl \union {NoYes}] /\ misses \in [Server -> 0..PermTtl]
  BY DEF PrivatelyRight, PrivateNamesTypeOK, Known, Since
<1>2. /\ meant' \in [now: Repo, ago: [Repo -> Since]] /\ meant'.now = meant.now /\ meant'.ago[meant.now] = 0
      /\ \A r \in Repo : meant'.ago[r] <= Aged(meant.ago[r], Horizon)
  <2> DEFINE f == [r \in Repo |-> IF r = meant.now THEN 0 ELSE Aged(meant.ago[r], Horizon)]
  <2>1. \A r \in Repo : Aged(meant.ago[r], Horizon) \in Since
    BY <1>1, AgedIs, PrivateTimes
  <2>2. f \in [Repo -> Since] /\ f[meant.now] = 0 /\ \A r \in Repo : f[r] = 0 \/ f[r] = Aged(meant.ago[r], Horizon)
    BY <1>1, <2>1, PrivateTimes
  <2>3. meant' = [meant EXCEPT !.ago = f]
    OBVIOUS
  <2> HIDE DEF f, PrivateNamesTick
  <2>4. meant'.now = meant.now /\ meant'.ago = f /\ meant' \in [now: Repo, ago: [Repo -> Since]]
    BY <1>1, <2>2, <2>3
  <2>5. ASSUME NEW r \in Repo PROVE f[r] <= Aged(meant.ago[r], Horizon)
    <3>1. Aged(meant.ago[r], Horizon) \in Nat /\ (f[r] = 0 \/ f[r] = Aged(meant.ago[r], Horizon))
      BY <2>1, <2>2, PrivateTimes
    <3> QED
      BY <3>1
  <2> QED
    BY <2>2, <2>4, <2>5
<1>3. /\ sight' \in [now: SUBSET Repo, ago: [Repo -> 0..PermTtl]] /\ sight'.now = sight.now
      /\ \A r \in sight.now : sight'.ago[r] = 0
      /\ \A r \in Repo : sight'.ago[r] <= Aged(sight.ago[r], PermTtl)
  <2> DEFINE f == [r \in Repo |-> IF r \in sight.now THEN 0 ELSE Aged(sight.ago[r], PermTtl)]
  <2>1. \A r \in Repo : Aged(sight.ago[r], PermTtl) \in 0..PermTtl
    BY <1>1, AgedIs, PrivateTimes
  <2>2. /\ f \in [Repo -> 0..PermTtl] /\ \A r \in sight.now : f[r] = 0
        /\ \A r \in Repo : f[r] = 0 \/ f[r] = Aged(sight.ago[r], PermTtl)
    BY <1>1, <2>1, PrivateTimes
  <2>3. sight' = [sight EXCEPT !.ago = f]
    OBVIOUS
  <2> HIDE DEF f, PrivateNamesTick
  <2>4. sight'.now = sight.now /\ sight'.ago = f /\ sight' \in [now: SUBSET Repo, ago: [Repo -> 0..PermTtl]]
    BY <1>1, <2>2, <2>3
  <2>5. \A r \in Repo : f[r] <= Aged(sight.ago[r], PermTtl)
    BY <1>1, <2>1, <2>2, PrivateTimes
  <2> QED
    BY <2>2, <2>4, <2>5
<1>4. /\ sightless' \in 0..PermTtl /\ sightless' <= sightless + 1
      /\ IsNothing(meant'.now, sight'.now, installed') => sightless' = 0
  <2>1. Aged(sightless, PermTtl) \in 0..PermTtl /\ Aged(sightless, PermTtl) <= sightless + 1
    BY <1>1, AgedIs, PrivateTimes
  <2>2. sightless' = IF IsNothing(meant.now, sight.now, installed) THEN 0 ELSE Aged(sightless, PermTtl)
    OBVIOUS
  <2>3. meant'.now = meant.now /\ sight'.now = sight.now /\ installed' = installed
    BY <1>2, <1>3
  <2> HIDE DEF PrivateNamesTick
  <2> QED
    BY <1>1, <2>1, <2>2, <2>3, PrivateTimes
<1>5. nameRow' \in Known /\ nameRow'.repo = nameRow.repo /\ nameRow'.age = Aged(nameRow.age, Horizon)
  <2>1. nameRow.age \in 0..Horizon /\ nameRow.repo \in Repo \union {Nobody}
    BY <1>1 DEF Known
  <2>2. Aged(nameRow.age, Horizon) \in Since
    BY <1>1, <2>1, AgedIs, PrivateTimes
  <2> QED
    BY <1>1, <2>1, <2>2 DEF Known
<1>6. /\ permission' \in [Repo -> 0..PermTtl \union {NoYes}]
      /\ \A r \in Repo : permission'[r] # NoYes => permission[r] \in 0..PermTtl /\ permission'[r] = Aged(permission[r], PermTtl)
  <2>1. \A r \in Repo : permission[r] # NoYes => permission[r] \in 0..PermTtl /\ Aged(permission[r], PermTtl) \in 0..PermTtl
    BY <1>1, AgedIs, PrivateTimes
  <2> QED
    BY <1>1, <2>1
<1>7. misses' \in [Server -> 0..PermTtl] /\ \A p \in Server : misses'[p] > 0 => misses[p] > 0 /\ misses'[p] = misses[p] - 1
  BY <1>1, PrivateTimes
<1>8. PrivateNamesTypeOK'
  BY <1>2, <1>3, <1>4, <1>5, <1>6, <1>7 DEF PrivatelyRight, PrivateNamesTypeOK, Known, Unanswered
<1>9. KeptWasSo'
  <2>1. nameRow'.repo # Nobody => meant'.ago[nameRow'.repo] <= nameRow'.age
    <3> SUFFICES ASSUME nameRow.repo # Nobody PROVE meant'.ago[nameRow.repo] <= nameRow'.age
      BY <1>5
    <3> DEFINE r == nameRow.repo
    <3>1. r \in Repo /\ meant.ago[r] \in 0..Horizon /\ nameRow.age \in 0..Horizon /\ meant.ago[r] <= nameRow.age
      BY <1>1 DEF Known, PrivatelyRight, KeptWasSo
    <3>2. Aged(meant.ago[r], Horizon) <= Aged(nameRow.age, Horizon) /\ Aged(nameRow.age, Horizon) \in 0..Horizon
          /\ Aged(meant.ago[r], Horizon) \in 0..Horizon /\ meant'.ago[r] \in 0..Horizon
      BY <1>1, <1>2, <3>1, AgedIs, PrivateTimes
    <3> QED
      BY <1>2, <1>5, <3>1, <3>2
  <2>2. ASSUME NEW r \in Repo, permission'[r] # NoYes PROVE sight'.ago[r] <= permission'[r]
    <3>1. /\ permission[r] \in 0..PermTtl /\ permission[r] # NoYes /\ permission'[r] = Aged(permission[r], PermTtl)
          /\ sight.ago[r] \in 0..PermTtl /\ sight'.ago[r] \in 0..PermTtl
      BY <1>1, <1>3, <1>6, <2>2, PrivateTimes
    <3>2. sight.ago[r] <= permission[r]
      BY <3>1 DEF PrivatelyRight, KeptWasSo
    <3>3. Aged(sight.ago[r], PermTtl) <= Aged(permission[r], PermTtl) /\ Aged(permission[r], PermTtl) \in 0..PermTtl
          /\ Aged(sight.ago[r], PermTtl) \in 0..PermTtl
      BY <3>1, <3>2, AgedIs, PrivateTimes
    <3> QED
      BY <1>3, <3>1, <3>3
  <2>3. ASSUME NEW p \in Server, misses'[p] > 0 PROVE sightless' + misses'[p] <= PermTtl
    <3>1. misses[p] \in 0..PermTtl /\ misses[p] > 0 /\ misses'[p] = misses[p] - 1
      BY <1>1, <1>7, <2>3
    <3>2. sightless + misses[p] <= PermTtl
      BY <3>1 DEF PrivatelyRight, KeptWasSo
    <3> QED
      BY <1>1, <1>4, <3>1, <3>2, PrivateTimes
  <2> QED
    BY <1>2, <1>3, <1>4, <2>1, <2>2, <2>3 DEF KeptWasSo
<1>10. AskedRight'
  BY DEF AskedRight, InHandWasSo
<1> QED
  BY <1>8, <1>9, <1>10, NothingTold DEF PrivatelyRight

LEMMA PrivateStep == PrivatelyRight /\ [PrivateNamesNext]_privates => PrivatelyRight'
<1> SUFFICES ASSUME PrivatelyRight, [PrivateNamesNext]_privates PROVE PrivatelyRight'
  OBVIOUS
<1>1. CASE UNCHANGED privates
  BY <1>1 DEF privates, PrivatelyRight, PrivateNamesTypeOK, KeptWasSo, AskedRight, InHandWasSo, ShownRight,
     ShownWasVisible, ShownWasMeant, MissedWasNothing
<1> QED
  BY <1>1, MissedStep, NameAsksStep, EveryoneStep, AsPersonStep, AsAppStep, NotInstalledStep, NotReadStep, SavesStep,
     RemembersStep, NoteMissStep, FailsStep, HostMovesStep, ForgetStep, PrivateTick DEF PrivateNamesNext

\* What a person is told of a private name was so, of that name and of that person, within the times
\* that a permission and a name are believed, for any number of processes and repositories.
THEOREM ShownToThem == PrivateNamesInit /\ [][PrivateNamesNext]_privates => []ShownToWhoMaySee
<1>1. PrivatelyRight => ShownToWhoMaySee
  BY DEF PrivatelyRight, ShownRight, ShownToWhoMaySee
<1> QED
  BY <1>1, PrivateInit, PrivateStep, PTL

==================================================================================
