--------------------------- MODULE OAuthGrants_proofs ---------------------------
(***************************************************************************)
(* Theorems about OAuthGrants, for any number of workers and people, any   *)
(* lifetimes and any bounds, and about ConnectRequests, for any number of  *)
(* commands, people and claims, any bounds and any times.                  *)
(***************************************************************************)
EXTENDS OAuthGrants, ConnectRequests, FiniteSetTheorems, TLAPS

ACode  == [id: Nat, user: User, expires: Nat, forgets: Nat, late: BOOLEAN]
AGrant == [id: Nat, code: Nat, user: User, used: Nat, expires: Nat, forgets: Nat, late: BOOLEAN]
AToken == [id: Nat, grant: Nat, from: Nat, rotated: Nat \union {None}, access: Nat, refresh: Nat]

ATaken   == [step: {"taken"}, code: ACode, late: BOOLEAN]
ARefresh == [step: {"refresh"}, token: Nat, at: Nat]
ALocked  == [step: {"locked"}, token: Nat, grant: Nat, first: BOOLEAN, at: Nat]
AWriting == [step: {"writing"}, token: Nat, grant: Nat, first: BOOLEAN, at: Nat, new: AToken, drop: SUBSET Nat]
AWork    == {Idle} \union ATaken \union ARefresh \union ALocked \union AWriting

Shape ==
    /\ now \in Nat /\ pairs \in Nat /\ issued \in Nat
    /\ forgets \in [User -> Nat]
    /\ codes \subseteq ACode /\ grants \subseteq AGrant /\ tokens \subseteq AToken
    /\ work \in [Worker -> AWork]

Refreshing(w) == work[w].step \in {"refresh", "locked", "writing"}
Exchanging(w) == work[w].step \in {"locked", "writing"}
Writing(w)    == work[w].step = "writing"
Holding(w)     == work[w].step = "taken"

\* Ids are given out once, and what refers to a pair refers to one that was given out before.
Numbered ==
    /\ \A g \in grants : g.id <= pairs
    /\ \A g, h \in grants : g.id = h.id => g = h
    /\ \A t \in tokens : 0 < t.id /\ t.id <= pairs /\ t.from <= pairs
    /\ \A t, u \in tokens : t.id = u.id => t = u
    /\ \A w \in Worker : Refreshing(w) => work[w].token <= pairs

\* The pair a worker has inserted and not committed is nobody else's.
Pending ==
    /\ \A w \in Worker : Writing(w) =>
         LET q == work[w] IN
         /\ 0 < q.new.id /\ q.new.id <= pairs /\ q.new.from = q.token /\ q.new.grant = q.grant
         /\ q.new.rotated = None /\ q.new.refresh = q.at + RefreshTtl
         /\ \A t \in tokens : t.id # q.new.id /\ t.from # q.new.id
         /\ \A v \in Worker : Refreshing(v) => work[v].token # q.new.id
    /\ \A v, w \in Worker : Writing(v) /\ Writing(w) /\ work[v].new.id = work[w].new.id => v = w

Timely ==
    /\ \A g \in grants : g.used <= now
    /\ \A w \in Worker : Refreshing(w) => work[w].at <= now

Granted ==
    /\ NoPairWithoutGrant
    /\ \A w \in Worker : Exchanging(w) => work[w].grant \in Ids(grants)

\* A token is exchanged by one worker at a time, who knows whether it was used before.
Locks ==
    /\ \A v, w \in Worker : Exchanging(v) /\ Exchanging(w) /\ work[v].token = work[w].token => v = w
    /\ \A w \in Worker : Exchanging(w) =>
         \A t \in tokens : t.id = work[w].token =>
            /\ work[w].first <=> t.rotated = None
            /\ t.rotated # None => work[w].at <= t.rotated + Grace

\* A code is in the table, or taken, or spent, never two of them.
Codes ==
    /\ \A c \in codes : c.id <= issued
    /\ \A c, d \in codes : c.id = d.id => c = d
    /\ \A w \in Worker : Holding(w) => work[w].code.id <= issued /\ \A c \in codes : c.id # work[w].code.id
    /\ \A g \in grants : g.code <= issued /\ \A c \in codes : c.id # g.code
    /\ OneGrantPerCode

\* What a person agreed to before they were forgotten is gone, unless it had no row then.
Vouched ==
    /\ \A c \in codes : c.forgets < forgets[c.user] => c.late
    /\ \A w \in Worker : Holding(w) /\ work[w].code.forgets < forgets[work[w].code.user]
                             => work[w].code.late \/ work[w].late
    /\ OnlyLateGrantsOutlive

Sound == Shape /\ Numbered /\ Pending /\ Timely /\ Granted /\ Locks /\ PairsWithinGrace /\ Codes /\ Vouched

LEMMA Constants ==
    /\ None \notin Nat /\ Grace \in Nat /\ AccessTtl \in Nat /\ RefreshTtl \in Nat /\ CodeTtl \in Nat
    /\ KeepGrants \in Nat \ {0}
BY OAuthAssumption

\* What a worker holds is what its step says.
LEMMA WorkTypes ==
    ASSUME Shape, NEW w \in Worker
    PROVE  /\ Holding(w) => work[w] \in ATaken
           /\ work[w].step = "refresh" => work[w] \in ARefresh
           /\ work[w].step = "locked" => work[w] \in ALocked
           /\ Writing(w) => work[w] \in AWriting
BY DEF Shape, AWork, ATaken, ARefresh, ALocked, AWriting, Idle, Holding, Writing

LEMMA SoundInit == Init => Sound
<1> SUFFICES ASSUME Init PROVE Sound
  OBVIOUS
<1>1. /\ codes = {} /\ grants = {} /\ tokens = {} /\ pairs = 0 /\ issued = 0 /\ now = 0
      /\ work = [w \in Worker |-> Idle] /\ forgets = [u \in User |-> 0]
  BY DEF Init
<1>2. \A w \in Worker : work[w].step = "idle"
  BY <1>1 DEF Idle
<1>3. Shape
  BY <1>1 DEF Shape, AWork
<1>4. Numbered /\ Pending /\ Timely /\ Locks
  BY <1>1, <1>2 DEF Numbered, Pending, Timely, Locks, Refreshing, Exchanging, Writing
<1>5. Granted /\ PairsWithinGrace
  BY <1>1, <1>2 DEF Granted, NoPairWithoutGrant, PairsWithinGrace, Exchanging
<1>6. Codes /\ Vouched
  BY <1>1, <1>2 DEF Codes, OneGrantPerCode, Vouched, OnlyLateGrantsOutlive, Holding
<1> QED
  BY <1>3, <1>4, <1>5, <1>6 DEF Sound

-----------------------------------------------------------------------------
(* What only ends things *)

\* Rows that go and work that is given up leave the rest as it was.
LEMMA Fewer ==
    ASSUME Sound, Granted', UNCHANGED <<now, issued, pairs, forgets>>,
           codes' \subseteq codes, grants' \subseteq grants, tokens' \subseteq tokens,
           work' \in [Worker -> AWork], \A w \in Worker : work'[w] = work[w] \/ work'[w] = Idle
    PROVE  Sound'
<1>1. \A w \in Worker : work'[w].step # "idle" => work'[w] = work[w]
  BY DEF Idle
<1>2. \A w \in Worker : /\ Refreshing(w)' => Refreshing(w) /\ work'[w] = work[w]
                        /\ Exchanging(w)' => Exchanging(w) /\ work'[w] = work[w]
                        /\ Writing(w)' => Writing(w) /\ work'[w] = work[w]
                        /\ Holding(w)' => Holding(w) /\ work'[w] = work[w]
  BY <1>1 DEF Refreshing, Exchanging, Writing, Holding
<1>3. Shape'
  BY DEF Sound, Shape
<1>4. Numbered'
  BY <1>2 DEF Sound, Numbered
<1>5. Pending'
  BY <1>2 DEF Sound, Pending
<1>6. Timely' /\ Locks'
  BY <1>2 DEF Sound, Timely, Locks
<1>7. PairsWithinGrace'
  BY DEF Sound, PairsWithinGrace
<1>8. Codes'
  BY <1>1, <1>2 DEF Sound, Codes, OneGrantPerCode, Holding
<1>9. Vouched'
  BY <1>2 DEF Sound, Vouched, OnlyLateGrantsOutlive
<1> QED
  BY <1>3, <1>4, <1>5, <1>6, <1>7, <1>8, <1>9 DEF Sound

\* Grants that end take their pairs along, and no exchange of theirs goes on.
LEMMA EndedGrants ==
    ASSUME Sound, NEW G, EndGrants(G),
           \A w \in Worker : work'[w] = Aborted(G)[w] \/ work'[w] = Idle
    PROVE  Granted' /\ grants' \subseteq grants /\ tokens' \subseteq tokens
<1>1. grants' = {g \in grants : g.id \notin G} /\ tokens' = {t \in tokens : t.grant \notin G}
  BY DEF EndGrants, Under
<1>2. \A i \in Ids(grants) : i \notin G => i \in Ids(grants')
  BY <1>1 DEF Ids
<1>3. \A w \in Worker : Exchanging(w)' => /\ Exchanging(w) /\ work'[w] = work[w] /\ work[w].grant \notin G
  BY DEF Exchanging, Aborted, Idle, EndGrants, Deletable
<1>4. \A t \in tokens' : t.grant \in Ids(grants')
  BY <1>1, <1>2 DEF Sound, Granted, NoPairWithoutGrant
<1>5. \A w \in Worker : Exchanging(w)' => work'[w].grant \in Ids(grants')
  BY <1>2, <1>3 DEF Sound, Granted
<1>6. \A w \in Worker : work'[w].step = "writing" => Exchanging(w)'
  BY DEF Exchanging
<1> QED
  BY <1>1, <1>4, <1>5, <1>6 DEF Granted, NoPairWithoutGrant

LEMMA AbortedWork ==
    ASSUME Shape, NEW G
    PROVE  Aborted(G) \in [Worker -> AWork] /\ \A w \in Worker : Aborted(G)[w] = work[w] \/ Aborted(G)[w] = Idle
BY DEF Shape, Aborted, AWork

LEMMA EndSteps ==
    ASSUME Sound, NEW G, EndGrants(G), work' = Aborted(G),
           UNCHANGED <<now, issued, codes, pairs, forgets>>
    PROVE  Sound'
BY EndedGrants, AbortedWork, Fewer DEF Sound

\* One worker is done, and nothing else changed but codes that went.
LEMMA DoneWork ==
    ASSUME Sound, codes' \subseteq codes, UNCHANGED <<now, issued, grants, tokens, pairs, forgets>>,
           \/ work' = work
           \/ \E w \in Worker : work' = [work EXCEPT ![w] = Idle]
    PROVE  Sound'
<1>1. work' \in [Worker -> AWork] /\ \A w \in Worker : work'[w] = work[w] \/ work'[w] = Idle
  BY DEF Sound, Shape, AWork
<1>2. \A w \in Worker : work'[w].step # "idle" => work'[w] = work[w]
  BY <1>1 DEF Idle
<1>3. Granted'
  BY <1>2 DEF Sound, Granted, NoPairWithoutGrant, Exchanging
<1> QED
  BY <1>1, <1>3, Fewer

LEMMA DiesStep == ASSUME NEW w \in Worker PROVE Sound /\ Dies(w) => Sound'
BY DoneWork DEF Dies

LEMMA SweepCodesStep == Sound /\ SweepCodes => Sound'
BY DoneWork DEF SweepCodes

LEMMA SweepGrantsStep == Sound /\ SweepGrants => Sound'
BY EndSteps DEF SweepGrants

LEMMA TakeBackStep == Sound /\ TakeBack => Sound'
BY EndSteps DEF TakeBack

LEMMA SweepTokensStep == Sound /\ SweepTokens => Sound'
<1> SUFFICES ASSUME Sound, SweepTokens PROVE Sound'
  OBVIOUS
<1>1. tokens' \subseteq tokens /\ UNCHANGED <<now, issued, codes, grants, pairs, work, forgets>>
  BY DEF SweepTokens
<1>2. Granted'
  BY <1>1 DEF Sound, Granted, NoPairWithoutGrant, Exchanging
<1> QED
  BY <1>1, <1>2, Fewer DEF Sound, Shape

-----------------------------------------------------------------------------
(* Codes *)

\* Steps that leave the grants, the pairs and what refreshes as they were.
LEMMA OnlyCodes ==
    ASSUME Sound, Shape', Codes', Vouched', UNCHANGED <<now, grants, tokens, pairs>>,
           \A w \in Worker : work'[w] = work[w] \/ (work'[w].step = "taken" /\ work[w].step \in {"idle", "taken"})
    PROVE  Sound'
<1>1. \A w \in Worker : /\ Refreshing(w)' => Refreshing(w) /\ work'[w] = work[w]
                        /\ Exchanging(w)' => Exchanging(w) /\ work'[w] = work[w]
                        /\ Writing(w)' => Writing(w) /\ work'[w] = work[w]
                        /\ Refreshing(w) => Refreshing(w)'
  BY DEF Refreshing, Exchanging, Writing
<1>2. Numbered' /\ Pending' /\ Timely'
  BY <1>1 DEF Sound, Numbered, Pending, Timely
<1>3. Granted'
  BY <1>1 DEF Sound, Granted, NoPairWithoutGrant, Exchanging
<1>4. Locks' /\ PairsWithinGrace'
  BY <1>1 DEF Sound, Locks, PairsWithinGrace
<1> QED
  BY <1>2, <1>3, <1>4 DEF Sound

LEMMA ConsentStep == ASSUME NEW u \in User PROVE Sound /\ Consent(u) => Sound'
BY DoneWork DEF Consent

LEMMA DecideStep == ASSUME NEW u \in User PROVE Sound /\ Decide(u) => Sound'
<1> SUFFICES ASSUME Sound, Decide(u) PROVE Sound'
  OBVIOUS
<1>p. PICK seen \in 0..MaxForgets :
        codes' = codes \union {[id |-> issued + 1, user |-> u, expires |-> now + CodeTtl, forgets |-> seen,
                                late |-> seen # forgets[u]]}
  BY DEF Decide
<1> DEFINE c == [id |-> issued + 1, user |-> u, expires |-> now + CodeTtl, forgets |-> seen,
                 late |-> seen # forgets[u]]
<1>1. /\ codes' = codes \union {c} /\ issued' = issued + 1
      /\ UNCHANGED <<now, grants, tokens, pairs, work, forgets>>
  BY <1>p DEF Decide
<1>2. c \in ACode /\ c.id = issued + 1 /\ (c.forgets < forgets[c.user] => c.late)
  <2>1. issued \in Nat /\ now + CodeTtl \in Nat /\ seen \in Nat /\ forgets[u] \in Nat
    BY Constants, OAuthAssumption DEF Sound, Shape
  <2>2. c \in ACode
    BY <2>1 DEF ACode
  <2>3. c.id = issued + 1 /\ c.user = u /\ c.forgets = seen /\ (c.late <=> seen # forgets[u])
    OBVIOUS
  <2> HIDE DEF c
  <2> QED
    BY <2>1, <2>2, <2>3
<1> HIDE DEF c
<1>3. Shape'
  BY <1>1, <1>2 DEF Sound, Shape
<1>4. issued \in Nat /\ \A d \in codes : d.id \in Nat /\ d.id < c.id
  BY <1>2 DEF Sound, Shape, Codes, ACode
<1>5. \A w \in Worker : Holding(w) => work[w].code.id \in Nat /\ work[w].code.id < c.id
  BY <1>2, <1>4, WorkTypes DEF Sound, Codes, ATaken, ACode
<1>6. \A g \in grants : g.code \in Nat /\ g.code < c.id
  BY <1>2, <1>4 DEF Sound, Shape, Codes, AGrant
<1>7. Codes'
  BY <1>1, <1>2, <1>4, <1>5, <1>6 DEF Sound, Codes, OneGrantPerCode, Holding
<1>8. Vouched'
  BY <1>1, <1>2 DEF Sound, Vouched, OnlyLateGrantsOutlive, Holding
<1> QED
  BY <1>1, <1>3, <1>7, <1>8, OnlyCodes

LEMMA TakeCodeStep == ASSUME NEW w \in Worker PROVE Sound /\ TakeCode(w) => Sound'
<1> SUFFICES ASSUME Sound, TakeCode(w) PROVE Sound'
  OBVIOUS
<1>1. PICK c \in codes :
        /\ codes' = codes \ {c}
        /\ \/ work' = [work EXCEPT ![w] = [step |-> "taken", code |-> c, late |-> FALSE]]
           \/ UNCHANGED work
  BY DEF TakeCode, Taken
<1>2. work[w] = Idle /\ UNCHANGED <<now, issued, grants, tokens, pairs, forgets>>
  BY DEF TakeCode
<1>3. CASE UNCHANGED work
  BY <1>1, <1>2, <1>3, DoneWork
<1>4. CASE work' = [work EXCEPT ![w] = [step |-> "taken", code |-> c, late |-> FALSE]]
  <2> DEFINE q == [step |-> "taken", code |-> c, late |-> FALSE]
  <2>1. q \in ATaken /\ q.step = "taken" /\ q.code = c /\ c \in ACode
    BY DEF Sound, Shape, ATaken
  <2>2. work'[w] = q /\ \A v \in Worker \ {w} : work'[v] = work[v]
    BY <1>4 DEF Sound, Shape
  <2>3. Shape'
    BY <1>1, <1>2, <1>4, <2>1 DEF Sound, Shape, AWork
  <2> HIDE DEF q
  <2>4. \A v \in Worker : Holding(v)' => v = w \/ (Holding(v) /\ work'[v] = work[v] /\ v # w)
    BY <2>2 DEF Holding
  <2>5. \A d \in codes' : d \in codes /\ d.id # c.id
    BY <1>1 DEF Sound, Codes
  <2>6. Codes'
    <3>1. \A d \in codes' : d.id <= issued'
      BY <1>2, <2>5 DEF Sound, Codes
    <3>2. \A d, e \in codes' : d.id = e.id => d = e
      BY <2>5 DEF Sound, Codes
    <3>3. \A v \in Worker : Holding(v)' => work'[v].code.id <= issued' /\ \A d \in codes' : d.id # work'[v].code.id
      BY <1>2, <2>1, <2>2, <2>4, <2>5 DEF Sound, Codes
    <3>4. \A g \in grants' : g.code <= issued' /\ \A d \in codes' : d.id # g.code
      BY <1>2, <2>5 DEF Sound, Codes
    <3>5. OneGrantPerCode'
      <4>1. \A g \in grants : g.code # c.id
        BY DEF Sound, Codes
      <4>2. \A v \in Worker : Holding(v) => work[v].code.id # c.id
        BY DEF Sound, Codes
      <4> QED
        BY <1>2, <2>1, <2>2, <2>4, <4>1, <4>2 DEF Sound, Codes, OneGrantPerCode, Holding
    <3> QED
      BY <3>1, <3>2, <3>3, <3>4, <3>5 DEF Codes
  <2>7. Vouched'
    <3>1. c.forgets < forgets[c.user] => c.late
      BY <2>1 DEF Sound, Vouched, ACode
    <3>2. \A v \in Worker : Holding(v)' /\ work'[v].code.forgets < forgets'[work'[v].code.user]
             => work'[v].code.late \/ work'[v].late
      BY <1>2, <2>1, <2>2, <2>4, <3>1 DEF Sound, Vouched
    <3> QED
      BY <1>1, <1>2, <3>2 DEF Sound, Vouched, OnlyLateGrantsOutlive
  <2>8. \A v \in Worker : work'[v] = work[v] \/ (work'[v].step = "taken" /\ work[v].step \in {"idle", "taken"})
    BY <1>2, <2>1, <2>2 DEF Idle
  <2> QED
    BY <1>2, <2>3, <2>6, <2>7, <2>8, OnlyCodes
<1> QED
  BY <1>1, <1>3, <1>4

LEMMA AuthorizeStep == Sound /\ Authorize => Sound'
BY DoneWork DEF Authorize

\* What holds of pairs when grants, pairs and exchanges only end.
LEMMA FewerPairs ==
    ASSUME Sound, Shape', UNCHANGED <<now, pairs>>, grants' \subseteq grants, tokens' \subseteq tokens,
           \A w \in Worker : Refreshing(w)' => Refreshing(w) /\ work'[w] = work[w]
    PROVE  Numbered' /\ Pending' /\ Timely' /\ Locks' /\ PairsWithinGrace'
<1>1. \A w \in Worker : /\ Exchanging(w)' => Exchanging(w) /\ work'[w] = work[w]
                        /\ Writing(w)' => Writing(w) /\ work'[w] = work[w]
  BY DEF Refreshing, Exchanging, Writing
<1> QED
  BY <1>1 DEF Sound, Numbered, Pending, Timely, Locks, PairsWithinGrace

LEMMA ForgetStep == ASSUME NEW u \in User PROVE Sound /\ ForgetUserAccess(u) => Sound'
<1> SUFFICES ASSUME Sound, ForgetUserAccess(u) PROVE Sound'
  OBVIOUS
<1> DEFINE G == Ids({g \in grants : g.user = u})
           Late(w) == work[w].step = "taken" /\ work[w].code.user = u
<1>1. /\ EndGrants(G) /\ codes' = {c \in codes : c.user # u}
      /\ forgets' = [forgets EXCEPT ![u] = @ + 1]
      /\ work' = [w \in Worker |-> IF Late(w) THEN [work[w] EXCEPT !.late = TRUE] ELSE Aborted(G)[w]]
      /\ UNCHANGED <<now, issued, pairs>>
  BY DEF ForgetUserAccess, Forgotten
<1>2. grants' = {g \in grants : g.id \notin G} /\ tokens' = {t \in tokens : t.grant \notin G}
  BY <1>1 DEF EndGrants, Under
<1>3. \A w \in Worker : Late(w) => /\ work'[w] \in ATaken /\ work'[w].code = work[w].code
                                   /\ work'[w].late /\ work'[w].step = "taken"
  BY <1>1, WorkTypes DEF Sound, ATaken, Holding
<1>4. \A w \in Worker : ~Late(w) => work'[w] = Aborted(G)[w] /\ (work'[w] = work[w] \/ work'[w] = Idle)
  BY <1>1 DEF Aborted
<1>5. Aborted(G) \in [Worker -> AWork]
  BY AbortedWork DEF Sound
<1>6. Shape'
  <2>1. work' \in [Worker -> AWork]
    <3>1. \A w \in Worker : work'[w] \in AWork
      BY <1>3, <1>4, <1>5 DEF AWork
    <3> QED
      BY <1>1, <3>1
  <2> QED
    BY <1>1, <1>2, <2>1 DEF Sound, Shape
<1>a. \A w \in Worker : \/ Late(w)
                        \/ ~Late(w) /\ work'[w] = work[w]
                        \/ ~Late(w) /\ work'[w].step = "idle"
  <2> SUFFICES ASSUME NEW w \in Worker, ~Late(w) PROVE work'[w] = work[w] \/ work'[w].step = "idle"
    OBVIOUS
  <2>1. work'[w] = work[w] \/ work'[w] = Idle
    BY <1>4
  <2> QED
    BY <2>1 DEF Idle
<1>b. \A w \in Worker : Late(w) => work[w].step = "taken" /\ work'[w].step = "taken"
  BY <1>3
<1>7. \A w \in Worker : Holding(w)' => Holding(w) /\ work'[w].code = work[w].code
  BY <1>3, <1>a, <1>b DEF Holding
<1>8. \A w \in Worker : Refreshing(w)' => Refreshing(w) /\ work'[w] = work[w] /\ ~Late(w)
  BY <1>a, <1>b DEF Refreshing
<1> HIDE DEF G
<1>9. Granted'
  <2>1. \A i \in Ids(grants) : i \notin G => i \in Ids(grants')
    BY <1>2 DEF Ids
  <2>2. \A w \in Worker : Exchanging(w)' => Exchanging(w) /\ work'[w] = work[w] /\ work[w].grant \notin G
    BY <1>1, <1>4, <1>8 DEF Exchanging, Refreshing, Aborted, Idle, EndGrants, Deletable
  <2>3. \A w \in Worker : work'[w].step = "writing" => Exchanging(w)'
    BY DEF Exchanging
  <2> QED
    BY <1>2, <2>1, <2>2, <2>3 DEF Sound, Granted, NoPairWithoutGrant
<1>10. Numbered' /\ Pending' /\ Timely' /\ Locks' /\ PairsWithinGrace'
  BY <1>1, <1>2, <1>6, <1>8, FewerPairs
<1>11. Codes'
  BY <1>1, <1>2, <1>7 DEF Sound, Codes, OneGrantPerCode, Holding
<1>12. Vouched'
  <2>1. \A x \in User : x # u => forgets'[x] = forgets[x]
    BY <1>1 DEF Sound, Shape
  <2>2. \A c \in codes' : c.forgets < forgets'[c.user] => c.late
    BY <1>1, <2>1 DEF Sound, Vouched, Shape, ACode
  <2>3. \A g \in grants' : g \in grants /\ g.user \in User /\ g.user # u
    BY <1>2 DEF G, Ids, Sound, Shape, AGrant
  <2>4. OnlyLateGrantsOutlive'
    BY <2>1, <2>3 DEF Sound, Vouched, OnlyLateGrantsOutlive
  <2>5. \A w \in Worker : Holding(w)' /\ ~work'[w].late
           => Holding(w) /\ work'[w] = work[w] /\ work[w].code.user # u /\ work[w].code.user \in User
    BY <1>3, <1>4, <1>7, WorkTypes DEF Sound, Holding, Idle, ATaken, ACode
  <2> QED
    BY <2>1, <2>2, <2>4, <2>5 DEF Sound, Vouched
<1> QED
  BY <1>6, <1>9, <1>10, <1>11, <1>12 DEF Sound

-----------------------------------------------------------------------------
(* Steps that write to a grant *)

LEMMA TickStep == Sound /\ Tick => Sound'
<1> SUFFICES ASSUME Sound, Tick PROVE Sound'
  OBVIOUS
<1>1. now' = now + 1 /\ UNCHANGED <<issued, codes, grants, tokens, pairs, work, forgets>>
  BY DEF Tick
<1>2. Shape' /\ Numbered' /\ Pending' /\ Granted' /\ Locks' /\ PairsWithinGrace' /\ Codes' /\ Vouched'
  BY <1>1 DEF Sound, Shape, Numbered, Pending, Granted, NoPairWithoutGrant, Locks, PairsWithinGrace, Codes,
       OneGrantPerCode, Vouched, OnlyLateGrantsOutlive, Refreshing, Exchanging, Writing, Holding
<1>3. now \in Nat /\ \A g \in grants : g.used \in Nat
  BY DEF Sound, Shape, AGrant
<1>4. \A w \in Worker : Refreshing(w) => work[w].at \in Nat
  BY WorkTypes DEF Sound, Refreshing, Writing, ARefresh, ALocked, AWriting
<1>5. Timely'
  BY <1>1, <1>3, <1>4 DEF Sound, Timely, Refreshing
<1> QED
  BY <1>2, <1>5 DEF Sound

\* Grants keep what they are, but for when they were used and when they end.
LEMMA SameGrants ==
    ASSUME Sound, UNCHANGED <<issued, codes, pairs, forgets>>,
           \A h \in grants' : \E g \in grants :
              /\ h \in AGrant /\ h.id = g.id /\ h.code = g.code /\ h.user = g.user
              /\ h.forgets = g.forgets /\ h.late = g.late,
           \A g, h \in grants' : g.id = h.id => g = h,
           \A w \in Worker : Holding(w)' => Holding(w) /\ work'[w] = work[w]
    PROVE  /\ grants' \subseteq AGrant
           /\ \A g \in grants' : g.id <= pairs
           /\ Codes' /\ Vouched'
<1>1. grants' \subseteq AGrant /\ \A g \in grants' : g.id <= pairs
  BY DEF Sound, Numbered
<1>2. \A g, h \in grants' : g.code = h.code => g = h
  BY DEF Sound, Codes, OneGrantPerCode, Numbered
<1>3. \A g \in grants' : g.code <= issued /\ \A c \in codes : c.id # g.code
  BY DEF Sound, Codes
<1>4. \A g \in grants', w \in Worker : Holding(w)' => work'[w].code.id # g.code
  BY DEF Sound, Codes, OneGrantPerCode, Holding
<1>5. Codes'
  BY <1>2, <1>3, <1>4 DEF Sound, Codes, OneGrantPerCode, Holding
<1>6. Vouched'
  BY DEF Sound, Vouched, OnlyLateGrantsOutlive
<1> QED
  BY <1>1, <1>5, <1>6

LEMMA VerifyStep == Sound /\ Verify => Sound'
<1> SUFFICES ASSUME Sound, Verify PROVE Sound'
  OBVIOUS
<1>1. PICK g \in grants, at \in 0..now : grants' = (grants \ {g}) \union {[g EXCEPT !.used = at]}
  BY DEF Verify
<1>2. UNCHANGED <<now, issued, codes, tokens, pairs, work, forgets>>
  BY DEF Verify
<1> DEFINE n == [g EXCEPT !.used = at]
<1>3. /\ n \in AGrant /\ n.id = g.id /\ n.code = g.code /\ n.user = g.user /\ n.used = at /\ at <= now
      /\ n.forgets = g.forgets /\ n.late = g.late
  BY DEF Sound, Shape, AGrant
<1>4. grants' = (grants \ {g}) \union {n}
  BY <1>1
<1> HIDE DEF n
<1>5. \A h \in grants' : \E x \in grants :
        /\ h \in AGrant /\ h.id = x.id /\ h.code = x.code /\ h.user = x.user
        /\ h.forgets = x.forgets /\ h.late = x.late
  BY <1>3, <1>4 DEF Sound, Shape
<1>6. \A x, y \in grants' : x.id = y.id => x = y
  BY <1>3, <1>4 DEF Sound, Numbered
<1>7. \A w \in Worker : Holding(w)' => Holding(w) /\ work'[w] = work[w]
  BY <1>2 DEF Holding
<1>8. Ids(grants') = Ids(grants)
  BY <1>3, <1>4 DEF Ids
<1>9. grants' \subseteq AGrant /\ (\A x \in grants' : x.id <= pairs) /\ Codes' /\ Vouched'
  BY <1>2, <1>5, <1>6, <1>7, SameGrants
<1>10. Shape' /\ Numbered'
  BY <1>2, <1>6, <1>9 DEF Sound, Shape, Numbered, Refreshing
<1>11. Pending' /\ Locks' /\ PairsWithinGrace'
  BY <1>2 DEF Sound, Pending, Locks, PairsWithinGrace, Refreshing, Exchanging, Writing
<1>12. Granted'
  BY <1>2, <1>8 DEF Sound, Granted, NoPairWithoutGrant, Exchanging
<1>13. Timely'
  <2>1. now \in Nat
    BY DEF Sound, Shape
  <2> QED
    BY <1>2, <1>3, <1>4, <2>1 DEF Sound, Timely, Refreshing
<1> QED
  BY <1>9, <1>10, <1>11, <1>12, <1>13 DEF Sound

-----------------------------------------------------------------------------
(* The token endpoint *)

LEMMA PresentStep == ASSUME NEW w \in Worker PROVE Sound /\ PresentRefresh(w) => Sound'
<1> SUFFICES ASSUME Sound, PresentRefresh(w) PROVE Sound'
  OBVIOUS
<1>1. PICK t \in tokens : work' = [work EXCEPT ![w] = [step |-> "refresh", token |-> t.id, at |-> now]]
  BY DEF PresentRefresh
<1>2. UNCHANGED <<now, issued, codes, grants, tokens, pairs, forgets>>
  BY DEF PresentRefresh
<1>3. /\ work'[w] = [step |-> "refresh", token |-> t.id, at |-> now]
      /\ \A v \in Worker \ {w} : work'[v] = work[v]
  BY <1>1 DEF Sound, Shape
<1>4. work'[w] \in ARefresh /\ work'[w].step = "refresh" /\ work'[w].token = t.id /\ work'[w].at = now
  BY <1>3 DEF Sound, Shape, ARefresh, AToken
<1>5. Shape'
  <2>1. work' \in [Worker -> AWork]
    BY <1>1, <1>4, <1>3 DEF Sound, Shape, AWork
  <2> QED
    BY <1>2, <2>1 DEF Sound, Shape
<1>6. \A v \in Worker : /\ Writing(v)' => v # w /\ Writing(v) /\ work'[v] = work[v]
                        /\ Exchanging(v)' => v # w /\ Exchanging(v) /\ work'[v] = work[v]
                        /\ Holding(v)' => v # w /\ Holding(v) /\ work'[v] = work[v]
                        /\ Refreshing(v)' /\ v # w => Refreshing(v) /\ work'[v] = work[v]
  BY <1>3, <1>4 DEF Writing, Exchanging, Holding, Refreshing
<1>7. Numbered'
  BY <1>2, <1>4, <1>6 DEF Sound, Numbered
<1>8. Pending'
  BY <1>2, <1>4, <1>6 DEF Sound, Pending
<1>9. Timely'
  BY <1>2, <1>4, <1>6 DEF Sound, Shape, Timely
<1>10. Granted' /\ Locks' /\ PairsWithinGrace'
  <2>1. \A v \in Worker : work'[v].step = "writing" => Writing(v) /\ work'[v] = work[v]
    BY <1>6 DEF Writing
  <2> QED
    BY <1>2, <1>6, <2>1 DEF Sound, Granted, NoPairWithoutGrant, Locks, PairsWithinGrace, Writing
<1>11. Codes' /\ Vouched'
  BY <1>2, <1>6 DEF Sound, Codes, OneGrantPerCode, Vouched, OnlyLateGrantsOutlive, Holding
<1> QED
  BY <1>5, <1>7, <1>8, <1>9, <1>10, <1>11 DEF Sound

LEMMA ReadsStep == ASSUME NEW w \in Worker PROVE Sound /\ RotateReads(w) => Sound'
<1> SUFFICES ASSUME Sound, RotateReads(w) PROVE Sound'
  OBVIOUS
<1> DEFINE q == work[w]
<1>1. /\ q.step = "refresh" /\ Lockable(w, q.token)
      /\ UNCHANGED <<now, issued, codes, pairs, forgets>>
  BY DEF RotateReads
<1>2. CASE work' = [work EXCEPT ![w] = Idle] /\ UNCHANGED <<grants, tokens>>
  BY <1>1, <1>2, DoneWork
<1>3. CASE \E t \in tokens : EndGrants({t.grant}) /\ work' = [Aborted({t.grant}) EXCEPT ![w] = Idle]
  <2>1. PICK t \in tokens : EndGrants({t.grant}) /\ work' = [Aborted({t.grant}) EXCEPT ![w] = Idle]
    BY <1>3
  <2> DEFINE A == Aborted({t.grant})
  <2>2. A \in [Worker -> AWork] /\ \A v \in Worker : A[v] = work[v] \/ A[v] = Idle
    BY AbortedWork DEF Sound
  <2> HIDE DEF A
  <2>3. work' = [A EXCEPT ![w] = Idle]
    BY <2>1 DEF A
  <2>4. /\ work' \in [Worker -> AWork]
        /\ \A v \in Worker : work'[v] = A[v] \/ work'[v] = Idle
        /\ \A v \in Worker : work'[v] = work[v] \/ work'[v] = Idle
    BY <2>2, <2>3 DEF AWork
  <2>5. Granted' /\ grants' \subseteq grants /\ tokens' \subseteq tokens
    BY <2>1, <2>4, EndedGrants DEF A
  <2> QED
    BY <1>1, <2>4, <2>5, Fewer DEF Sound
<1>4. CASE \E t \in tokens :
             /\ t.id = q.token
             /\ ~Reused(t, q.at)
             /\ work' = [work EXCEPT ![w] = [step |-> "locked", token |-> t.id, grant |-> t.grant,
                                            first |-> t.rotated = None, at |-> q.at]]
             /\ UNCHANGED <<grants, tokens>>
  <2>1. PICK t \in tokens :
             /\ t.id = q.token
             /\ ~Reused(t, q.at)
             /\ work' = [work EXCEPT ![w] = [step |-> "locked", token |-> t.id, grant |-> t.grant,
                                            first |-> t.rotated = None, at |-> q.at]]
    BY <1>4
  <2>2. UNCHANGED <<grants, tokens>>
    BY <1>4
  <2> DEFINE r == [step |-> "locked", token |-> t.id, grant |-> t.grant,
                   first |-> t.rotated = None, at |-> q.at]
  <2>3. work'[w] = r /\ \A v \in Worker \ {w} : work'[v] = work[v]
    BY <2>1 DEF Sound, Shape
  <2>4. q \in ARefresh /\ t \in AToken
    BY <1>1, WorkTypes DEF Sound, Shape
  <2>5. /\ r \in ALocked /\ r.step = "locked" /\ r.token = q.token /\ r.grant = t.grant /\ r.at = q.at
        /\ r.first <=> t.rotated = None
    BY <2>1, <2>4 DEF ARefresh, ALocked, AToken
  <2>6. Shape'
    <3>1. work' \in [Worker -> AWork]
      BY <2>1, <2>5 DEF Sound, Shape, AWork
    <3> QED
      BY <1>1, <2>2, <3>1 DEF Sound, Shape
  <2> HIDE DEF r
  <2>7. Refreshing(w)
    BY <1>1 DEF Refreshing
  <2>8. \A v \in Worker : /\ Writing(v)' => v # w /\ Writing(v) /\ work'[v] = work[v]
                          /\ Exchanging(v)' /\ v # w => Exchanging(v) /\ work'[v] = work[v]
                          /\ Holding(v)' => v # w /\ Holding(v) /\ work'[v] = work[v]
                          /\ Refreshing(v)' => /\ Refreshing(v) /\ work'[v].token = work[v].token
                                               /\ work'[v].at = work[v].at
    BY <2>3, <2>5, <2>7 DEF Writing, Exchanging, Holding, Refreshing
  <2>9. Numbered' /\ Timely'
    BY <1>1, <2>2, <2>8 DEF Sound, Numbered, Timely
  <2>10. Pending'
    BY <1>1, <2>2, <2>8 DEF Sound, Pending
  <2>11. Granted'
    <3>1. \A v \in Worker : work'[v].step = "writing" => Writing(v) /\ work'[v] = work[v]
      BY <2>8 DEF Writing
    <3>2. t.grant \in Ids(grants)
      BY DEF Sound, Granted, NoPairWithoutGrant
    <3> QED
      BY <2>2, <2>3, <2>5, <2>8, <3>1, <3>2 DEF Sound, Granted, NoPairWithoutGrant, Writing
  <2>12. Locks'
    <3>1. \A v \in Worker : v # w /\ Exchanging(v) => work[v].token # q.token
      BY <1>1, WorkTypes DEF Sound, Lockable, HeldByOthers, Held, Exchanging
    <3>2. \A u \in tokens : u.id = q.token => u = t
      BY <2>1 DEF Sound, Numbered
    <3>3. t.rotated # None => q.at <= t.rotated + Grace
      BY <2>1, <2>4, Constants DEF Reused, ARefresh, AToken
    <3> QED
      BY <2>2, <2>3, <2>5, <2>8, <3>1, <3>2, <3>3 DEF Sound, Locks
  <2>13. Codes' /\ Vouched' /\ PairsWithinGrace'
    BY <1>1, <2>2, <2>8 DEF Sound, Codes, OneGrantPerCode, Vouched, OnlyLateGrantsOutlive, PairsWithinGrace, Holding
  <2> QED
    BY <2>6, <2>9, <2>10, <2>11, <2>12, <2>13 DEF Sound
<1> QED
  BY <1>2, <1>3, <1>4 DEF RotateReads

LEMMA WritesStep == ASSUME NEW w \in Worker PROVE Sound /\ RotateWrites(w) => Sound'
<1> SUFFICES ASSUME Sound, RotateWrites(w) PROVE Sound'
  OBVIOUS
<1> DEFINE q   == work[w]
           new == NewPair(q.grant, q.token, q.at)
           d   == Dropped(q.grant, new.id)
           r   == [step |-> "writing", token |-> q.token, grant |-> q.grant, first |-> q.first,
                   at |-> q.at, new |-> new, drop |-> d]
<1>1. /\ q.step = "locked" /\ pairs' = pairs + 1 /\ work' = [work EXCEPT ![w] = r]
      /\ UNCHANGED <<now, issued, codes, grants, tokens, forgets>>
  BY DEF RotateWrites
<1>2. q \in ALocked /\ pairs \in Nat
  BY <1>1, WorkTypes DEF Sound, Shape
<1>3. /\ new \in AToken /\ new.id = pairs + 1 /\ new.from = q.token /\ new.grant = q.grant
      /\ new.rotated = None /\ new.refresh = q.at + RefreshTtl
  BY <1>2, Constants DEF NewPair, AToken, ALocked
<1>4. d \subseteq Nat
  BY <1>3 DEF Dropped, Ids, Under, Sound, Shape, AToken
<1> HIDE DEF new, d
<1>5. /\ r \in AWriting /\ r.step = "writing" /\ r.token = q.token /\ r.grant = q.grant
      /\ (r.first <=> q.first) /\ r.at = q.at /\ r.new = new
  BY <1>2, <1>3, <1>4 DEF ALocked, AWriting
<1>6. work'[w] = r /\ \A v \in Worker \ {w} : work'[v] = work[v]
  BY <1>1 DEF Sound, Shape
<1>7. Shape'
  <2>1. work' \in [Worker -> AWork]
    BY <1>1, <1>5 DEF Sound, Shape, AWork
  <2> QED
    BY <1>1, <1>2, <2>1 DEF Sound, Shape
<1> HIDE DEF r
<1>8. Refreshing(w) /\ Exchanging(w)
  BY <1>1 DEF Refreshing, Exchanging
<1>9. \A v \in Worker : /\ Writing(v)' /\ v # w => Writing(v) /\ work'[v] = work[v]
                        /\ Exchanging(v)' => /\ Exchanging(v) /\ work'[v].token = work[v].token
                                             /\ work'[v].grant = work[v].grant /\ work'[v].at = work[v].at
                                             /\ work'[v].first <=> work[v].first
                        /\ Holding(v)' => v # w /\ Holding(v) /\ work'[v] = work[v]
                        /\ Refreshing(v)' => /\ Refreshing(v) /\ work'[v].token = work[v].token
                                             /\ work'[v].at = work[v].at
  BY <1>5, <1>6, <1>8 DEF Writing, Exchanging, Holding, Refreshing
<1>10. /\ \A g \in grants : g.id \in Nat
       /\ \A t \in tokens : t.id \in Nat /\ t.from \in Nat
       /\ \A v \in Worker : Refreshing(v) => work[v].token \in Nat
  BY WorkTypes DEF Sound, Shape, AGrant, AToken, Refreshing, Writing, ARefresh, ALocked, AWriting
<1>11. Numbered'
  BY <1>1, <1>2, <1>9, <1>10 DEF Sound, Numbered
<1>12. Pending'
  <2>1. \A v \in Worker : Writing(v) => work[v].new.id \in Nat /\ work[v].new.id <= pairs
    BY WorkTypes DEF Sound, Pending, AWriting, AToken
  <2>2. \A v \in Worker : Writing(v)' /\ v # w => work'[v].new.id # pairs + 1
    BY <1>2, <1>9, <2>1
  <2>3. /\ \A t \in tokens : t.id # pairs + 1 /\ t.from # pairs + 1
        /\ \A v \in Worker : Refreshing(v) => work[v].token # pairs + 1
    BY <1>2, <1>10 DEF Sound, Numbered
  <2>4. \A v \in Worker : Writing(v)' /\ v # w =>
          LET p == work'[v] IN
          /\ 0 < p.new.id /\ p.new.id <= pairs' /\ p.new.from = p.token /\ p.new.grant = p.grant
          /\ p.new.rotated = None /\ p.new.refresh = p.at + RefreshTtl
          /\ \A t \in tokens' : t.id # p.new.id /\ t.from # p.new.id
          /\ \A x \in Worker : Refreshing(x)' => work'[x].token # p.new.id
    BY <1>1, <1>2, <1>9, <2>1 DEF Sound, Pending
  <2>5. LET p == work'[w] IN
          /\ 0 < p.new.id /\ p.new.id <= pairs' /\ p.new.from = p.token /\ p.new.grant = p.grant
          /\ p.new.rotated = None /\ p.new.refresh = p.at + RefreshTtl
          /\ \A t \in tokens' : t.id # p.new.id /\ t.from # p.new.id
          /\ \A x \in Worker : Refreshing(x)' => work'[x].token # p.new.id
    BY <1>1, <1>2, <1>3, <1>5, <1>6, <1>9, <2>3
  <2>6. work'[w].new.id = pairs + 1
    BY <1>3, <1>5, <1>6
  <2>7. \A u, v \in Worker : Writing(u)' /\ Writing(v)' /\ work'[u].new.id = work'[v].new.id => u = v
    BY <1>9, <2>2, <2>6 DEF Sound, Pending
  <2> QED
    BY <2>4, <2>5, <2>7 DEF Pending
<1>13. Timely' /\ Locks' /\ PairsWithinGrace'
  BY <1>1, <1>9 DEF Sound, Timely, Locks, PairsWithinGrace
<1>14. Granted'
  <2>1. \A v \in Worker : work'[v].step = "writing" => Exchanging(v)'
    BY DEF Exchanging
  <2> QED
    BY <1>1, <1>9, <2>1 DEF Sound, Granted, NoPairWithoutGrant
<1>15. Codes' /\ Vouched'
  BY <1>1, <1>9 DEF Sound, Codes, OneGrantPerCode, Vouched, OnlyLateGrantsOutlive, Holding
<1> QED
  BY <1>7, <1>11, <1>12, <1>13, <1>14, <1>15 DEF Sound

LEMMA MarkedToken ==
    ASSUME NEW t \in AToken, NEW q \in AWriting
    PROVE  LET m == Marked(t, q) IN
           /\ m \in AToken /\ m.id = t.id /\ m.grant = t.grant /\ m.from = t.from
           /\ m.access = t.access /\ m.refresh = t.refresh
           /\ m.rotated = IF t.id = q.token /\ q.first THEN q.at ELSE t.rotated
<1>1. CASE t.id = q.token /\ q.first
  BY <1>1 DEF Marked, AToken, AWriting
<1>2. CASE ~(t.id = q.token /\ q.first)
  BY <1>2 DEF Marked
<1> QED
  BY <1>1, <1>2

LEMMA CommitsStep == ASSUME NEW w \in Worker PROVE Sound /\ RotateCommits(w) => Sound'
<1> SUFFICES ASSUME Sound, RotateCommits(w) PROVE Sound'
  OBVIOUS
<1> DEFINE q    == work[w]
           R(g) == IF g.id = q.grant THEN [g EXCEPT !.used = q.at, !.expires = q.new.refresh] ELSE g
<1>1. /\ q.step = "writing" /\ Writing(w) /\ Refreshing(w) /\ Exchanging(w)
      /\ tokens' = {Marked(t, q) : t \in {u \in tokens : u.id \notin q.drop}} \union {q.new}
      /\ grants' = {R(g) : g \in grants}
      /\ work' = [work EXCEPT ![w] = Idle]
      /\ UNCHANGED <<now, issued, codes, pairs, forgets>>
  BY DEF RotateCommits, Writing, Refreshing, Exchanging
<1>2. q \in AWriting /\ q.new \in AToken
  BY <1>1, WorkTypes DEF Sound, AWriting
<1>3. \A t \in tokens : LET m == Marked(t, q) IN
           /\ m \in AToken /\ m.id = t.id /\ m.grant = t.grant /\ m.from = t.from
           /\ m.access = t.access /\ m.refresh = t.refresh
           /\ m.rotated = IF t.id = q.token /\ q.first THEN q.at ELSE t.rotated
  BY <1>2, MarkedToken DEF Sound, Shape
<1>4. \A u \in tokens' :
        \/ u = q.new
        \/ \E t \in tokens :
             /\ u = Marked(t, q) /\ u \in AToken /\ u.id = t.id /\ u.grant = t.grant /\ u.from = t.from
             /\ u.refresh = t.refresh
             /\ u.rotated = IF t.id = q.token /\ q.first THEN q.at ELSE t.rotated
  <2> SUFFICES ASSUME NEW u \in tokens', u # q.new
               PROVE  \E t \in tokens :
                        /\ u = Marked(t, q) /\ u \in AToken /\ u.id = t.id /\ u.grant = t.grant /\ u.from = t.from
                        /\ u.refresh = t.refresh
                        /\ u.rotated = IF t.id = q.token /\ q.first THEN q.at ELSE t.rotated
    OBVIOUS
  <2>1. PICK t \in tokens : u = Marked(t, q)
    BY <1>1
  <2> QED
    BY <1>3, <2>1
<1>5. work'[w].step = "idle" /\ \A v \in Worker \ {w} : work'[v] = work[v]
  BY <1>1 DEF Sound, Shape, Idle
<1>6. \A v \in Worker : /\ Writing(v)' => v # w /\ Writing(v) /\ work'[v] = work[v]
                        /\ Exchanging(v)' => v # w /\ Exchanging(v) /\ Refreshing(v) /\ work'[v] = work[v]
                        /\ Holding(v)' => v # w /\ Holding(v) /\ work'[v] = work[v]
                        /\ Refreshing(v)' => v # w /\ Refreshing(v) /\ work'[v] = work[v]
  BY <1>5 DEF Writing, Exchanging, Holding, Refreshing
<1>7. /\ 0 < q.new.id /\ q.new.id <= pairs /\ q.new.from = q.token /\ q.new.grant = q.grant
      /\ q.new.rotated = None /\ q.new.refresh = q.at + RefreshTtl
      /\ \A t \in tokens : t.id # q.new.id /\ t.from # q.new.id
      /\ \A v \in Worker : Refreshing(v) => work[v].token # q.new.id
      /\ q.token <= pairs /\ q.at <= now
  BY <1>1 DEF Sound, Pending, Numbered, Timely
<1>8. \A g \in grants : /\ R(g) \in AGrant /\ R(g).id = g.id /\ R(g).code = g.code /\ R(g).user = g.user
                        /\ R(g).forgets = g.forgets /\ R(g).late = g.late /\ R(g).used <= now
  <2> SUFFICES ASSUME NEW g \in grants
               PROVE  /\ R(g) \in AGrant /\ R(g).id = g.id /\ R(g).code = g.code /\ R(g).user = g.user
                      /\ R(g).forgets = g.forgets /\ R(g).late = g.late /\ R(g).used <= now
    OBVIOUS
  <2>1. g \in AGrant /\ g.used <= now /\ q.at \in Nat /\ q.new.refresh \in Nat
    BY <1>2 DEF Sound, Shape, Timely, AWriting, AToken
  <2>2. CASE g.id = q.grant
    BY <1>7, <2>1, <2>2 DEF AGrant
  <2>3. CASE g.id # q.grant
    BY <2>1, <2>3
  <2> QED
    BY <2>2, <2>3
<1> HIDE DEF R
<1>9. \A h \in grants' : \E g \in grants :
        /\ h \in AGrant /\ h.id = g.id /\ h.code = g.code /\ h.user = g.user
        /\ h.forgets = g.forgets /\ h.late = g.late
  BY <1>1, <1>8
<1>10. \A x, y \in grants' : x.id = y.id => x = y
  BY <1>1, <1>8 DEF Sound, Numbered
<1>11. Ids(grants') = Ids(grants)
  BY <1>1, <1>8 DEF Ids
<1>12. grants' \subseteq AGrant /\ (\A x \in grants' : x.id <= pairs) /\ Codes' /\ Vouched'
  BY <1>1, <1>6, <1>9, <1>10, SameGrants
<1>13. Shape'
  <2>1. work' \in [Worker -> AWork]
    BY <1>1 DEF Sound, Shape, AWork
  <2>2. tokens' \subseteq AToken
    BY <1>2, <1>4
  <2> QED
    BY <1>1, <1>12, <2>1, <2>2 DEF Sound, Shape
<1>14. Numbered'
  <2>1. \A t \in tokens' : 0 < t.id /\ t.id <= pairs' /\ t.from <= pairs'
    BY <1>1, <1>4, <1>7 DEF Sound, Numbered
  <2>2. \A t, u \in tokens' : t.id = u.id => t = u
    BY <1>4, <1>7 DEF Sound, Numbered
  <2> QED
    BY <1>1, <1>6, <1>10, <1>12, <2>1, <2>2 DEF Sound, Numbered
<1>15. Pending'
  <2>1. \A v \in Worker : Writing(v)' =>
          /\ \A t \in tokens' : t.id # work'[v].new.id /\ t.from # work'[v].new.id
          /\ \A x \in Worker : Refreshing(x)' => work'[x].token # work'[v].new.id
    BY <1>1, <1>4, <1>6, <1>7 DEF Sound, Pending
  <2> QED
    BY <1>1, <1>6, <2>1 DEF Sound, Pending
<1>16. Timely'
  BY <1>1, <1>6, <1>8 DEF Sound, Timely
<1>17. Granted'
  <2>1. \A v \in Worker : work'[v].step = "writing" => Writing(v)'
    BY DEF Writing
  <2>2. q.new.grant \in Ids(grants)
    BY <1>1, <1>7 DEF Sound, Granted
  <2> QED
    BY <1>4, <1>6, <1>11, <2>1, <2>2 DEF Sound, Granted, NoPairWithoutGrant, Writing
<1>18. Locks'
  <2>1. \A v \in Worker : Exchanging(v)' => work[v].token # q.token /\ work[v].token # q.new.id
    BY <1>1, <1>6, <1>7 DEF Sound, Locks
  <2>2. \A v \in Worker : Exchanging(v)' =>
          \A u \in tokens' : u.id = work[v].token => \E t \in tokens : u.id = t.id /\ u.rotated = t.rotated
    BY <1>4, <2>1
  <2> QED
    BY <1>6, <2>2 DEF Sound, Locks
<1>19. PairsWithinGrace'
  <2> SUFFICES ASSUME NEW t \in tokens', NEW u \in tokens', u.from = t.id
               PROVE  t.rotated # None /\ u.refresh <= t.rotated + Grace + RefreshTtl
    BY DEF PairsWithinGrace
  <2>1. t # q.new
    BY <1>1, <1>4, <1>7
  <2>2. PICK x \in tokens : /\ t.id = x.id
                            /\ t.rotated = IF x.id = q.token /\ q.first THEN q.at ELSE x.rotated
    BY <1>4, <2>1
  <2>3. x.id = q.token => /\ q.first <=> x.rotated = None
                          /\ x.rotated # None => q.at <= x.rotated + Grace
    BY <1>1 DEF Sound, Locks
  <2>4. q.at \in Nat /\ x.rotated \in Nat \union {None} /\ Grace \in Nat /\ RefreshTtl \in Nat /\ None \notin Nat
    BY <1>2, Constants DEF Sound, Shape, AToken, AWriting
  <2>5. CASE u = q.new
    <3>1. u.refresh = q.at + RefreshTtl /\ x.id = q.token
      BY <1>7, <2>2, <2>5
    <3>2. CASE q.first
      BY <2>2, <2>4, <3>1, <3>2
    <3>3. CASE ~q.first
      BY <2>2, <2>3, <2>4, <3>1, <3>3
    <3> QED
      BY <3>2, <3>3
  <2>6. CASE u # q.new
    <3>1. PICK y \in tokens : u.from = y.from /\ u.refresh = y.refresh
      BY <1>4, <2>6
    <3>2. x.rotated # None /\ y.refresh <= x.rotated + Grace + RefreshTtl
      BY <2>2, <3>1 DEF Sound, PairsWithinGrace
    <3> QED
      BY <2>2, <2>3, <3>1, <3>2
  <2> QED
    BY <2>5, <2>6
<1> QED
  BY <1>12, <1>13, <1>14, <1>15, <1>16, <1>17, <1>18, <1>19 DEF Sound

\* The first use of a token stands when an exchange of it commits.
LEMMA CommitsKeepFirst ==
    ASSUME Sound, NEW w \in Worker, RotateCommits(w), NEW t \in tokens, NEW u \in tokens', t.id = u.id, t.rotated # None
    PROVE  u.rotated = t.rotated
<1> DEFINE q == work[w]
<1>1. /\ Writing(w) /\ Exchanging(w)
      /\ tokens' = {Marked(x, q) : x \in {y \in tokens : y.id \notin q.drop}} \union {q.new}
  BY DEF RotateCommits, Writing, Exchanging
<1>2. q \in AWriting
  BY <1>1, WorkTypes DEF Sound
<1>3. u # q.new
  BY <1>1 DEF Sound, Pending
<1>4. PICK x \in tokens : u = Marked(x, q)
  BY <1>1, <1>3
<1>5. u.id = x.id /\ u.rotated = IF x.id = q.token /\ q.first THEN q.at ELSE x.rotated
  BY <1>2, <1>4, MarkedToken DEF Sound, Shape
<1>6. x = t
  BY <1>5 DEF Sound, Numbered
<1>7. x.id = q.token => ~q.first
  BY <1>1, <1>6 DEF Sound, Locks
<1> QED
  BY <1>5, <1>6, <1>7

LEMMA CreateStep == ASSUME NEW w \in Worker PROVE Sound /\ CreateGrant(w) => Sound'
<1> SUFFICES ASSUME Sound, CreateGrant(w) PROVE Sound'
  OBVIOUS
<1> DEFINE c    == work[w].code
           pair == NewPair(pairs + 1, 0, now)
           g    == [id |-> pairs + 1, code |-> c.id, user |-> c.user, used |-> now,
                    expires |-> pair.refresh, forgets |-> c.forgets, late |-> c.late \/ work[w].late]
           S    == {h \in grants \union {g} : h.user = c.user}
           gone == Ids(Crowded(S, KeepGrants))
           A    == Aborted(gone)
<1>1. /\ Holding(w) /\ Deletable(gone) /\ pairs' = pairs + 1
      /\ grants' = {h \in grants \union {g} : h.id \notin gone}
      /\ tokens' = (tokens \union {pair}) \ Under(gone)
      /\ work' = [A EXCEPT ![w] = Idle]
      /\ UNCHANGED <<now, issued, codes, forgets>>
  BY DEF CreateGrant, Holding
<1>2. /\ work[w] \in ATaken /\ c \in ACode /\ pairs \in Nat /\ now \in Nat
      /\ forgets \in [User -> Nat]
  BY <1>1, WorkTypes DEF Sound, Shape, ATaken
<1>3. /\ pair \in AToken /\ pair.id = pairs + 1 /\ pair.grant = pairs + 1 /\ pair.from = 0 /\ pair.rotated = None
  BY <1>2, Constants DEF NewPair, AToken
<1>4. /\ g \in AGrant /\ g.id = pairs + 1 /\ g.code = c.id /\ g.user = c.user /\ g.used = now
      /\ g.forgets = c.forgets /\ (g.late <=> c.late \/ work[w].late)
  BY <1>2, <1>3 DEF AGrant, ACode, ATaken, AToken
<1> HIDE DEF pair, g
<1>5. /\ \A h \in grants : h.id \in Nat /\ h.used \in Nat /\ h.id < pairs + 1 /\ h.used <= now
      /\ \A t \in tokens : t.id \in Nat /\ t.from \in Nat /\ t.id < pairs + 1 /\ t.from < pairs + 1 /\ 0 < t.id
  BY <1>2 DEF Sound, Shape, Numbered, Timely, AGrant, AToken
\* Nobody used a grant of theirs later than the one that is new.
<1>6. pairs + 1 \notin gone
  <2>1. \A h \in grants \union {g} : ~Longer(h, g)
    BY <1>2, <1>4, <1>5 DEF Longer
  <2>2. {h \in S : Longer(h, g)} = {}
    BY <2>1
  <2>3. Cardinality({h \in S : Longer(h, g)}) = 0
    BY <2>2, FS_EmptySet
  <2>4. g \notin Crowded(S, KeepGrants)
    BY <2>3, Constants DEF Crowded
  <2>5. \A h \in Crowded(S, KeepGrants) : h \in grants
    BY <2>4 DEF Crowded
  <2>6. \A h \in Crowded(S, KeepGrants) : h.id # pairs + 1
    BY <1>2, <1>5, <2>5
  <2> QED
    BY <2>6 DEF Ids
<1>7. A \in [Worker -> AWork] /\ \A v \in Worker : A[v] = work[v] \/ A[v] = Idle
  BY AbortedWork DEF Sound
<1>8. \A v \in Worker : Exchanging(v) /\ work[v].grant \in gone => A[v] = Idle
  BY <1>1 DEF Exchanging, Aborted, Deletable
<1> HIDE DEF A, gone
<1>9. work'[w] = Idle /\ \A v \in Worker : work'[v] = work[v] \/ work'[v] = Idle
  BY <1>1, <1>7
<1>10. \A v \in Worker : work'[v].step = "idle" \/ (v # w /\ work'[v] = work[v] /\ A[v] = work[v])
  BY <1>1, <1>7, <1>9 DEF Idle
<1>11. \A v \in Worker : /\ Writing(v)' => v # w /\ Writing(v) /\ work'[v] = work[v]
                         /\ Exchanging(v)' => v # w /\ Exchanging(v) /\ Refreshing(v) /\ work'[v] = work[v]
                         /\ Holding(v)' => v # w /\ Holding(v) /\ work'[v] = work[v]
                         /\ Refreshing(v)' => v # w /\ Refreshing(v) /\ work'[v] = work[v]
  BY <1>10 DEF Writing, Exchanging, Holding, Refreshing
<1>12. \A v \in Worker : Exchanging(v)' => work[v].grant \notin gone
  BY <1>8, <1>10, <1>11 DEF Exchanging, Idle
<1>13. \A t \in tokens' : t = pair \/ (t \in tokens /\ t.grant \notin gone)
  BY <1>1 DEF Under
<1>14. \A h \in grants' : h = g \/ h \in grants
  BY <1>1
<1>15. Shape'
  <2>1. work' \in [Worker -> AWork]
    BY <1>1, <1>7 DEF AWork
  <2> QED
    BY <1>1, <1>2, <1>3, <1>4, <1>13, <1>14, <2>1 DEF Sound, Shape
<1>16. \A v \in Worker : /\ Refreshing(v) => work[v].token \in Nat /\ work[v].token <= pairs
                         /\ Writing(v) => work[v].new.id \in Nat /\ work[v].new.id <= pairs
  BY WorkTypes DEF Sound, Numbered, Pending, Refreshing, Writing, ARefresh, ALocked, AWriting, AToken
<1>17. Numbered'
  <2>1. \A h \in grants' : h.id <= pairs'
    BY <1>1, <1>2, <1>4, <1>5, <1>14
  <2>2. \A h, i \in grants' : h.id = i.id => h = i
    BY <1>2, <1>4, <1>5, <1>14 DEF Sound, Numbered
  <2>3. \A t \in tokens' : 0 < t.id /\ t.id <= pairs' /\ t.from <= pairs'
    BY <1>1, <1>2, <1>3, <1>5, <1>13
  <2>4. \A t, u \in tokens' : t.id = u.id => t = u
    BY <1>2, <1>3, <1>5, <1>13 DEF Sound, Numbered
  <2>5. \A v \in Worker : Refreshing(v)' => work'[v].token <= pairs'
    BY <1>1, <1>2, <1>11, <1>16
  <2> QED
    BY <2>1, <2>2, <2>3, <2>4, <2>5 DEF Numbered
<1>18. Pending'
  <2>1. \A v \in Worker : Writing(v)' =>
          /\ work'[v].new.id <= pairs'
          /\ \A t \in tokens' : t.id # work'[v].new.id /\ t.from # work'[v].new.id
    BY <1>1, <1>2, <1>3, <1>11, <1>13, <1>16 DEF Sound, Pending
  <2> QED
    BY <1>11, <2>1 DEF Sound, Pending
<1>19. Timely'
  BY <1>1, <1>2, <1>4, <1>11, <1>14 DEF Sound, Timely
<1>20. Granted'
  <2>1. \A i \in Ids(grants) \union {pairs + 1} : i \notin gone => i \in Ids(grants')
    BY <1>1, <1>4 DEF Ids
  <2>2. \A t \in tokens' : t.grant \in Ids(grants')
    BY <1>3, <1>6, <1>13, <2>1 DEF Sound, Granted, NoPairWithoutGrant
  <2>3. \A v \in Worker : Exchanging(v)' => work'[v].grant \in Ids(grants')
    BY <1>11, <1>12, <2>1 DEF Sound, Granted
  <2>4. \A v \in Worker : work'[v].step = "writing" => Exchanging(v)'
    BY DEF Exchanging
  <2> QED
    BY <2>2, <2>3, <2>4 DEF Granted, NoPairWithoutGrant
<1>21. Locks'
  <2>1. \A v \in Worker : Exchanging(v)' => \A t \in tokens' : t.id = work[v].token => t \in tokens
    BY <1>2, <1>3, <1>11, <1>13, <1>16
  <2> QED
    BY <1>11, <2>1 DEF Sound, Locks
<1>22. PairsWithinGrace'
  <2>1. \A t, u \in tokens' : u.from = t.id => t \in tokens /\ u \in tokens
    BY <1>2, <1>3, <1>5, <1>13
  <2> QED
    BY <2>1 DEF Sound, PairsWithinGrace
<1>23. Codes'
  <2>1. c.id <= issued /\ \A d \in codes : d.id # c.id
    BY <1>1 DEF Sound, Codes
  <2>2. \A h \in grants : h.code # c.id
    BY <1>1 DEF Sound, Codes, OneGrantPerCode, Holding
  <2>3. \A v \in Worker : Holding(v)' => work'[v].code.id # c.id
    BY <1>1, <1>11 DEF Sound, Codes, OneGrantPerCode, Holding
  <2>4. \A h, i \in grants' : h.code = i.code => h = i
    BY <1>4, <1>14, <2>2 DEF Sound, Codes, OneGrantPerCode
  <2>5. \A h \in grants' : h.code <= issued /\ \A d \in codes : d.id # h.code
    BY <1>4, <1>14, <2>1 DEF Sound, Codes
  <2>6. \A h \in grants', v \in Worker : Holding(v)' => work'[v].code.id # h.code
    BY <1>4, <1>11, <1>14, <2>3 DEF Sound, Codes, OneGrantPerCode, Holding
  <2> QED
    BY <1>1, <1>11, <2>4, <2>5, <2>6 DEF Sound, Codes, OneGrantPerCode, Holding
<1>24. Vouched'
  BY <1>1, <1>4, <1>11, <1>14 DEF Sound, Vouched, OnlyLateGrantsOutlive
<1> QED
  BY <1>15, <1>17, <1>18, <1>19, <1>20, <1>21, <1>22, <1>23, <1>24 DEF Sound

-----------------------------------------------------------------------------
(* The theorems *)

LEMMA SoundStep == Sound /\ [Next]_vars => Sound'
<1>1. Sound /\ UNCHANGED vars => Sound'
  BY DoneWork DEF vars
<1>2. ASSUME NEW u \in User PROVE Sound /\ (Consent(u) \/ Decide(u) \/ ForgetUserAccess(u)) => Sound'
  BY ConsentStep, DecideStep, ForgetStep
<1>3. ASSUME NEW w \in Worker PROVE Sound /\ TokenEndpoint(w) => Sound'
  BY TakeCodeStep, CreateStep, PresentStep, ReadsStep, WritesStep, CommitsStep, DiesStep DEF TokenEndpoint
<1> QED
  BY <1>1, <1>2, <1>3, AuthorizeStep, TakeBackStep, SweepCodesStep, SweepGrantsStep, SweepTokensStep,
     VerifyStep, TickStep DEF Next

LEMMA AlwaysSound == Spec => []Sound
<1>1. Init => Sound
  BY SoundInit
<1>2. Sound /\ [Next]_vars => Sound'
  BY SoundStep
<1> QED
  BY <1>1, <1>2, PTL DEF Spec

\* Nothing works without a grant: pairs go with theirs, and an exchange that was under way when it
\* ended commits none (the foreign keys and the row lock rotateOAuthRefresh takes).
THEOREM NothingWithoutGrant == Spec => []NoPairWithoutGrant
<1>1. Sound => NoPairWithoutGrant
  BY DEF Sound, Granted
<1> QED
  BY <1>1, AlwaysSound, PTL

\* A code is good once: no two grants stand on one consent (takeOAuthCode deletes and returns).
THEOREM CodeIsGoodOnce == Spec => []OneGrantPerCode
<1>1. Sound => OneGrantPerCode
  BY DEF Sound, Codes
<1> QED
  BY <1>1, AlwaysSound, PTL

\* A grant that outlives the deletion of everything of its person is one that had no row at the
\* time: the answer of the person had passed the session and was not stored, or the exchange had
\* taken the code (forgetUserAccess is one transaction; the route of a decision is none, and an
\* exchange is two).
THEOREM OnlyLateOutlive == Spec => []OnlyLateGrantsOutlive
<1>1. Sound => OnlyLateGrantsOutlive
  BY DEF Sound, Vouched
<1> QED
  BY <1>1, AlwaysSound, PTL

\* Nobody goes on from a refresh token later than the grace after its first use (the row lock and
\* the grace of rotateOAuthRefresh).
THEOREM GoesOnWithinGrace == Spec => []PairsWithinGrace
<1>1. Sound => PairsWithinGrace
  BY DEF Sound
<1> QED
  BY <1>1, AlwaysSound, PTL

\* What a step leaves of a used token says when it was first used.
LEMMA FirstUseStep ==
    Sound /\ [Next]_vars =>
        \A t \in tokens, u \in tokens' : t.id = u.id /\ t.rotated # None => u.rotated = t.rotated
<1> SUFFICES ASSUME Sound, [Next]_vars, NEW t \in tokens, NEW u \in tokens', t.id = u.id, t.rotated # None
             PROVE  u.rotated = t.rotated
  OBVIOUS
<1>1. ASSUME u \in tokens PROVE u.rotated = t.rotated
  BY <1>1 DEF Sound, Numbered
<1>2. ASSUME NEW w \in Worker, CreateGrant(w) PROVE u \in tokens
  <2>1. u \in tokens \/ u = NewPair(pairs + 1, 0, now)
    BY <1>2 DEF CreateGrant
  <2>2. t.id <= pairs /\ t.id \in Nat /\ pairs \in Nat
    BY DEF Sound, Shape, Numbered, AToken
  <2> QED
    BY <2>1, <2>2 DEF NewPair
<1>3. ASSUME NEW w \in Worker, RotateReads(w) PROVE u \in tokens
  BY <1>3 DEF RotateReads, EndGrants
<1>4. CASE UNCHANGED vars \/ Authorize \/ TakeBack \/ SweepCodes \/ SweepGrants \/ SweepTokens \/ Verify \/ Tick
  BY <1>1, <1>4 DEF vars, Authorize, TakeBack, SweepCodes, SweepGrants, SweepTokens, Verify, Tick, EndGrants
<1>5. ASSUME NEW x \in User, Consent(x) \/ Decide(x) \/ ForgetUserAccess(x) PROVE u \in tokens
  BY <1>5 DEF Consent, Decide, ForgetUserAccess, EndGrants
<1>6. ASSUME NEW w \in Worker, TakeCode(w) \/ PresentRefresh(w) \/ RotateWrites(w) \/ Dies(w) PROVE u \in tokens
  BY <1>6 DEF TakeCode, PresentRefresh, RotateWrites, Dies
<1>7. ASSUME NEW w \in Worker, TokenEndpoint(w) PROVE u.rotated = t.rotated
  BY <1>1, <1>2, <1>3, <1>6, <1>7, CommitsKeepFirst DEF TokenEndpoint
<1> QED
  BY <1>1, <1>4, <1>5, <1>7 DEF Next

\* The grace of a refresh token begins with its first use, and no later use of it moves that.
THEOREM FirstUseAlwaysStands == Spec => FirstUseStands
<1>1. Sound /\ [Next]_vars => [\A t \in tokens, u \in tokens' :
         t.id = u.id /\ t.rotated # None => u.rotated = t.rotated]_vars
  BY FirstUseStep
<1> QED
  BY <1>1, AlwaysSound, PTL DEF Spec, FirstUseStands

-----------------------------------------------------------------------------
(* How many pairs a grant has, and which ones go *)

Kept         == IF KeepPairs > 2 THEN KeepPairs ELSE 2
PairIds(i)   == Ids(Under({i}))
\* Who is about to add a pair to a grant and saw too few to drop one.
Undropped(i) == {w \in Worker : Writing(w) /\ work[w].grant = i /\ work[w].drop = {}}
Within(i)    == Cardinality(PairIds(i)) + Cardinality(Undropped(i)) <= Kept + Cardinality(Worker) - 1

\* What an exchange drops is still there and its own to drop, and as many were issued since as are kept.
Doomed ==
    /\ \A w \in Worker : Writing(w) =>
         \A i \in work[w].drop : i + KeepPairs <= pairs /\ i \in PairIds(work[w].grant)
    /\ \A v, w \in Worker : v # w /\ Writing(v) /\ Writing(w) => work[v].drop \intersect work[w].drop = {}

Bounded == \A i \in Ids(grants) : Within(i)

Tight == Sound /\ Doomed /\ Bounded

LEMMA Sizes ==
    /\ IsFiniteSet(Worker) /\ Cardinality(Worker) \in Nat
    /\ Kept \in Nat \ {0, 1} /\ KeepPairs \in Nat \ {0} /\ KeepPairs <= Kept
BY OAuthAssumption, FS_CardinalityType DEF Kept

LEMMA LeastOf == ASSUME NEW S \in SUBSET Nat, S # {} PROVE \E m \in S : \A j \in S : m <= j
<1> DEFINE R == OpToRel(<, Nat)
<1>1. IsWellFoundedOn(R, Nat)
  BY NatLessThanWellFounded
<1>2. \A x, y \in Nat : x < y => <<x, y>> \in R
  BY DEF OpToRel
<1> HIDE DEF R
<1>3. PICK m \in S : \A j \in S : ~(<<j, m>> \in R)
  BY <1>1, WFMin
<1>4. \A j \in S : ~(j < m)
  BY <1>2, <1>3
<1>5. \A j \in S : m <= j
  BY <1>4
<1> QED
  BY <1>5

\* Nothing of a set goes when its greatest n are kept: it has no more than n.
LEMMA AllAreGreatest ==
    ASSUME NEW S \in SUBSET Nat, IsFiniteSet(S), NEW n \in Nat \ {0}, S \ Greatest(S, n) = {}
    PROVE  Cardinality(S) <= n
<1>1. CASE S = {}
  BY <1>1, FS_EmptySet
<1>2. CASE S # {}
  <2>1. PICK m \in S : \A j \in S : m <= j
    BY <1>2, LeastOf
  <2>2. \A j \in S : m < j <=> j # m
    BY <2>1
  <2>3. {j \in S : m < j} = S \ {m}
    BY <2>2
  <2>4. Cardinality({j \in S : m < j}) < n
    BY DEF Greatest
  <2>5. Cardinality(S \ {m}) = Cardinality(S) - 1 /\ Cardinality(S) \in Nat
    BY FS_RemoveElement, FS_CardinalityType
  <2> QED
    BY <2>3, <2>4, <2>5
<1> QED
  BY <1>1, <1>2

\* What goes when the greatest n of a set are kept is at least n below its top.
LEMMA GoneAreOld ==
    ASSUME NEW S \in SUBSET Nat, NEW top \in Nat, \A j \in S : j <= top, top \in S,
           NEW n \in Nat \ {0}, NEW i \in S \ Greatest(S, n)
    PROVE  i + n <= top
<1> DEFINE T == {j \in S : i < j}
<1>1. i \in Nat /\ ~(Cardinality(T) < n)
  BY DEF Greatest
<1>2. IsFiniteSet((i+1)..top) /\ Cardinality((i+1)..top) = IF i + 1 > top THEN 0 ELSE top - (i + 1) + 1
  BY <1>1, FS_Interval
<1>3. T \in SUBSET ((i+1)..top)
  <2>1. \A j \in T : j \in Nat /\ i < j /\ j <= top
    OBVIOUS
  <2>2. \A j \in T : j \in (i+1)..top
    BY <1>1, <2>1
  <2> QED
    BY <2>2
<1>4. Cardinality(T) \in Nat /\ Cardinality(T) <= Cardinality((i+1)..top)
  BY <1>2, <1>3, FS_Subset, FS_CardinalityType
<1>5. i <= top
  OBVIOUS
<1> HIDE DEF T
<1> QED
  BY <1>1, <1>2, <1>4, <1>5

\* The ids of a grant's pairs are as many as its pairs.
LEMMA PairsHaveIds ==
    ASSUME Shape, Numbered, NEW i
    PROVE  /\ PairIds(i) \subseteq Nat /\ (\A j \in PairIds(i) : j <= pairs)
           /\ IsFiniteSet(PairIds(i)) /\ Cardinality(PairIds(i)) \in Nat
           /\ IsFiniteSet(Under({i})) /\ Cardinality(Under({i})) <= Cardinality(PairIds(i))
<1>1. PairIds(i) \in SUBSET Nat /\ pairs \in Nat /\ \A j \in PairIds(i) : j <= pairs
  BY DEF PairIds, Ids, Under, Shape, Numbered, AToken
<1>2. IsFiniteSet(PairIds(i)) /\ Cardinality(PairIds(i)) \in Nat
  BY <1>1, FS_BoundedSetOfNaturals, FS_CardinalityType
<1> DEFINE f == [t \in Under({i}) |-> t.id]
<1>3. f \in Injection(Under({i}), PairIds(i))
  BY DEF Injection, IsInjective, PairIds, Ids, Under, Numbered
<1>4. IsFiniteSet(Under({i})) /\ Cardinality(Under({i})) <= Cardinality(PairIds(i))
  BY <1>2, <1>3, FS_Injection
<1> QED
  BY <1>1, <1>2, <1>4

LEMMA UndroppedSize ==
    ASSUME NEW i PROVE IsFiniteSet(Undropped(i)) /\ Cardinality(Undropped(i)) \in Nat
                       /\ Cardinality(Undropped(i)) <= Cardinality(Worker)
<1>1. Undropped(i) \in SUBSET Worker
  BY DEF Undropped
<1> QED
  BY <1>1, Sizes, FS_Subset, FS_CardinalityType

\* A grant that gets no pair and nobody who adds one stays within its bound.
LEMMA StaysWithin ==
    ASSUME Shape, Numbered, NEW i, Within(i), PairIds(i)' \subseteq PairIds(i), Undropped(i)' \subseteq Undropped(i)
    PROVE  Within(i)'
<1>1. IsFiniteSet(PairIds(i)) /\ IsFiniteSet(Undropped(i)) /\ Cardinality(PairIds(i)) \in Nat /\ Cardinality(Undropped(i)) \in Nat
  BY PairsHaveIds, UndroppedSize
<1>2. Cardinality(PairIds(i)') \in Nat /\ Cardinality(PairIds(i)') <= Cardinality(PairIds(i))
  BY <1>1, FS_Subset, FS_CardinalityType
<1>3. Cardinality(Undropped(i)') \in Nat /\ Cardinality(Undropped(i)') <= Cardinality(Undropped(i))
  BY <1>1, FS_Subset, FS_CardinalityType
<1>4. Cardinality(Worker) \in Nat /\ Kept \in Nat
  BY Sizes
<1> QED
  BY <1>1, <1>2, <1>3, <1>4 DEF Within, Kept

\* Steps that add no pair and no exchange, and take nothing an exchange is about to drop.
LEMMA NothingAdded ==
    ASSUME Tight, pairs' = pairs, tokens' \subseteq tokens, Ids(grants') \subseteq Ids(grants),
           \A w \in Worker : Writing(w)' => Writing(w) /\ work'[w] = work[w],
           \A w \in Worker : Writing(w)' => \A t \in tokens \ tokens' : t.id \notin work[w].drop
    PROVE  Doomed' /\ Bounded'
<1>1. \A i : PairIds(i)' \subseteq PairIds(i) /\ Undropped(i)' \subseteq Undropped(i)
  BY DEF PairIds, Ids, Under, Undropped
<1>2. \A w \in Worker : Writing(w)' => \A i \in work[w].drop : i \in PairIds(work[w].grant)'
  <2> SUFFICES ASSUME NEW w \in Worker, Writing(w)', NEW i \in work[w].drop PROVE i \in PairIds(work[w].grant)'
    OBVIOUS
  <2>1. PICK t \in tokens : t.id = i /\ t.grant = work[w].grant
    BY DEF Tight, Doomed, PairIds, Ids, Under
  <2>2. t \in tokens'
    BY <2>1
  <2> QED
    BY <2>1, <2>2 DEF PairIds, Ids, Under
<1>3. Doomed'
  <2>1. \A w \in Worker : Writing(w)' => \A i \in work'[w].drop : i + KeepPairs <= pairs'
    BY DEF Tight, Doomed
  <2>2. \A w \in Worker : Writing(w)' => \A i \in work'[w].drop : i \in PairIds(work[w].grant)'
    BY <1>2
  <2>3. \A v, w \in Worker : v # w /\ Writing(v)' /\ Writing(w)' => work'[v].drop \intersect work'[w].drop = {}
    BY DEF Tight, Doomed
  <2> QED
    BY <2>1, <2>2, <2>3 DEF Doomed
<1>4. ASSUME NEW i \in Ids(grants') PROVE Within(i)'
  <2>1. PICK j \in Ids(grants) : j = i
    BY <1>4
  <2>2. Within(j)
    BY DEF Tight, Bounded
  <2>3. Within(j)'
    BY <1>1, <2>2, StaysWithin DEF Tight, Sound
  <2> QED
    BY <2>1, <2>3
<1> QED
  BY <1>3, <1>4 DEF Bounded

\* What an exchange is about to drop is its grant's, and a grant that ends is nobody's who writes.
LEMMA DropsAreTheirs ==
    ASSUME Tight, NEW w \in Worker, Writing(w), NEW t \in tokens, t.id \in work[w].drop
    PROVE  t.grant = work[w].grant
<1>1. PICK u \in tokens : u.id = t.id /\ u.grant = work[w].grant
  BY DEF Tight, Doomed, PairIds, Ids, Under
<1>2. u = t
  BY <1>1 DEF Tight, Sound, Numbered
<1> QED
  BY <1>1, <1>2

LEMMA EndsTight ==
    ASSUME Tight, NEW G, EndGrants(G), pairs' = pairs,
           \A w \in Worker : Writing(w)' => Writing(w) /\ work'[w] = work[w]
    PROVE  Doomed' /\ Bounded'
<1>1. tokens' = {t \in tokens : t.grant \notin G} /\ Ids(grants') \subseteq Ids(grants)
  BY DEF EndGrants, Under, Ids
<1>2. \A w \in Worker : Writing(w)' => work[w].grant \notin G
  BY DEF EndGrants, Deletable, Writing
<1>3. \A w \in Worker : Writing(w)' => \A t \in tokens \ tokens' : t.id \notin work[w].drop
  BY <1>1, <1>2, DropsAreTheirs
<1> QED
  BY <1>1, <1>3, NothingAdded

LEMMA AbortedWriting == ASSUME NEW G, NEW w \in Worker PROVE Aborted(G)[w] = work[w] \/ Aborted(G)[w].step = "idle"
BY DEF Aborted, Idle

\* Steps of one worker that write nothing, and steps of nobody at the token endpoint.
LEMMA QuietTight ==
    ASSUME Tight, UNCHANGED <<tokens, pairs>>, Ids(grants') = Ids(grants),
           \A w \in Worker : work'[w] = work[w] \/ work'[w].step # "writing"
    PROVE  Doomed' /\ Bounded'
<1>1. \A w \in Worker : Writing(w)' => Writing(w) /\ work'[w] = work[w]
  BY DEF Writing
<1> QED
  BY <1>1, NothingAdded

LEMMA OtherTight ==
    ASSUME Tight, \/ UNCHANGED vars \/ Authorize \/ SweepCodes \/ Tick \/ \E u \in User : Consent(u) \/ Decide(u)
                  \/ \E w \in Worker : TakeCode(w) \/ PresentRefresh(w) \/ Dies(w)
    PROVE  Doomed' /\ Bounded'
<1>1. UNCHANGED <<tokens, pairs, grants>>
  BY DEF vars, Authorize, SweepCodes, Tick, Consent, Decide, TakeCode, PresentRefresh, Dies
<1>2. CASE UNCHANGED vars \/ Authorize \/ SweepCodes \/ Tick \/ \E u \in User : Consent(u) \/ Decide(u)
  BY <1>1, <1>2, QuietTight DEF vars, Authorize, SweepCodes, Tick, Consent, Decide
<1>3. ASSUME NEW w \in Worker, TakeCode(w) \/ PresentRefresh(w) \/ Dies(w)
      PROVE  \A v \in Worker : work'[v] = work[v] \/ work'[v].step # "writing"
  <2>1. work \in [Worker -> AWork]
    BY DEF Tight, Sound, Shape
  <2>2. CASE TakeCode(w)
    BY <2>1, <2>2 DEF TakeCode
  <2>3. CASE PresentRefresh(w)
    BY <2>1, <2>3 DEF PresentRefresh
  <2>4. CASE Dies(w)
    BY <2>1, <2>4 DEF Dies, Idle
  <2> QED
    BY <1>3, <2>2, <2>3, <2>4
<1> QED
  BY <1>1, <1>2, <1>3, QuietTight

LEMMA VerifyTight == ASSUME Tight, Verify PROVE Doomed' /\ Bounded'
<1>1. PICK g \in grants, at \in 0..now : grants' = (grants \ {g}) \union {[g EXCEPT !.used = at]}
  BY DEF Verify
<1>2. [g EXCEPT !.used = at].id = g.id
  BY DEF Tight, Sound, Shape, AGrant
<1>3. Ids(grants') = Ids(grants)
  BY <1>1, <1>2 DEF Ids
<1> QED
  BY <1>3, QuietTight DEF Verify

LEMMA SweepTokensTight == ASSUME Tight, SweepTokens PROVE Doomed' /\ Bounded'
<1> DEFINE ended == {t \in tokens : t.refresh <= now}
<1>1. /\ \A w \in Worker : Held(w) \intersect Ids(ended) = {}
      /\ tokens' = tokens \ ended /\ UNCHANGED <<grants, pairs, work>>
  BY DEF SweepTokens
<1>2. \A w \in Worker : Writing(w) => work[w].drop \subseteq Held(w)
  BY DEF Held, Writing
<1>3. \A t \in tokens \ tokens' : t.id \in Ids(ended)
  BY <1>1 DEF Ids
<1>4. \A w \in Worker : Writing(w)' => \A t \in tokens \ tokens' : t.id \notin work[w].drop
  BY <1>1, <1>2, <1>3 DEF Writing
<1> QED
  BY <1>1, <1>4, NothingAdded DEF Writing

LEMMA ReadsTight == ASSUME Tight, NEW w \in Worker, RotateReads(w) PROVE Doomed' /\ Bounded'
<1>1. pairs' = pairs
  BY DEF RotateReads
<1>2. CASE work' = [work EXCEPT ![w] = Idle] /\ UNCHANGED <<grants, tokens>>
  <2>1. \A v \in Worker : work'[v] = work[v] \/ work'[v].step # "writing"
    BY <1>2 DEF Idle, Tight, Sound, Shape
  <2> QED
    BY <1>1, <1>2, <2>1, QuietTight
<1>3. CASE \E t \in tokens : EndGrants({t.grant}) /\ work' = [Aborted({t.grant}) EXCEPT ![w] = Idle]
  <2>1. PICK t \in tokens : EndGrants({t.grant}) /\ work' = [Aborted({t.grant}) EXCEPT ![w] = Idle]
    BY <1>3
  <2>2. \A v \in Worker : work'[v] = Aborted({t.grant})[v] \/ work'[v].step = "idle"
    BY <2>1 DEF Aborted, Idle
  <2>3. \A v \in Worker : Writing(v)' => Writing(v) /\ work'[v] = work[v]
    BY <2>2, AbortedWriting DEF Writing
  <2> QED
    BY <1>1, <2>1, <2>3, EndsTight
<1>4. CASE UNCHANGED <<grants, tokens>> /\ \E t \in tokens : work' = [work EXCEPT ![w] =
              [step |-> "locked", token |-> t.id, grant |-> t.grant, first |-> t.rotated = None, at |-> work[w].at]]
  <2>1. PICK t \in tokens : work' = [work EXCEPT ![w] =
              [step |-> "locked", token |-> t.id, grant |-> t.grant, first |-> t.rotated = None, at |-> work[w].at]]
    BY <1>4
  <2>2. \A v \in Worker : work'[v] = work[v] \/ work'[v].step # "writing"
    BY <2>1 DEF Tight, Sound, Shape
  <2> QED
    BY <1>1, <1>4, <2>2, QuietTight
<1> QED
  BY <1>2, <1>3, <1>4 DEF RotateReads

LEMMA EndingTight ==
    ASSUME Tight, TakeBack \/ SweepGrants \/ \E u \in User : ForgetUserAccess(u)
    PROVE  Doomed' /\ Bounded'
<1>1. CASE TakeBack
  BY <1>1, EndsTight, AbortedWriting DEF TakeBack, Writing
<1>2. CASE SweepGrants
  BY <1>2, EndsTight, AbortedWriting DEF SweepGrants, Writing
<1>3. ASSUME NEW u \in User, ForgetUserAccess(u) PROVE Doomed' /\ Bounded'
  <2> DEFINE G == Ids({g \in grants : g.user = u})
  <2>1. EndGrants(G) /\ pairs' = pairs
    BY <1>3 DEF ForgetUserAccess
  <2>2. ASSUME NEW w \in Worker, Writing(w)' PROVE Writing(w) /\ work'[w] = work[w]
    <3>1. work'[w] = IF work[w].step = "taken" /\ work[w].code.user = u
                       THEN [work[w] EXCEPT !.late = TRUE] ELSE Aborted(G)[w]
      BY <1>3 DEF ForgetUserAccess
    <3>2. work[w].step = "taken" => [work[w] EXCEPT !.late = TRUE].step = "taken"
      BY WorkTypes DEF Tight, Sound, Holding, ATaken
    <3> QED
      BY <2>2, <3>1, <3>2, AbortedWriting DEF Writing
  <2> QED
    BY <2>1, <2>2, EndsTight
<1> QED
  BY <1>1, <1>2, <1>3

LEMMA CreateTight == ASSUME Tight, Sound', NEW w \in Worker, CreateGrant(w) PROVE Doomed' /\ Bounded'
<1> DEFINE pair == NewPair(pairs + 1, 0, now)
<1>1. PICK gone, g :
        /\ g.id = pairs + 1 /\ Deletable(gone) /\ pairs' = pairs + 1
        /\ grants' = {h \in grants \union {g} : h.id \notin gone}
        /\ tokens' = (tokens \union {pair}) \ Under(gone)
        /\ work' = [Aborted(gone) EXCEPT ![w] = Idle]
  BY DEF CreateGrant
<1>2. pairs \in Nat /\ pair.id = pairs + 1 /\ pair.grant = pairs + 1
  BY DEF Tight, Sound, Shape, NewPair
<1> HIDE DEF pair
<1>3. \A v \in Worker : Writing(v)' => Writing(v) /\ work'[v] = work[v] /\ work[v].grant \notin gone
  <2>1. \A v \in Worker : work'[v] = Aborted(gone)[v] \/ work'[v].step = "idle"
    BY <1>1 DEF Aborted, Idle
  <2> QED
    BY <1>1, <2>1, AbortedWriting DEF Writing, Deletable
<1>4. \A t \in tokens' : t = pair \/ t \in tokens
  BY <1>1
<1>5. \A t \in tokens \ tokens' : t.grant \in gone
  BY <1>1 DEF Under
<1>6. \A i : i # pairs + 1 => PairIds(i)' \subseteq PairIds(i)
  BY <1>2, <1>4 DEF PairIds, Ids, Under
<1>7. \A i : Undropped(i)' \subseteq Undropped(i)
  BY <1>3 DEF Undropped
<1>8. Doomed'
  <2>1. ASSUME NEW v \in Worker, Writing(v)', NEW i \in work[v].drop
        PROVE  i + KeepPairs <= pairs' /\ i \in PairIds(work[v].grant)'
    <3>1. PICK t \in tokens : t.id = i /\ t.grant = work[v].grant
      BY <1>3, <2>1 DEF Tight, Doomed, PairIds, Ids, Under
    <3>2. t \in tokens'
      BY <1>3, <1>5, <2>1, <3>1
    <3>3. i \in Nat /\ i + KeepPairs <= pairs
      BY <1>3, <2>1, <3>1 DEF Tight, Doomed, Sound, Shape, AToken
    <3> QED
      BY <1>1, <1>2, <1>3, <2>1, <3>1, <3>2, <3>3, Sizes DEF PairIds, Ids, Under
  <2>2. \A x, v \in Worker : x # v /\ Writing(x)' /\ Writing(v)' => work'[x].drop \intersect work'[v].drop = {}
    BY <1>3 DEF Tight, Doomed
  <2> QED
    BY <1>3, <2>1, <2>2 DEF Doomed
<1>9. ASSUME NEW i \in Ids(grants') PROVE Within(i)'
  <2>1. CASE i = pairs + 1
    <3>1. \A t \in tokens : t.grant # pairs + 1
      <4>1. \A j \in Ids(grants) : j \in Nat /\ j <= pairs
        BY DEF Tight, Sound, Shape, Numbered, Ids, AGrant
      <4> QED
        BY <1>2, <4>1 DEF Tight, Sound, Granted, NoPairWithoutGrant
    <3>2. PairIds(i)' \subseteq {pairs + 1}
      BY <1>2, <1>4, <2>1, <3>1 DEF PairIds, Ids, Under
    <3>3. Cardinality(PairIds(i)') <= 1 /\ Cardinality(PairIds(i)') \in Nat
      <4>1. IsFiniteSet({pairs + 1}) /\ Cardinality({pairs + 1}) = 1
        BY FS_Singleton
      <4>2. PairIds(i)' \in SUBSET {pairs + 1}
        BY <3>2
      <4> HIDE DEF PairIds
      <4>3. IsFiniteSet(PairIds(i)') /\ Cardinality(PairIds(i)') <= 1
        BY <4>1, <4>2, FS_Subset
      <4> QED
        BY <4>3, FS_CardinalityType
    <3>4. Undropped(i) = {}
      <4>1. \A j \in Ids(grants) : j \in Nat /\ j <= pairs
        BY DEF Tight, Sound, Shape, Numbered, Ids, AGrant
      <4>2. \A v \in Worker : Writing(v) => work[v].grant # pairs + 1
        BY <1>2, <4>1 DEF Tight, Sound, Granted, Exchanging, Writing
      <4> QED
        BY <2>1, <4>2 DEF Undropped
    <3>5. Cardinality(Undropped(i)') = 0
      BY <1>7, <3>4, FS_EmptySet
    <3> HIDE DEF PairIds, Undropped
    <3>6. Cardinality(PairIds(i)') + Cardinality(Undropped(i)') <= Kept + Cardinality(Worker) - 1
      BY <3>3, <3>5, Sizes
    <3> QED
      BY <3>6 DEF Within, Kept
  <2>2. CASE i # pairs + 1
    <3>1. PICK j \in Ids(grants) : j = i
      BY <1>1, <1>9, <2>2 DEF Ids
    <3>2. Within(j)
      BY DEF Tight, Bounded
    <3>3. Within(j)'
      BY <1>6, <1>7, <2>2, <3>1, <3>2, StaysWithin DEF Tight, Sound
    <3> QED
      BY <3>1, <3>3
  <2> QED
    BY <2>1, <2>2
<1> QED
  BY <1>8, <1>9 DEF Bounded

LEMMA WritesTight == ASSUME Tight, NEW w \in Worker, RotateWrites(w) PROVE Doomed' /\ Bounded'
<1> DEFINE q   == work[w]
           new == NewPair(q.grant, q.token, q.at)
           S   == PairIds(q.grant) \union {pairs + 1}
           d   == S \ Greatest(S, Kept)
           r   == [step |-> "writing", token |-> q.token, grant |-> q.grant, first |-> q.first,
                   at |-> q.at, new |-> new, drop |-> d]
<1>1. /\ q.step = "locked" /\ pairs' = pairs + 1 /\ new.id = pairs + 1
      /\ Dropped(q.grant, new.id) = d
      /\ UNCHANGED <<tokens, grants>>
  BY DEF RotateWrites, NewPair, Dropped, PairIds, Kept
<1>2. d \intersect HeldByOthers(w) = {} /\ work' = [work EXCEPT ![w] = r]
  BY <1>1 DEF RotateWrites
<1>3. work'[w] = r /\ r.drop = d /\ r.grant = q.grant /\ r.step = "writing" /\ \A v \in Worker \ {w} : work'[v] = work[v]
  BY <1>2 DEF Tight, Sound, Shape
<1> HIDE DEF r, new
<1>4. /\ PairIds(q.grant) \subseteq Nat /\ \A j \in PairIds(q.grant) : j <= pairs
      /\ IsFiniteSet(PairIds(q.grant)) /\ Cardinality(PairIds(q.grant)) \in Nat
  BY PairsHaveIds DEF Tight, Sound
<1>5. pairs \in Nat
  BY DEF Tight, Sound, Shape
<1>6. /\ S \in SUBSET Nat /\ IsFiniteSet(S) /\ (\A j \in S : j <= pairs + 1) /\ pairs + 1 \in S
      /\ Cardinality(S) = Cardinality(PairIds(q.grant)) + 1
  <2>1. pairs + 1 \notin PairIds(q.grant)
    BY <1>4, <1>5
  <2> QED
    BY <1>4, <1>5, <2>1, FS_AddElement
<1>7. \A i \in d : i + Kept <= pairs + 1
  BY <1>5, <1>6, GoneAreOld, Sizes
<1>8. d \subseteq PairIds(q.grant)
  BY <1>5, <1>7, Sizes
<1>9. \A i : PairIds(i)' = PairIds(i)
  BY <1>1 DEF PairIds, Ids, Under
<1>10. d = {} => Cardinality(PairIds(q.grant)) + 1 <= Kept
  BY <1>6, AllAreGreatest, Sizes
<1>12. \A v \in Worker : Writing(v)' => v = w \/ (Writing(v) /\ work'[v] = work[v])
  BY <1>3 DEF Writing
<1>13. \A v \in Worker : v # w /\ Writing(v) => work[v].drop \intersect d = {}
  <2>1. \A v \in Worker : Writing(v) => work[v].drop \subseteq Held(v)
    BY DEF Writing, Held
  <2> HIDE DEF d
  <2> QED
    BY <1>2, <2>1 DEF HeldByOthers
<1> HIDE DEF d, S
<1>11. \A i \in d : i \in Nat /\ i + KeepPairs <= pairs'
  BY <1>1, <1>4, <1>5, <1>7, <1>8, Sizes
<1>14. Doomed'
  <2>1. ASSUME NEW v \in Worker, Writing(v)', NEW i \in work'[v].drop
        PROVE  i + KeepPairs <= pairs' /\ i \in PairIds(work'[v].grant)
    <3>1. CASE v = w
      BY <1>3, <1>8, <1>11, <2>1, <3>1
    <3>2. CASE v # w
      <4>1. Writing(v) /\ work'[v] = work[v]
        BY <1>12, <2>1, <3>2
      <4>2. i + KeepPairs <= pairs /\ i \in PairIds(work[v].grant)
        BY <2>1, <4>1 DEF Tight, Doomed
      <4>3. i \in Nat
        BY <4>2, PairsHaveIds DEF Tight, Sound
      <4> QED
        BY <1>1, <1>5, <4>1, <4>2, <4>3, Sizes
    <3> QED
      BY <3>1, <3>2
  <2>2. \A x, v \in Worker : x # v /\ Writing(x)' /\ Writing(v)' => work'[x].drop \intersect work'[v].drop = {}
    BY <1>3, <1>12, <1>13 DEF Tight, Doomed
  <2>3. \A v \in Worker : Writing(v)' => \A i \in work'[v].drop : i \in {t.id : t \in {t \in tokens' : t.grant \in {work'[v].grant}}}
    BY <1>1, <2>1 DEF PairIds, Ids, Under
  <2> QED
    BY <2>1, <2>2, <2>3 DEF Doomed, PairIds, Ids, Under
<1>15. ASSUME NEW i \in Ids(grants') PROVE Within(i)'
  <2>1. PICK j \in Ids(grants) : j = i
    BY <1>1, <1>15 DEF Ids
  <2>2. Within(j) /\ PairIds(j)' = PairIds(j)
    BY <1>9 DEF Tight, Bounded
  <2>3. CASE j = q.grant /\ d = {}
    <3>1. Undropped(j)' \subseteq Worker
      BY DEF Undropped
    <3>2. Cardinality(Undropped(j)') \in Nat /\ Cardinality(Undropped(j)') <= Cardinality(Worker)
      BY <3>1, Sizes, FS_Subset, FS_CardinalityType
    <3>3. Cardinality(PairIds(j)') + Cardinality(Undropped(j)') <= Kept + Cardinality(Worker) - 1
      BY <1>4, <1>10, <2>2, <2>3, <3>2, Sizes
    <3>4. Within(j)'
      BY <3>3 DEF Within, Kept
    <3> QED
      BY <2>1, <3>4
  <2>4. CASE ~(j = q.grant /\ d = {})
    <3>1. Undropped(j)' \subseteq Undropped(j)
      BY <1>3, <1>12, <2>4 DEF Undropped
    <3>2. Within(j)'
      BY <2>2, <3>1, StaysWithin DEF Tight, Sound
    <3> QED
      BY <2>1, <3>2
  <2> QED
    BY <2>3, <2>4
<1> QED
  BY <1>14, <1>15 DEF Bounded

LEMMA CommitsTight == ASSUME Tight, NEW w \in Worker, RotateCommits(w) PROVE Doomed' /\ Bounded'
<1> DEFINE q == work[w]
<1>1. /\ q.step = "writing" /\ Writing(w) /\ Exchanging(w)
      /\ tokens' = {Marked(t, q) : t \in {u \in tokens : u.id \notin q.drop}} \union {q.new}
      /\ work' = [work EXCEPT ![w] = Idle] /\ pairs' = pairs
  BY DEF RotateCommits, Writing, Exchanging
<1>2. Ids(grants') = Ids(grants)
  <2>1. \A g \in grants : [g EXCEPT !.used = q.at, !.expires = q.new.refresh].id = g.id
    BY DEF Tight, Sound, Shape, AGrant
  <2>2. \A g \in grants : (IF g.id = q.grant THEN [g EXCEPT !.used = q.at, !.expires = q.new.refresh] ELSE g).id = g.id
    BY <2>1
  <2> QED
    BY <2>2 DEF RotateCommits, Ids
<1>3. q \in AWriting /\ q.new.grant = q.grant
  BY <1>1, WorkTypes DEF Tight, Sound, Pending
<1>4. \A t \in tokens : Marked(t, q).id = t.id /\ Marked(t, q).grant = t.grant
  BY <1>3, MarkedToken DEF Tight, Sound, Shape
<1>5. \A v \in Worker : Writing(v)' => v # w /\ Writing(v) /\ work'[v] = work[v]
  BY <1>1 DEF Tight, Sound, Shape, Writing, Idle
<1>6. \A i : PairIds(i)' \subseteq (PairIds(i) \ q.drop) \union (IF i = q.grant THEN {q.new.id} ELSE {})
  <2> SUFFICES ASSUME NEW i, NEW u \in tokens', u.grant = i
               PROVE  u.id \in (PairIds(i) \ q.drop) \union (IF i = q.grant THEN {q.new.id} ELSE {})
    BY DEF PairIds, Ids, Under
  <2>1. CASE u = q.new
    BY <1>3, <2>1
  <2>2. CASE u # q.new
    <3>1. PICK t \in tokens : u = Marked(t, q) /\ t.id \notin q.drop
      BY <1>1, <2>2
    <3> QED
      BY <1>4, <3>1 DEF PairIds, Ids, Under
  <2> QED
    BY <2>1, <2>2
<1>7. \A i : \A j \in PairIds(i) : j \notin q.drop => j \in PairIds(i)'
  <2> SUFFICES ASSUME NEW t \in tokens, t.id \notin q.drop
               PROVE  \E u \in tokens' : u.id = t.id /\ u.grant = t.grant
    BY DEF PairIds, Ids, Under
  <2>1. Marked(t, q) \in tokens'
    BY <1>1
  <2> QED
    BY <1>4, <2>1
<1>8. Doomed'
  <2>1. \A v \in Worker : Writing(v)' => \A i \in work[v].drop : i \in PairIds(work[v].grant) /\ i \notin q.drop
    BY <1>1, <1>5 DEF Tight, Doomed
  <2>2. \A v \in Worker : Writing(v)' => \A i \in work[v].drop : i \in PairIds(work[v].grant)'
    <3> SUFFICES ASSUME NEW v \in Worker, Writing(v)', NEW i \in work[v].drop PROVE i \in PairIds(work[v].grant)'
      OBVIOUS
    <3>1. PICK k : k = work[v].grant /\ work'[v].grant = k
      BY <1>5
    <3>2. i \in PairIds(k)'
      BY <1>7, <2>1, <3>1
    <3> QED
      BY <3>1, <3>2 DEF PairIds, Ids, Under
  <2>3. \A v \in Worker : Writing(v)' => \A i \in work'[v].drop : i + KeepPairs <= pairs'
    BY <1>1, <1>5 DEF Tight, Doomed
  <2>4. \A x, v \in Worker : x # v /\ Writing(x)' /\ Writing(v)' => work'[x].drop \intersect work'[v].drop = {}
    BY <1>5 DEF Tight, Doomed
  <2> QED
    BY <1>5, <2>2, <2>3, <2>4 DEF Doomed
<1>9. ASSUME NEW i \in Ids(grants) PROVE Within(i)'
  <2>1. Within(i)
    BY DEF Tight, Bounded
  <2>2. Undropped(i)' \subseteq Undropped(i) \ {w}
    BY <1>5 DEF Undropped
  <2>3. CASE i # q.grant
    BY <1>6, <2>1, <2>2, <2>3, StaysWithin DEF Tight, Sound
  <2>4. CASE i = q.grant
    <3> DEFINE P == PairIds(i)
               U == Undropped(i)
    <3>1. /\ IsFiniteSet(P) /\ Cardinality(P) \in Nat
          /\ IsFiniteSet(U) /\ Cardinality(U) \in Nat
      BY PairsHaveIds, UndroppedSize DEF Tight, Sound
    <3>2. Undropped(i)' \in SUBSET (U \ {w}) /\ PairIds(i)' \in SUBSET ((P \ q.drop) \union {q.new.id})
      BY <1>6, <2>2, <2>4
    <3>3. /\ Cardinality(U \ {w}) = (IF w \in U THEN Cardinality(U) - 1 ELSE Cardinality(U))
          /\ IsFiniteSet(U \ {w})
      BY <3>1, FS_RemoveElement
    <3>4. Cardinality(Undropped(i)') \in Nat /\ Cardinality(Undropped(i)') <= Cardinality(U \ {w})
      BY <3>2, <3>3, FS_Subset, FS_CardinalityType
    <3>5. IsFiniteSet(P \ q.drop) /\ Cardinality(P \ q.drop) \in Nat /\ Cardinality(P \ q.drop) <= Cardinality(P)
      BY <3>1, FS_Subset, FS_CardinalityType
    <3>6. /\ Cardinality(PairIds(i)') \in Nat
          /\ Cardinality(PairIds(i)') <= Cardinality(P \ q.drop) + 1
      <4> DEFINE Q == P \ q.drop
      <4>0. IsFiniteSet(Q) /\ Cardinality(Q) \in Nat /\ PairIds(i)' \in SUBSET (Q \union {q.new.id})
        BY <3>2, <3>5
      <4> HIDE DEF P, Q
      <4>1. /\ IsFiniteSet(Q \union {q.new.id})
            /\ Cardinality(Q \union {q.new.id}) <= Cardinality(Q) + 1
        BY <4>0, FS_AddElement
      <4>2. Cardinality(Q \union {q.new.id}) \in Nat
        BY <4>1, FS_CardinalityType
      <4>3. /\ Cardinality(PairIds(i)') \in Nat
            /\ Cardinality(PairIds(i)') <= Cardinality(Q \union {q.new.id})
        BY <4>0, <4>1, FS_Subset, FS_CardinalityType
      <4>4. Cardinality(PairIds(i)') <= Cardinality(Q) + 1
        BY <4>0, <4>1, <4>2, <4>3
      <4> QED
        BY <4>3, <4>4 DEF Q
    <3>7. w \in U \/ Cardinality(P \ q.drop) + 1 <= Cardinality(P)
      <4>1. CASE q.drop = {}
        BY <1>1, <2>4, <4>1 DEF Undropped
      <4>2. CASE q.drop # {}
        <5>1. PICK j \in q.drop : j \in P
          BY <1>1, <2>4, <4>2 DEF Tight, Doomed
        <5>2. Cardinality(P \ {j}) = Cardinality(P) - 1 /\ IsFiniteSet(P \ {j})
          BY <3>1, <5>1, FS_RemoveElement
        <5>3. Cardinality(P \ q.drop) <= Cardinality(P \ {j})
          BY <5>1, <5>2, FS_Subset
        <5> HIDE DEF P
        <5> QED
          BY <3>1, <3>5, <5>2, <5>3
      <4> QED
        BY <4>1, <4>2
    <3>8. Cardinality(P) + Cardinality(U) <= Kept + Cardinality(Worker) - 1
      BY <2>1 DEF Within
    <3> HIDE DEF P, U
    <3>9. Cardinality(PairIds(i)') + Cardinality(Undropped(i)') <= Kept + Cardinality(Worker) - 1
      BY <3>1, <3>3, <3>4, <3>5, <3>6, <3>7, <3>8, Sizes
    <3> QED
      BY <3>9 DEF Within, Kept
  <2> QED
    BY <2>3, <2>4
<1> QED
  BY <1>2, <1>8, <1>9 DEF Bounded

LEMMA TightInit == Init => Tight
<1> SUFFICES ASSUME Init PROVE Tight
  OBVIOUS
<1>1. grants = {} /\ \A w \in Worker : ~Writing(w)
  BY DEF Init, Idle, Writing
<1> QED
  BY <1>1, SoundInit DEF Tight, Doomed, Bounded, Ids

LEMMA TightStep == Tight /\ [Next]_vars => Tight'
<1> SUFFICES ASSUME Tight, [Next]_vars PROVE Doomed' /\ Bounded' /\ Sound'
  BY DEF Tight
<1>1. Sound'
  BY SoundStep DEF Tight
<1>2. ASSUME NEW w \in Worker, TokenEndpoint(w) PROVE Doomed' /\ Bounded'
  BY <1>1, <1>2, OtherTight, CreateTight, ReadsTight, WritesTight, CommitsTight DEF TokenEndpoint
<1> QED
  BY <1>1, <1>2, OtherTight, VerifyTight, SweepTokensTight, EndingTight DEF Next

LEMMA AlwaysTight == Spec => []Tight
<1> QED
  BY TightInit, TightStep, PTL DEF Spec

\* A grant has its pairs and no other has: they go with it, and are no more than it keeps, but for
\* one for every other exchange that decided at the same time what to drop (rotateOAuthRefresh).
THEOREM GrantsHoldTheirs == Spec => []GrantsHoldTheirPairs
<1>1. Tight => GrantsHoldTheirPairs
  <2> SUFFICES ASSUME Tight PROVE NoPairWithoutGrant /\ PairsAreBounded
    BY DEF GrantsHoldTheirPairs
  <2>1. NoPairWithoutGrant
    BY DEF Tight, Sound, Granted
  <2>2. ASSUME NEW g \in grants PROVE Cardinality(Under({g.id})) <= Kept + Cardinality(Worker) - 1
    <3>1. Cardinality(PairIds(g.id)) + Cardinality(Undropped(g.id)) <= Kept + Cardinality(Worker) - 1
      BY DEF Tight, Bounded, Ids, Within
    <3>2. /\ Cardinality(PairIds(g.id)) \in Nat /\ IsFiniteSet(Under({g.id}))
          /\ Cardinality(Under({g.id})) <= Cardinality(PairIds(g.id))
      BY PairsHaveIds DEF Tight, Sound
    <3>3. Cardinality(Under({g.id})) \in Nat /\ Cardinality(Undropped(g.id)) \in Nat
      BY <3>2, UndroppedSize, FS_CardinalityType
    <3> QED
      BY <3>1, <3>2, <3>3, Sizes
  <2> QED
    BY <2>1, <2>2 DEF PairsAreBounded, Kept
<1> QED
  BY <1>1, AlwaysTight, PTL

\* What makes a pair go while its grant stays.
LEMMA PairGoesStep ==
    Tight /\ [Next]_vars =>
        \A t \in tokens :
          t.id \notin Ids(tokens') /\ t.grant \in Ids(grants')
            => \/ t.refresh <= now
               \/ pairs' >= t.id + KeepPairs
<1> SUFFICES ASSUME Tight, [Next]_vars, NEW t \in tokens, t.id \notin Ids(tokens'), t.grant \in Ids(grants')
             PROVE  t.refresh <= now \/ pairs' >= t.id + KeepPairs
  OBVIOUS
<1>1. t \notin tokens'
  BY DEF Ids
<1>2. ASSUME NEW G, EndGrants(G) PROVE FALSE
  BY <1>1, <1>2 DEF EndGrants, Under, Ids
<1>3. CASE UNCHANGED vars \/ Authorize \/ SweepCodes \/ Verify \/ Tick
  BY <1>1, <1>3 DEF vars, Authorize, SweepCodes, Verify, Tick
<1>4. CASE TakeBack \/ SweepGrants
  BY <1>2, <1>4 DEF TakeBack, SweepGrants
<1>5. CASE SweepTokens
  BY <1>1, <1>5 DEF SweepTokens
<1>6. ASSUME NEW u \in User, Consent(u) \/ Decide(u) \/ ForgetUserAccess(u) PROVE FALSE
  BY <1>1, <1>2, <1>6 DEF Consent, Decide, ForgetUserAccess
<1>7. ASSUME NEW w \in Worker, TakeCode(w) \/ PresentRefresh(w) \/ RotateWrites(w) \/ Dies(w) PROVE FALSE
  BY <1>1, <1>7 DEF TakeCode, PresentRefresh, RotateWrites, Dies
<1>8. ASSUME NEW w \in Worker, RotateReads(w) PROVE FALSE
  BY <1>1, <1>2, <1>8 DEF RotateReads
<1>9. ASSUME NEW w \in Worker, CreateGrant(w) PROVE FALSE
  <2>1. PICK gone, g : /\ grants' = {h \in grants \union {g} : h.id \notin gone}
                       /\ tokens' = (tokens \union {NewPair(pairs + 1, 0, now)}) \ Under(gone)
    BY <1>9 DEF CreateGrant
  <2> QED
    BY <1>1, <2>1 DEF Under, Ids
<1>10. ASSUME NEW w \in Worker, RotateCommits(w) PROVE pairs' >= t.id + KeepPairs
  <2>1. /\ Writing(w) /\ pairs' = pairs
        /\ tokens' = {Marked(x, work[w]) : x \in {y \in tokens : y.id \notin work[w].drop}} \union {work[w].new}
    BY <1>10 DEF RotateCommits, Writing
  <2>2. Marked(t, work[w]).id = t.id
    BY <2>1, WorkTypes, MarkedToken DEF Tight, Sound, Shape
  <2>3. t.id \in work[w].drop
    BY <2>1, <2>2 DEF Ids
  <2>4. t.id + KeepPairs <= pairs /\ t.id \in Nat /\ pairs \in Nat
    BY <2>1, <2>3 DEF Tight, Doomed, Sound, Shape, AToken
  <2> QED
    BY <2>1, <2>4, Sizes
<1> QED
  BY <1>3, <1>4, <1>5, <1>6, <1>7, <1>8, <1>9, <1>10 DEF Next, TokenEndpoint

\* A pair that goes while its grant stays is past its end, or as many pairs were issued since as a
\* grant keeps (the ids the deletion of rotateOAuthRefresh goes by are in order of time).
THEOREM PairsGoForACause == Spec => PairsGoForCause
<1>1. Tight /\ [Next]_vars => [\A t \in tokens :
          t.id \notin Ids(tokens') /\ t.grant \in Ids(grants')
            => \/ t.refresh <= now
               \/ pairs' >= t.id + KeepPairs]_vars
  BY PairGoesStep
<1> QED
  BY <1>1, AlwaysTight, PTL DEF Spec, PairsGoForCause

-----------------------------------------------------------------------------
(* What the janitor removes was over *)

\* A grant lasts as long as every access token under it, although exchanges may set its end to one
\* that is earlier than what another set, by no more than an exchange takes.
Lasting ==
    /\ \A t \in tokens : t.access <= t.refresh /\ t.access <= now + AccessTtl
    /\ \A t \in tokens, g \in grants : t.grant = g.id => t.access <= g.expires
    /\ \A w \in Worker : Refreshing(w) => now <= work[w].at + MaxWait
    /\ \A w \in Worker : Writing(w) => work[w].new.access = work[w].at + AccessTtl

LEMMA Lifetimes ==
    /\ AccessTtl \in Nat /\ RefreshTtl \in Nat /\ MaxWait \in Nat
    /\ AccessTtl <= RefreshTtl /\ AccessTtl + MaxWait <= RefreshTtl
BY OAuthAssumption

\* Steps that write no pair and do not move the end of a grant.
LEMMA NothingExtended ==
    ASSUME Sound, Lasting, now' = now, tokens' \subseteq tokens,
           \A h \in grants' : \E g \in grants : h.id = g.id /\ h.expires = g.expires,
           \A w \in Worker : Writing(w)' => Writing(w) /\ work'[w] = work[w],
           \A w \in Worker : Refreshing(w)' => \/ Refreshing(w) /\ work'[w].at = work[w].at
                                               \/ work'[w].at = now
    PROVE  Lasting'
<1>1. \A t \in tokens', h \in grants' : t.grant = h.id => t.access <= h.expires
  BY DEF Lasting
<1>2. \A w \in Worker : Refreshing(w)' => now' <= work'[w].at + MaxWait
  BY Lifetimes DEF Lasting, Sound, Shape
<1>3. \A w \in Worker : Writing(w)' => work'[w].new.access = work'[w].at + AccessTtl
  BY DEF Lasting
<1>4. \A t \in tokens' : t.access <= t.refresh /\ t.access <= now' + AccessTtl
  BY DEF Lasting
<1> QED
  BY <1>1, <1>2, <1>3, <1>4 DEF Lasting

\* Work that is what it was, or is none of a refresh token.
LEMMA QuietWork ==
    ASSUME NEW w \in Worker, work'[w] = work[w] \/ work'[w].step \in {"idle", "taken"}
    PROVE  /\ Writing(w)' => Writing(w) /\ work'[w] = work[w]
           /\ Refreshing(w)' => Refreshing(w) /\ work'[w].at = work[w].at
BY DEF Writing, Refreshing

LEMMA EndsLasting ==
    ASSUME Sound, Lasting, NEW G, EndGrants(G), now' = now,
           \A w \in Worker : work'[w] = work[w] \/ work'[w].step \in {"idle", "taken"}
    PROVE  Lasting'
<1>1. tokens' \subseteq tokens /\ grants' \subseteq grants
  BY DEF EndGrants
<1> QED
  BY <1>1, QuietWork, NothingExtended

LEMMA OtherLasting ==
    ASSUME Sound, Lasting,
           \/ UNCHANGED vars \/ Authorize \/ SweepCodes \/ SweepTokens
           \/ \E u \in User : Consent(u) \/ Decide(u)
           \/ \E w \in Worker : TakeCode(w) \/ Dies(w)
    PROVE  Lasting'
<1>1. now' = now /\ tokens' \subseteq tokens /\ grants' = grants
  BY DEF vars, Authorize, SweepCodes, SweepTokens, Consent, Decide, TakeCode, Dies
<1>2. ASSUME NEW w \in Worker, TakeCode(w) \/ Dies(w)
      PROVE  \A v \in Worker : work'[v] = work[v] \/ work'[v].step \in {"idle", "taken"}
  <2>1. work \in [Worker -> AWork]
    BY DEF Sound, Shape
  <2>2. CASE TakeCode(w)
    BY <2>1, <2>2 DEF TakeCode
  <2>3. CASE Dies(w)
    BY <2>1, <2>3 DEF Dies, Idle
  <2> QED
    BY <1>2, <2>2, <2>3
<1>3. \A v \in Worker : work'[v] = work[v] \/ work'[v].step \in {"idle", "taken"}
  BY <1>2 DEF vars, Authorize, SweepCodes, SweepTokens, Consent, Decide
<1> QED
  BY <1>1, <1>3, QuietWork, NothingExtended

LEMMA TickLasting == ASSUME Sound, Lasting, Tick PROVE Lasting'
<1>1. now' = now + 1 /\ UNCHANGED <<tokens, grants, work>>
  BY DEF Tick
<1>2. now \in Nat /\ \A t \in tokens : t.access \in Nat
  BY DEF Sound, Shape, AToken
<1>3. \A w \in Worker : Refreshing(w) => work[w].at \in Nat /\ now < work[w].at + MaxWait
  BY WorkTypes DEF Sound, Refreshing, Writing, ARefresh, ALocked, AWriting, Tick
<1>4. \A w \in Worker : Refreshing(w) => now + 1 <= work[w].at + MaxWait
  BY <1>2, <1>3, Lifetimes
<1>5. \A t \in tokens : t.access <= t.refresh /\ t.access <= now + 1 + AccessTtl
  BY <1>2, Lifetimes DEF Lasting
<1> QED
  BY <1>1, <1>4, <1>5 DEF Lasting, Refreshing, Writing

LEMMA VerifyLasting == ASSUME Sound, Lasting, Verify PROVE Lasting'
<1>1. PICK g \in grants, at \in 0..now : grants' = (grants \ {g}) \union {[g EXCEPT !.used = at]}
  BY DEF Verify
<1>2. [g EXCEPT !.used = at].id = g.id /\ [g EXCEPT !.used = at].expires = g.expires
  BY DEF Sound, Shape, AGrant
<1>3. UNCHANGED <<now, tokens, work>>
  BY DEF Verify
<1> QED
  BY <1>1, <1>2, <1>3, QuietWork, NothingExtended

LEMMA EndingLasting ==
    ASSUME Sound, Lasting, TakeBack \/ SweepGrants \/ \E u \in User : ForgetUserAccess(u)
    PROVE  Lasting'
<1>1. CASE TakeBack \/ SweepGrants
  BY <1>1, EndsLasting, AbortedWriting DEF TakeBack, SweepGrants
<1>2. ASSUME NEW u \in User, ForgetUserAccess(u) PROVE Lasting'
  <2> DEFINE G == Ids({g \in grants : g.user = u})
  <2>1. EndGrants(G) /\ now' = now
    BY <1>2 DEF ForgetUserAccess
  <2>2. ASSUME NEW w \in Worker PROVE work'[w] = work[w] \/ work'[w].step \in {"idle", "taken"}
    <3>1. work'[w] = IF work[w].step = "taken" /\ work[w].code.user = u
                       THEN [work[w] EXCEPT !.late = TRUE] ELSE Aborted(G)[w]
      BY <1>2 DEF ForgetUserAccess
    <3>2. work[w].step = "taken" => [work[w] EXCEPT !.late = TRUE].step = "taken"
      BY WorkTypes DEF Sound, Holding, ATaken
    <3> QED
      BY <3>1, <3>2, AbortedWriting
  <2> QED
    BY <2>1, <2>2, EndsLasting
<1> QED
  BY <1>1, <1>2

LEMMA PresentLasting == ASSUME Sound, Lasting, NEW w \in Worker, PresentRefresh(w) PROVE Lasting'
<1>1. PICK t \in tokens : work' = [work EXCEPT ![w] = [step |-> "refresh", token |-> t.id, at |-> now]]
  BY DEF PresentRefresh
<1>2. UNCHANGED <<now, grants, tokens>>
  BY DEF PresentRefresh
<1>3. \A v \in Worker : work'[v] = IF v = w THEN [step |-> "refresh", token |-> t.id, at |-> now] ELSE work[v]
  BY <1>1 DEF Sound, Shape
<1>4. \A v \in Worker : /\ Writing(v)' => Writing(v) /\ work'[v] = work[v]
                        /\ Refreshing(v)' => \/ Refreshing(v) /\ work'[v].at = work[v].at
                                             \/ work'[v].at = now
  BY <1>3 DEF Writing, Refreshing
<1> QED
  BY <1>2, <1>4, NothingExtended

LEMMA ReadsLasting == ASSUME Sound, Lasting, NEW w \in Worker, RotateReads(w) PROVE Lasting'
<1>1. now' = now /\ work[w].step = "refresh" /\ work \in [Worker -> AWork]
  BY DEF RotateReads, Sound, Shape
<1>2. CASE work' = [work EXCEPT ![w] = Idle] /\ UNCHANGED <<grants, tokens>>
  <2>1. \A v \in Worker : work'[v] = work[v] \/ work'[v].step \in {"idle", "taken"}
    BY <1>1, <1>2 DEF Idle
  <2> QED
    BY <1>1, <1>2, <2>1, QuietWork, NothingExtended
<1>3. CASE \E t \in tokens : EndGrants({t.grant}) /\ work' = [Aborted({t.grant}) EXCEPT ![w] = Idle]
  <2>1. PICK t \in tokens : EndGrants({t.grant}) /\ work' = [Aborted({t.grant}) EXCEPT ![w] = Idle]
    BY <1>3
  <2>2. \A v \in Worker : work'[v] = Aborted({t.grant})[v] \/ work'[v].step = "idle"
    BY <2>1 DEF Aborted, Idle
  <2>3. \A v \in Worker : work'[v] = work[v] \/ work'[v].step \in {"idle", "taken"}
    BY <2>2, AbortedWriting
  <2> QED
    BY <1>1, <2>1, <2>3, EndsLasting
<1>4. CASE UNCHANGED <<grants, tokens>> /\ \E t \in tokens : work' = [work EXCEPT ![w] =
              [step |-> "locked", token |-> t.id, grant |-> t.grant, first |-> t.rotated = None, at |-> work[w].at]]
  <2>1. PICK r : work' = [work EXCEPT ![w] = r] /\ r.step = "locked" /\ r.at = work[w].at
    BY <1>4
  <2>2. \A v \in Worker : work'[v] = IF v = w THEN r ELSE work[v]
    BY <1>1, <2>1
  <2>3. \A v \in Worker : /\ Writing(v)' => Writing(v) /\ work'[v] = work[v]
                          /\ Refreshing(v)' => Refreshing(v) /\ work'[v].at = work[v].at
    BY <1>1, <2>1, <2>2 DEF Writing, Refreshing
  <2> QED
    BY <1>1, <1>4, <2>3, NothingExtended
<1> QED
  BY <1>2, <1>3, <1>4 DEF RotateReads

LEMMA WritesLasting == ASSUME Sound, Lasting, NEW w \in Worker, RotateWrites(w) PROVE Lasting'
<1> DEFINE q == work[w]
           r == [step |-> "writing", token |-> q.token, grant |-> q.grant, first |-> q.first, at |-> q.at,
                 new |-> NewPair(q.grant, q.token, q.at),
                 drop |-> Dropped(q.grant, NewPair(q.grant, q.token, q.at).id)]
<1>1. q.step = "locked" /\ work' = [work EXCEPT ![w] = r] /\ UNCHANGED <<now, tokens, grants>>
  BY DEF RotateWrites
<1>2. r.at = q.at /\ r.new.access = r.at + AccessTtl
  BY DEF NewPair
<1> HIDE DEF r
<1>3. \A v \in Worker : work'[v] = IF v = w THEN r ELSE work[v]
  BY <1>1 DEF Sound, Shape
<1>4. \A v \in Worker : /\ Writing(v)' => work'[v].new.access = work'[v].at + AccessTtl
                        /\ Refreshing(v)' => Refreshing(v) /\ work'[v].at = work[v].at
  BY <1>1, <1>2, <1>3 DEF Lasting, Writing, Refreshing
<1> QED
  BY <1>1, <1>4 DEF Lasting

LEMMA CreateLasting == ASSUME Sound, Lasting, NEW w \in Worker, CreateGrant(w) PROVE Lasting'
<1> DEFINE pair == NewPair(pairs + 1, 0, now)
<1>1. PICK gone, g :
        /\ g.id = pairs + 1 /\ g.expires = pair.refresh
        /\ grants' = {h \in grants \union {g} : h.id \notin gone}
        /\ tokens' = (tokens \union {pair}) \ Under(gone)
        /\ work' = [Aborted(gone) EXCEPT ![w] = Idle] /\ now' = now
  BY DEF CreateGrant
<1>2. /\ pair.grant = pairs + 1 /\ pair.access = now + AccessTtl /\ pair.refresh = now + RefreshTtl
      /\ now \in Nat /\ pairs \in Nat
  BY DEF NewPair, Sound, Shape
<1> HIDE DEF pair
<1>3. \A v \in Worker : work'[v] = work[v] \/ work'[v].step \in {"idle", "taken"}
  <2>1. \A v \in Worker : work'[v] = Aborted(gone)[v] \/ work'[v].step = "idle"
    BY <1>1 DEF Aborted, Idle
  <2> QED
    BY <2>1, AbortedWriting
<1>4. \A j \in Ids(grants) : j \in Nat /\ j <= pairs
  BY DEF Sound, Shape, Numbered, Ids, AGrant
<1>5. /\ \A t \in tokens : t.grant # pairs + 1
      /\ \A h \in grants : h.id # pairs + 1
  BY <1>2, <1>4 DEF Sound, Granted, NoPairWithoutGrant, Ids
<1>6. \A t \in tokens' : t.access <= t.refresh /\ t.access <= now' + AccessTtl
  BY <1>1, <1>2, Lifetimes DEF Lasting
<1>7. \A t \in tokens', h \in grants' : t.grant = h.id => t.access <= h.expires
  BY <1>1, <1>2, <1>5, Lifetimes DEF Lasting
<1>8. \A v \in Worker : Refreshing(v)' => now' <= work'[v].at + MaxWait
  BY <1>1, <1>3, QuietWork DEF Lasting
<1>9. \A v \in Worker : Writing(v)' => work'[v].new.access = work'[v].at + AccessTtl
  BY <1>3, QuietWork DEF Lasting
<1> QED
  BY <1>6, <1>7, <1>8, <1>9 DEF Lasting

\* The exchange that commits last may have read the clock first: what it extends its grant to is
\* still no earlier than the end of any access token there.
LEMMA CommitsLasting == ASSUME Sound, Lasting, NEW w \in Worker, RotateCommits(w) PROVE Lasting'
<1> DEFINE q    == work[w]
           R(g) == IF g.id = q.grant THEN [g EXCEPT !.used = q.at, !.expires = q.new.refresh] ELSE g
<1>1. /\ Writing(w) /\ Refreshing(w)
      /\ tokens' = {Marked(t, q) : t \in {u \in tokens : u.id \notin q.drop}} \union {q.new}
      /\ grants' = {R(g) : g \in grants}
      /\ work' = [work EXCEPT ![w] = Idle] /\ now' = now
  BY DEF RotateCommits, Writing, Refreshing
<1>2. /\ q \in AWriting /\ q.new.grant = q.grant /\ q.new.refresh = q.at + RefreshTtl
      /\ q.new.access = q.at + AccessTtl /\ q.at <= now /\ now <= q.at + MaxWait /\ q.at \in Nat /\ now \in Nat
  BY <1>1, WorkTypes DEF Sound, Shape, Pending, Timely, Lasting, AWriting
<1>3. \A t \in tokens : /\ Marked(t, q).grant = t.grant /\ Marked(t, q).access = t.access
                        /\ Marked(t, q).refresh = t.refresh
  BY <1>2, MarkedToken DEF Sound, Shape
<1>4. \A u \in tokens' : \/ u = q.new
                         \/ \E t \in tokens : u.grant = t.grant /\ u.access = t.access /\ u.refresh = t.refresh
  BY <1>1, <1>3
<1>5. \A g \in grants : R(g).id = g.id /\ R(g).expires = IF g.id = q.grant THEN q.new.refresh ELSE g.expires
  BY DEF Sound, Shape, AGrant
<1> HIDE DEF R
<1>6. \A t \in tokens : t.access \in Nat /\ t.access <= now + AccessTtl /\ t.access <= t.refresh
  BY DEF Sound, Shape, AToken, Lasting
<1>7. \A u \in tokens' : u.access <= u.refresh /\ u.access <= now' + AccessTtl /\ u.access <= q.new.refresh
  <2> SUFFICES ASSUME NEW u \in tokens'
               PROVE  u.access <= u.refresh /\ u.access <= now' + AccessTtl /\ u.access <= q.new.refresh
    OBVIOUS
  <2>1. CASE u = q.new
    BY <1>1, <1>2, <2>1, Lifetimes
  <2>2. CASE u # q.new
    <3>1. PICK t \in tokens : u.grant = t.grant /\ u.access = t.access /\ u.refresh = t.refresh
      BY <1>4, <2>2
    <3> QED
      BY <1>1, <1>2, <1>6, <3>1, Lifetimes
  <2> QED
    BY <2>1, <2>2
<1>8. ASSUME NEW u \in tokens', NEW h \in grants', u.grant = h.id PROVE u.access <= h.expires
  <2>1. PICK g \in grants : h = R(g)
    BY <1>1
  <2>2. CASE g.id = q.grant
    BY <1>5, <1>7, <2>1, <2>2
  <2>3. CASE g.id # q.grant
    <3>1. u # q.new
      BY <1>2, <1>5, <1>8, <2>1, <2>3
    <3>2. PICK t \in tokens : u.grant = t.grant /\ u.access = t.access
      BY <1>4, <3>1
    <3> QED
      BY <1>5, <1>8, <2>1, <2>3, <3>2 DEF Lasting
  <2> QED
    BY <2>2, <2>3
<1>9. \A v \in Worker : work'[v] = work[v] \/ work'[v].step \in {"idle", "taken"}
  BY <1>1 DEF Sound, Shape, Idle
<1>10. /\ \A v \in Worker : Refreshing(v)' => now' <= work'[v].at + MaxWait
       /\ \A v \in Worker : Writing(v)' => work'[v].new.access = work'[v].at + AccessTtl
  BY <1>1, <1>9, QuietWork DEF Lasting
<1> QED
  BY <1>7, <1>8, <1>10 DEF Lasting

LEMMA LastingStep == Sound /\ Lasting /\ [Next]_vars => Lasting'
<1> SUFFICES ASSUME Sound, Lasting, [Next]_vars PROVE Lasting'
  OBVIOUS
<1>1. ASSUME NEW w \in Worker, TokenEndpoint(w) PROVE Lasting'
  BY <1>1, OtherLasting, CreateLasting, PresentLasting, ReadsLasting, WritesLasting, CommitsLasting DEF TokenEndpoint
<1> QED
  BY <1>1, OtherLasting, VerifyLasting, EndingLasting, TickLasting DEF Next

LEMMA AlwaysLasting == Spec => [](Sound /\ Lasting)
<1>1. Init => Sound /\ Lasting
  <2> SUFFICES ASSUME Init PROVE Sound /\ Lasting
    OBVIOUS
  <2>1. tokens = {} /\ \A w \in Worker : ~Refreshing(w) /\ ~Writing(w)
    BY DEF Init, Idle, Refreshing, Writing
  <2> QED
    BY <2>1, SoundInit DEF Lasting
<1>2. Sound /\ Lasting /\ [Next]_vars => (Sound /\ Lasting)'
  BY SoundStep, LastingStep
<1> QED
  BY <1>1, <1>2, PTL DEF Spec

\* No access token that is still good goes with a grant or a pair the janitor finds over, although
\* exchanges may commit in another order than they read the clock (deleteExpiredOAuth).
THEOREM JanitorEndsNothingLive == Spec => SweepEndsNothingLive
<1>1. ASSUME Sound, Lasting, SweepGrants, NEW t \in tokens \ tokens' PROVE t.access <= now
  <2>1. PICK g \in grants : t.grant = g.id /\ g.expires <= now
    BY <1>1 DEF SweepGrants, EndGrants, Under, Ids, Expired
  <2>2. t.access <= g.expires /\ t.access \in Nat /\ g.expires \in Nat /\ now \in Nat
    BY <1>1, <2>1 DEF Lasting, Sound, Shape, AToken, AGrant
  <2> QED
    BY <2>1, <2>2
<1>2. ASSUME Sound, Lasting, SweepTokens, NEW t \in tokens \ tokens' PROVE t.access <= now
  <2>1. t.refresh <= now /\ t.access <= t.refresh
    BY <1>2 DEF SweepTokens, Lasting
  <2>2. t.access \in Nat /\ t.refresh \in Nat /\ now \in Nat
    BY <1>2 DEF Sound, Shape, AToken
  <2> QED
    BY <2>1, <2>2
<1>3. Sound /\ Lasting => [SweepGrants \/ SweepTokens => \A t \in tokens \ tokens' : t.access <= now]_vars
  BY <1>1, <1>2
<1> QED
  BY <1>3, AlwaysLasting, PTL DEF SweepEndsNothingLive

-----------------------------------------------------------------------------
(* A code that a person approves: ConnectRequests *)

AClaim == [phase: {"found", "opened", "taken", "counted"}, command: Command, user: Person,
           label: Person \union {Nobody}, could: BOOLEAN, late: BOOLEAN]

ARepoToken == [command: Command, user: Person, label: Person, could: BOOLEAN, late: BOOLEAN]

ConnectShape ==
    /\ asked \in [Command -> {"new", "counted", "done"}]
    /\ rows \in [Command -> [left: 0..RequestTicks, by: Person \union {Nobody}]]
    /\ decisions \in [Person -> {Rest} \union [phase: {"looked", "opened"}, command: Command]]
    /\ claims \in [Claim -> {Rest} \union AClaim]
    /\ repoTokens \subseteq ARepoToken
    /\ stands \subseteq Person /\ sight \subseteq Person
    /\ shown \in BOOLEAN
    /\ made \in [Command -> Nat]

\* Taken: the request is spent, and the token is on its way.
Taking(k) == claims[k].phase \in {"taken", "counted"}
Asking(k) == claims[k].phase \in {"found", "opened"}

\* A command has a row once, after it asked.
RowsComeOnce == \A c \in Command : asked[c] # "done" => rows[c].left = 0

\* What was taken has no row any more and is taken by one claim, which has not made a token yet.
TakenOnce ==
    /\ \A k \in Claim : Taking(k) =>
         LET c == claims[k].command IN asked[c] = "done" /\ rows[c].left = 0 /\ made[c] = 0
    /\ \A k, j \in Claim : Taking(k) /\ Taking(j) /\ claims[k].command = claims[j].command => k = j
    /\ \A c \in Command : made[c] = 0 \/ (made[c] = 1 /\ asked[c] = "done" /\ rows[c].left = 0)

\* A row that a claim has found is still that person's, or gone; what was taken carries their name.
SamePerson ==
    /\ \A k \in Claim : Asking(k) =>
         LET c == claims[k].command IN asked[c] = "done" /\ (rows[c].left > 0 => rows[c].by = claims[k].user)
    /\ \A k \in Claim : Taking(k) => claims[k].label = claims[k].user
    /\ TokenIsTheApprovers

\* The history of what a claim's person could open is kept.
Noted ==
    /\ \A k \in Claim : claims[k] # Rest /\ Opens(claims[k].user) => claims[k].could
    /\ \A k \in Claim : claims[k].phase \in {"opened", "taken", "counted"} => claims[k].could
    /\ TokenWasOpenAtClaim

\* A claim whose person lost everything after it opened is late.
Late ==
    /\ \A k \in Claim :
         claims[k].phase \in {"opened", "taken", "counted"} /\ claims[k].user \notin stands => claims[k].late
    /\ OnlyLateTokensOutlive

ConnectSound == ConnectShape /\ RowsComeOnce /\ TakenOnce /\ SamePerson /\ Noted /\ Late

LEMMA ConnectConstants == RequestTicks \in Nat \ {0} /\ Nobody \notin Person /\ Rest.phase = "rest"
BY ConnectAssumption DEF Rest

LEMMA ConnectSoundInit == ConnectInit => ConnectSound
<1> SUFFICES ASSUME ConnectInit PROVE ConnectSound
  OBVIOUS
<1>1. NoRow \in [left: 0..RequestTicks, by: Person \union {Nobody}] /\ NoRow.left = 0
  BY ConnectConstants DEF NoRow
<1>2. \A k \in Claim : claims[k] = Rest /\ ~Taking(k) /\ ~Asking(k)
  BY ConnectConstants DEF ConnectInit, Taking, Asking
<1>3. ConnectShape
  BY <1>1 DEF ConnectInit, ConnectShape
<1>4. RowsComeOnce /\ TakenOnce
  BY <1>1, <1>2 DEF ConnectInit, RowsComeOnce, TakenOnce
<1>5. SamePerson
  BY <1>2 DEF ConnectInit, SamePerson, TokenIsTheApprovers
<1>6. Noted /\ Late
  BY <1>2, ConnectConstants DEF ConnectInit, Noted, Late, TokenWasOpenAtClaim, OnlyLateTokensOutlive
<1> QED
  BY <1>3, <1>4, <1>5, <1>6 DEF ConnectSound

\* Whoever only decides, counts or ends leaves the claims and the tokens: what the rows may do meanwhile.
LEMMA RowsChange ==
    ASSUME ConnectSound, ConnectShape', UNCHANGED <<asked, claims, repoTokens, stands, sight, shown, made>>,
           \A c \in Command : rows'[c].left > 0 =>
               rows[c].left > 0 /\ (rows[c].by # Nobody => rows'[c].by = rows[c].by),
           \A k \in Claim : Asking(k) /\ rows[claims[k].command].left > 0 => rows[claims[k].command].by # Nobody
    PROVE  ConnectSound'
<1>1. \A k \in Claim : (Taking(k)' <=> Taking(k)) /\ (Asking(k)' <=> Asking(k))
  BY DEF Taking, Asking
<1>2. \A c \in Command : rows[c].left = 0 => rows'[c].left = 0
  BY ConnectConstants DEF ConnectSound, ConnectShape
<1>3. \A k \in Claim : Taking(k) \/ Asking(k) => claims[k].command \in Command
  BY ConnectConstants DEF ConnectSound, ConnectShape, Taking, Asking, AClaim
<1>4. RowsComeOnce'
  BY <1>2 DEF ConnectSound, RowsComeOnce
<1>5. TakenOnce'
  BY <1>1, <1>2, <1>3 DEF ConnectSound, TakenOnce
<1>6. SamePerson'
  BY <1>1, <1>3 DEF ConnectSound, SamePerson, TokenIsTheApprovers
<1>7. Noted' /\ Late'
  BY DEF ConnectSound, Noted, Late, Opens, TokenWasOpenAtClaim, OnlyLateTokensOutlive
<1> QED
  BY <1>4, <1>5, <1>6, <1>7 DEF ConnectSound

\* The row a claim has found has been approved by someone.
LEMMA FoundIsApproved ==
    ConnectSound => \A k \in Claim : Asking(k) /\ rows[claims[k].command].left > 0 => rows[claims[k].command].by # Nobody
<1> SUFFICES ASSUME ConnectSound, NEW k \in Claim, Asking(k), rows[claims[k].command].left > 0
             PROVE  rows[claims[k].command].by # Nobody
  OBVIOUS
<1>1. claims[k].user \in Person
  BY ConnectConstants DEF ConnectSound, ConnectShape, Asking, AClaim
<1> QED
  BY <1>1, ConnectConstants DEF ConnectSound, SamePerson

LEMMA EndedRow == ASSUME ConnectShape, NEW c \in Command, End(c)
                  PROVE  /\ rows' \in [Command -> [left: 0..RequestTicks, by: Person \union {Nobody}]]
                         /\ \A d \in Command : rows'[d].left > 0 => rows[d] = rows'[d]
<1>1. NoRow \in [left: 0..RequestTicks, by: Person \union {Nobody}] /\ NoRow.left = 0
  BY ConnectConstants DEF NoRow
<1> QED
  BY <1>1 DEF ConnectShape, End

LEMMA AskSteps == ASSUME NEW c \in Command PROVE ConnectSound /\ (CountWaiting(c) \/ InsertRequest(c)) => ConnectSound'
<1> SUFFICES ASSUME ConnectSound, CountWaiting(c) \/ InsertRequest(c) PROVE ConnectSound'
  OBVIOUS
<1>1. asked[c] # "done" /\ UNCHANGED <<claims, repoTokens, stands, sight, shown, made, decisions>>
  BY DEF CountWaiting, InsertRequest
<1>2. \A k \in Claim : Taking(k) \/ Asking(k) => claims[k].command # c
  BY <1>1 DEF ConnectSound, TakenOnce, SamePerson
<1>3. made[c] = 0
  BY <1>1 DEF ConnectSound, TakenOnce
<1>4. \A d \in Command \ {c} : asked'[d] = asked[d] /\ rows'[d] = rows[d]
  BY DEF CountWaiting, InsertRequest, ConnectSound, ConnectShape
<1>5. ConnectShape'
  <2>1. [left |-> RequestTicks, by |-> Nobody] \in [left: 0..RequestTicks, by: Person \union {Nobody}]
    BY ConnectConstants
  <2>2. rows' \in [Command -> [left: 0..RequestTicks, by: Person \union {Nobody}]]
    BY <2>1 DEF CountWaiting, InsertRequest, ConnectSound, ConnectShape
  <2>3. asked' \in [Command -> {"new", "counted", "done"}]
    BY DEF CountWaiting, InsertRequest, ConnectSound, ConnectShape
  <2> QED
    BY <1>1, <2>2, <2>3 DEF ConnectSound, ConnectShape
<1>6. \A k \in Claim : (Taking(k)' <=> Taking(k)) /\ (Asking(k)' <=> Asking(k))
  BY <1>1 DEF Taking, Asking
<1>7. \A k \in Claim : Taking(k) \/ Asking(k) => claims[k].command \in Command
  BY ConnectConstants DEF ConnectSound, ConnectShape, Taking, Asking, AClaim
<1>8. RowsComeOnce'
  <2>1. asked'[c] # "done" => rows'[c].left = 0
    BY DEF CountWaiting, InsertRequest, ConnectSound, ConnectShape, RowsComeOnce
  <2> QED
    BY <1>4, <2>1 DEF ConnectSound, RowsComeOnce
<1>9. TakenOnce'
  BY <1>1, <1>2, <1>3, <1>4, <1>6, <1>7 DEF ConnectSound, TakenOnce
<1>10. SamePerson'
  BY <1>1, <1>2, <1>4, <1>6, <1>7 DEF ConnectSound, SamePerson, TokenIsTheApprovers
<1>11. Noted' /\ Late'
  BY <1>1 DEF ConnectSound, Noted, Late, Opens, TokenWasOpenAtClaim, OnlyLateTokensOutlive
<1> QED
  BY <1>5, <1>8, <1>9, <1>10, <1>11 DEF ConnectSound

LEMMA DecisionSteps == ASSUME NEW p \in Person PROVE ConnectSound /\ DecisionStep(p) => ConnectSound'
<1> SUFFICES ASSUME ConnectSound, DecisionStep(p) PROVE ConnectSound'
  OBVIOUS
<1>1. UNCHANGED <<asked, claims, repoTokens, stands, sight, shown, made>>
  BY DEF DecisionStep, Look, Decline, OpenToApprove, Approve
<1>2. decisions' \in [Person -> {Rest} \union [phase: {"looked", "opened"}, command: Command]]
  BY DEF DecisionStep, Look, Decline, OpenToApprove, Approve, ConnectSound, ConnectShape, Rest
<1>3. decisions[p].phase \in {"looked", "opened"} => decisions[p].command \in Command
  BY ConnectConstants DEF ConnectSound, ConnectShape
<1>4. /\ rows' \in [Command -> [left: 0..RequestTicks, by: Person \union {Nobody}]]
      /\ \A c \in Command : rows'[c].left > 0 =>
             rows[c].left > 0 /\ (rows[c].by # Nobody => rows'[c].by = rows[c].by)
  <2>1. CASE UNCHANGED rows
    BY <2>1 DEF ConnectSound, ConnectShape
  <2>2. CASE decisions[p].phase = "looked" /\ End(decisions[p].command)
    BY <1>3, <2>2, EndedRow DEF ConnectSound
  <2>3. CASE Approve(p)
    <3> DEFINE c == decisions[p].command
    <3>1. CASE Approvable(c)
      <4>1. c \in Command /\ rows' = [rows EXCEPT ![c].by = p] /\ rows[c].left > 0 /\ rows[c].by = Nobody
        BY <1>3, <2>3, <3>1 DEF Approve, Approvable, Live
      <4> QED
        BY <4>1 DEF ConnectSound, ConnectShape
    <3>2. CASE ~Approvable(c)
      BY <2>1, <2>3, <3>2 DEF Approve
    <3> QED
      BY <3>1, <3>2
  <2> QED
    BY <2>1, <2>2, <2>3 DEF DecisionStep, Look, Decline, OpenToApprove
<1>5. ConnectShape'
  BY <1>1, <1>2, <1>4 DEF ConnectSound, ConnectShape
<1> QED
  BY <1>1, <1>4, <1>5, RowsChange, FoundIsApproved

-----------------------------------------------------------------------------
(* A claim *)

\* A claim that is over, its request spent or ended with it.
LEMMA ClaimOver ==
    ASSUME ConnectSound, NEW k \in Claim, claims' = [claims EXCEPT ![k] = Rest], ConnectShape',
           UNCHANGED <<asked, repoTokens, stands, sight, shown, made>>,
           \A c \in Command : rows'[c].left > 0 => rows'[c] = rows[c]
    PROVE  ConnectSound'
<1>1. claims'[k] = Rest /\ \A j \in Claim \ {k} : claims'[j] = claims[j]
  BY DEF ConnectSound, ConnectShape
<1>2. \A j \in Claim : /\ Taking(j)' => j # k /\ Taking(j)
                       /\ Asking(j)' => j # k /\ Asking(j)
  BY <1>1, ConnectConstants DEF Taking, Asking
<1>3. \A c \in Command : rows[c].left = 0 => rows'[c].left = 0
  BY ConnectConstants DEF ConnectSound, ConnectShape
<1>4. \A j \in Claim : Taking(j) \/ Asking(j) => claims[j].command \in Command
  BY ConnectConstants DEF ConnectSound, ConnectShape, Taking, Asking, AClaim
<1>5. RowsComeOnce'
  BY <1>3 DEF ConnectSound, RowsComeOnce
<1>6. TakenOnce'
  BY <1>1, <1>2, <1>3, <1>4 DEF ConnectSound, TakenOnce
<1>7. SamePerson'
  BY <1>1, <1>2, <1>4 DEF ConnectSound, SamePerson, TokenIsTheApprovers
<1>8. Noted' /\ Late'
  BY <1>1, ConnectConstants DEF ConnectSound, Noted, Late, Opens, TokenWasOpenAtClaim, OnlyLateTokensOutlive
<1> QED
  BY <1>5, <1>6, <1>7, <1>8 DEF ConnectSound

LEMMA RestIsAClaim == ASSUME ConnectShape, NEW k \in Claim
                      PROVE  /\ [claims EXCEPT ![k] = Rest] \in [Claim -> {Rest} \union AClaim]
                             /\ claims[k].phase # "rest" => claims[k] \in AClaim
BY ConnectConstants DEF ConnectShape

LEMMA ConnectDiesStep == ASSUME NEW k \in Claim PROVE ConnectSound /\ ClaimDies(k) => ConnectSound'
<1> SUFFICES ASSUME ConnectSound, ClaimDies(k) PROVE ConnectSound'
  OBVIOUS
<1>1. ConnectShape'
  BY RestIsAClaim DEF ConnectSound, ConnectShape, ClaimDies
<1> QED
  BY <1>1, ClaimOver DEF ClaimDies

LEMMA FindStep == ASSUME NEW k \in Claim PROVE ConnectSound /\ FindApproved(k) => ConnectSound'
<1> SUFFICES ASSUME ConnectSound, FindApproved(k) PROVE ConnectSound'
  OBVIOUS
<1>1. PICK c \in Command :
        /\ rows[c].left > 0 /\ rows[c].by # Nobody
        /\ claims' = [claims EXCEPT ![k] =
             [phase |-> "found", command |-> c, user |-> rows[c].by, label |-> Nobody,
              could |-> Opens(rows[c].by), late |-> FALSE]]
  BY DEF FindApproved, Approved, Live
<1> DEFINE new == [phase |-> "found", command |-> c, user |-> rows[c].by, label |-> Nobody,
                   could |-> Opens(rows[c].by), late |-> FALSE]
<1>2. rows[c].by \in Person /\ Opens(rows[c].by) \in BOOLEAN
  BY <1>1 DEF ConnectSound, ConnectShape, Opens
<1>3. /\ new \in AClaim /\ new.phase = "found" /\ new.command = c /\ new.user = rows[c].by
      /\ new.could = Opens(rows[c].by)
  BY <1>2 DEF AClaim
<1>4. claims'[k] = new /\ \A j \in Claim \ {k} : claims'[j] = claims[j]
  BY <1>1 DEF ConnectSound, ConnectShape
<1>5. UNCHANGED <<asked, rows, decisions, repoTokens, stands, sight, shown, made>>
  BY DEF FindApproved
<1> HIDE DEF new
<1>6. ConnectShape'
  BY <1>1, <1>3, <1>5 DEF ConnectSound, ConnectShape, new
<1>7. \A j \in Claim : /\ Taking(j)' => j # k /\ Taking(j)
                       /\ Asking(j)' => j = k \/ Asking(j)
  BY <1>3, <1>4 DEF Taking, Asking
<1>8. asked[c] = "done"
  BY <1>1, ConnectConstants DEF ConnectSound, RowsComeOnce, ConnectShape
<1>9. RowsComeOnce'
  BY <1>5 DEF ConnectSound, RowsComeOnce
<1>10. TakenOnce'
  BY <1>4, <1>5, <1>7 DEF ConnectSound, TakenOnce
<1>11. SamePerson'
  BY <1>3, <1>4, <1>5, <1>7, <1>8 DEF ConnectSound, SamePerson, TokenIsTheApprovers
<1>12. Noted' /\ Late'
  BY <1>3, <1>4, <1>5 DEF ConnectSound, Noted, Late, Opens, TokenWasOpenAtClaim, OnlyLateTokensOutlive
<1> QED
  BY <1>6, <1>9, <1>10, <1>11, <1>12 DEF ConnectSound

LEMMA OpenStep == ASSUME NEW k \in Claim PROVE ConnectSound /\ OpenToClaim(k) => ConnectSound'
<1> SUFFICES ASSUME ConnectSound, OpenToClaim(k) PROVE ConnectSound'
  OBVIOUS
<1>1. claims[k] \in AClaim /\ claims[k].phase = "found" /\ claims[k] # Rest
  BY RestIsAClaim, ConnectConstants DEF ConnectSound, OpenToClaim
<1>2. UNCHANGED <<asked, decisions, repoTokens, stands, sight, shown, made>>
  BY DEF OpenToClaim
<1>3. CASE OpensForClaim(k) /\ claims' = [claims EXCEPT ![k].phase = "opened"] /\ UNCHANGED rows
  <2> DEFINE new == [claims[k] EXCEPT !.phase = "opened"]
  <2>1. /\ claims'[k] = new /\ \A j \in Claim \ {k} : claims'[j] = claims[j]
        /\ claims' = [claims EXCEPT ![k] = new]
    BY <1>3 DEF ConnectSound, ConnectShape
  <2>2. /\ new \in AClaim /\ new.phase = "opened" /\ new.command = claims[k].command
        /\ new.user = claims[k].user /\ new.could = claims[k].could /\ new.late = claims[k].late
    BY <1>1 DEF AClaim
  <2> HIDE DEF new
  <2>3. ConnectShape'
    BY <1>2, <1>3, <2>1, <2>2 DEF ConnectSound, ConnectShape
  <2>4. Asking(k) /\ \A j \in Claim : (Taking(j)' => j # k /\ Taking(j)) /\ (Asking(j)' => Asking(j))
    BY <1>1, <2>1, <2>2 DEF Taking, Asking
  <2>5. claims[k].could /\ claims[k].user \in stands
    BY <1>1, <1>3 DEF ConnectSound, Noted, OpensForClaim, Opens
  <2>6. RowsComeOnce' /\ TakenOnce'
    BY <1>2, <1>3, <2>1, <2>4 DEF ConnectSound, RowsComeOnce, TakenOnce
  <2>7. SamePerson'
    BY <1>2, <1>3, <2>1, <2>2, <2>4 DEF ConnectSound, SamePerson, TokenIsTheApprovers
  <2>8. Noted' /\ Late'
    BY <1>2, <2>1, <2>2, <2>5 DEF ConnectSound, Noted, Late, Opens, TokenWasOpenAtClaim, OnlyLateTokensOutlive
  <2> QED
    BY <2>3, <2>6, <2>7, <2>8 DEF ConnectSound
<1>4. CASE End(claims[k].command) /\ claims' = [claims EXCEPT ![k] = Rest]
  <2>1. claims[k].command \in Command
    BY <1>1 DEF AClaim
  <2>2. ConnectShape'
    BY <1>2, <1>4, <2>1, EndedRow, RestIsAClaim DEF ConnectSound, ConnectShape
  <2> QED
    BY <1>2, <1>4, <2>1, <2>2, EndedRow, ClaimOver DEF ConnectSound
<1>5. CASE claims' = [claims EXCEPT ![k] = Rest] /\ UNCHANGED rows
  <2>1. ConnectShape'
    BY <1>2, <1>5, RestIsAClaim DEF ConnectSound, ConnectShape
  <2> QED
    BY <1>2, <1>5, <2>1, ClaimOver
<1> QED
  BY <1>3, <1>4, <1>5 DEF OpenToClaim

LEMMA TakeStep == ASSUME NEW k \in Claim PROVE ConnectSound /\ TakeApproved(k) => ConnectSound'
<1> SUFFICES ASSUME ConnectSound, TakeApproved(k) PROVE ConnectSound'
  OBVIOUS
<1> DEFINE c == claims[k].command
<1>1. claims[k] \in AClaim /\ claims[k].phase = "opened" /\ claims[k] # Rest /\ c \in Command
  <2>1. claims[k] \in AClaim /\ claims[k].phase = "opened" /\ claims[k] # Rest
    BY RestIsAClaim, ConnectConstants DEF ConnectSound, TakeApproved
  <2> QED
    BY <2>1 DEF AClaim
<1>2. UNCHANGED <<asked, decisions, repoTokens, stands, sight, shown, made>>
  BY DEF TakeApproved
<1>3. CASE Approved(c)
  <2> DEFINE new == [claims[k] EXCEPT !.phase = "taken", !.label = rows[c].by]
  <2>1. claims' = [claims EXCEPT ![k] = new] /\ rows' = [rows EXCEPT ![c] = NoRow]
    BY <1>3 DEF TakeApproved, AfterTaking, ConnectSound, ConnectShape
  <2>2. rows[c].left > 0 /\ rows[c].by = claims[k].user /\ rows[c].by \in Person /\ asked[c] = "done"
    BY <1>1, <1>3 DEF ConnectSound, SamePerson, Asking, Approved, Live, AClaim
  <2>3. /\ new \in AClaim /\ new.phase = "taken" /\ new.command = c /\ new.user = claims[k].user
        /\ new.label = new.user /\ new.could = claims[k].could /\ new.late = claims[k].late
    BY <1>1, <2>2 DEF AClaim
  <2>4. /\ claims'[k] = new /\ \A j \in Claim \ {k} : claims'[j] = claims[j]
    BY <2>1 DEF ConnectSound, ConnectShape
  <2> HIDE DEF new
  <2>5. NoRow \in [left: 0..RequestTicks, by: Person \union {Nobody}] /\ NoRow.left = 0
    BY ConnectConstants DEF NoRow
  <2>6. ConnectShape'
    BY <1>2, <2>1, <2>3, <2>5 DEF ConnectSound, ConnectShape
  <2>7. rows'[c].left = 0 /\ \A d \in Command \ {c} : rows'[d] = rows[d]
    BY <1>1, <2>1, <2>5 DEF ConnectSound, ConnectShape
  <2>8. \A j \in Claim : /\ Taking(j)' => j = k \/ Taking(j)
                         /\ Asking(j)' => j # k /\ Asking(j)
    BY <2>3, <2>4 DEF Taking, Asking
  <2>9. made[c] = 0 /\ \A j \in Claim : Taking(j) => claims[j].command # c
    BY <1>1, <2>2 DEF ConnectSound, TakenOnce
  <2>10. \A j \in Claim : Taking(j) \/ Asking(j) => claims[j].command \in Command
    BY ConnectConstants DEF ConnectSound, ConnectShape, Taking, Asking, AClaim
  <2>11. RowsComeOnce'
    BY <1>2, <2>7 DEF ConnectSound, RowsComeOnce
  <2>12. TakenOnce'
    <3>1. \A j \in Claim : Taking(j)' =>
            LET d == claims'[j].command IN asked'[d] = "done" /\ rows'[d].left = 0 /\ made'[d] = 0
      BY <1>2, <2>2, <2>3, <2>4, <2>7, <2>8, <2>9, <2>10 DEF ConnectSound, TakenOnce
    <3>2. \A j, l \in Claim : Taking(j)' /\ Taking(l)' /\ claims'[j].command = claims'[l].command => j = l
      BY <2>3, <2>4, <2>8, <2>9 DEF ConnectSound, TakenOnce
    <3>3. \A d \in Command : made'[d] = 0 \/ (made'[d] = 1 /\ asked'[d] = "done" /\ rows'[d].left = 0)
      BY <1>2, <2>7, <2>9 DEF ConnectSound, TakenOnce
    <3> QED
      BY <3>1, <3>2, <3>3 DEF TakenOnce
  <2>13. SamePerson'
    BY <1>2, <2>3, <2>4, <2>7, <2>8, <2>10 DEF ConnectSound, SamePerson, TokenIsTheApprovers
  <2>14. Noted' /\ Late'
    BY <1>1, <1>2, <2>3, <2>4 DEF ConnectSound, Noted, Late, Opens, TokenWasOpenAtClaim, OnlyLateTokensOutlive
  <2> QED
    BY <2>6, <2>11, <2>12, <2>13, <2>14 DEF ConnectSound
<1>4. CASE ~Approved(c)
  <2>1. claims' = [claims EXCEPT ![k] = Rest] /\ UNCHANGED rows
    BY <1>4 DEF TakeApproved
  <2>2. ConnectShape'
    BY <1>2, <2>1, RestIsAClaim DEF ConnectSound, ConnectShape
  <2> QED
    BY <1>2, <2>1, <2>2, ClaimOver
<1> QED
  BY <1>3, <1>4

LEMMA CountStep == ASSUME NEW k \in Claim PROVE ConnectSound /\ CountTokens(k) => ConnectSound'
<1> SUFFICES ASSUME ConnectSound, CountTokens(k) PROVE ConnectSound'
  OBVIOUS
<1>1. claims[k] \in AClaim /\ claims[k].phase = "taken" /\ claims[k] # Rest
  BY RestIsAClaim, ConnectConstants DEF ConnectSound, CountTokens
<1>2. UNCHANGED <<asked, rows, decisions, repoTokens, stands, sight, shown, made>>
  BY DEF CountTokens
<1>3. CASE claims' = [claims EXCEPT ![k].phase = "counted"]
  <2> DEFINE new == [claims[k] EXCEPT !.phase = "counted"]
  <2>1. /\ claims'[k] = new /\ \A j \in Claim \ {k} : claims'[j] = claims[j]
        /\ claims' = [claims EXCEPT ![k] = new]
    BY <1>3 DEF ConnectSound, ConnectShape
  <2>2. /\ new \in AClaim /\ new.phase = "counted" /\ new.command = claims[k].command
        /\ new.user = claims[k].user /\ new.could = claims[k].could /\ new.late = claims[k].late
        /\ new.label = claims[k].label
    BY <1>1 DEF AClaim
  <2> HIDE DEF new
  <2>3. ConnectShape'
    BY <1>2, <2>1, <2>2 DEF ConnectSound, ConnectShape
  <2>4. Taking(k) /\ \A j \in Claim : (Taking(j)' => Taking(j)) /\ (Asking(j)' => j # k /\ Asking(j))
    BY <1>1, <2>1, <2>2 DEF Taking, Asking
  <2>5. RowsComeOnce' /\ TakenOnce'
    BY <1>2, <2>1, <2>2, <2>4 DEF ConnectSound, RowsComeOnce, TakenOnce
  <2>6. SamePerson'
    BY <1>2, <2>1, <2>2, <2>4 DEF ConnectSound, SamePerson, TokenIsTheApprovers
  <2>7. Noted' /\ Late'
    BY <1>1, <1>2, <2>1, <2>2 DEF ConnectSound, Noted, Late, Opens, TokenWasOpenAtClaim, OnlyLateTokensOutlive
  <2> QED
    BY <2>3, <2>5, <2>6, <2>7 DEF ConnectSound
<1>4. CASE claims' = [claims EXCEPT ![k] = Rest]
  <2>1. ConnectShape'
    BY <1>2, <1>4, RestIsAClaim DEF ConnectSound, ConnectShape
  <2> QED
    BY <1>2, <1>4, <2>1, ClaimOver
<1> QED
  BY <1>3, <1>4 DEF CountTokens

LEMMA InsertStep == ASSUME NEW k \in Claim PROVE ConnectSound /\ InsertToken(k) => ConnectSound'
<1> SUFFICES ASSUME ConnectSound, InsertToken(k) PROVE ConnectSound'
  OBVIOUS
<1> DEFINE s == claims[k]
           c == s.command
           t == [command |-> s.command, user |-> s.user, label |-> s.label, could |-> s.could, late |-> s.late]
<1>1. s \in AClaim /\ s.phase = "counted" /\ s # Rest /\ Taking(k)
  BY RestIsAClaim, ConnectConstants DEF ConnectSound, InsertToken, Taking
<1>2. UNCHANGED <<asked, rows, decisions, stands, sight, shown>>
  BY DEF InsertToken
<1>3. repoTokens' = repoTokens \union {t} /\ made' = [made EXCEPT ![c] = @ + 1] /\ claims' = [claims EXCEPT ![k] = Rest]
  BY DEF InsertToken
<1>4. c \in Command /\ asked[c] = "done" /\ rows[c].left = 0 /\ made[c] = 0 /\ s.label = s.user
  BY <1>1 DEF AClaim, ConnectSound, TakenOnce, SamePerson
<1>5. t \in ARepoToken /\ t.label = t.user /\ t.could /\ (t.user \notin stands => t.late)
  BY <1>1, <1>4 DEF AClaim, ARepoToken, ConnectSound, Noted, Late
<1> HIDE DEF t
<1>6. made'[c] = 1 /\ \A d \in Command \ {c} : made'[d] = made[d]
  BY <1>3, <1>4 DEF ConnectSound, ConnectShape
<1>7. claims'[k] = Rest /\ \A j \in Claim \ {k} : claims'[j] = claims[j]
  BY <1>3 DEF ConnectSound, ConnectShape
<1>8. \A j \in Claim : /\ Taking(j)' => j # k /\ Taking(j) /\ claims[j].command # c
                       /\ Asking(j)' => j # k /\ Asking(j)
  BY <1>1, <1>7, ConnectConstants DEF Taking, Asking, ConnectSound, TakenOnce
<1>9. \A j \in Claim : Taking(j) \/ Asking(j) => claims[j].command \in Command
  BY ConnectConstants DEF ConnectSound, ConnectShape, Taking, Asking, AClaim
<1>10. ConnectShape'
  <2>1. made \in [Command -> Nat]
    BY DEF ConnectSound, ConnectShape
  <2>2. made' \in [Command -> Nat]
    BY <1>3, <1>4, <2>1
  <2> QED
    BY <1>2, <1>3, <1>5, <2>2, RestIsAClaim DEF ConnectSound, ConnectShape
<1>11. RowsComeOnce'
  BY <1>2 DEF ConnectSound, RowsComeOnce
<1>12. TakenOnce'
  BY <1>2, <1>4, <1>6, <1>7, <1>8, <1>9 DEF ConnectSound, TakenOnce
<1>13. SamePerson'
  BY <1>2, <1>3, <1>5, <1>7, <1>8 DEF ConnectSound, SamePerson, TokenIsTheApprovers
<1>14. Noted' /\ Late'
  BY <1>2, <1>3, <1>5, <1>7, ConnectConstants DEF ConnectSound, Noted, Late, Opens, TokenWasOpenAtClaim, OnlyLateTokensOutlive
<1> QED
  BY <1>10, <1>11, <1>12, <1>13, <1>14 DEF ConnectSound

-----------------------------------------------------------------------------
(* What happens meanwhile *)

LEMMA TokenEndsStep == ConnectSound /\ TokenEnds => ConnectSound'
<1> SUFFICES ASSUME ConnectSound, TokenEnds PROVE ConnectSound'
  OBVIOUS
<1>1. repoTokens' \subseteq repoTokens /\ UNCHANGED <<asked, rows, decisions, claims, stands, sight, shown, made>>
  BY DEF TokenEnds
<1> QED
  BY <1>1 DEF ConnectSound, ConnectShape, RowsComeOnce, TakenOnce, SamePerson, Noted, Late, Opens, Taking, Asking,
     TokenIsTheApprovers, TokenWasOpenAtClaim, OnlyLateTokensOutlive

\* Notes in the history of claims change nothing else of them.
LEMMA NotesOnly ==
    ASSUME ConnectSound, UNCHANGED <<asked, rows, made>>, repoTokens' \subseteq repoTokens,
           \A k \in Claim : /\ claims'[k].phase = claims[k].phase
                            /\ claims[k] # Rest => /\ claims'[k].command = claims[k].command
                                                   /\ claims'[k].user = claims[k].user
                                                   /\ claims'[k].label = claims[k].label
    PROVE  RowsComeOnce' /\ TakenOnce' /\ SamePerson'
<1>1. \A k \in Claim : (Taking(k)' <=> Taking(k)) /\ (Asking(k)' <=> Asking(k))
  BY DEF Taking, Asking
<1>2. \A k \in Claim : Taking(k) \/ Asking(k) => claims[k] # Rest
  BY ConnectConstants DEF Taking, Asking
<1>3. RowsComeOnce'
  BY DEF ConnectSound, RowsComeOnce
<1>4. TakenOnce'
  BY <1>1, <1>2 DEF ConnectSound, TakenOnce
<1>5. SamePerson'
  BY <1>1, <1>2 DEF ConnectSound, SamePerson, TokenIsTheApprovers
<1> QED
  BY <1>3, <1>4, <1>5

\* Whoever can open the repository now is noted with every claim of theirs.
LEMMA NoticedStep ==
    ASSUME ConnectSound, NEW can, Noticed(can),
           UNCHANGED <<asked, rows, decisions, repoTokens, made>>,
           stands \subseteq stands', stands' \subseteq Person, sight' \subseteq Person, shown' \in BOOLEAN,
           \A p \in Person : can[p] <=> (shown' \/ p \in stands' \intersect sight')
    PROVE  ConnectSound'
<1>1. \A k \in Claim : claims'[k] =
        IF claims[k] # Rest /\ can[claims[k].user] THEN [claims[k] EXCEPT !.could = TRUE] ELSE claims[k]
  BY DEF Noticed
<1>2. \A k \in Claim : claims[k] # Rest => claims[k] \in AClaim
  BY DEF ConnectSound, ConnectShape
<1>3. \A k \in Claim : claims[k] # Rest =>
        /\ claims'[k] \in AClaim
        /\ claims'[k].phase = claims[k].phase /\ claims'[k].command = claims[k].command
        /\ claims'[k].user = claims[k].user /\ claims'[k].label = claims[k].label
        /\ claims'[k].late = claims[k].late
        /\ claims[k].could => claims'[k].could
        /\ can[claims[k].user] => claims'[k].could
  <2> SUFFICES ASSUME NEW k \in Claim, claims[k] # Rest
               PROVE  /\ claims'[k] \in AClaim
                      /\ claims'[k].phase = claims[k].phase /\ claims'[k].command = claims[k].command
                      /\ claims'[k].user = claims[k].user /\ claims'[k].label = claims[k].label
                      /\ claims'[k].late = claims[k].late
                      /\ claims[k].could => claims'[k].could
                      /\ can[claims[k].user] => claims'[k].could
    OBVIOUS
  <2>1. CASE can[claims[k].user]
    <3>1. claims'[k] = [claims[k] EXCEPT !.could = TRUE] /\ claims[k] \in AClaim
      BY <1>1, <1>2, <2>1
    <3> QED
      BY <3>1 DEF AClaim
  <2>2. CASE ~can[claims[k].user]
    BY <1>1, <1>2, <2>2
  <2> QED
    BY <2>1, <2>2
<1>4. \A k \in Claim : claims[k] = Rest => claims'[k] = Rest
  BY <1>1
<1>5. ConnectShape'
  <2>1. claims' \in [Claim -> {Rest} \union AClaim]
    BY <1>3, <1>4 DEF Noticed
  <2> QED
    BY <2>1 DEF ConnectSound, ConnectShape
<1>6. RowsComeOnce' /\ TakenOnce' /\ SamePerson'
  BY <1>3, <1>4, NotesOnly
<1>7. Noted'
  <2>1. \A k \in Claim : claims'[k] # Rest /\ (shown' \/ claims'[k].user \in stands' \intersect sight')
                          => claims'[k].could
    BY <1>2, <1>3, <1>4 DEF AClaim
  <2>2. \A k \in Claim : claims'[k].phase \in {"opened", "taken", "counted"} => claims'[k].could
    BY <1>3, <1>4, ConnectConstants DEF ConnectSound, Noted
  <2> QED
    BY <2>1, <2>2 DEF ConnectSound, Noted, Opens, TokenWasOpenAtClaim
<1>8. Late'
  BY <1>3, <1>4, ConnectConstants DEF ConnectSound, Late, OnlyLateTokensOutlive
<1> QED
  BY <1>5, <1>6, <1>7, <1>8 DEF ConnectSound

LEMMA HostStep == ConnectSound /\ HostMoves => ConnectSound'
<1> SUFFICES ASSUME ConnectSound, HostMoves PROVE ConnectSound'
  OBVIOUS
<1> DEFINE can == [p \in Person |-> shown' \/ p \in stands \intersect sight']
<1>1. Noticed(can) /\ UNCHANGED <<asked, rows, decisions, repoTokens, stands, made>> /\ shown' \in BOOLEAN
  BY DEF HostMoves
<1>2. sight' \subseteq Person /\ stands \subseteq Person
  BY DEF HostMoves, ConnectSound, ConnectShape
<1>3. \A p \in Person : can[p] <=> (shown' \/ p \in stands' \intersect sight')
  BY <1>1
<1> HIDE DEF can
<1> QED
  BY <1>1, <1>2, <1>3, NoticedStep

LEMMA SignInStep == ASSUME NEW p \in Person PROVE ConnectSound /\ SignIn(p) => ConnectSound'
<1> SUFFICES ASSUME ConnectSound, SignIn(p) PROVE ConnectSound'
  OBVIOUS
<1> DEFINE can == [q \in Person |-> shown \/ q \in stands' \intersect sight]
<1>1. /\ Noticed(can) /\ UNCHANGED <<asked, rows, decisions, repoTokens, sight, shown, made>>
      /\ stands' = stands \union {p}
  BY DEF SignIn
<1>2. sight \subseteq Person /\ stands' \subseteq Person /\ shown \in BOOLEAN
  BY <1>1 DEF ConnectSound, ConnectShape
<1>3. \A q \in Person : can[q] <=> (shown' \/ q \in stands' \intersect sight')
  BY <1>1
<1> HIDE DEF can
<1> QED
  BY <1>1, <1>2, <1>3, NoticedStep

LEMMA ConnectForgetStep == ASSUME NEW p \in Person PROVE ConnectSound /\ Forget(p) => ConnectSound'
<1> SUFFICES ASSUME ConnectSound, Forget(p) PROVE ConnectSound'
  OBVIOUS
<1>1. /\ UNCHANGED <<asked, rows, decisions, sight, shown, made>> /\ stands' = stands \ {p}
      /\ repoTokens' = {t \in repoTokens : t.user # p}
  BY DEF Forget, TokensOfOthers
<1>2. \A k \in Claim : claims'[k] =
        IF claims[k] # Rest /\ claims[k].phase # "found" /\ claims[k].user = p
        THEN [claims[k] EXCEPT !.late = TRUE] ELSE claims[k]
  BY DEF Forget
<1>3. \A k \in Claim : claims[k] # Rest => claims[k] \in AClaim
  BY DEF ConnectSound, ConnectShape
<1>4. \A k \in Claim : claims[k] # Rest =>
        /\ claims'[k] \in AClaim
        /\ claims'[k].phase = claims[k].phase /\ claims'[k].command = claims[k].command
        /\ claims'[k].user = claims[k].user /\ claims'[k].label = claims[k].label
        /\ claims'[k].could = claims[k].could
        /\ claims[k].late => claims'[k].late
        /\ claims[k].phase # "found" /\ claims[k].user = p => claims'[k].late
  BY <1>2, <1>3 DEF AClaim
<1>5. \A k \in Claim : claims[k] = Rest => claims'[k] = Rest
  BY <1>2
<1>6. ConnectShape'
  <2>1. claims' \in [Claim -> {Rest} \union AClaim]
    BY <1>4, <1>5 DEF Forget
  <2> QED
    BY <1>1, <2>1 DEF ConnectSound, ConnectShape
<1>7. RowsComeOnce' /\ TakenOnce' /\ SamePerson'
  BY <1>1, <1>4, <1>5, NotesOnly
<1>8. Noted'
  BY <1>1, <1>4, <1>5, ConnectConstants DEF ConnectSound, Noted, Opens, TokenWasOpenAtClaim
<1>9. Late'
  <2>1. \A k \in Claim : claims'[k].phase \in {"opened", "taken", "counted"} /\ claims'[k].user \notin stands'
          => claims'[k].late
    BY <1>1, <1>4, <1>5, ConnectConstants DEF ConnectSound, Late
  <2>2. OnlyLateTokensOutlive'
    BY <1>1 DEF ConnectSound, Late, OnlyLateTokensOutlive
  <2> QED
    BY <2>1, <2>2 DEF Late
<1> QED
  BY <1>6, <1>7, <1>8, <1>9 DEF ConnectSound

LEMMA ConnectTickStep == ConnectSound /\ ConnectTick => ConnectSound'
<1> SUFFICES ASSUME ConnectSound, ConnectTick PROVE ConnectSound'
  OBVIOUS
<1>1. UNCHANGED <<asked, decisions, claims, repoTokens, stands, sight, shown, made>>
  BY DEF ConnectTick
<1>2. \A c \in Command : /\ rows'[c] = IF rows[c].left > 1 THEN [rows[c] EXCEPT !.left = @ - 1] ELSE NoRow
                         /\ rows[c] \in [left: 0..RequestTicks, by: Person \union {Nobody}]
  BY DEF ConnectTick, ConnectSound, ConnectShape
<1>3. NoRow \in [left: 0..RequestTicks, by: Person \union {Nobody}] /\ NoRow.left = 0
  BY ConnectConstants DEF NoRow
<1>4. \A c \in Command : /\ rows'[c] \in [left: 0..RequestTicks, by: Person \union {Nobody}]
                         /\ rows'[c].left > 0 => rows[c].left > 0 /\ rows'[c].by = rows[c].by
  <2> SUFFICES ASSUME NEW c \in Command
               PROVE  /\ rows'[c] \in [left: 0..RequestTicks, by: Person \union {Nobody}]
                      /\ rows'[c].left > 0 => rows[c].left > 0 /\ rows'[c].by = rows[c].by
    OBVIOUS
  <2>1. rows[c].left \in 0..RequestTicks /\ rows[c].by \in Person \union {Nobody} /\ RequestTicks \in Nat
    BY <1>2, ConnectConstants
  <2>2. CASE rows[c].left > 1
    <3>1. rows'[c] = [left |-> rows[c].left - 1, by |-> rows[c].by]
      BY <1>2, <2>2
    <3>2. rows[c].left - 1 \in 0..RequestTicks /\ rows[c].left > 0
      BY <2>1, <2>2
    <3> QED
      BY <2>1, <3>1, <3>2
  <2>3. CASE ~(rows[c].left > 1)
    <3>1. rows'[c] = NoRow
      BY <1>2, <2>3
    <3> QED
      BY <1>3, <3>1
  <2> QED
    BY <2>2, <2>3
<1>5. ConnectShape'
  <2>1. rows' \in [Command -> [left: 0..RequestTicks, by: Person \union {Nobody}]]
    BY <1>4 DEF ConnectTick
  <2> QED
    BY <1>1, <2>1 DEF ConnectSound, ConnectShape
<1> QED
  BY <1>1, <1>4, <1>5, RowsChange, FoundIsApproved

LEMMA ConnectSoundStep == ConnectSound /\ [ConnectNext]_connects => ConnectSound'
<1> SUFFICES ASSUME ConnectSound, [ConnectNext]_connects PROVE ConnectSound'
  OBVIOUS
<1>1. CASE UNCHANGED connects
  BY <1>1 DEF ConnectSound, ConnectShape, RowsComeOnce, TakenOnce, SamePerson, Noted, Late, Opens, Taking, Asking,
     TokenIsTheApprovers, TokenWasOpenAtClaim, OnlyLateTokensOutlive, connects
<1>2. CASE ConnectNext
  BY <1>2, AskSteps, DecisionSteps, FindStep, OpenStep, TakeStep, CountStep, InsertStep, ConnectDiesStep,
     HostStep, ConnectTickStep, TokenEndsStep, ConnectForgetStep, SignInStep DEF ConnectNext, ClaimStep
<1> QED
  BY <1>1, <1>2

LEMMA ConnectAlwaysSound == ConnectSpec => []ConnectSound
BY ConnectSoundInit, ConnectSoundStep, PTL DEF ConnectSpec

-----------------------------------------------------------------------------

\* However many claims present one secret, and whatever ends meanwhile, one request makes one token
\* at most.
THEOREM OneTokenPerRequest == ConnectSpec => []TokenOncePerRequest
<1>1. ConnectSound => TokenOncePerRequest
  BY DEF ConnectSound, TakenOnce, TokenOncePerRequest
<1> QED
  BY <1>1, ConnectAlwaysSound, PTL

\* A token reads as the person whose yes was taken for it.
THEOREM TokenOfTheApprover == ConnectSpec => []TokenIsTheApprovers
<1>1. ConnectSound => TokenIsTheApprovers
  BY DEF ConnectSound, SamePerson
<1> QED
  BY <1>1, ConnectAlwaysSound, PTL

\* Whose token it is could open the repository at some time while it was being claimed.
THEOREM TokenWasOpen == ConnectSpec => []TokenWasOpenAtClaim
<1>1. ConnectSound => TokenWasOpenAtClaim
  BY DEF ConnectSound, Noted
<1> QED
  BY <1>1, ConnectAlwaysSound, PTL

\* A person who lost everything is left with no token but one that was being claimed at that moment.
THEOREM OnlyLateTokens == ConnectSpec => []OnlyLateTokensOutlive
<1>1. ConnectSound => OnlyLateTokensOutlive
  BY DEF ConnectSound, Late
<1> QED
  BY <1>1, ConnectAlwaysSound, PTL

\* A token is made once of a request, for the person who approved it, of a repository they could open
\* (the claim of http/auth.ts: found, opened, taken, counted, made).
THEOREM TokensEarned == ConnectSpec => []TokensAreEarned
BY OneTokenPerRequest, TokenOfTheApprover, TokenWasOpen, PTL DEF TokensAreEarned

-----------------------------------------------------------------------------
(* The bounds *)

LiveOnes == {c \in Command : Live(c)}
TokensOf(p) == {t \in repoTokens : t.user = p}
Counting(k) == claims[k].phase = "counted"

\* As long as no two counted at once, whoever has counted finds room for what it inserts.
Apart ==
    /\ IsFiniteSet(LiveOnes) /\ IsFiniteSet(repoTokens)
    /\ ~crowded =>
         /\ Cardinality(LiveOnes) <= MaxWaiting
         /\ \A c \in Command : asked[c] = "counted" => Cardinality(LiveOnes) < MaxWaiting
         /\ \A c, d \in Command : asked[c] = "counted" /\ asked[d] = "counted" => c = d
         /\ \A p \in Person : Cardinality(TokensOf(p)) <= MaxTokens
         /\ \A k \in Claim : Counting(k) => Cardinality(TokensOf(claims[k].user)) < MaxTokens
         /\ \A k, j \in Claim : Counting(k) /\ Counting(j) => k = j

LEMMA Bounds == MaxWaiting \in Nat \ {0} /\ MaxTokens \in Nat \ {0}
BY ConnectAssumption

LEMMA TokensOfAreFinite ==
    ASSUME Apart, NEW p PROVE IsFiniteSet(TokensOf(p)) /\ Cardinality(TokensOf(p)) \in Nat
<1>1. TokensOf(p) \in SUBSET repoTokens
  BY DEF TokensOf
<1> QED
  BY <1>1, FS_Subset, FS_CardinalityType DEF Apart

LEMMA ApartInit == ConnectInit => Apart
<1> SUFFICES ASSUME ConnectInit PROVE Apart
  OBVIOUS
<1>1. LiveOnes = {} /\ repoTokens = {} /\ \A p : TokensOf(p) = {}
  BY DEF ConnectInit, LiveOnes, Live, NoRow, TokensOf
<1>2. \A c \in Command : asked[c] # "counted"
  BY DEF ConnectInit
<1>3. \A k \in Claim : ~Counting(k)
  BY DEF ConnectInit, Counting, Rest
<1> QED
  BY <1>1, <1>2, <1>3, FS_EmptySet, Bounds DEF Apart

\* Steps that insert nothing and count nothing.
LEMMA NothingCounted ==
    ASSUME Apart, crowded' = crowded, repoTokens' \subseteq repoTokens, LiveOnes' \subseteq LiveOnes,
           \A c \in Command : asked'[c] = "counted" => asked[c] = "counted",
           \A k \in Claim : Counting(k)' => Counting(k) /\ claims'[k].user = claims[k].user
    PROVE  Apart'
<1>1. /\ IsFiniteSet(LiveOnes) /\ IsFiniteSet(LiveOnes') /\ Cardinality(LiveOnes') <= Cardinality(LiveOnes)
      /\ IsFiniteSet(repoTokens')
  BY FS_Subset DEF Apart
<1>2. Cardinality(LiveOnes) \in Nat /\ Cardinality(LiveOnes') \in Nat
  BY <1>1, FS_CardinalityType
<1>3. ASSUME NEW p PROVE /\ Cardinality(TokensOf(p)') <= Cardinality(TokensOf(p))
                         /\ Cardinality(TokensOf(p)') \in Nat /\ Cardinality(TokensOf(p)) \in Nat
  <2>1. IsFiniteSet(TokensOf(p)) /\ Cardinality(TokensOf(p)) \in Nat
    BY TokensOfAreFinite
  <2>2. TokensOf(p)' \in SUBSET TokensOf(p)
    BY DEF TokensOf
  <2> QED
    BY <2>1, <2>2, FS_Subset, FS_CardinalityType
<1> SUFFICES ASSUME ~crowded'
             PROVE  /\ Cardinality(LiveOnes') <= MaxWaiting
                    /\ \A c \in Command : asked'[c] = "counted" => Cardinality(LiveOnes') < MaxWaiting
                    /\ \A c, d \in Command : asked'[c] = "counted" /\ asked'[d] = "counted" => c = d
                    /\ \A p \in Person : Cardinality(TokensOf(p)') <= MaxTokens
                    /\ \A k \in Claim : Counting(k)' => Cardinality(TokensOf(claims[k].user)') < MaxTokens
                    /\ \A k, j \in Claim : Counting(k)' /\ Counting(j)' => k = j
  BY <1>1 DEF Apart, TokensOf
<1>4. Cardinality(LiveOnes') <= MaxWaiting
  BY <1>1, <1>2, Bounds DEF Apart
<1>5. \A c \in Command : asked'[c] = "counted" => Cardinality(LiveOnes') < MaxWaiting
  BY <1>1, <1>2, Bounds DEF Apart
<1>6. \A p \in Person : Cardinality(TokensOf(p)') <= MaxTokens
  BY <1>3, Bounds DEF Apart
<1>7. ASSUME NEW k \in Claim, Counting(k)' PROVE Cardinality(TokensOf(claims[k].user)') < MaxTokens
  <2>1. Cardinality(TokensOf(claims[k].user)) < MaxTokens
    BY <1>7 DEF Apart
  <2>2. PICK p : p = claims[k].user /\ p = claims'[k].user
    BY <1>7
  <2>3. Cardinality(TokensOf(p)') < MaxTokens
    BY <1>3, <2>1, <2>2, Bounds
  <2> QED
    BY <2>2, <2>3 DEF TokensOf
<1> QED
  BY <1>4, <1>5, <1>6, <1>7 DEF Apart

\* Whoever counts the requests that wait alone finds nobody else between counting and inserting.
LEMMA CountWaitingApart == ASSUME NEW c \in Command PROVE ConnectSound /\ Apart /\ CountWaiting(c) => Apart'
<1> SUFFICES ASSUME ConnectSound, Apart, CountWaiting(c) PROVE Apart'
  OBVIOUS
<1>1. /\ UNCHANGED <<rows, claims, repoTokens>> /\ asked' = [asked EXCEPT ![c] = "counted"]
      /\ ~crowded' => ~crowded /\ \A d \in Command : asked[d] # "counted"
  BY DEF CountWaiting
<1>2. LiveOnes' = LiveOnes /\ Cardinality(LiveOnes) < MaxWaiting
  BY <1>1 DEF LiveOnes, Live, CountWaiting, Room
<1>3. \A p : TokensOf(p)' = TokensOf(p)
  BY <1>1 DEF TokensOf
<1>4. ~crowded' => \A d \in Command : asked'[d] = "counted" => d = c
  BY <1>1 DEF ConnectSound, ConnectShape
<1>5. \A k \in Claim : (Counting(k)' <=> Counting(k)) /\ claims'[k] = claims[k]
  BY <1>1 DEF Counting
<1>6. ~crowded' => \A k \in Claim : Counting(k)' => Cardinality(TokensOf(claims'[k].user)) < MaxTokens
  BY <1>1, <1>5 DEF Apart
<1>7. ~crowded' => \A k \in Claim : Counting(k)' => (Cardinality(TokensOf(claims[k].user)) < MaxTokens)'
  BY <1>1, <1>6 DEF TokensOf
<1> QED
  BY <1>1, <1>2, <1>3, <1>4, <1>5, <1>7 DEF Apart

\* What it inserts is one row.
LEMMA InsertRequestApart == ASSUME NEW c \in Command PROVE ConnectSound /\ Apart /\ InsertRequest(c) => Apart'
<1> SUFFICES ASSUME ConnectSound, Apart, InsertRequest(c) PROVE Apart'
  OBVIOUS
<1>1. /\ UNCHANGED <<claims, repoTokens, crowded>> /\ asked[c] = "counted"
      /\ asked' = [asked EXCEPT ![c] = "done"]
      /\ rows' = [rows EXCEPT ![c] = [left |-> RequestTicks, by |-> Nobody]]
  BY DEF InsertRequest
<1>2. LiveOnes' = LiveOnes \union {c}
  BY <1>1, ConnectConstants DEF LiveOnes, Live, ConnectSound, ConnectShape
<1>3. c \notin LiveOnes
  BY <1>1, ConnectConstants DEF LiveOnes, Live, ConnectSound, RowsComeOnce
<1>4. /\ IsFiniteSet(LiveOnes) /\ IsFiniteSet(LiveOnes') /\ Cardinality(LiveOnes) \in Nat
      /\ Cardinality(LiveOnes') = Cardinality(LiveOnes) + 1
  BY <1>2, <1>3, FS_AddElement, FS_CardinalityType DEF Apart
<1>5. ~crowded' => Cardinality(LiveOnes') <= MaxWaiting
  BY <1>1, <1>4, Bounds DEF Apart
<1>6. ~crowded' => \A d \in Command : asked'[d] # "counted"
  BY <1>1 DEF Apart, ConnectSound, ConnectShape
<1>7. \A p : TokensOf(p)' = TokensOf(p)
  BY <1>1 DEF TokensOf
<1>8. \A k \in Claim : Counting(k)' <=> Counting(k)
  BY <1>1 DEF Counting
<1>9. ~crowded' => \A k \in Claim : Counting(k)' => (Cardinality(TokensOf(claims[k].user)) < MaxTokens)'
  BY <1>1, <1>8 DEF Apart, TokensOf
<1> QED
  BY <1>1, <1>4, <1>5, <1>6, <1>7, <1>8, <1>9 DEF Apart

\* Whoever counts a person's tokens alone finds nobody else between counting and inserting.
LEMMA CountTokensApart == ASSUME NEW k \in Claim PROVE ConnectSound /\ Apart /\ CountTokens(k) => Apart'
<1> SUFFICES ASSUME ConnectSound, Apart, CountTokens(k) PROVE Apart'
  OBVIOUS
<1>1. UNCHANGED <<asked, rows, repoTokens>> /\ claims[k].phase = "taken" /\ claims[k] \in AClaim
  BY RestIsAClaim, ConnectConstants DEF CountTokens, ConnectSound
<1>2. LiveOnes' = LiveOnes /\ \A p : TokensOf(p)' = TokensOf(p)
  BY <1>1 DEF LiveOnes, Live, TokensOf
<1>3. CASE Holds(claims[k].user) >= MaxTokens
  <2>1. claims' = [claims EXCEPT ![k] = Rest] /\ crowded' = crowded
    BY <1>3 DEF CountTokens
  <2>2. \A j \in Claim : Counting(j)' => Counting(j) /\ claims'[j].user = claims[j].user
    BY <2>1, ConnectConstants DEF Counting, ConnectSound, ConnectShape
  <2> QED
    BY <1>1, <1>2, <2>1, <2>2, NothingCounted
<1>4. CASE ~(Holds(claims[k].user) >= MaxTokens)
  <2>1. /\ claims' = [claims EXCEPT ![k].phase = "counted"]
        /\ ~crowded' => ~crowded /\ \A j \in Claim : ~Counting(j)
    BY <1>4 DEF CountTokens, Counting
  <2>2. PICK u : u = claims[k].user /\ u \in Person
    BY <1>1 DEF AClaim
  <2>3. claims'[k].user = u /\ \A j \in Claim \ {k} : claims'[j] = claims[j]
    BY <1>1, <2>1, <2>2 DEF ConnectSound, ConnectShape, AClaim
  <2>4. ~crowded' => \A j \in Claim : Counting(j)' => j = k
    BY <2>1, <2>3 DEF Counting
  <2>5. Cardinality(TokensOf(u)) < MaxTokens
    <3>1. Holds(u) = Cardinality(TokensOf(u))
      BY DEF Holds, TokensOf
    <3>2. Cardinality(TokensOf(u)) \in Nat
      BY TokensOfAreFinite
    <3> QED
      BY <1>4, <2>2, <3>1, <3>2, Bounds
  <2>6. (Cardinality(TokensOf(claims[k].user)) < MaxTokens)'
    BY <1>1, <2>3, <2>5 DEF TokensOf
  <2> QED
    BY <1>1, <1>2, <2>1, <2>4, <2>6 DEF Apart
<1> QED
  BY <1>3, <1>4

\* What it inserts is one token of that person.
LEMMA InsertTokenApart == ASSUME NEW k \in Claim PROVE ConnectSound /\ Apart /\ InsertToken(k) => Apart'
<1> SUFFICES ASSUME ConnectSound, Apart, InsertToken(k) PROVE Apart'
  OBVIOUS
<1>1. PICK t : t = [command |-> claims[k].command, user |-> claims[k].user, label |-> claims[k].label,
                    could |-> claims[k].could, late |-> claims[k].late]
  OBVIOUS
<1>2. /\ UNCHANGED <<asked, rows, crowded>> /\ Counting(k) /\ repoTokens' = repoTokens \union {t}
      /\ claims' = [claims EXCEPT ![k] = Rest]
  BY <1>1 DEF InsertToken, Counting
<1>3. LiveOnes' = LiveOnes
  BY <1>2 DEF LiveOnes, Live
<1>4. ~crowded' => \A j \in Claim : ~Counting(j)'
  <2>1. \A j \in Claim : Counting(j)' => j # k /\ Counting(j)
    BY <1>2, ConnectConstants DEF Counting, ConnectSound, ConnectShape
  <2> QED
    BY <1>2, <2>1 DEF Apart
<1>5. IsFiniteSet(repoTokens')
  BY <1>2, FS_AddElement DEF Apart
<1>6. ASSUME ~crowded', NEW p \in Person PROVE Cardinality(TokensOf(p)') <= MaxTokens
  <2>1. IsFiniteSet(TokensOf(p)) /\ Cardinality(TokensOf(p)) \in Nat
    BY TokensOfAreFinite
  <2>2. CASE t.user # p
    <3>1. TokensOf(p)' = TokensOf(p)
      BY <1>2, <2>2 DEF TokensOf
    <3> QED
      BY <1>2, <1>6, <3>1 DEF Apart
  <2>3. CASE t.user = p
    <3>1. TokensOf(p)' = TokensOf(p) \union {t}
      BY <1>2, <2>3 DEF TokensOf
    <3>2. Cardinality(TokensOf(p)) < MaxTokens
      BY <1>1, <1>2, <1>6, <2>3 DEF Apart
    <3>3. Cardinality(TokensOf(p) \union {t}) <= Cardinality(TokensOf(p)) + 1
          /\ Cardinality(TokensOf(p) \union {t}) \in Nat
      <4>1. PICK S : S = TokensOf(p)
        OBVIOUS
      <4>2. IsFiniteSet(S) /\ Cardinality(S) \in Nat
        BY <2>1, <4>1
      <4>3. IsFiniteSet(S \union {t}) /\ Cardinality(S \union {t}) \in {Cardinality(S), Cardinality(S) + 1}
        BY <4>2, FS_AddElement
      <4> QED
        BY <4>1, <4>2, <4>3
    <3> QED
      BY <2>1, <3>1, <3>2, <3>3, Bounds
  <2> QED
    BY <2>2, <2>3
<1>7. \A p : TokensOf(p)' = {x \in repoTokens' : x.user = p}
  BY DEF TokensOf
<1> QED
  BY <1>2, <1>3, <1>4, <1>5, <1>6 DEF Apart, TokensOf

LEMMA DecisionApart == ASSUME NEW p \in Person PROVE ConnectSound /\ Apart /\ DecisionStep(p) => Apart'
<1> SUFFICES ASSUME ConnectSound, Apart, DecisionStep(p) PROVE Apart'
  OBVIOUS
<1>1. UNCHANGED <<asked, claims, repoTokens, crowded>>
  BY DEF DecisionStep, Look, Decline, OpenToApprove, Approve
<1>2. decisions[p].phase \in {"looked", "opened"} => decisions[p].command \in Command
  BY ConnectConstants DEF ConnectSound, ConnectShape
<1>3. \A c \in Command : rows'[c].left > 0 => rows[c].left > 0
  <2>1. CASE UNCHANGED rows
    BY <2>1
  <2>2. CASE decisions[p].phase = "looked" /\ End(decisions[p].command)
    BY <1>2, <2>2, EndedRow DEF ConnectSound
  <2>3. CASE Approve(p)
    <3>1. decisions[p].command \in Command
      BY <1>2, <2>3 DEF Approve
    <3> QED
      BY <2>3, <3>1 DEF Approve, ConnectSound, ConnectShape
  <2> QED
    BY <2>1, <2>2, <2>3 DEF DecisionStep, Look, Decline, OpenToApprove
<1>4. LiveOnes' \subseteq LiveOnes
  BY <1>3 DEF LiveOnes, Live
<1> QED
  BY <1>1, <1>4, NothingCounted DEF Counting

\* A claim that only moves, or ends, before it counts.
LEMMA ClaimMoves ==
    ASSUME ConnectSound, Apart, NEW k \in Claim, NEW s, s.phase # "counted", claims' = [claims EXCEPT ![k] = s],
           UNCHANGED <<asked, repoTokens, crowded>>, LiveOnes' \subseteq LiveOnes
    PROVE  Apart'
<1>1. \A j \in Claim : Counting(j)' => Counting(j) /\ claims'[j].user = claims[j].user
  BY DEF Counting, ConnectSound, ConnectShape
<1> QED
  BY <1>1, NothingCounted

LEMMA ClaimApart == ASSUME NEW k \in Claim PROVE ConnectSound /\ Apart /\ ClaimStep(k) => Apart'
<1> SUFFICES ASSUME ConnectSound, Apart, ClaimStep(k) PROVE Apart'
  OBVIOUS
<1>1. CASE FindApproved(k)
  <2>1. PICK c \in Command : claims' = [claims EXCEPT ![k] =
             [phase |-> "found", command |-> c, user |-> rows[c].by, label |-> Nobody,
              could |-> Opens(rows[c].by), late |-> FALSE]]
    BY <1>1 DEF FindApproved
  <2>2. UNCHANGED <<asked, rows, repoTokens, crowded>>
    BY <1>1 DEF FindApproved
  <2>3. LiveOnes' = LiveOnes
    BY <2>2 DEF LiveOnes, Live
  <2> QED
    BY <2>1, <2>2, <2>3, ClaimMoves
<1>2. CASE OpenToClaim(k)
  <2>1. UNCHANGED <<asked, repoTokens, crowded>> /\ claims[k].phase = "found"
    BY <1>2 DEF OpenToClaim
  <2>2. claims[k] \in AClaim /\ claims[k].command \in Command
    <3>1. claims[k] \in AClaim
      BY <2>1, RestIsAClaim DEF ConnectSound
    <3> QED
      BY <3>1 DEF AClaim
  <2>3. \A c \in Command : rows'[c].left > 0 => rows[c].left > 0
    BY <1>2, <2>2, EndedRow DEF OpenToClaim, ConnectSound
  <2>4. LiveOnes' \subseteq LiveOnes
    BY <2>3 DEF LiveOnes, Live
  <2>5. CASE claims' = [claims EXCEPT ![k].phase = "opened"]
    <3>1. PICK s : s = [claims[k] EXCEPT !.phase = "opened"]
      OBVIOUS
    <3>2. s.phase = "opened" /\ claims' = [claims EXCEPT ![k] = s]
      BY <2>2, <2>5, <3>1 DEF AClaim
    <3> QED
      BY <2>1, <2>4, <3>2, ClaimMoves
  <2>6. CASE claims' = [claims EXCEPT ![k] = Rest]
    BY <2>1, <2>4, <2>6, ConnectConstants, ClaimMoves
  <2> QED
    BY <1>2, <2>5, <2>6 DEF OpenToClaim
<1>3. CASE TakeApproved(k)
  <2>1. UNCHANGED <<asked, repoTokens, crowded>> /\ claims[k].phase = "opened"
    BY <1>3 DEF TakeApproved
  <2>2. claims[k] \in AClaim /\ claims[k].command \in Command
    <3>1. claims[k] \in AClaim
      BY <2>1, RestIsAClaim DEF ConnectSound
    <3> QED
      BY <3>1 DEF AClaim
  <2>3. UNCHANGED rows \/ End(claims[k].command)
    BY <1>3 DEF TakeApproved, AfterTaking, End
  <2>4. \A c \in Command : rows'[c].left > 0 => rows[c].left > 0
    BY <2>2, <2>3, EndedRow DEF ConnectSound
  <2>5. LiveOnes' \subseteq LiveOnes
    BY <2>4 DEF LiveOnes, Live
  <2>6. CASE claims' = [claims EXCEPT ![k] = Rest]
    BY <2>1, <2>5, <2>6, ConnectConstants, ClaimMoves
  <2>7. CASE claims' = [claims EXCEPT ![k].phase = "taken", ![k].label = rows[claims[k].command].by]
    <3>1. PICK s : s = [claims[k] EXCEPT !.phase = "taken", !.label = rows[claims[k].command].by]
      OBVIOUS
    <3>2. s.phase = "taken"
      BY <2>2, <3>1 DEF AClaim
    <3>3. claims' = [claims EXCEPT ![k] = s]
      BY <2>2, <2>7, <3>1 DEF AClaim, ConnectSound, ConnectShape
    <3> QED
      BY <2>1, <2>5, <3>2, <3>3, ClaimMoves
  <2> QED
    BY <1>3, <2>6, <2>7 DEF TakeApproved
<1>4. CASE ClaimDies(k)
  <2>1. UNCHANGED <<asked, rows, repoTokens, crowded>> /\ claims' = [claims EXCEPT ![k] = Rest]
    BY <1>4 DEF ClaimDies
  <2>2. LiveOnes' = LiveOnes
    BY <2>1 DEF LiveOnes, Live
  <2> QED
    BY <2>1, <2>2, ConnectConstants, ClaimMoves
<1> QED
  BY <1>1, <1>2, <1>3, <1>4, CountTokensApart, InsertTokenApart DEF ClaimStep

LEMMA MeanwhileApart ==
    ConnectSound /\ Apart /\ (HostMoves \/ ConnectTick \/ TokenEnds \/ \E p \in Person : Forget(p) \/ SignIn(p)) => Apart'
<1> SUFFICES ASSUME ConnectSound, Apart, HostMoves \/ ConnectTick \/ TokenEnds \/ \E p \in Person : Forget(p) \/ SignIn(p)
             PROVE  Apart'
  OBVIOUS
<1>1. UNCHANGED <<asked, crowded>>
  BY DEF HostMoves, ConnectTick, TokenEnds, Forget, SignIn
<1>2. repoTokens' \subseteq repoTokens
  BY DEF HostMoves, ConnectTick, TokenEnds, Forget, SignIn, TokensOfOthers
<1>3. LiveOnes' \subseteq LiveOnes
  <2>1. CASE UNCHANGED rows
    BY <2>1 DEF LiveOnes, Live
  <2>2. CASE ConnectTick
    BY <2>2, ConnectConstants DEF ConnectTick, LiveOnes, Live, NoRow, ConnectSound, ConnectShape
  <2> QED
    BY <2>1, <2>2 DEF HostMoves, TokenEnds, Forget, SignIn
<1>4. \A k \in Claim : claims[k] # Rest => claims[k] \in AClaim
  BY DEF ConnectSound, ConnectShape
<1>5. \A k \in Claim : Counting(k)' => Counting(k) /\ claims'[k].user = claims[k].user
  <2>1. CASE UNCHANGED claims
    BY <2>1 DEF Counting
  <2>2. ASSUME NEW can, Noticed(can) PROVE \A k \in Claim : Counting(k)' => Counting(k) /\ claims'[k].user = claims[k].user
    <3>1. \A k \in Claim : claims'[k] = claims[k] \/ (claims[k] # Rest /\ claims'[k] = [claims[k] EXCEPT !.could = TRUE])
      BY <2>2 DEF Noticed
    <3> QED
      BY <1>4, <3>1 DEF Counting, AClaim
  <2>3. ASSUME NEW p \in Person, Forget(p) PROVE \A k \in Claim : Counting(k)' => Counting(k) /\ claims'[k].user = claims[k].user
    <3>1. \A k \in Claim : claims'[k] = claims[k] \/ (claims[k] # Rest /\ claims'[k] = [claims[k] EXCEPT !.late = TRUE])
      BY <2>3 DEF Forget
    <3> QED
      BY <1>4, <3>1 DEF Counting, AClaim
  <2> QED
    BY <2>1, <2>2, <2>3 DEF HostMoves, ConnectTick, TokenEnds, SignIn
<1> QED
  BY <1>1, <1>2, <1>3, <1>5, NothingCounted

LEMMA ApartStep == ConnectSound /\ Apart /\ [ConnectNext]_connects => Apart'
<1> SUFFICES ASSUME ConnectSound, Apart, [ConnectNext]_connects PROVE Apart'
  OBVIOUS
<1>1. CASE UNCHANGED connects
  <2>1. UNCHANGED <<asked, claims, repoTokens, crowded, rows>>
    BY <1>1 DEF connects
  <2>2. LiveOnes' = LiveOnes
    BY <2>1 DEF LiveOnes, Live
  <2> QED
    BY <2>1, <2>2, NothingCounted DEF Counting
<1>2. CASE ConnectNext
  BY <1>2, CountWaitingApart, InsertRequestApart, DecisionApart, ClaimApart, MeanwhileApart DEF ConnectNext
<1> QED
  BY <1>1, <1>2

\* A bound of what waits or of what a person holds, which a transaction that locks nothing counts before
\* it inserts (createConnectRequest, createRepoToken), is passed only by two that counted at once.
THEOREM BoundsPassedTogether == ConnectSpec => []BoundsArePassedTogether
<1>1. Apart => BoundsArePassedTogether
  BY DEF Apart, BoundsArePassedTogether, LiveOnes, TokensOf, Holds
<1> QED
  BY <1>1, ConnectAlwaysSound, ApartInit, ApartStep, PTL DEF ConnectSpec

================================================================================
