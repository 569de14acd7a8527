------------------------------ MODULE OAuthGrants ------------------------------
(***************************************************************************)
(* What a person allows OAuth clients (apps/server/src/auth/oauth/         *)
(* authorization-server.ts over packages/db/src/queries/oauth.ts): a       *)
(* sealed request is answered with a code, a code is exchanged for a grant *)
(* with its first pair of tokens, a refresh token for the next pair, and   *)
(* grants end: taken back, revoked, crowded out, expired, or with          *)
(* everything else of the person.                                          *)
(*                                                                         *)
(* An exchange of a code is two transactions, one of a refresh token is    *)
(* one with a row lock.  A transaction that writes is two steps here: what *)
(* it decides from the rows it sees, and its commit.                       *)
(***************************************************************************)
EXTENDS Naturals, FiniteSets

CONSTANTS
    Worker,         \* requests at the token endpoint that may be under way at once
    User,
    None,
    RequestTtl,     \* REQUEST_TTL_MS, CODE_TTL_MS, REFRESH_REUSE_GRACE_MS and the
    CodeTtl,        \*   lifetimes of the configuration
    Grace,
    AccessTtl,
    RefreshTtl,
    KeepPairs,      \* MAX_PAIRS_PER_GRANT
    KeepGrants,     \* MAX_GRANTS_PER_USER
    MaxWait,        \* bound: how long an exchange that has read the clock takes to commit
    MaxNow,         \* bound: the end of time
    MaxCodes,       \* bound: codes ever issued
    MaxPairs,       \* bound: pairs ever issued
    MaxForgets      \* bound: how often the host stops vouching for a person

ASSUME OAuthAssumption ==
    /\ None \notin Nat
    /\ {RequestTtl, CodeTtl, Grace, AccessTtl, RefreshTtl, MaxWait, MaxNow, MaxForgets} \subseteq Nat
    /\ {KeepPairs, KeepGrants, MaxCodes, MaxPairs} \subseteq Nat \ {0}
    /\ AccessTtl + MaxWait =< RefreshTtl
    /\ IsFiniteSet(Worker)

VARIABLES
    now,
    sealed,     \* how much longer the request that was sealed last can be answered
    deciding,   \* who may be allowing it: each is known by their session and was shown the address
    issued,     \* how many codes were issued
    codes,      \* rows of oauth_codes
    grants,     \* rows of oauth_grants
    tokens,     \* rows of oauth_tokens: an access token and a refresh token each
    pairs,      \* how many pairs were inserted; ids are made in order of time
    work,       \* what every request at the token endpoint is doing
    forgets     \* how often everything of a person was forgotten

vars == <<now, sealed, deciding, issued, codes, grants, tokens, pairs, work, forgets>>

Pair == 1..MaxPairs
Time == 0..(MaxNow + CodeTtl + AccessTtl + RefreshTtl)

\* `forgets` in a row says what the person's count was when they agreed; it is not in the database.
\* A code is late when that was over by the time it was stored.
Code  == [id: 1..MaxCodes, user: User, expires: Time, forgets: 0..MaxForgets, late: BOOLEAN]
Grant == [id: Pair, code: 1..MaxCodes, user: User, used: Time, expires: Time,
          forgets: 0..MaxForgets, late: BOOLEAN]
Token == [id: Pair, grant: Pair, from: Pair \union {0}, rotated: Time \union {None},
          access: Time, refresh: Time]

Idle == [step |-> "idle"]

Work ==
    [step: {"idle"}]
      \union [step: {"taken"}, code: Code, late: BOOLEAN]
      \union [step: {"refresh"}, token: Pair, at: Time]
      \union [step: {"locked"}, token: Pair, grant: Pair, first: BOOLEAN, at: Time]
      \union [step: {"writing"}, token: Pair, grant: Pair, first: BOOLEAN, at: Time,
              new: Token, drop: SUBSET Pair]

TypeOK ==
    /\ now \in 0..MaxNow
    /\ sealed \in 0..RequestTtl
    /\ deciding \subseteq [user: User, forgets: 0..MaxForgets]
    /\ issued \in 0..MaxCodes
    /\ codes \subseteq Code
    /\ grants \subseteq Grant
    /\ tokens \subseteq Token /\ \A t \in tokens : t.access =< t.refresh
    /\ pairs \in 0..MaxPairs
    /\ work \in [Worker -> Work]
    /\ forgets \in [User -> 0..MaxForgets]

Init ==
    /\ now = 0
    /\ sealed = 0
    /\ deciding = {}
    /\ issued = 0
    /\ codes = {}
    /\ grants = {}
    /\ tokens = {}
    /\ pairs = 0
    /\ work = [w \in Worker |-> Idle]
    /\ forgets = [u \in User |-> 0]

\* Variants of definitions, named with an underscore, are not part of the specification: each is the
\* definition with a slip that the property it is listed with in PROJECT.json must notice.

Ids(rows) == {row.id : row \in rows}
Under(G) == {t \in tokens : t.grant \in G}

Greatest_OffByOne(S, n) == {i \in S : Cardinality({j \in S : i < j}) < n - 1}
\* The greatest n of a set of ids: "order by id desc limit n".
Greatest(S, n) == {i \in S : Cardinality({j \in S : i < j}) < n}

-----------------------------------------------------------------------------
(* The consent page *)

\* A request is looked at and sealed; nothing is stored.  A new one matters when the last is over.
Authorize ==
    /\ sealed = 0
    /\ sealed' = RequestTtl
    /\ UNCHANGED <<now, deciding, issued, codes, grants, tokens, pairs, work, forgets>>

\* The person allows it: their session says who they are, the request opens, and they can open its
\* address.
Consent(u) ==
    /\ sealed > 0
    /\ issued < MaxCodes
    /\ deciding' = deciding \union {[user |-> u, forgets |-> forgets[u]]}
    /\ UNCHANGED <<now, sealed, issued, codes, grants, tokens, pairs, work, forgets>>

\* Then the request is opened once more and the code is stored, whatever became of the session
\* meanwhile.  The request is good until its time is over, also a second time.
Decide(u) ==
    /\ sealed > 0
    /\ issued < MaxCodes
    /\ issued' = issued + 1
    /\ \E seen \in 0..MaxForgets :
         /\ [user |-> u, forgets |-> seen] \in deciding
         /\ codes' = codes \union
              {[id |-> issued + 1, user |-> u, expires |-> now + CodeTtl, forgets |-> seen,
                late |-> seen # forgets[u]]}
    /\ UNCHANGED <<now, sealed, deciding, grants, tokens, pairs, work, forgets>>

-----------------------------------------------------------------------------
(* What ends grants *)

\* Rows other transactions hold: the token they exchange, the ones they delete, the one they insert.
Held(w) ==
    IF work[w].step = "locked" THEN {work[w].token}
    ELSE IF work[w].step = "writing" THEN {work[w].token, work[w].new.id} \union work[w].drop
    ELSE {}
HeldByOthers(w) == UNION {Held(v) : v \in Worker \ {w}}

\* A row that a transaction refers to with what it inserted is not deleted before that commits.
Deletable(G) == \A w \in Worker : work[w].step = "writing" => work[w].grant \notin G

\* Deleting a grant takes its tokens along.  With an exchange that has locked one of them and not
\* inserted yet, each waits for the other, and the database ends one: the exchange (here), or the
\* deletion, which then did nothing.
Aborted(G) ==
    [w \in Worker |-> IF work[w].step = "locked" /\ work[w].grant \in G THEN Idle ELSE work[w]]

EndGrants(G) ==
    /\ Deletable(G)
    /\ grants' = {g \in grants : g.id \notin G}
    /\ tokens' = tokens \ Under(G)

\* deleteOAuthGrant from the account pages, revokeOAuthToken by the client it was issued to.
TakeBack ==
    \E g \in grants :
        /\ EndGrants({g.id})
        /\ work' = Aborted({g.id})
        /\ UNCHANGED <<now, sealed, deciding, issued, codes, pairs, forgets>>

Forgotten_KeepsCodes(u) == codes
\* What forgetUserAccess leaves of the codes.
Forgotten(u) == {c \in codes : c.user # u}

\* An exchange that has taken its code is past what is deleted.
ForgetUserAccess(u) ==
    LET G == Ids({g \in grants : g.user = u}) IN
    /\ forgets[u] < MaxForgets
    /\ forgets' = [forgets EXCEPT ![u] = @ + 1]
    /\ codes' = Forgotten(u)
    /\ EndGrants(G)
    /\ work' = [w \in Worker |->
                  IF work[w].step = "taken" /\ work[w].code.user = u
                    THEN [work[w] EXCEPT !.late = TRUE]
                    ELSE Aborted(G)[w]]
    /\ UNCHANGED <<now, sealed, deciding, issued, pairs>>

\* deleteExpiredOAuth, one statement at a time.
SweepCodes ==
    /\ \E c \in codes : c.expires =< now
    /\ codes' = {c \in codes : c.expires > now}
    /\ UNCHANGED <<now, sealed, deciding, issued, grants, tokens, pairs, work, forgets>>

Expired_Unused == {g \in grants : g.used + AccessTtl =< now}
Expired == {g \in grants : g.expires =< now}

SweepGrants ==
    /\ Expired # {}
    /\ EndGrants(Ids(Expired))
    /\ work' = Aborted(Ids(Expired))
    /\ UNCHANGED <<now, sealed, deciding, issued, codes, pairs, forgets>>

\* The deletion waits for the rows an exchange holds.
SweepTokens ==
    LET ended == {t \in tokens : t.refresh =< now} IN
    /\ ended # {}
    /\ \A w \in Worker : Held(w) \intersect Ids(ended) = {}
    /\ tokens' = tokens \ ended
    /\ UNCHANGED <<now, sealed, deciding, issued, codes, grants, pairs, work, forgets>>

-----------------------------------------------------------------------------
(* The token endpoint *)

NewPair(g, from, at) ==
    [id |-> pairs + 1, grant |-> g, from |-> from, rotated |-> None,
     access |-> at + AccessTtl, refresh |-> at + RefreshTtl]

Taken_Kept(c) == codes
\* What is left of the table when a code was presented.
Taken(c) == codes \ {c}

\* takeOAuthCode of whatever client presents the code: spent by being presented, whether or
\* not it is over, or the verifier, the client, the redirect URI or the resource is wrong.
TakeCode(w) ==
    /\ work[w] = Idle
    /\ \E c \in codes :
        /\ codes' = Taken(c)
        /\ \/ /\ c.expires > now
              /\ work' = [work EXCEPT ![w] = [step |-> "taken", code |-> c, late |-> FALSE]]
           \/ UNCHANGED work
    /\ UNCHANGED <<now, sealed, deciding, issued, grants, tokens, pairs, forgets>>

\* The grants of a person that stay: used last, the newer of two that were used at one time.
Longer(g, h) == g.used > h.used \/ (g.used = h.used /\ g.id > h.id)
Crowded(S, n) == {g \in S : Cardinality({h \in S : Longer(h, g)}) >= n}

\* createOAuthGrant.
CreateGrant(w) ==
    LET c    == work[w].code
        pair == NewPair(pairs + 1, 0, now)
        g    == [id |-> pairs + 1, code |-> c.id, user |-> c.user, used |-> now,
                 expires |-> pair.refresh, forgets |-> c.forgets, late |-> c.late \/ work[w].late]
        gone == Ids(Crowded({h \in grants \union {g} : h.user = c.user}, KeepGrants))
    IN
    /\ work[w].step = "taken"
    /\ pairs < MaxPairs
    /\ Deletable(gone)
    /\ pairs' = pairs + 1
    /\ grants' = {h \in grants \union {g} : h.id \notin gone}
    /\ tokens' = (tokens \union {pair}) \ Under(gone)
    /\ work' = [Aborted(gone) EXCEPT ![w] = Idle]
    /\ UNCHANGED <<now, sealed, deciding, issued, codes, forgets>>

\* A client presents a refresh token it was once given, now or again.
PresentRefresh(w) ==
    /\ work[w] = Idle
    /\ \E t \in tokens : work' = [work EXCEPT ![w] = [step |-> "refresh", token |-> t.id, at |-> now]]
    /\ UNCHANGED <<now, sealed, deciding, issued, codes, grants, tokens, pairs, forgets>>

Lockable_NoLock(w, i) == TRUE
\* "for update": whoever else holds the row is waited for.
Lockable(w, i) == i \notin HeldByOthers(w)

Reused(t, at) == t.rotated # None /\ at > t.rotated + Grace

\* rotateOAuthRefresh up to its first write; `at` was read before it began.
RotateReads(w) ==
    LET q == work[w] IN
    /\ q.step = "refresh"
    /\ Lockable(w, q.token)
    /\ \/ /\ \A t \in tokens : t.id = q.token => t.refresh =< q.at
          /\ work' = [work EXCEPT ![w] = Idle]
          /\ UNCHANGED <<grants, tokens>>
       \/ \E t \in tokens :
            /\ t.id = q.token
            /\ t.refresh > q.at
            /\ \/ /\ Reused(t, q.at)
                  /\ EndGrants({t.grant})
                  /\ work' = [Aborted({t.grant}) EXCEPT ![w] = Idle]
               \/ /\ ~Reused(t, q.at)
                  /\ work' = [work EXCEPT ![w] =
                       [step |-> "locked", token |-> t.id, grant |-> t.grant,
                        first |-> t.rotated = None, at |-> q.at]]
                  /\ UNCHANGED <<grants, tokens>>
    /\ UNCHANGED <<now, sealed, deciding, issued, codes, pairs, forgets>>

Dropped_Nothing(g, new) == {}
\* It marks the token, inserts the pair and decides which pairs go, from the rows it sees.
Dropped(g, new) == LET S == Ids(Under({g})) \union {new} IN S \ Greatest(S, IF KeepPairs > 2 THEN KeepPairs ELSE 2)

RotateWrites(w) ==
    LET q   == work[w]
        new == NewPair(q.grant, q.token, q.at)
    IN
    /\ q.step = "locked"
    /\ pairs < MaxPairs
    /\ Dropped(q.grant, new.id) \intersect HeldByOthers(w) = {}
    /\ pairs' = pairs + 1
    /\ work' = [work EXCEPT ![w] =
         [step |-> "writing", token |-> q.token, grant |-> q.grant, first |-> q.first, at |-> q.at,
          new |-> new, drop |-> Dropped(q.grant, new.id)]]
    /\ UNCHANGED <<now, sealed, deciding, issued, codes, grants, tokens, forgets>>

\* The token as the exchange leaves it: the first use stands.
Marked(t, q) == IF t.id = q.token /\ q.first THEN [t EXCEPT !.rotated = q.at] ELSE t

RotateCommits(w) ==
    LET q == work[w] IN
    /\ q.step = "writing"
    /\ tokens' = {Marked(t, q) : t \in {u \in tokens : u.id \notin q.drop}} \union {q.new}
    /\ grants' = {IF g.id = q.grant THEN [g EXCEPT !.used = q.at, !.expires = q.new.refresh] ELSE g :
                  g \in grants}
    /\ work' = [work EXCEPT ![w] = Idle]
    /\ UNCHANGED <<now, sealed, deciding, issued, codes, pairs, forgets>>

\* The process or the database goes away: what was committed stays.
Dies(w) ==
    /\ work[w].step \in {"taken", "writing"}
    /\ work' = [work EXCEPT ![w] = Idle]
    /\ UNCHANGED <<now, sealed, deciding, issued, codes, grants, tokens, pairs, forgets>>

-----------------------------------------------------------------------------

\* An access token was used and the grant is noted as used when that was worth a write, which nobody
\* waits for: by now later uses may be noted, and this one goes over them.
Verify ==
    /\ \E t \in tokens, g \in grants, at \in 0..now :
        /\ t.grant = g.id /\ at < t.access /\ t.access =< at + AccessTtl /\ g.used # at
        /\ grants' = (grants \ {g}) \union {[g EXCEPT !.used = at]}
    /\ UNCHANGED <<now, sealed, deciding, issued, codes, tokens, pairs, work, forgets>>

\* Whoever is still allowing a request when its time is over is refused.
Tick ==
    /\ now < MaxNow
    /\ \A w \in Worker : work[w].step \in {"refresh", "locked", "writing"} => now < work[w].at + MaxWait
    /\ now' = now + 1
    /\ sealed' = IF sealed > 0 THEN sealed - 1 ELSE 0
    /\ deciding' = IF sealed' > 0 THEN deciding ELSE {}
    /\ UNCHANGED <<issued, codes, grants, tokens, pairs, work, forgets>>

TokenEndpoint(w) ==
    \/ TakeCode(w) \/ CreateGrant(w)
    \/ PresentRefresh(w) \/ RotateReads(w) \/ RotateWrites(w) \/ RotateCommits(w)
    \/ Dies(w)

Next ==
    \/ Authorize
    \/ \E u \in User : Consent(u) \/ Decide(u) \/ ForgetUserAccess(u)
    \/ \E w \in Worker : TokenEndpoint(w)
    \/ TakeBack
    \/ SweepCodes \/ SweepGrants \/ SweepTokens
    \/ Verify
    \/ Tick

Spec == Init /\ [][Next]_vars

-----------------------------------------------------------------------------
(* Properties *)

\* A code is good once, whoever presents it and however often: of two exchanges of one code at once
\* one finds nothing, so no two grants stand on one consent (takeOAuthCode).
OneGrantPerCode ==
    /\ \A g, h \in grants : g.code = h.code => g = h
    /\ \A g \in grants : \A w \in Worker :
         work[w].step = "taken" => work[w].code.id # g.code
    /\ \A v, w \in Worker :
         work[v].step = "taken" /\ work[w].step = "taken" /\ work[v].code.id = work[w].code.id => v = w

\* Every pair was asked for within the grace after the first use of the refresh token it was given
\* for, also when exchanges of that token overlap and the database answers them late: nobody who
\* holds a used token goes on from it (the row lock and the grace of rotateOAuthRefresh).
PairsWithinGrace ==
    \A t, u \in tokens :
        u.from = t.id => t.rotated # None /\ u.refresh =< t.rotated + Grace + RefreshTtl

\* The first use of a refresh token is when its grace begins, and no later use of it moves that.
FirstUseStands ==
    [][\A t \in tokens, u \in tokens' :
         t.id = u.id /\ t.rotated # None => u.rotated = t.rotated]_vars

\* A grant has no more pairs than it keeps, and one for every other exchange that was deciding at
\* the same time (the deletion of rotateOAuthRefresh sees only what is committed).
PairsAreBounded ==
    \A g \in grants :
        Cardinality(Under({g.id}))
            =< (IF KeepPairs > 2 THEN KeepPairs ELSE 2) + Cardinality(Worker) - 1

\* A pair that goes while its grant stays is past its end, or as many were issued since as a grant
\* keeps: a client that lost an answer finds its token still there, unless others were exchanging
\* all the while (the ids the deletion of rotateOAuthRefresh goes by are in order of time).
PairsGoForCause ==
    [][\A t \in tokens :
         t.id \notin Ids(tokens') /\ t.grant \in Ids(grants')
           => \/ t.refresh =< now
              \/ pairs' >= t.id + KeepPairs]_vars

\* What the janitor removes was over: no access token that is still good goes with an expired grant
\* or an expired pair, although exchanges may commit in another order than they read the clock.
SweepEndsNothingLive ==
    [][SweepGrants \/ SweepTokens => \A t \in tokens \ tokens' : t.access =< now]_vars

\* A grant whose person was forgotten after they agreed to it is one that had no row then: their
\* answer had passed the session and was not stored, or its exchange had taken the code.  Whatever
\* had one is gone, and goes with the next forgetting: the codes, the grants and the pairs of a
\* person go in one transaction.
OnlyLateGrantsOutlive ==
    \A g \in grants : g.forgets < forgets[g.user] => g.late

\* Nothing works without a grant: the pairs of a grant that ended are gone, and an exchange that was
\* under way when it ended commits none.
NoPairWithoutGrant ==
    /\ \A t \in tokens : t.grant \in Ids(grants)
    /\ \A w \in Worker : work[w].step = "writing" => work[w].grant \in Ids(grants)

\* A grant has its pairs and no other has: they go with it, and are no more than it keeps.
GrantsHoldTheirPairs == NoPairWithoutGrant /\ PairsAreBounded
=============================================================================
