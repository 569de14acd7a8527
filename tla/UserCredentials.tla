---------------------------- MODULE UserCredentials ----------------------------
(***************************************************************************)
(* What the git host issued one person (apps/server/src/auth/              *)
(* credentials.ts over packages/db/src/queries/users.ts): used by          *)
(* requests, renewed when it is about to end, replaced by a sign-in,       *)
(* forgotten when the host no longer accepts it, and with it every session *)
(* that stood on it.                                                       *)
(*                                                                         *)
(* Every process has its own map of renewals and its own requests; the     *)
(* row of the person's credential and the sessions are in the database     *)
(* they share.  A token of the model is what the host issues at once: an   *)
(* access token and the refresh token that comes with it.                  *)
(***************************************************************************)
EXTENDS Naturals, FiniteSets

CONSTANTS
    Process,        \* replicas of the api role
    Request,        \* requests of the person
    AnsweredBy,     \* the process that answers each request
    Secret,         \* what each process seals with
    None,
    MaxTokens,      \* bound: how often the host issues something
    MaxUpsets,      \* bound: lost calls, crashes, and the person taking the app's access back
    EndsReplaced,   \* whether the host ends the access token whose refresh token was used
    Punctual        \* whether requests end, and renewals are saved, in the time the code allows them

ASSUME CredentialAssumption ==
    /\ AnsweredBy \in [Request -> Process]
    /\ None \notin DOMAIN Secret /\ DOMAIN Secret = Process
    /\ None \notin [token: Nat, by: Process]
    /\ MaxTokens \in Nat \ {0} /\ MaxUpsets \in Nat
    /\ {EndsReplaced, Punctual} \subseteq BOOLEAN

VARIABLES
    host,       \* what the host thinks of every token
    stored,     \* the row of the person's credential: a token and who sealed it
    sessions,   \* sessions, grants and tokens of the person, by the sign-in they stand on
    req,        \* what each request is doing
    renewal,    \* the renewal under way in every process (#renewing)
    login,      \* the sign-in under way
    event,      \* the host's event that the person took the access back
    upsets, revoked,
    wasted      \* history: tokens whose renewal the host issued and nobody wrote down

credentials == <<host, stored, sessions, req, renewal, login, event, upsets, revoked, wasted>>

Token == 1..MaxTokens

\* "ending": the host accepts it, but its end is so near that the code renews it first. "taken": its
\* end is far, which is all that the row says, but the host refuses it.
Access == {"none", "fresh", "ending", "over", "taken"}

\* "over": its end is past, which the code knows without the host.
Refresh == {"good", "used", "over"}

Row == [token: Token, by: Process]

Work == {"idle", "deciding", "joined", "asking", "refused", "forgetting", "signingOut"}

Renewing == {"none", "refreshing", "saving", "racing", "forgetting", "signingOut", "settled"}

NoRow == [token |-> 0, by |-> None]

CredentialsTypeOK ==
    /\ host \in [Token -> [access: Access, refresh: Refresh]]
    /\ stored \in Row \union {None}
    /\ sessions \subseteq Token
    /\ req \in [Request -> [phase: Work, seen: Row \union {NoRow}]]
    /\ \A r \in Request : req[r].seen \in Row <=> req[r].phase \in {"deciding", "asking", "forgetting"}
    /\ renewal \in [Process -> [phase: Renewing, seen: Row \union {NoRow}, got: Token \union {0}]]
    /\ login \in [phase: {"none", "issued", "stored"}, token: Token \union {0}]
    /\ event \in {"none", "sent", "deleted"}
    /\ upsets \in 0..MaxUpsets
    /\ revoked \in 0..MaxUpsets
    /\ wasted \subseteq Token

AtRest == [phase |-> "idle", seen |-> NoRow]
NoRenewal == [phase |-> "none", seen |-> NoRow, got |-> 0]
NoLogin == [phase |-> "none", token |-> 0]

CredentialsInit ==
    /\ host = [t \in Token |-> [access |-> "none", refresh |-> "used"]]
    /\ stored = None
    /\ sessions = {}
    /\ req = [r \in Request |-> AtRest]
    /\ renewal = [p \in Process |-> NoRenewal]
    /\ login = NoLogin
    /\ event = "none"
    /\ upsets = 0
    /\ revoked = 0
    /\ wasted = {}

Upset == upsets < MaxUpsets /\ upsets' = upsets + 1

\* Variants of definitions, named with an underscore, are not part of the specification: each is the
\* definition with a slip that the property it is listed with in PROJECT.json must notice.

\* A token the host has not issued yet.
Fresh(t) == host[t].access = "none" /\ \A u \in Token : u < t => host[u].access # "none"

Issued == [access |-> "fresh", refresh |-> "good"]

Accepted(t) == host[t].access \in {"fresh", "ending"}

\* By the end that was stored with it the token can be used; the host is not asked.
Usable(t) == host[t].access \in {"fresh", "taken"}

\* secrets.open: sealed under another secret, nothing can be read.
Opens(p, row) == Secret[p] = Secret[row.by]

-----------------------------------------------------------------------------
(* Requests *)

\* accessToken reads the row; without one there is nothing to ask the host with.
Read(r) ==
    /\ req[r].phase = "idle"
    /\ stored # None
    /\ req' = [req EXCEPT ![r] = [phase |-> "deciding", seen |-> stored]]
    /\ UNCHANGED <<host, stored, sessions, renewal, login, event, upsets, revoked, wasted>>

\* With the row it read it uses the token, forgets what it cannot read, or has the token renewed,
\* with whoever of its process is at it already.
Decide(r) ==
    LET p == AnsweredBy[r]
        row == req[r].seen
        renewable == Opens(p, row) /\ host[row.token].refresh # "over"
    IN
    /\ req[r].phase = "deciding"
    /\ IF Usable(row.token)
       THEN /\ req' = [req EXCEPT ![r].phase = IF Opens(p, row) THEN "asking" ELSE "forgetting"]
            /\ UNCHANGED renewal
       ELSE /\ req' = [req EXCEPT ![r] = [phase |-> "joined", seen |-> NoRow]]
            /\ renewal' = IF renewal[p].phase # "none" THEN renewal
                          ELSE [renewal EXCEPT ![p] =
                                  [phase |-> IF renewable THEN "refreshing" ELSE "forgetting",
                                   seen |-> row, got |-> 0]]
    /\ UNCHANGED <<host, stored, sessions, login, event, upsets, revoked, wasted>>

\* The host answers what the request asks with its token.
HostTakes(r) ==
    /\ req[r].phase = "asking"
    /\ Accepted(req[r].seen.token)
    /\ req' = [req EXCEPT ![r] = AtRest]
    /\ UNCHANGED <<host, stored, sessions, renewal, login, event, upsets, revoked, wasted>>

\* The host refuses it.
HostRefuses(r) ==
    /\ req[r].phase = "asking"
    /\ ~Accepted(req[r].seen.token)
    /\ req' = [req EXCEPT ![r] = [phase |-> "refused", seen |-> NoRow]]
    /\ UNCHANGED <<host, stored, sessions, renewal, login, event, upsets, revoked, wasted>>

\* refused() reads the row again, and forgets what it finds.
Refused(r) ==
    /\ req[r].phase = "refused"
    /\ req' = [req EXCEPT ![r] = IF stored = None THEN AtRest
                                 ELSE [phase |-> "forgetting", seen |-> stored]]
    /\ UNCHANGED <<host, stored, sessions, renewal, login, event, upsets, revoked, wasted>>

Deleted_Any(row) == None

\* deleteUserCredentials: a row that holds another token by now stays.
Deleted(row) == IF stored = row THEN None ELSE stored

\* #forget: the row goes first, what stood on it in a second transaction.
Forget(r) ==
    /\ req[r].phase = "forgetting"
    /\ stored' = Deleted(req[r].seen)
    /\ req' = [req EXCEPT ![r] = IF stored' = stored THEN AtRest
                                 ELSE [phase |-> "signingOut", seen |-> NoRow]]
    /\ UNCHANGED <<host, sessions, renewal, login, event, upsets, revoked, wasted>>

SignOut(r) ==
    /\ req[r].phase = "signingOut"
    /\ sessions' = {}
    /\ req' = [req EXCEPT ![r] = AtRest]
    /\ UNCHANGED <<host, stored, renewal, login, event, upsets, revoked, wasted>>

-----------------------------------------------------------------------------
(* Renewals *)

\* A renewal settles: it leaves the map, and everyone who shares it gets its token, or its failure.
Settled(p, row) ==
    /\ renewal' = [renewal EXCEPT ![p] = NoRenewal]
    /\ req' = [r \in Request |->
                 IF AnsweredBy[r] # p \/ req[r].phase # "joined" THEN req[r]
                 ELSE IF row = NoRow THEN AtRest
                 ELSE [phase |-> "asking", seen |-> row]]

\* login.refresh: a refresh token is good once.
RefreshAtHost(p) ==
    LET t == renewal[p].seen.token IN
    /\ renewal[p].phase = "refreshing"
    /\ IF host[t].refresh = "good"
       THEN \E n \in Token :
              /\ Fresh(n)
              /\ host' = [host EXCEPT ![n] = Issued,
                                      ![t] = [access |-> IF EndsReplaced THEN "over" ELSE host[t].access,
                                              refresh |-> "used"]]
              /\ renewal' = [renewal EXCEPT ![p] = [phase |-> "saving", seen |-> @.seen, got |-> n]]
       ELSE UNCHANGED host /\ renewal' = [renewal EXCEPT ![p].phase = "racing"]
    /\ UNCHANGED <<stored, sessions, req, login, event, upsets, revoked, wasted>>

\* The host cannot be asked: whoever shares the renewal hears of it, and nothing is forgotten.
RefreshFails(p) ==
    /\ renewal[p].phase = "refreshing"
    /\ Settled(p, NoRow)
    /\ UNCHANGED <<host, stored, sessions, login, event, upsets, revoked, wasted>>

Save(p) ==
    LET row == [token |-> renewal[p].got, by |-> p] IN
    /\ renewal[p].phase = "saving"
    /\ stored' = row
    /\ Settled(p, row)
    /\ UNCHANGED <<host, sessions, login, event, upsets, revoked, wasted>>

\* What the host issued is lost on its way into the database.
SaveFails(p) ==
    /\ Upset
    /\ renewal[p].phase = "saving"
    /\ Settled(p, NoRow)
    /\ wasted' = wasted \union {renewal[p].seen.token}
    /\ UNCHANGED <<host, stored, sessions, login, event, revoked>>

\* Another process that used the same refresh token has not written down what it got.
BeingSaved(t) == \E q \in Process : renewal[q].phase = "saving" /\ renewal[q].seen.token = t

Reread_AnyRow(p) ==
    LET seen == renewal[p].seen IN
    /\ renewal[p].phase = "racing"
    /\ Punctual => ~BeingSaved(seen.token)
    /\ IF stored # None /\ Opens(p, stored)
       THEN Settled(p, stored)
       ELSE renewal' = [renewal EXCEPT ![p].phase = "forgetting"] /\ UNCHANGED req
    /\ UNCHANGED <<host, stored, sessions, login, event, upsets, revoked, wasted>>

\* RENEWAL_RACE_MS after the host refused the refresh token the row is read again: another token in
\* it is another process's renewal, and is used.
Reread(p) ==
    LET seen == renewal[p].seen IN
    /\ renewal[p].phase = "racing"
    /\ Punctual => ~BeingSaved(seen.token)
    /\ IF stored # None /\ stored # seen /\ Opens(p, stored)
       THEN Settled(p, stored)
       ELSE renewal' = [renewal EXCEPT ![p].phase = "forgetting"] /\ UNCHANGED req
    /\ UNCHANGED <<host, stored, sessions, login, event, upsets, revoked, wasted>>

ForgetRenewed(p) ==
    /\ renewal[p].phase = "forgetting"
    /\ stored' = Deleted(renewal[p].seen)
    /\ IF stored' = stored THEN Settled(p, NoRow)
       ELSE renewal' = [renewal EXCEPT ![p].phase = "signingOut"] /\ UNCHANGED req
    /\ UNCHANGED <<host, sessions, login, event, upsets, revoked, wasted>>

SignOutRenewed(p) ==
    /\ renewal[p].phase = "signingOut"
    /\ sessions' = {}
    /\ Settled(p, NoRow)
    /\ UNCHANGED <<host, stored, login, event, upsets, revoked, wasted>>

-----------------------------------------------------------------------------
(* Signing in, losing the access, and the rest of the world *)

\* The host issues a token to a sign-in (exchangeCode).
Exchange ==
    /\ login = NoLogin
    /\ \E n \in Token : /\ Fresh(n)
                        /\ host' = [host EXCEPT ![n] = Issued]
                        /\ login' = [phase |-> "issued", token |-> n]
    /\ UNCHANGED <<stored, sessions, req, renewal, event, upsets, revoked, wasted>>

\* store(): in place of whatever was stored.
Store ==
    /\ login.phase = "issued"
    /\ \E p \in Process : stored' = [token |-> login.token, by |-> p]
    /\ login' = [login EXCEPT !.phase = "stored"]
    /\ UNCHANGED <<host, sessions, req, renewal, event, upsets, revoked, wasted>>

\* sessions.start: a session stands on the credential.
StartSession ==
    /\ login.phase = "stored"
    /\ sessions' = sessions \union {login.token}
    /\ login' = NoLogin
    /\ UNCHANGED <<host, stored, req, renewal, event, upsets, revoked, wasted>>

\* The person takes the app's access back at the host, which says so in an event.
Revoke ==
    /\ Upset
    /\ revoked' = revoked + 1
    /\ event = "none"
    /\ \E t \in Token : Accepted(t)
    /\ host' = [t \in Token |-> IF host[t].access = "none" THEN host[t]
                                ELSE [access |-> IF Usable(t) THEN "taken" ELSE "over", refresh |-> "used"]]
    /\ event' = "sent"
    /\ UNCHANGED <<stored, sessions, req, renewal, login, wasted>>

\* apply(authorization_revoked): the row goes, whatever it holds, and then what stood on it.
EventDeletes ==
    /\ event = "sent"
    /\ stored' = None
    /\ event' = "deleted"
    /\ UNCHANGED <<host, sessions, req, renewal, login, upsets, revoked, wasted>>

EventSignsOut ==
    /\ event = "deleted"
    /\ sessions' = {}
    /\ event' = "none"
    /\ UNCHANGED <<host, stored, req, renewal, login, upsets, revoked, wasted>>

\* The event does not arrive, or its handler fails between its two statements.
EventLost ==
    /\ event # "none"
    /\ event' = "none"
    /\ UNCHANGED <<host, stored, sessions, req, renewal, login, upsets, revoked, wasted>>

\* A process dies with its requests, its renewal and the sign-in it was finishing.
Crash(p) ==
    /\ Upset
    /\ renewal' = [renewal EXCEPT ![p] = NoRenewal]
    /\ req' = [r \in Request |-> IF AnsweredBy[r] = p THEN AtRest ELSE req[r]]
    /\ login' \in {login, NoLogin}
    /\ wasted' = IF renewal[p].phase = "saving" THEN wasted \union {renewal[p].seen.token} ELSE wasted
    /\ UNCHANGED <<host, stored, sessions, event, revoked>>

\* Nobody asks the host with the token, or is about to.
LetGo(t) ==
    /\ \A r \in Request : req[r].phase \in {"deciding", "asking"} => req[r].seen.token # t
    /\ \A p \in Process : t \notin {renewal[p].seen.token, renewal[p].got}

\* Nobody still works with what was stored before the token.
Settles(t) ==
    /\ \A r \in Request : req[r].phase \in {"deciding", "asking"} => req[r].seen.token = t
    /\ \A p \in Process : renewal[p].seen.token \in {0, t}
    /\ login.token # t

\* A token comes near its end, reaches it, or its refresh token does. In time means: a request is
\* shorter than the margin, and a token lives longer than a request, a renewal or a sign-in takes.
Ages ==
    /\ \E t \in Token :
        \/ /\ host[t].access = "fresh"
           /\ Punctual => Settles(t)
           /\ host' = [host EXCEPT ![t].access = "ending"]
        \/ /\ host[t].access \in {"ending", "taken"}
           /\ Punctual => Settles(t) /\ LetGo(t)
           /\ host' = [host EXCEPT ![t].access = "over"]
        \/ /\ host[t].access = "over" /\ host[t].refresh = "good"
           /\ Punctual => LetGo(t)
           /\ host' = [host EXCEPT ![t].refresh = "over"]
    /\ UNCHANGED <<stored, sessions, req, renewal, login, event, upsets, revoked, wasted>>

-----------------------------------------------------------------------------

RequestStep(r) ==
    Read(r) \/ Decide(r) \/ HostTakes(r) \/ HostRefuses(r) \/ Refused(r) \/ Forget(r) \/ SignOut(r)

RenewalStep(p) ==
    \/ RefreshAtHost(p)
    \/ RefreshFails(p)
    \/ Save(p)
    \/ SaveFails(p)
    \/ Reread(p)
    \/ ForgetRenewed(p)
    \/ SignOutRenewed(p)

LoginStep == Exchange \/ Store \/ StartSession

EventStep == Revoke \/ EventDeletes \/ EventSignsOut \/ EventLost

CredentialsNext ==
    \/ \E r \in Request : RequestStep(r)
    \/ \E p \in Process : RenewalStep(p) \/ Crash(p)
    \/ LoginStep
    \/ EventStep
    \/ Ages

CredentialsSpec == CredentialsInit /\ [][CredentialsNext]_credentials

\* The statements of requests and renewals run in the end, and the host answers.
CredentialsFairness ==
    /\ \A r \in Request : WF_credentials(Decide(r) \/ HostTakes(r) \/ HostRefuses(r) \/ Refused(r)
                                   \/ Forget(r) \/ SignOut(r))
    /\ \A p \in Process : WF_credentials(RefreshAtHost(p) \/ RefreshFails(p) \/ Save(p) \/ Reread(p) \/ ForgetRenewed(p)
                                   \/ SignOutRenewed(p))

FairCredentialsSpec == CredentialsSpec /\ CredentialsFairness

-----------------------------------------------------------------------------
(* Properties *)

\* The process that takes a step of forgetting, of a request or of a renewal.
LetsGo(p) ==
    \/ renewal[p].phase = "forgetting" /\ renewal'[p] # renewal[p]
    \/ \E r \in Request : AnsweredBy[r] = p /\ req[r].phase = "forgetting" /\ req'[r] # req[r]

\* What is stored goes only when the end of its refresh token is past, and with it that of its access
\* token; when the process that lets it go cannot read it; on the host's own word; or when a renewal that the host issued was
\* lost on its way into the database, which used its refresh token up. A refresh token that two processes
\* used at once is none of these: it is "a renewal, not a loss". The last case is more than
\* docs/specs/permissions.md grants ("when the host refuses the token and it cannot be renewed"): the
\* host may go on accepting the access token, for what is left of the margin before its end.
LostForCause ==
    [][stored # None /\ stored' = None /\ event' = event /\ revoked = 0 =>
         \/ host[stored.token].refresh = "over" /\ ~Accepted(stored.token)
         \/ stored.token \in wasted
         \/ \E p \in Process : LetsGo(p) /\ ~Opens(p, stored)]_credentials

\* accessToken: "A token the host accepts for the user right now", also the one a renewal was shared
\* for and the one another process wrote down; unless the person took the access back meanwhile.
TokensWork ==
    \A r \in Request : req[r].phase = "asking" /\ revoked = 0 => Accepted(req[r].seen.token)

\* A request is answered, whatever becomes of the renewal it shares.
RequestsEnd == \A r \in Request : req[r].phase # "idle" ~> req[r].phase = "idle"

=============================================================================
