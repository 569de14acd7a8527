--------------------------- MODULE InstallationTokens ---------------------------
(***************************************************************************)
(* What a private repository is read with: the installation of the app     *)
(* that covers it, and a token of that installation, both remembered in    *)
(* the process (packages/github/src/app.ts, GitHubApp).                    *)
(***************************************************************************)
EXTENDS Naturals, FiniteSets

CONSTANTS
    Reading,            \* requests of the process that read at the host
    Repository,
    Installation,
    NoInstallation,
    InstallationTtl,    \* INSTALLATION_TTL_MS
    TokenLife,          \* how long the host's tokens are good for
    ExpiryMargin        \* EXPIRY_MARGIN_MS

ASSUME InstallationAssumption ==
    /\ IsFiniteSet(Reading) /\ NoInstallation \notin Installation
    /\ {InstallationTtl, TokenLife, ExpiryMargin} \subseteq Nat /\ ExpiryMargin < TokenLife

VARIABLES
    covering,      \* the host: which installation covers a repository
    notBefore,      \* history: ticks since the repository had no installation, up to one past the ttl
    installations,  \* #installations: what is remembered, and for how much longer
    installTokens,  \* #tokens: how long the token in hand is good for at the host; 0 for none
    issuing,        \* #issuing: the installations a token is on its way for
    atHost,         \* history: how many requests for a token of each are at the host
    readings        \* how far each request is, and what it was answered

app == <<covering, notBefore, installations, installTokens, issuing, atHost, readings>>

Covers == Installation \union {NoInstallation}
NotLooked == [id |-> NoInstallation, left |-> 0]
Unread == [phase |-> "idle"]

InstallationTypeOK ==
    /\ covering \in [Repository -> Covers]
    /\ notBefore \in [Repository -> 0..InstallationTtl + 1]
    /\ installations \in [Repository -> [id: Covers, left: 0..InstallationTtl]]
    /\ installTokens \in [Installation -> 0..TokenLife]
    /\ issuing \subseteq Installation
    /\ atHost \in [Installation -> 0..Cardinality(Reading)]
    /\ readings \in [Reading -> {Unread} \union
         [phase: {"looks", "has", "none"}, repository: Repository] \union
         [phase: {"holds", "waits"}, repository: Repository, id: Installation] \union
         [phase: {"reads"}, repository: Repository, life: 0..TokenLife]]

InstallationInit ==
    /\ covering \in [Repository -> Covers]
    /\ notBefore = [r \in Repository |-> IF covering[r] = NoInstallation THEN 0 ELSE InstallationTtl + 1]
    /\ installations = [r \in Repository |-> NotLooked]
    /\ installTokens = [i \in Installation |-> 0]
    /\ issuing = {}
    /\ atHost = [i \in Installation |-> 0]
    /\ readings = [q \in Reading |-> Unread]

\* Variants of definitions, named with an underscore, are not part of the specification: each is the
\* definition with a slip that the property it is listed with in PROJECT.json must notice.

-----------------------------------------------------------------------------
(* #installationOf *)

\* With an installation it goes on to the token; without one the repository is not there.
GoesOn(q, r, id) ==
    readings' = [readings EXCEPT ![q] =
        IF id = NoInstallation THEN [phase |-> "none", repository |-> r]
        ELSE [phase |-> "holds", repository |-> r, id |-> id]]

Ask(q) ==
    /\ readings[q] = Unread
    /\ \E r \in Repository :
        IF installations[r].left > 0 THEN GoesOn(q, r, installations[r].id)
        ELSE readings' = [readings EXCEPT ![q] = [phase |-> "looks", repository |-> r]]
    /\ UNCHANGED <<covering, notBefore, installations, installTokens, issuing, atHost>>

\* The host answers, and the answer is remembered, found or not; or it cannot be asked.
Learns(q) ==
    /\ readings[q].phase = "looks"
    /\ LET r == readings[q].repository
       IN \/ /\ installations' = [installations EXCEPT ![r] = [id |-> covering[r], left |-> InstallationTtl]]
             /\ GoesOn(q, r, covering[r])
          \/ readings' = [readings EXCEPT ![q] = Unread] /\ UNCHANGED installations
    /\ UNCHANGED <<covering, notBefore, installTokens, issuing, atHost>>

-----------------------------------------------------------------------------
(* installationCredential *)

HandedOut(life) == life > ExpiryMargin

\* A token that is good for a while, or the one on its way, or a new one.
Shares(i) == i \in issuing

TakesToken(q) ==
    /\ readings[q].phase = "holds"
    /\ LET r == readings[q].repository
           i == readings[q].id
       IN IF HandedOut(installTokens[i])
          THEN /\ readings' = [readings EXCEPT ![q] = [phase |-> "reads", repository |-> r, life |-> installTokens[i]]]
               /\ UNCHANGED <<issuing, atHost>>
          ELSE /\ readings' = [readings EXCEPT ![q].phase = "waits"]
               /\ issuing' = issuing \union {i}
               /\ atHost' = IF Shares(i) THEN atHost ELSE [atHost EXCEPT ![i] = @ + 1]
    /\ UNCHANGED <<covering, notBefore, installations, installTokens>>

Waiting(i) == {q \in Reading : readings[q].phase = "waits" /\ readings[q].id = i}

\* The request for a token ends, whatever came of it, and everyone who waits for it is answered.
IssueEnds(i, answer(_)) ==
    /\ atHost[i] > 0
    /\ atHost' = [atHost EXCEPT ![i] = @ - 1]
    /\ readings' = [q \in Reading |-> IF q \in Waiting(i) THEN answer(q) ELSE readings[q]]

IssuingAfterFailure_Left(i) == issuing
IssuingAfterFailure(i) == issuing \ {i}

Issued(i) ==
    /\ \E r \in Repository : covering[r] = i
    /\ IssueEnds(i, LAMBDA q : [phase |-> "reads", repository |-> readings[q].repository, life |-> TokenLife])
    /\ installTokens' = [installTokens EXCEPT ![i] = TokenLife]
    /\ issuing' = issuing \ {i}
    /\ UNCHANGED <<covering, notBefore, installations>>

\* Uninstalled or suspended since it was looked up: not there, and looked up again by the next.
LookedUpAgain(names) ==
    [r \in Repository |-> IF r \in names THEN NotLooked ELSE installations[r]]

IssueNotFound(i) ==
    /\ \A r \in Repository : covering[r] # i
    /\ installations' = LookedUpAgain({readings[q].repository : q \in Waiting(i)})
    /\ IssueEnds(i, LAMBDA q : [phase |-> "none", repository |-> readings[q].repository])
    /\ issuing' = IssuingAfterFailure(i)
    /\ UNCHANGED <<covering, notBefore, installTokens>>

IssueFails(i) ==
    /\ IssueEnds(i, LAMBDA q : Unread)
    /\ issuing' = IssuingAfterFailure(i)
    /\ UNCHANGED <<covering, notBefore, installations, installTokens>>

ReadingEnds(q) ==
    /\ readings[q].phase \in {"none", "reads"}
    /\ readings' = [readings EXCEPT ![q] = Unread]
    /\ UNCHANGED <<covering, notBefore, installations, installTokens, issuing, atHost>>

-----------------------------------------------------------------------------
(* The host, and time *)

Changes ==
    /\ \E r \in Repository : \E id \in Covers \ {covering[r]} :
        /\ covering' = [covering EXCEPT ![r] = id]
        /\ notBefore' = [notBefore EXCEPT ![r] = 0]
    /\ UNCHANGED <<installations, installTokens, issuing, atHost, readings>>

Less(n) == IF n = 0 THEN 0 ELSE n - 1

\* Nothing waits for the host longer than a tick: its calls have a time limit.
InstallationTick ==
    /\ \A q \in Reading : readings[q].phase = "idle"
    /\ notBefore' = [r \in Repository |->
         IF covering[r] = NoInstallation THEN 0
         ELSE IF notBefore[r] > InstallationTtl THEN notBefore[r] ELSE notBefore[r] + 1]
    /\ installations' = [r \in Repository |-> [installations[r] EXCEPT !.left = Less(@)]]
    /\ installTokens' = [i \in Installation |-> Less(installTokens[i])]
    /\ UNCHANGED <<covering, issuing, atHost, readings>>

InstallationNext ==
    \/ \E q \in Reading : Ask(q) \/ Learns(q) \/ TakesToken(q) \/ ReadingEnds(q)
    \/ \E i \in Installation : Issued(i) \/ IssueNotFound(i) \/ IssueFails(i)
    \/ Changes \/ InstallationTick

-----------------------------------------------------------------------------
(* Properties *)

\* "Requests that arrive together share one token instead of each asking for its own", and whoever
\* waits for it has a request at the host that will answer them: what is left in #issuing by one that
\* ended would be waited for by everyone after.
OneIssueForAllWhoWait ==
    \A i \in Installation :
        /\ atHost[i] = IF i \in issuing THEN 1 ELSE 0
        /\ Waiting(i) # {} => i \in issuing

\* A token is handed out with more than the margin left, remembered or issued just now, however long
\* it has been in hand.
TokensOutlastTheMargin ==
    \A q \in Reading : readings[q].phase = "reads" => readings[q].life > ExpiryMargin

\* A repository is said not to be there only if no installation, or another, covered it within the
\* time an answer is believed: a failure does not make it believed for longer.
NotThereIsRecent ==
    \A q \in Reading : readings[q].phase = "none" =>
        notBefore[readings[q].repository] = 0 \/ notBefore[readings[q].repository] < InstallationTtl

\* What readings are told and handed is good for its time, and comes of requests they share.
InstallationAnswersHold == InstallationTypeOK /\ OneIssueForAllWhoWait /\ TokensOutlastTheMargin /\ NotThereIsRecent
================================================================================
