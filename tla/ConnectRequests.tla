---------------------------- MODULE ConnectRequests ----------------------------
(***************************************************************************)
(* A command connects with a code: it asks as nobody, a person who is      *)
(* signed in looks and decides, and the command claims with its secret     *)
(* the token that is made as that person (apps/server/src/auth/            *)
(* connections.ts, the routes of http/auth.ts, packages/db/src/queries/    *)
(* connect.ts and repo-tokens.ts).                                         *)
(*                                                                         *)
(* Every command asks once, so a command names its request.  The           *)
(* repository is one; what opening it answers a person is PrivateNames'    *)
(* question.                                                               *)
(***************************************************************************)
EXTENDS Naturals, FiniteSets

CONSTANTS
    Command,
    Person,
    Claim,          \* requests to claim that are under way at once
    Nobody,         \* not a person
    MaxWaiting,     \* MAX_WAITING_CONNECT_REQUESTS
    MaxTokens,      \* MAX_REPO_TOKENS_PER_USER
    RequestTicks,   \* CONNECT_REQUEST_TTL_MS
    MaxTurns        \* bound: how often the host, a person's standing or the clock turns

ASSUME ConnectAssumption ==
    /\ Nobody \notin Person
    /\ {MaxWaiting, MaxTokens, RequestTicks} \subseteq Nat \ {0} /\ MaxTurns \in Nat

VARIABLES
    asked,      \* how far each command is with asking
    rows,       \* connect_requests: the time left of each, and who approved it
    decisions,  \* the route of a decision, per person
    claims,     \* the route of a claim
    repoTokens,     \* repo_tokens: for which command, whose, with whose name for it
    stands,     \* the people who are signed in and hold the host's credential
    sight,      \* the people the host shows the repository to
    shown,      \* whether it is shown to everyone
    made,       \* history: how many tokens were made for each command
    crowded,    \* history: whether two counts of a bound overlapped
    turns

connects == <<asked, rows, decisions, claims, repoTokens, stands, sight, shown, made, crowded, turns>>

NoRow == [left |-> 0, by |-> Nobody]
Rest == [phase |-> "rest"]

Live(c) == rows[c].left > 0
Approved(c) == Live(c) /\ rows[c].by # Nobody

\* could: history, whether the person could open it at some time since the claim found the request.
\* late: history, whether the person lost everything after the claim had opened it.
ConnectTypeOK ==
    /\ asked \in [Command -> {"new", "counted", "done"}]
    /\ rows \in [Command -> [left: 0..RequestTicks, by: Person \union {Nobody}]]
    /\ decisions \in [Person -> {Rest} \union [phase: {"looked", "opened"}, command: Command]]
    /\ claims \in [Claim -> {Rest} \union
         [phase: {"found", "opened", "taken", "counted"}, command: Command, user: Person,
          label: Person \union {Nobody}, could: BOOLEAN, late: BOOLEAN]]
    /\ repoTokens \subseteq [command: Command, user: Person, label: Person, could: BOOLEAN, late: BOOLEAN]
    /\ stands \subseteq Person /\ sight \subseteq Person
    /\ {shown, crowded} \subseteq BOOLEAN
    /\ made \in [Command -> 0..Cardinality(Claim)]
    /\ turns \in 0..MaxTurns

ConnectInit ==
    /\ asked = [c \in Command |-> "new"]
    /\ rows = [c \in Command |-> NoRow]
    /\ decisions = [p \in Person |-> Rest]
    /\ claims = [k \in Claim |-> Rest]
    /\ repoTokens = {}
    /\ stands = Person
    /\ sight \in SUBSET Person
    /\ shown = FALSE
    /\ made = [c \in Command |-> 0]
    /\ crowded = FALSE
    /\ turns = 0

Opens(p) == shown \/ p \in stands \intersect sight

\* Variants of definitions, named with an underscore, are not part of the specification: each is the
\* definition with a slip that the property it is listed with in PROJECT.json must notice.

-----------------------------------------------------------------------------
(* The command asks: createConnectRequest counts and inserts in a transaction that locks nothing *)

Room_OneMore == Cardinality({c \in Command : Live(c)}) <= MaxWaiting
Room == Cardinality({c \in Command : Live(c)}) < MaxWaiting

CountWaiting(c) ==
    /\ asked[c] = "new"
    /\ Room
    /\ asked' = [asked EXCEPT ![c] = "counted"]
    /\ crowded' = (crowded \/ \E other \in Command : asked[other] = "counted")
    /\ UNCHANGED <<rows, decisions, claims, repoTokens, stands, sight, shown, made, turns>>

InsertRequest(c) ==
    /\ asked[c] = "counted"
    /\ asked' = [asked EXCEPT ![c] = "done"]
    /\ rows' = [rows EXCEPT ![c] = [left |-> RequestTicks, by |-> Nobody]]
    /\ UNCHANGED <<decisions, claims, repoTokens, stands, sight, shown, made, crowded, turns>>

-----------------------------------------------------------------------------
(* The person decides: look, open, approve or end *)

End(c) == rows' = [rows EXCEPT ![c] = NoRow]

Look(p) ==
    /\ decisions[p] = Rest /\ p \in stands
    /\ \E c \in Command :
        /\ Live(c) /\ ~Approved(c)
        /\ decisions' = [decisions EXCEPT ![p] = [phase |-> "looked", command |-> c]]
    /\ UNCHANGED <<asked, rows, claims, repoTokens, stands, sight, shown, made, crowded, turns>>

\* They say no, and whatever became of the request meanwhile is ended.
Decline(p) ==
    /\ decisions[p].phase = "looked"
    /\ End(decisions[p].command)
    /\ decisions' = [decisions EXCEPT ![p] = Rest]
    /\ UNCHANGED <<asked, claims, repoTokens, stands, sight, shown, made, crowded, turns>>

\* They say yes, to a repository they must be able to open and not everyone reads; or the host does
\* not answer.
OpenToApprove(p) ==
    /\ decisions[p].phase = "looked"
    /\ \/ /\ Opens(p) /\ ~shown
          /\ decisions' = [decisions EXCEPT ![p].phase = "opened"]
          /\ UNCHANGED rows
       \/ /\ shown
          /\ End(decisions[p].command)
          /\ decisions' = [decisions EXCEPT ![p] = Rest]
       \/ /\ decisions' = [decisions EXCEPT ![p] = Rest]
          /\ UNCHANGED rows
    /\ UNCHANGED <<asked, claims, repoTokens, stands, sight, shown, made, crowded, turns>>

\* approveConnectRequest: one nobody has approved yet.
Approvable(c) == Live(c) /\ rows[c].by = Nobody

Approve(p) ==
    /\ decisions[p].phase = "opened"
    /\ LET c == decisions[p].command
       IN rows' = IF Approvable(c) THEN [rows EXCEPT ![c].by = p] ELSE rows
    /\ decisions' = [decisions EXCEPT ![p] = Rest]
    /\ UNCHANGED <<asked, claims, repoTokens, stands, sight, shown, made, crowded, turns>>

-----------------------------------------------------------------------------
(* The command claims: find, open as the person, take, and make the token *)

FindApproved(k) ==
    /\ claims[k] = Rest
    /\ \E c \in Command :
        /\ Approved(c)
        /\ claims' = [claims EXCEPT ![k] =
             [phase |-> "found", command |-> c, user |-> rows[c].by, label |-> Nobody,
              could |-> Opens(rows[c].by), late |-> FALSE]]
    /\ UNCHANGED <<asked, rows, decisions, repoTokens, stands, sight, shown, made, crowded, turns>>

\* As the person who approved would be answered now.
OpensForClaim(k) == Opens(claims[k].user) /\ ~shown

OpenToClaim(k) ==
    /\ claims[k].phase = "found"
    /\ \/ /\ OpensForClaim(k)
          /\ claims' = [claims EXCEPT ![k].phase = "opened"]
          /\ UNCHANGED rows
       \/ /\ shown \/ ~Opens(claims[k].user)
          /\ End(claims[k].command)
          /\ claims' = [claims EXCEPT ![k] = Rest]
       \/ /\ claims' = [claims EXCEPT ![k] = Rest]
          /\ UNCHANGED rows
    /\ UNCHANGED <<asked, decisions, repoTokens, stands, sight, shown, made, crowded, turns>>

\* takeApprovedConnectRequest: whoever presents the secret second finds nothing.
AfterTaking_Left(c) == rows[c]
AfterTaking(c) == NoRow

TakeApproved(k) ==
    /\ claims[k].phase = "opened"
    /\ LET c == claims[k].command
       IN IF Approved(c)
          THEN /\ rows' = [rows EXCEPT ![c] = AfterTaking(c)]
               /\ claims' = [claims EXCEPT ![k].phase = "taken", ![k].label = rows[c].by]
          ELSE /\ claims' = [claims EXCEPT ![k] = Rest]
               /\ UNCHANGED rows
    /\ UNCHANGED <<asked, decisions, repoTokens, stands, sight, shown, made, crowded, turns>>

\* createRepoToken counts and inserts in a transaction that locks nothing; what is over the bound is
\* not made, and its request is spent.
Holds(p) == Cardinality({t \in repoTokens : t.user = p})

CountTokens(k) ==
    /\ claims[k].phase = "taken"
    /\ IF Holds(claims[k].user) >= MaxTokens
       THEN claims' = [claims EXCEPT ![k] = Rest] /\ UNCHANGED crowded
       ELSE /\ claims' = [claims EXCEPT ![k].phase = "counted"]
            /\ crowded' = (crowded \/ \E other \in Claim : claims[other].phase = "counted")
    /\ UNCHANGED <<asked, rows, decisions, repoTokens, stands, sight, shown, made, turns>>

InsertToken(k) ==
    /\ claims[k].phase = "counted"
    /\ LET s == claims[k]
       IN /\ repoTokens' = repoTokens \union
               {[command |-> s.command, user |-> s.user, label |-> s.label, could |-> s.could, late |-> s.late]}
          /\ made' = [made EXCEPT ![s.command] = @ + 1]
    /\ claims' = [claims EXCEPT ![k] = Rest]
    /\ UNCHANGED <<asked, rows, decisions, stands, sight, shown, crowded, turns>>

\* Its maker takes a token back (deleteRepoToken), or its end comes.
TokenEnds ==
    /\ \E t \in repoTokens : repoTokens' = repoTokens \ {t}
    /\ UNCHANGED <<asked, rows, decisions, claims, stands, sight, shown, made, crowded, turns>>

\* A claim dies between its steps: what it had taken is spent.
ClaimDies(k) ==
    /\ claims[k] # Rest
    /\ turns < MaxTurns /\ turns' = turns + 1
    /\ claims' = [claims EXCEPT ![k] = Rest]
    /\ UNCHANGED <<asked, rows, decisions, repoTokens, stands, sight, shown, made, crowded>>

-----------------------------------------------------------------------------
(* What happens meanwhile *)

Turn == turns < MaxTurns /\ turns' = turns + 1

\* Whoever could open it at some time is remembered by the claims made for them.
Noticed(can) ==
    claims' = [k \in Claim |->
        IF claims[k] # Rest /\ can[claims[k].user] THEN [claims[k] EXCEPT !.could = TRUE] ELSE claims[k]]

HostMoves ==
    /\ Turn
    /\ \/ \E p \in Person : sight' = IF p \in sight THEN sight \ {p} ELSE sight \union {p}
       \/ UNCHANGED sight
    /\ shown' \in BOOLEAN
    /\ <<sight', shown'>> # <<sight, shown>>
    /\ Noticed([p \in Person |-> shown' \/ p \in stands \intersect sight'])
    /\ UNCHANGED <<asked, rows, decisions, repoTokens, stands, made, crowded>>

\* forgetUserAccess: the tokens they made go with everything else.
TokensOfOthers_All(p) == repoTokens
TokensOfOthers(p) == {t \in repoTokens : t.user # p}

Forget(p) ==
    /\ Turn
    /\ p \in stands
    /\ stands' = stands \ {p}
    /\ repoTokens' = TokensOfOthers(p)
    /\ claims' = [k \in Claim |->
         IF claims[k] # Rest /\ claims[k].phase # "found" /\ claims[k].user = p
         THEN [claims[k] EXCEPT !.late = TRUE] ELSE claims[k]]
    /\ UNCHANGED <<asked, rows, decisions, sight, shown, made, crowded>>

SignIn(p) ==
    /\ Turn
    /\ p \notin stands
    /\ stands' = stands \union {p}
    /\ Noticed([q \in Person |-> shown \/ q \in stands' \intersect sight])
    /\ UNCHANGED <<asked, rows, decisions, repoTokens, sight, shown, made, crowded>>

\* The time of every request passes; a row that is past its time is nothing, deleted or not.
ConnectTick ==
    /\ Turn
    /\ \E c \in Command : Live(c)
    /\ rows' = [c \in Command |-> IF rows[c].left > 1 THEN [rows[c] EXCEPT !.left = @ - 1] ELSE NoRow]
    /\ UNCHANGED <<asked, decisions, claims, repoTokens, stands, sight, shown, made, crowded>>

DecisionStep(p) == Look(p) \/ Decline(p) \/ OpenToApprove(p) \/ Approve(p)

ClaimStep(k) ==
    FindApproved(k) \/ OpenToClaim(k) \/ TakeApproved(k) \/ CountTokens(k) \/ InsertToken(k) \/ ClaimDies(k)

ConnectNext ==
    \/ \E c \in Command : CountWaiting(c) \/ InsertRequest(c)
    \/ \E p \in Person : DecisionStep(p)
    \/ \E k \in Claim : ClaimStep(k)
    \/ HostMoves \/ ConnectTick \/ TokenEnds
    \/ \E p \in Person : Forget(p) \/ SignIn(p)

ConnectSpec == ConnectInit /\ [][ConnectNext]_connects

-----------------------------------------------------------------------------
(* Properties *)

\* "Taken here, so that the token is made once however many claims arrive at once" (http/auth.ts:838).
TokenOncePerRequest == \A c \in Command : made[c] <= 1

\* The person a token reads as, who is asked for before the request is taken, is the one whose yes is
\* taken with it: nobody's yes replaces another's in between.
TokenIsTheApprovers == \A t \in repoTokens : t.label = t.user

\* Whose token it is could open the repository while it was being claimed, not only when they said yes.
TokenWasOpenAtClaim == \A t \in repoTokens : t.could

\* Whoever lost everything has no token, but for one that was being claimed at that moment.
OnlyLateTokensOutlive == \A t \in repoTokens : t.user \notin stands => t.late

\* A bound is passed only by transactions that counted at once.
BoundsArePassedTogether ==
    ~crowded =>
        /\ Cardinality({c \in Command : Live(c)}) <= MaxWaiting
        /\ \A p \in Person : Holds(p) <= MaxTokens

\* A token is made once of a request, for the person who approved it, of a repository they could open.
TokensAreEarned == TokenOncePerRequest /\ TokenIsTheApprovers /\ TokenWasOpenAtClaim
================================================================================
