--------------------------- MODULE SnapshotIndexing ---------------------------
(***************************************************************************)
(* How a commit gets its index: the row of the snapshots table             *)
(* (packages/db/src/queries/snapshots.ts) and the SnapshotService of every *)
(* process (apps/server/src/indexer/snapshot-service.ts) that claims rows, *)
(* indexes, renews leases, writes, fails, hands back and answers requests. *)
(*                                                                         *)
(* One statement of the database is one step, and so is one transaction.   *)
(* Between two of them anything of another process, or of another request  *)
(* of the same process, may happen.                                        *)
(*                                                                         *)
(* Time is counted in ticks: lease and retry say how many are left until   *)
(* the instants of the row have passed (0: they have).  A claim token is   *)
(* a random UUID in the code: a token nobody knows of any more may be used *)
(* again here, which nothing can tell from a new one; the same goes for    *)
(* the id of a row.                                                        *)
(***************************************************************************)
EXTENDS Integers, FiniteSets

CONSTANTS
    Process,        \* processes that index: replicas of the api role, workers
    Commit,         \* commits of one repository
    Snapshot,       \* ids of snapshot rows
    Owner,          \* claim tokens
    Request,        \* requests that ask for an index
    None,           \* no row, no owner, no commit
    AnsweredBy,     \* the process that answers each request
    IndexVersion,   \* the reading rules each process was built with
    MinServable,    \* the lowest version of an index each process can serve
    Previous,       \* the commit the ref was at before, by commit
    Concurrency,    \* indexing runs at once in a process
    LeaseTicks,     \* how long a claim lasts
    FirstRetry,     \* the first wait after a failure
    MaxRetry,       \* the longest wait after a failure
    HintedRetry,    \* the wait the git host may ask for
    MaxAttempts,    \* bound: attempts are counted up to here
    MaxUpsets,      \* bound: shutdowns, crashes, purges and lost database calls
    Punctual        \* whether the renewal timers always run in time

ASSUME CommitAssumption ==
    /\ None \notin Process \union Commit \union Snapshot \union Owner
    /\ AnsweredBy \in [Request -> Process]
    /\ Previous \in [Commit -> Commit \union {None}]

ASSUME VersionAssumption ==
    /\ IndexVersion \in [Process -> Nat \ {0}]
    /\ MinServable \in [Process -> Nat]

ASSUME BoundAssumption ==
    /\ Concurrency \in Nat \ {0}
    /\ LeaseTicks \in Nat \ {0}
    /\ FirstRetry \in Nat
    /\ MaxRetry \in Nat
    /\ HintedRetry \in Nat
    /\ MaxAttempts \in Nat \ {0}
    /\ MaxUpsets \in Nat
    /\ Punctual \in BOOLEAN

VARIABLES
    rows,       \* the snapshots table, by id
    runs,       \* the indexing under way, in every process
    req,        \* what each request is doing
    closing,    \* processes whose service is closing
    upsets      \* how many upsets there were

vars == <<rows, runs, req, closing, upsets>>

-----------------------------------------------------------------------------
(* State *)

Version == {IndexVersion[p] : p \in Process}

Status == {"pending", "indexing", "ready", "failed"}

LongestRetry == IF HintedRetry > MaxRetry THEN HintedRetry ELSE MaxRetry

Row == [commit: Commit, status: Status, attempts: 0..MaxAttempts, owner: Owner \union {None},
        lease: 0..LeaseTicks, retry: 0..LongestRetry, version: {0} \union Version]

ASSUME RowAssumption == None \notin Row

\* An indexing run: SnapshotService.#index with its claim. "tracked" says that the run is the one
\* the map #running holds for its snapshot, which is what close() can reach.
Run == [process: Process, snapshot: Snapshot, owner: Owner,
        phase: {"building", "built", "failing", "releasing"}, tracked: BOOLEAN, aborted: BOOLEAN]

\* A request: the row it is claiming, the row its loop reads (the scope #await fixed after
\* the first start), what it last saw and, once answered, the version it was served (0: none). "owed" is
\* history: there was an index to serve the mount from when the request came in.
Asked ==
    {a \in [phase: {"idle", "starting", "reading", "sending", "rereading", "claiming", "waiting",
                    "answered"},
            commit: Commit, pinned: BOOLEAN,
            snapshot: Snapshot \union {None}, scope: Snapshot \union {None},
            status: Status, version: {0} \union Version,
            served: {0} \union Version, owed: BOOLEAN] :
        /\ a.phase = "claiming" => a.snapshot # None
        /\ a.phase = "waiting" => a.scope # None}

TypeOK ==
    /\ rows \in [Snapshot -> Row \union {None}]
    /\ runs \subseteq Run
    /\ req \in [Request -> Asked]
    /\ closing \subseteq Process
    /\ upsets \in 0..MaxUpsets

NewRow(c) == [commit |-> c, status |-> "pending", attempts |-> 0, owner |-> None,
              lease |-> 0, retry |-> 0, version |-> 0]

Idle(c) == [phase |-> "idle", commit |-> c, pinned |-> FALSE, snapshot |-> None, scope |-> None,
            status |-> "pending", version |-> 0, served |-> 0, owed |-> FALSE]

Init ==
    /\ rows = [s \in Snapshot |-> None]
    /\ runs = {}
    /\ \E c \in Commit : req = [r \in Request |-> Idle(c)]
    /\ closing = {}
    /\ upsets = 0

RowsOf(c) == {s \in Snapshot : rows[s] # None /\ rows[s].commit = c}

\* An id the row of which was never made, or is forgotten by everybody.
FreshSnapshot(s) ==
    /\ rows[s] = None
    /\ \A run \in runs : run.snapshot # s
    /\ \A r \in Request : s \notin {req[r].snapshot, req[r].scope}

FreshOwner(o) ==
    /\ \A run \in runs : run.owner # o
    /\ \A s \in Snapshot : rows[s] # None => rows[s].owner # o

\* Variants of definitions, named with an underscore, are not part of the specification: each is the
\* definition with a slip that the property it is listed with in PROJECT.json must notice.
Held_WithoutToken(run) ==
    /\ rows[run.snapshot] # None
    /\ rows[run.snapshot].status = "indexing"

\* heldBy: the row while the claim named by the run's owner holds it.
Held(run) ==
    /\ rows[run.snapshot] # None
    /\ rows[run.snapshot].status = "indexing"
    /\ rows[run.snapshot].owner = run.owner

Tracked(p) == {run \in runs : run.process = p /\ run.tracked}

Upset == upsets < MaxUpsets /\ upsets' = upsets + 1

Floor(p) == IF MinServable[p] < 1 THEN 1 ELSE MinServable[p]

-----------------------------------------------------------------------------
(* Requests: what a mount is served from *)

\* The index the ref was at before, when this process can serve it (findSnapshotOfCommit).
Before(p, c) ==
    {v \in {rows[s].version : s \in UNION {RowsOf(b) : b \in {Previous[c]} \ {None, c}}} :
        v >= Floor(p)}

Served_FailedIsNothing(p, c, pinned, status, version) ==
    IF status = "ready" THEN version
    ELSE IF pinned \/ status = "failed" THEN 0
    ELSE IF version >= Floor(p) THEN version
    ELSE IF Before(p, c) # {} THEN CHOOSE v \in Before(p, c) : TRUE
    ELSE 0

\* serving(): the index of the commit itself; for a moving ref, the commit's own index under the
\* rules before, or the index of the ref's previous commit; else nothing.
Served(p, c, pinned, status, version) ==
    IF status = "ready" THEN version
    ELSE IF pinned THEN 0
    ELSE IF version >= Floor(p) THEN version
    ELSE IF Before(p, c) # {} THEN CHOOSE v \in Before(p, c) : TRUE
    ELSE 0

Servable(p, c) == Before(p, c) # {} \/ \E s \in RowsOf(c) : rows[s].version >= Floor(p)

Answer(r, status, version) ==
    req' = [req EXCEPT ![r] = [@ EXCEPT
                !.phase = "answered", !.snapshot = None, !.scope = None,
                !.status = status, !.version = version,
                !.served = Served(AnsweredBy[r], req[r].commit, req[r].pinned, status, version)]]

\* What #await does with a record it has: an index and a failure are answered, anything else is
\* waited for.
See(r, s, status, version) ==
    IF status \in {"ready", "failed"}
    THEN Answer(r, status, version)
    ELSE req' = [req EXCEPT ![r] = [@ EXCEPT
                    !.phase = "waiting", !.snapshot = None,
                    !.scope = IF req[r].scope = None THEN s ELSE req[r].scope,
                    !.status = status, !.version = version]]

Outdated_AnyOtherRules(p, s) ==
    rows[s].status = "ready" /\ rows[s].version # IndexVersion[p]

\* A ready index under older rules than this process has.
Outdated(p, s) == rows[s].status = "ready" /\ rows[s].version < IndexVersion[p]

\* An index that is rebuilt keeps its version and its entries until the new one is written.
SentBack(s) == [rows[s] EXCEPT !.status = "pending", !.lease = 0, !.retry = 0]

\* #start once the row is ensured: a start that may go on to claim does, the others are done with
\* the row as it is.
Decide(r, s, row) ==
    LET p == AnsweredBy[r] IN
    IF \/ row.status = "ready"
       \/ p \in closing
       \/ s \in {run.snapshot : run \in Tracked(p)}
       \/ Cardinality(Tracked(p)) >= Concurrency
    THEN See(r, s, row.status, row.version)
    ELSE req' = [req EXCEPT ![r] = [@ EXCEPT !.phase = "claiming", !.snapshot = s,
                                             !.status = row.status, !.version = row.version]]

\* A request comes in for a commit, by a moving ref or pinned to it.
Ask(r) ==
    /\ req[r].phase = "idle"
    /\ \E c \in Commit, pinned \in BOOLEAN :
        req' = [req EXCEPT ![r] = [Idle(c) EXCEPT
                   !.phase = "starting", !.pinned = pinned, !.owed = Servable(AnsweredBy[r], c)]]
    /\ UNCHANGED <<rows, runs, closing, upsets>>

\* #ensureStarted, on the first call of #await and whenever a poll finds the row pending. It
\* begins with ensureSnapshot, whose first statement makes the row when there is none.
Insert(r) ==
    LET c == req[r].commit IN
    /\ req[r].phase = "starting"
    /\ IF RowsOf(c) = {}
       THEN \E s \in Snapshot : FreshSnapshot(s) /\ rows' = [rows EXCEPT ![s] = NewRow(c)]
       ELSE UNCHANGED rows
    /\ req' = [req EXCEPT ![r].phase = "reading"]
    /\ UNCHANGED <<runs, closing, upsets>>

\* ensureSnapshot reads the row; one that is gone again is an error.
ReadRow(r) ==
    LET c == req[r].commit IN
    /\ req[r].phase \in {"reading", "rereading"}
    /\ \/ RowsOf(c) = {} /\ req' = [req EXCEPT ![r] = Idle(c)]
       \/ \E s \in RowsOf(c) :
             IF req[r].phase = "reading" /\ Outdated(AnsweredBy[r], s)
             THEN req' = [req EXCEPT ![r].phase = "sending"]
             ELSE Decide(r, s, rows[s])
    /\ UNCHANGED <<rows, runs, closing, upsets>>

\* It sends an outdated index back for a rebuild, unless somebody else did by now: then it takes the
\* row as it is read next.
SendBack(r) ==
    LET old == {s \in RowsOf(req[r].commit) : Outdated(AnsweredBy[r], s)} IN
    /\ req[r].phase = "sending"
    /\ \/ \E s \in old : rows' = [rows EXCEPT ![s] = SentBack(s)] /\ Decide(r, s, SentBack(s))
       \/ old = {} /\ req' = [req EXCEPT ![r].phase = "rereading"] /\ UNCHANGED rows
    /\ UNCHANGED <<runs, closing, upsets>>

\* The row of a commit, when one statement reads it; a commit without a row reads like a new one.
RowOf(c) == IF RowsOf(c) = {} THEN NewRow(c) ELSE rows[CHOOSE s \in RowsOf(c) : TRUE]

\* What #held makes of a row: an index under older rules counts as one being rebuilt.
HeldStatus(p, row) ==
    IF row.status = "ready" /\ row.version < IndexVersion[p] THEN "indexing" ELSE row.status

\* serving() of a mount that may not start indexing (#held): the row as it is, nothing claimed.
AskHeld(r) ==
    LET p == AnsweredBy[r] IN
    /\ req[r].phase = "idle"
    /\ \E c \in Commit, pinned \in BOOLEAN :
        LET status == HeldStatus(p, RowOf(c))
            version == RowOf(c).version
        IN  req' = [req EXCEPT ![r] = [Idle(c) EXCEPT
                       !.phase = "answered", !.pinned = pinned, !.status = status,
                       !.version = version, !.served = Served(p, c, pinned, status, version),
                       !.owed = Servable(p, c)]]
    /\ UNCHANGED <<rows, runs, closing, upsets>>

Claimable_WhileLeased(s) ==
    /\ rows[s] # None
    /\ \/ rows[s].status \in {"pending", "indexing"}
       \/ rows[s].status = "failed" /\ rows[s].retry = 0

Claimable_NeverAbandoned(s) ==
    /\ rows[s] # None
    /\ \/ rows[s].status = "pending"
       \/ rows[s].status = "failed" /\ rows[s].retry = 0

Claimable_FailedForGood(s) ==
    /\ rows[s] # None
    /\ \/ rows[s].status = "pending"
       \/ rows[s].status = "indexing" /\ rows[s].lease = 0

\* claimSnapshot's condition: nobody started, the lease ran out, or a retry is due.
Claimable(s) ==
    /\ rows[s] # None
    /\ \/ rows[s].status = "pending"
       \/ rows[s].status = "indexing" /\ rows[s].lease = 0
       \/ rows[s].status = "failed" /\ rows[s].retry = 0

ClaimedBy(s, o) ==
    [rows[s] EXCEPT !.status = "indexing", !.owner = o, !.lease = LeaseTicks, !.retry = 0,
                    !.attempts = IF @ < MaxAttempts THEN @ + 1 ELSE @]

\* The rest of #start: the claim is won and a run starts, in place of any other the map #running
\* holds for the snapshot.
Claim(r, o) ==
    LET p == AnsweredBy[r]
        s == req[r].snapshot
    IN  /\ req[r].phase = "claiming"
        /\ Claimable(s)
        /\ FreshOwner(o)
        /\ rows' = [rows EXCEPT ![s] = ClaimedBy(s, o)]
        /\ runs' = {[run EXCEPT !.tracked = @ /\ ~(run.process = p /\ run.snapshot = s)]
                        : run \in runs}
                   \union {[process |-> p, snapshot |-> s, owner |-> o, phase |-> "building",
                            tracked |-> TRUE, aborted |-> FALSE]}
        /\ See(r, s, "indexing", rows[s].version)
        /\ UNCHANGED <<closing, upsets>>

\* The claim finds nothing to take: the record from before the claim is what #start returns.
ClaimRefused(r) ==
    /\ req[r].phase = "claiming"
    /\ ~Claimable(req[r].snapshot)
    /\ See(r, req[r].snapshot, req[r].status, req[r].version)
    /\ UNCHANGED <<rows, runs, closing, upsets>>

\* The claim is recorded and the answer to it lost: the request fails, nothing runs.
ClaimLost(r, o) ==
    LET s == req[r].snapshot IN
    /\ Upset
    /\ req[r].phase = "claiming"
    /\ Claimable(s)
    /\ FreshOwner(o)
    /\ rows' = [rows EXCEPT ![s] = ClaimedBy(s, o)]
    /\ req' = [req EXCEPT ![r] = Idle(req[r].commit)]
    /\ UNCHANGED <<runs, closing>>

\* One turn of #await's loop: the row is read again. One that is gone is a failure without a record,
\* and one that is pending was released, or never claimed: the request tries to start it.
Poll(r) ==
    LET s == req[r].scope IN
    /\ req[r].phase = "waiting"
    /\ IF rows[s] = None
       THEN Answer(r, "failed", 0)
       ELSE IF rows[s].status = "pending"
            THEN req' = [req EXCEPT ![r].phase = "starting"]
            ELSE See(r, s, rows[s].status, rows[s].version)
    /\ UNCHANGED <<rows, runs, closing, upsets>>

\* The budget is over: the answer is "indexing", with the record last seen.
BudgetEnds(r) ==
    /\ req[r].phase = "waiting"
    /\ Answer(r, "indexing", req[r].version)
    /\ UNCHANGED <<rows, runs, closing, upsets>>

\* The answer is out; the client may ask again.
Done(r) ==
    /\ req[r].phase = "answered"
    /\ req' = [req EXCEPT ![r] = Idle(req[r].commit)]
    /\ UNCHANGED <<rows, runs, closing, upsets>>

-----------------------------------------------------------------------------
(* Indexing runs *)

\* The run is over: its entry leaves the map #running, whichever run of the snapshot it was for.
Ended(run) ==
    {[other EXCEPT !.tracked =
          @ /\ ~(other.process = run.process /\ other.snapshot = run.snapshot)]
        : other \in runs \ {run}}

InPhase(run, phase) == (runs \ {run}) \union {[run EXCEPT !.phase = phase]}

Renew(run) ==
    /\ Held(run)
    /\ rows[run.snapshot].lease < LeaseTicks
    /\ rows' = [rows EXCEPT ![run.snapshot].lease = LeaseTicks]
    /\ UNCHANGED <<runs, req, closing, upsets>>

\* buildSnapshotIndex returned, and the run was not aborted by then.
Built(run) ==
    /\ run.phase = "building"
    /\ ~run.aborted
    /\ runs' = InPhase(run, "built")
    /\ UNCHANGED <<rows, req, closing, upsets>>

\* buildSnapshotIndex threw: the host failed, or the repository cannot be read.
BuildFails(run) ==
    /\ run.phase = "building"
    /\ ~run.aborted
    /\ runs' = InPhase(run, "failing")
    /\ UNCHANGED <<rows, req, closing, upsets>>

WrittenBy_KeepsToken(run) ==
    [rows[run.snapshot] EXCEPT !.status = "ready", !.version = IndexVersion[run.process], !.lease = 0]

WrittenBy(run) ==
    [rows[run.snapshot] EXCEPT !.status = "ready", !.version = IndexVersion[run.process],
                               !.owner = None, !.lease = 0]

\* writeSnapshotIndex: one transaction, which writes nothing when the claim was lost.
Write(run) ==
    /\ run.phase = "built"
    /\ rows' = IF Held(run) THEN [rows EXCEPT ![run.snapshot] = WrittenBy(run)] ELSE rows
    /\ runs' = Ended(run)
    /\ UNCHANGED <<req, closing, upsets>>

\* The transaction fails, or commits without the process hearing of it.
WriteFails(run) ==
    /\ Upset
    /\ run.phase = "built"
    /\ \/ UNCHANGED rows
       \/ Held(run) /\ rows' = [rows EXCEPT ![run.snapshot] = WrittenBy(run)]
    /\ runs' = InPhase(run, IF run.aborted THEN "releasing" ELSE "failing")
    /\ UNCHANGED <<req, closing>>

\* The error an aborted run ends with is the abort: its row is handed back.
Releasing(run) == run.phase = "releasing" \/ (run.phase = "building" /\ run.aborted)

\* releaseSnapshot
Release(run) ==
    /\ Releasing(run)
    /\ rows' = IF Held(run)
               THEN [rows EXCEPT ![run.snapshot].status = "pending", ![run.snapshot].owner = None,
                                 ![run.snapshot].lease = 0]
               ELSE rows
    /\ runs' = Ended(run)
    /\ UNCHANGED <<req, closing, upsets>>

Backoff_Uncapped(attempts) == FirstRetry * 4^attempts

\* The wait doubles with every attempt, up to the longest.
Backoff(attempts) ==
    LET wait == FirstRetry * 2^(attempts - 1)
    IN  IF wait \in 0..MaxRetry THEN wait ELSE MaxRetry

\* The attempts of the row when they could be read; the first attempt otherwise.
AttemptsSeen(run) ==
    {1} \union (IF rows[run.snapshot] = None THEN {} ELSE {rows[run.snapshot].attempts})

\* failSnapshot, with the wait the git host asked for when that is longer.
Fail(run) ==
    /\ run.phase = "failing"
    /\ \E n \in AttemptsSeen(run), hinted \in {0, HintedRetry} :
        LET wait == IF hinted > Backoff(n) THEN hinted ELSE Backoff(n) IN
        rows' = IF Held(run)
                THEN [rows EXCEPT ![run.snapshot].status = "failed", ![run.snapshot].owner = None,
                                  ![run.snapshot].lease = 0, ![run.snapshot].retry = wait]
                ELSE rows
    /\ runs' = Ended(run)
    /\ UNCHANGED <<req, closing, upsets>>

\* Handing back, or recording the failure, does not reach the database: the error is swallowed.
EndLost(run) ==
    /\ Upset
    /\ run.phase = "failing" \/ Releasing(run)
    /\ runs' = Ended(run)
    /\ UNCHANGED <<rows, req, closing>>

-----------------------------------------------------------------------------
(* Processes, time and the operator *)

\* close(): no start after this, and what is in the map #running is aborted.
Close(p) ==
    /\ Upset
    /\ p \notin closing
    /\ closing' = closing \union {p}
    /\ runs' = {[run EXCEPT !.aborted = @ \/ run \in Tracked(p)] : run \in runs}
    /\ UNCHANGED <<rows, req>>

\* Everything a process keeps in memory is gone, and a new one takes its place.
Gone(p) ==
    /\ runs' = {run \in runs : run.process # p}
    /\ req' = [r \in Request |-> IF AnsweredBy[r] = p THEN Idle(req[r].commit) ELSE req[r]]
    /\ closing' = closing \ {p}
    /\ UNCHANGED rows

\* close() has awaited what it aborted: nothing of the shutdown is left to wait for.
Closed(p) ==
    /\ p \in closing
    /\ \A run \in runs : run.process = p => ~run.aborted

Exit(p) == Closed(p) /\ Gone(p) /\ UNCHANGED upsets

Crash(p) ==
    /\ Upset
    /\ Gone(p)

\* A tick of the clock. When the timers are punctual it waits for every lease that is about to run
\* out and whose run is alive to be renewed.
Tick ==
    /\ \E s \in Snapshot : rows[s] # None /\ (rows[s].lease > 0 \/ rows[s].retry > 0)
    /\ Punctual => \A run \in runs : Held(run) => rows[run.snapshot].lease > 1
    /\ rows' = [s \in Snapshot |->
                  IF rows[s] = None THEN None
                  ELSE [rows[s] EXCEPT !.lease = IF @ > 0 THEN @ - 1 ELSE 0,
                                       !.retry = IF @ > 0 THEN @ - 1 ELSE 0]]
    /\ UNCHANGED <<runs, req, closing, upsets>>

\* purgeRepositoryIndex: every snapshot of the repository is deleted, whoever holds it.
Purge ==
    /\ Upset
    /\ \E s \in Snapshot : rows[s] # None
    /\ rows' = [s \in Snapshot |-> None]
    /\ req' = [r \in Request |-> [req[r] EXCEPT !.owed = FALSE]]
    /\ UNCHANGED <<runs, closing>>

-----------------------------------------------------------------------------

RequestStep(r) ==
    \/ Ask(r)
    \/ AskHeld(r)
    \/ Insert(r)
    \/ ReadRow(r)
    \/ SendBack(r)
    \/ \E o \in Owner : Claim(r, o) \/ ClaimLost(r, o)
    \/ ClaimRefused(r)
    \/ Poll(r)
    \/ BudgetEnds(r)
    \/ Done(r)

RunStep(run) ==
    \/ Renew(run)
    \/ Built(run)
    \/ BuildFails(run)
    \/ Write(run)
    \/ WriteFails(run)
    \/ Release(run)
    \/ Fail(run)
    \/ EndLost(run)

ProcessStep(p) == Close(p) \/ Exit(p) \/ Crash(p)

Next ==
    \/ \E r \in Request : RequestStep(r)
    \/ \E run \in runs : RunStep(run)
    \/ \E p \in Process : ProcessStep(p)
    \/ Tick
    \/ Purge

Spec == Init /\ [][Next]_vars

\* What is scheduled is run in the end: the continuations of a request, the calls of a run, the
\* clock.  A commit keeps being asked for by mounts that may start its indexing, and shutdowns,
\* crashes and lost calls are finitely many (MaxUpsets).
Fairness ==
    /\ \A r \in Request :
        /\ SF_vars(Ask(r))
        /\ WF_vars(Insert(r) \/ ReadRow(r) \/ SendBack(r) \/ ClaimRefused(r)
                    \/ \E o \in Owner : Claim(r, o))
        /\ WF_vars(Poll(r) \/ BudgetEnds(r))
        /\ WF_vars(Done(r))
    /\ \A o \in Owner :
        WF_vars(\E run \in runs : run.owner = o /\ (Built(run) \/ Write(run) \/ Release(run) \/ Fail(run)))
    /\ \A p \in Process : WF_vars(Exit(p))
    /\ WF_vars(Tick)

FairSpec == Spec /\ Fairness

-----------------------------------------------------------------------------
(* Properties *)

\* The token of a row names at most one run, and that run is for the row; a row has a token exactly
\* while it is being indexed. It is what makes heldBy a fence: renewing, writing, failing and
\* releasing with one's own token can touch nothing of a successor's.
ClaimsAreExclusive ==
    /\ \A a, b \in runs : a.owner = b.owner => a = b
    /\ \A s \in Snapshot : rows[s] # None =>
        /\ rows[s].status = "indexing" <=> rows[s].owner # None
        /\ \A run \in runs : rows[s].owner = run.owner => run.snapshot = s
        /\ \A z \in Snapshot \ {s} :
              rows[z] # None /\ rows[z].owner = rows[s].owner => rows[s].owner = None

\* "A holder whose lease ran out while it was paused cannot undo what its successor did"
\* (claimSnapshot): an index that was written goes away only when the repository is purged or when a
\* process with newer rules sends it back, whatever paused runs of earlier claims still do.
IndexIsNotUndone ==
    [][\A s \in Snapshot :
         rows[s] # None /\ rows[s].status = "ready" =>
            \/ rows'[s] = rows[s]
            \/ \A z \in Snapshot : rows'[z] = None
            \/ /\ rows'[s] = [rows[s] EXCEPT !.status = "pending", !.lease = 0, !.retry = 0]
               /\ \E p \in Process : IndexVersion[p] > rows[s].version]_vars

\* "Newer rules are never undone by older ones" (ensureSnapshot): while replicas of different
\* builds run beside each other, the version of a commit's index never goes down.
RulesOnlyGetNewer ==
    [][\A s \in Snapshot :
         rows[s] # None /\ rows'[s] # None => rows'[s].version >= rows[s].version]_vars

\* A rollout: no process is of a build between two others. With three builds the oldest may claim a
\* rebuild that the newest asked for, since claimSnapshot knows no version.
TwoBuilds ==
    \A p, q, t \in Process : IndexVersion[p] < IndexVersion[q] => IndexVersion[p] <= IndexVersion[t]

\* ADR-0068: a rebuild, a failing commit or a shutdown takes no pack down. A request by a moving ref
\* that came in while there was an index to serve it from is served one, whatever happens to the
\* rows until it is answered; only a purge takes that away.
NoPackGoesDown ==
    \A r \in Request :
        req[r].phase = "answered" /\ req[r].owed /\ ~req[r].pinned => req[r].served > 0

\* ADR-0007: "exactly one process indexes a commit at a time". It holds as long as the renewal
\* timers run in time.
OneIndexerAtATime ==
    \A a, b \in runs :
        a.snapshot = b.snapshot /\ {a.phase, b.phase} \subseteq {"building", "built"} => a = b

\* close(): "Stops claiming, aborts what is running and hands the rows back for another process".
\* Once it resolves, no row is held by the process any more.
CloseHandsBack ==
    \A p \in Process : Closed(p) => \A run \in runs : run.process = p => ~Held(run)

\* A commit someone asked for is indexed or found to be failing in the end, although its holder may
\* crash, be paused past its lease, lose its calls or hand the row back.
CommitsAreSettled ==
    \A c \in Commit :
        (\E s \in RowsOf(c) : rows[s].status \in {"pending", "indexing"})
            ~> (\A s \in RowsOf(c) : rows[s].status \in {"ready", "failed"})

\* A failure is not the end: a commit that keeps being asked for is tried again.
FailuresAreRetried ==
    \A s \in Snapshot :
        (rows[s] # None /\ rows[s].status = "failed")
            ~> (rows[s] = None \/ rows[s].status # "failed")

-----------------------------------------------------------------------------
(* What the table promises, without leases and processes *)

Promise == INSTANCE CommitIndex WITH
    attempts  <- {<<run.snapshot, run.owner>> : run \in runs},
    holder    <- [s \in Snapshot |-> IF rows[s] = None THEN None ELSE rows[s].owner],
    published <- [s \in Snapshot |-> IF rows[s] = None THEN 0 ELSE rows[s].version]

\* Whoever holds the row, and only that run, publishes; readers find no index or a whole one.
ImplementsPromise == Promise!Spec

=============================================================================
