------------------------ MODULE SnapshotIndexing_proofs ------------------------
(***************************************************************************)
(* Theorems about SnapshotIndexing, for every value of its constants: its  *)
(* types and its claims; what the snapshots table promises (an index is    *)
(* not undone, newer rules stay and no pack goes down while two builds run *)
(* at once, and CommitIndex is implemented); and that one run at a time    *)
(* indexes a commit when renewal timers are in time.                       *)
(***************************************************************************)
EXTENDS SnapshotIndexing, TLAPS

-----------------------------------------------------------------------------
(* Types *)

\* serving() answers with the version of some index, or with none.
LEMMA ServedType ==
    ASSUME TypeOK,
           NEW p \in Process, NEW c \in Commit, NEW pinned \in BOOLEAN, NEW status \in Status,
           NEW version \in {0} \union Version
    PROVE  Served(p, c, pinned, status, version) \in {0} \union Version
<1>1. Before(p, c) \subseteq {0} \union Version
  BY DEF TypeOK, Before, RowsOf, Row
<1>2. Before(p, c) # {} => (CHOOSE v \in Before(p, c) : TRUE) \in {0} \union Version
  BY <1>1
<1> QED
  BY <1>2 DEF Served

\* Answering a request, or making it wait, keeps the requests well typed.
LEMMA SeeType ==
    ASSUME TypeOK,
           NEW r \in Request, NEW s \in Snapshot, NEW status \in Status,
           NEW version \in {0} \union Version
    PROVE  /\ Answer(r, status, version) => req' \in [Request -> Asked]
           /\ See(r, s, status, version) => req' \in [Request -> Asked]
<1>1. /\ req \in [Request -> Asked]
      /\ req[r] \in Asked
      /\ AnsweredBy[r] \in Process
  BY CommitAssumption DEF TypeOK
<1>2. Served(AnsweredBy[r], req[r].commit, req[r].pinned, status, version) \in {0} \union Version
  BY <1>1, ServedType DEF Asked
<1> DEFINE served   == Served(AnsweredBy[r], req[r].commit, req[r].pinned, status, version)
           answered == [req[r] EXCEPT !.phase = "answered", !.snapshot = None, !.scope = None,
                                      !.status = status, !.version = version, !.served = served]
           waiting  == [req[r] EXCEPT !.phase = "waiting", !.snapshot = None,
                                      !.scope = IF @ = None THEN s ELSE @,
                                      !.status = status, !.version = version]
<1>3. answered \in Asked
  BY <1>1, <1>2, CommitAssumption DEF Asked
<1>4. waiting \in Asked
  BY <1>1, CommitAssumption DEF Asked
<1>5. Answer(r, status, version) => req' = [req EXCEPT ![r] = answered]
  BY DEF Answer
<1>6. See(r, s, status, version) =>
        Answer(r, status, version) \/ req' = [req EXCEPT ![r] = waiting]
  BY DEF See
<1> HIDE DEF answered, waiting
<1>7. \A new \in Asked : req' = [req EXCEPT ![r] = new] => req' \in [Request -> Asked]
  BY <1>1
<1> QED
  BY <1>3, <1>4, <1>5, <1>6, <1>7

LEMMA DecideType ==
    ASSUME TypeOK, NEW r \in Request, NEW s \in Snapshot, NEW row \in Row, Decide(r, s, row)
    PROVE  req' \in [Request -> Asked]
<1> DEFINE claiming == [req[r] EXCEPT !.phase = "claiming", !.snapshot = s,
                                      !.status = row.status, !.version = row.version]
<1>1. /\ req \in [Request -> Asked]
      /\ req[r] \in Asked
      /\ row.status \in Status
      /\ row.version \in {0} \union Version
  BY DEF TypeOK, Row
<1>2. See(r, s, row.status, row.version) => req' \in [Request -> Asked]
  BY <1>1, SeeType
<1>3. claiming \in Asked
  BY <1>1, CommitAssumption DEF Asked
<1>4. See(r, s, row.status, row.version) \/ req' = [req EXCEPT ![r] = claiming]
  BY DEF Decide
<1> QED
  BY <1>1, <1>2, <1>3, <1>4

LEMMA IdleType == \A c \in Commit : Idle(c) \in Asked
BY DEF Idle, Asked, Status

LEMMA NewRowType == \A c \in Commit : NewRow(c) \in Row
BY BoundAssumption DEF NewRow, Row, Status, LongestRetry

\* The longest wait is a number, and no wait is longer.
LEMMA RetryType ==
    /\ LongestRetry \in Nat
    /\ \A n \in Int : Backoff(n) \in 0..LongestRetry
    /\ HintedRetry \in 0..LongestRetry
BY BoundAssumption DEF LongestRetry, Backoff

LEMMA NothingLeft == 0 \in 0..LeaseTicks /\ 0 \in 0..LongestRetry
BY RetryType, BoundAssumption

LEMMA InitType == Init => TypeOK
<1> SUFFICES ASSUME Init PROVE TypeOK
  OBVIOUS
<1>1. req \in [Request -> Asked]
  BY IdleType DEF Init
<1> QED
  BY <1>1, BoundAssumption DEF Init, TypeOK

LEMMA ClaimedType ==
    ASSUME NEW s \in Snapshot, NEW o \in Owner, rows[s] \in Row
    PROVE  ClaimedBy(s, o) \in Row
<1>1. LeaseTicks \in 0..LeaseTicks
  BY BoundAssumption
<1>2. (IF rows[s].attempts < MaxAttempts THEN rows[s].attempts + 1 ELSE rows[s].attempts)
        \in 0..MaxAttempts
  BY BoundAssumption DEF Row
<1> QED
  BY <1>1, <1>2, NothingLeft DEF ClaimedBy, Row, Status

\* What a request does keeps the types.
LEMMA RequestTypeStep ==
    ASSUME TypeOK, NEW r \in Request, RequestStep(r)
    PROVE  TypeOK'
<1>1. /\ rows \in [Snapshot -> Row \union {None}]
      /\ runs \subseteq Run
      /\ req \in [Request -> Asked]
      /\ req[r] \in Asked
      /\ req[r].commit \in Commit
      /\ closing \subseteq Process
      /\ upsets \in 0..MaxUpsets
  BY DEF TypeOK, Asked
<1>2. \A new \in Asked : req' = [req EXCEPT ![r] = new] => req' \in [Request -> Asked]
  BY <1>1
<1>3. \A phase \in {"reading", "sending", "rereading", "starting"} :
        [req[r] EXCEPT !.phase = phase] \in Asked
  BY <1>1 DEF Asked
<1>4. CASE Ask(r)
  <2>1. PICK c \in Commit, pinned \in BOOLEAN :
          req' = [req EXCEPT ![r] = [Idle(c) EXCEPT
                     !.phase = "starting", !.pinned = pinned, !.owed = Servable(AnsweredBy[r], c)]]
    BY <1>4 DEF Ask
  <2>2. Servable(AnsweredBy[r], c) \in BOOLEAN
    BY DEF Servable
  <2>3. [Idle(c) EXCEPT !.phase = "starting", !.pinned = pinned,
                        !.owed = Servable(AnsweredBy[r], c)] \in Asked
    BY <2>2 DEF Idle, Asked, Status
  <2> QED
    BY <1>1, <1>2, <1>4, <2>1, <2>3 DEF Ask, TypeOK
<1>5. CASE AskHeld(r)
  <2> DEFINE p == AnsweredBy[r]
             Asking(c, pinned, status, version, served, owed) ==
                [Idle(c) EXCEPT !.phase = "answered", !.pinned = pinned, !.status = status,
                                !.version = version, !.served = served, !.owed = owed]
  <2>1. PICK c \in Commit, pinned \in BOOLEAN :
          req' = [req EXCEPT ![r] =
                    Asking(c, pinned, HeldStatus(p, RowOf(c)), RowOf(c).version,
                           Served(p, c, pinned, HeldStatus(p, RowOf(c)), RowOf(c).version),
                           Servable(p, c))]
    BY <1>5 DEF AskHeld
  <2>2. RowOf(c) \in Row
    BY <1>1, NewRowType DEF RowsOf, RowOf
  <2>3. HeldStatus(p, RowOf(c)) \in Status /\ RowOf(c).version \in {0} \union Version
    BY <2>2 DEF Row, Status, HeldStatus
  <2>4. Served(p, c, pinned, HeldStatus(p, RowOf(c)), RowOf(c).version) \in {0} \union Version
    BY <2>3, ServedType, CommitAssumption
  <2>5. Servable(p, c) \in BOOLEAN
    BY DEF Servable
  <2>6. \A status \in Status, version, served \in {0} \union Version, owed \in BOOLEAN :
          Asking(c, pinned, status, version, served, owed) \in Asked
    BY DEF Idle, Asked
  <2>7. req' \in [Request -> Asked]
    BY <1>1, <1>2, <2>1, <2>3, <2>4, <2>5, <2>6
  <2> QED
    BY <1>1, <1>5, <2>7 DEF AskHeld, TypeOK
<1>6. CASE Insert(r)
  <2>1. rows' \in [Snapshot -> Row \union {None}]
    BY <1>1, <1>6, NewRowType DEF Insert
  <2>2. req' \in [Request -> Asked]
    BY <1>1, <1>2, <1>3, <1>6 DEF Insert
  <2> QED
    BY <1>1, <1>6, <2>1, <2>2 DEF Insert, TypeOK
<1>7. CASE ReadRow(r)
  <2>1. req' = [req EXCEPT ![r] = Idle(req[r].commit)] => req' \in [Request -> Asked]
    BY <1>1, <1>2, IdleType
  <2>2. req' = [req EXCEPT ![r].phase = "sending"] => req' \in [Request -> Asked]
    BY <1>1, <1>2, <1>3
  <2>3. ASSUME NEW s \in RowsOf(req[r].commit), Decide(r, s, rows[s])
        PROVE  req' \in [Request -> Asked]
    BY <1>1, <2>3, DecideType DEF RowsOf
  <2>4. req' \in [Request -> Asked]
    BY <1>7, <2>1, <2>2, <2>3 DEF ReadRow
  <2> QED
    BY <1>1, <1>7, <2>4 DEF ReadRow, TypeOK
<1>8. CASE SendBack(r)
  <2>1. CASE req' = [req EXCEPT ![r].phase = "rereading"] /\ UNCHANGED rows
    BY <1>1, <1>2, <1>3, <1>8, <2>1 DEF SendBack, TypeOK
  <2>2. CASE \E s \in RowsOf(req[r].commit) :
               rows' = [rows EXCEPT ![s] = SentBack(s)] /\ Decide(r, s, SentBack(s))
    <3>1. PICK s \in RowsOf(req[r].commit) :
            rows' = [rows EXCEPT ![s] = SentBack(s)] /\ Decide(r, s, SentBack(s))
      BY <2>2
    <3>2. s \in Snapshot /\ rows[s] \in Row
      BY <1>1, <3>1 DEF RowsOf
    <3>3. SentBack(s) \in Row
      BY <3>2, NothingLeft DEF SentBack, Row, Status
    <3> QED
      BY <1>1, <1>8, <3>1, <3>2, <3>3, DecideType DEF SendBack, TypeOK
  <2> QED
    BY <1>8, <2>1, <2>2 DEF SendBack
<1>9. \A s \in Snapshot, o \in Owner : rows[s] # None => ClaimedBy(s, o) \in Row
  BY <1>1, ClaimedType
<1>10. CASE \E o \in Owner : Claim(r, o)
  <2> DEFINE s == req[r].snapshot
             p == AnsweredBy[r]
  <2>1. PICK o \in Owner : Claim(r, o)
    BY <1>10
  <2>2. s \in Snapshot /\ rows[s] \in Row
    BY <1>1, <2>1 DEF Claim, Claimable, Asked
  <2>3. rows' \in [Snapshot -> Row \union {None}]
    BY <1>1, <1>9, <2>1, <2>2 DEF Claim, Claimable
  <2>4. runs' \subseteq Run
    <3>1. \A run \in runs : [run EXCEPT !.tracked = @ /\ ~(run.process = p /\ run.snapshot = s)] \in Run
      BY <1>1 DEF Run
    <3>2. [process |-> p, snapshot |-> s, owner |-> o, phase |-> "building",
           tracked |-> TRUE, aborted |-> FALSE] \in Run
      BY <2>2, CommitAssumption DEF Run
    <3> QED
      BY <2>1, <3>1, <3>2 DEF Claim
  <2>5. rows[s].version \in {0} \union Version /\ "indexing" \in Status
    BY <2>2 DEF Row, Status
  <2>6. req' \in [Request -> Asked]
    BY <2>1, <2>2, <2>5, SeeType DEF Claim
  <2> QED
    BY <1>1, <2>1, <2>3, <2>4, <2>6 DEF Claim, TypeOK
<1>11. CASE \E o \in Owner : ClaimLost(r, o)
  <2>1. PICK o \in Owner : ClaimLost(r, o)
    BY <1>11
  <2>2. req[r].snapshot \in Snapshot /\ rows[req[r].snapshot] \in Row
    BY <1>1, <2>1 DEF ClaimLost, Claimable, Asked
  <2>3. rows' \in [Snapshot -> Row \union {None}]
    BY <1>1, <1>9, <2>1, <2>2 DEF ClaimLost, Claimable
  <2>4. req' \in [Request -> Asked]
    BY <1>1, <1>2, <2>1, IdleType DEF ClaimLost
  <2> QED
    BY <1>1, <2>1, <2>3, <2>4, BoundAssumption DEF ClaimLost, Upset, TypeOK
<1>12. CASE ClaimRefused(r)
  BY <1>1, <1>12, SeeType DEF ClaimRefused, TypeOK, Asked
<1>13. CASE Poll(r)
  <2> DEFINE s == req[r].scope
  <2>1. s \in Snapshot
    BY <1>1, <1>13 DEF Poll, Asked
  <2>2. Answer(r, "failed", 0) => req' \in [Request -> Asked]
    BY <2>1, SeeType DEF Status
  <2>3. rows[s] # None /\ See(r, s, rows[s].status, rows[s].version) => req' \in [Request -> Asked]
    BY <1>1, <2>1, SeeType DEF Row
  <2>4. req' \in [Request -> Asked]
    BY <1>1, <1>2, <1>3, <1>13, <2>2, <2>3 DEF Poll
  <2> QED
    BY <1>1, <1>13, <2>4 DEF Poll, TypeOK
<1>14. CASE BudgetEnds(r)
  BY <1>1, <1>14, SeeType DEF BudgetEnds, TypeOK, Asked, Status
<1>15. CASE Done(r)
  BY <1>1, <1>2, <1>15, IdleType DEF Done, TypeOK
<1> QED
  BY <1>4, <1>5, <1>6, <1>7, <1>8, <1>10, <1>11, <1>12, <1>13, <1>14, <1>15 DEF RequestStep

\* What an indexing run does keeps the types.
LEMMA RunTypeStep ==
    ASSUME TypeOK, NEW run \in runs, RunStep(run)
    PROVE  TypeOK'
<1> DEFINE s == run.snapshot
<1>1. /\ rows \in [Snapshot -> Row \union {None}]
      /\ runs \subseteq Run
      /\ run \in Run
      /\ s \in Snapshot
      /\ run.process \in Process
      /\ req \in [Request -> Asked]
      /\ closing \subseteq Process
      /\ upsets \in 0..MaxUpsets
  BY DEF TypeOK, Run
<1>2. Ended(run) \subseteq Run
  <2>1. \A other \in runs :
          [other EXCEPT !.tracked =
              @ /\ ~(other.process = run.process /\ other.snapshot = run.snapshot)] \in Run
    BY <1>1 DEF Run
  <2> QED
    BY <2>1 DEF Ended
<1>3. \A phase \in {"building", "built", "failing", "releasing"} : InPhase(run, phase) \subseteq Run
  BY <1>1 DEF InPhase, Run
<1>4. Held(run) => rows[s] \in Row
  BY <1>1 DEF Held
<1>5. \A row \in Row : rows' = [rows EXCEPT ![s] = row] => rows' \in [Snapshot -> Row \union {None}]
  BY <1>1
<1>6. Held(run) => WrittenBy(run) \in Row
  <2>1. IndexVersion[run.process] \in Version
    BY <1>1 DEF Version
  <2> QED
    BY <1>1, <1>4, <2>1, NothingLeft DEF WrittenBy, Row, Status
<1>7. CASE Renew(run)
  <2>1. LeaseTicks \in 0..LeaseTicks
    BY BoundAssumption
  <2>2. [rows[s] EXCEPT !.lease = LeaseTicks] \in Row
    BY <1>4, <1>7, <2>1 DEF Renew, Row
  <2> QED
    BY <1>1, <1>5, <1>7, <2>2 DEF Renew, TypeOK
<1>8. CASE Built(run)
  BY <1>1, <1>3, <1>8 DEF Built, TypeOK
<1>9. CASE BuildFails(run)
  BY <1>1, <1>3, <1>9 DEF BuildFails, TypeOK
<1>10. CASE Write(run)
  BY <1>1, <1>2, <1>5, <1>6, <1>10 DEF Write, TypeOK
<1>11. CASE WriteFails(run)
  BY <1>1, <1>3, <1>5, <1>6, <1>11, BoundAssumption DEF WriteFails, Upset, TypeOK
<1>12. CASE Release(run)
  <2>1. Held(run) => [rows[s] EXCEPT !.status = "pending", !.owner = None, !.lease = 0] \in Row
    BY <1>4, NothingLeft DEF Row, Status
  <2>2. rows' = rows \/ (Held(run) /\ rows' = [rows EXCEPT ![s] =
                            [rows[s] EXCEPT !.status = "pending", !.owner = None, !.lease = 0]])
    BY <1>12 DEF Release
  <2> QED
    BY <1>1, <1>2, <1>5, <1>12, <2>1, <2>2 DEF Release, TypeOK
<1>13. CASE Fail(run)
  <2> DEFINE Failed(wait) == [rows[s] EXCEPT !.status = "failed", !.owner = None, !.lease = 0,
                                             !.retry = wait]
  <2>1. AttemptsSeen(run) \subseteq Int
    BY <1>1, BoundAssumption DEF AttemptsSeen, Row
  <2>2. PICK n \in AttemptsSeen(run), hinted \in {0, HintedRetry} :
          LET wait == IF hinted > Backoff(n) THEN hinted ELSE Backoff(n) IN
          rows' = IF Held(run)
                  THEN [rows EXCEPT ![s].status = "failed", ![s].owner = None,
                                    ![s].lease = 0, ![s].retry = wait]
                  ELSE rows
    BY <1>13 DEF Fail
  <2>3. (IF hinted > Backoff(n) THEN hinted ELSE Backoff(n)) \in 0..LongestRetry
    BY <2>1, <2>2, RetryType, NothingLeft
  <2>4. \A wait \in 0..LongestRetry : Held(run) => Failed(wait) \in Row
    BY <1>4, NothingLeft DEF Row, Status
  <2>5. rows' \in [Snapshot -> Row \union {None}]
    BY <1>1, <1>5, <2>2, <2>3, <2>4
  <2> QED
    BY <1>1, <1>2, <1>13, <2>5 DEF Fail, TypeOK
<1>14. CASE EndLost(run)
  BY <1>1, <1>2, <1>14, BoundAssumption DEF EndLost, Upset, TypeOK
<1> QED
  BY <1>7, <1>8, <1>9, <1>10, <1>11, <1>12, <1>13, <1>14 DEF RunStep

\* Shutdowns, crashes, the clock and the operator keep the types.
LEMMA OtherTypeStep ==
    ASSUME TypeOK, (\E p \in Process : ProcessStep(p)) \/ Tick \/ Purge
    PROVE  TypeOK'
<1>1. /\ rows \in [Snapshot -> Row \union {None}]
      /\ runs \subseteq Run
      /\ req \in [Request -> Asked]
      /\ closing \subseteq Process
      /\ upsets \in 0..MaxUpsets
  BY DEF TypeOK
<1>2. ASSUME NEW p \in Process, Gone(p)
      PROVE  rows' = rows /\ runs' \subseteq Run /\ req' \in [Request -> Asked] /\ closing' \subseteq Process
  <2>1. \A r \in Request : Idle(req[r].commit) \in Asked
    BY <1>1, IdleType DEF Asked
  <2> QED
    BY <1>1, <1>2, <2>1 DEF Gone
<1>3. ASSUME NEW p \in Process, Close(p) PROVE TypeOK'
  <2>1. \A run \in runs : [run EXCEPT !.aborted = @ \/ run \in Tracked(p)] \in Run
    BY <1>1 DEF Run
  <2> QED
    BY <1>1, <1>3, <2>1, BoundAssumption DEF Close, Upset, TypeOK
<1>4. ASSUME NEW p \in Process, Exit(p) PROVE TypeOK'
  BY <1>1, <1>2, <1>4 DEF Exit, TypeOK
<1>5. ASSUME NEW p \in Process, Crash(p) PROVE TypeOK'
  BY <1>1, <1>2, <1>5, BoundAssumption DEF Crash, Upset, TypeOK
<1>6. CASE Tick
  <2>1. ASSUME NEW row \in Row
        PROVE  [row EXCEPT !.lease = IF @ > 0 THEN @ - 1 ELSE 0, !.retry = IF @ > 0 THEN @ - 1 ELSE 0] \in Row
    <3>1. /\ (IF row.lease > 0 THEN row.lease - 1 ELSE 0) \in 0..LeaseTicks
          /\ (IF row.retry > 0 THEN row.retry - 1 ELSE 0) \in 0..LongestRetry
      BY BoundAssumption, RetryType DEF Row
    <3> QED
      BY <3>1 DEF Row
  <2> QED
    BY <1>1, <1>6, <2>1 DEF Tick, TypeOK
<1>7. CASE Purge
  <2>1. \A r \in Request : [req[r] EXCEPT !.owed = FALSE] \in Asked
    BY <1>1 DEF Asked
  <2> QED
    BY <1>1, <1>7, <2>1, BoundAssumption DEF Purge, Upset, TypeOK
<1> QED
  BY <1>3, <1>4, <1>5, <1>6, <1>7 DEF ProcessStep

LEMMA TypeStep == TypeOK /\ [Next]_vars => TypeOK'
<1>1. TypeOK /\ UNCHANGED vars => TypeOK'
  BY DEF vars, TypeOK
<1> QED
  BY <1>1, RequestTypeStep, RunTypeStep, OtherTypeStep DEF Next

\* The table, the runs and the requests keep their shape: in particular a request that is about to
\* claim has a row to claim, one that waits has a row to read, and no wait after a failure is
\* longer than the longest.
THEOREM TypesHold == Spec => []TypeOK
<1> QED
  BY InitType, TypeStep, PTL DEF Spec

-----------------------------------------------------------------------------
(* Claims *)

\* Runs come out of a step as they were but for their phase and what close() knows of them.
OnlyRunsBefore ==
    /\ \A a, b \in runs' : a.owner = b.owner => a = b
    /\ \A a \in runs' : \E run \in runs : a.owner = run.owner /\ a.snapshot = run.snapshot

\* Rows come out of a step held by whom they were held by, or by nobody.
OnlyHoldersBefore ==
    \A s \in Snapshot : rows'[s] # None =>
        /\ rows'[s].status = "indexing" <=> rows'[s].owner # None
        /\ rows'[s].owner # None => rows[s] # None /\ rows[s].owner = rows'[s].owner

LEMMA RunsKept ==
    ASSUME ClaimsAreExclusive,
           NEW after \in [runs -> Run],
           \A run \in runs : after[run].owner = run.owner /\ after[run].snapshot = run.snapshot,
           runs' \subseteq {after[run] : run \in runs}
    PROVE  OnlyRunsBefore
BY DEF OnlyRunsBefore, ClaimsAreExclusive

\* A step that takes nothing keeps the claims exclusive.
LEMMA NothingTaken ==
    ASSUME TypeOK, ClaimsAreExclusive, OnlyRunsBefore, OnlyHoldersBefore
    PROVE  ClaimsAreExclusive'
<1>1. ASSUME NEW s \in Snapshot, rows'[s] # None, NEW run \in runs', rows'[s].owner = run.owner
      PROVE  run.snapshot = s
  <2>1. PICK x \in runs : run.owner = x.owner /\ run.snapshot = x.snapshot
    BY DEF OnlyRunsBefore
  <2>2. x.owner # None
    BY CommitAssumption DEF TypeOK, Run
  <2>3. rows[s] # None /\ rows[s].owner = x.owner
    BY <1>1, <2>1, <2>2 DEF OnlyHoldersBefore
  <2> QED
    BY <2>1, <2>3 DEF ClaimsAreExclusive
<1>2. ASSUME NEW s \in Snapshot, rows'[s] # None, NEW z \in Snapshot \ {s},
             rows'[z] # None, rows'[z].owner = rows'[s].owner, rows'[s].owner # None
      PROVE  FALSE
  <2>1. /\ rows[s] # None /\ rows[s].owner = rows'[s].owner
        /\ rows[z] # None /\ rows[z].owner = rows'[z].owner
    BY <1>2 DEF OnlyHoldersBefore
  <2> QED
    BY <1>2, <2>1 DEF ClaimsAreExclusive
<1>3. \A s \in Snapshot : rows'[s] # None => (rows'[s].status = "indexing" <=> rows'[s].owner # None)
  BY DEF OnlyHoldersBefore
<1>4. \A a, b \in runs' : a.owner = b.owner => a = b
  BY DEF OnlyRunsBefore
<1> QED
  BY <1>1, <1>2, <1>3, <1>4 DEF ClaimsAreExclusive

\* Steps that leave the rows alone, and steps that leave the runs alone.
LEMMA SameRowsOrRuns ==
    ASSUME TypeOK, ClaimsAreExclusive
    PROVE  /\ rows' = rows => OnlyHoldersBefore
           /\ runs' = runs => OnlyRunsBefore
           /\ runs' \subseteq runs => OnlyRunsBefore
BY DEF ClaimsAreExclusive, OnlyHoldersBefore, OnlyRunsBefore

\* A claim with a token nobody knows of keeps the claims exclusive, whether the claimer hears of it
\* or not.
LEMMA ClaimKeepsExclusive ==
    ASSUME TypeOK, ClaimsAreExclusive, NEW r \in Request, NEW o \in Owner,
           Claim(r, o) \/ ClaimLost(r, o)
    PROVE  ClaimsAreExclusive'
<1> DEFINE s == req[r].snapshot
           p == AnsweredBy[r]
           new == [process |-> p, snapshot |-> s, owner |-> o, phase |-> "building",
                   tracked |-> TRUE, aborted |-> FALSE]
<1>1. /\ rows \in [Snapshot -> Row \union {None}]
      /\ runs \subseteq Run
      /\ s \in Snapshot
      /\ rows[s] \in Row
      /\ o # None
  BY CommitAssumption DEF TypeOK, Claim, ClaimLost, Claimable, Asked
<1>2. rows' = [rows EXCEPT ![s] = ClaimedBy(s, o)]
  BY DEF Claim, ClaimLost
<1>3. ClaimedBy(s, o).owner = o /\ ClaimedBy(s, o).status = "indexing"
  BY <1>1 DEF ClaimedBy, Row
<1>4. /\ \A run \in runs : run.owner # o
      /\ \A z \in Snapshot : rows[z] # None => rows[z].owner # o
  BY DEF Claim, ClaimLost, FreshOwner
<1>5. \E after \in [runs -> Run] :
        /\ \A run \in runs : after[run].owner = run.owner /\ after[run].snapshot = run.snapshot
        /\ runs' \subseteq {after[run] : run \in runs} \union {new}
  <2>1. CASE Claim(r, o)
    <3> DEFINE later(run) == [run EXCEPT !.tracked = @ /\ ~(run.process = p /\ run.snapshot = s)]
               after == [run \in runs |-> later(run)]
    <3>0. \A run \in runs :
            /\ later(run) \in Run
            /\ later(run).owner = run.owner /\ later(run).snapshot = run.snapshot
      BY <1>1 DEF Run
    <3>1. /\ after \in [runs -> Run]
          /\ \A run \in runs : after[run].owner = run.owner /\ after[run].snapshot = run.snapshot
      <4> HIDE DEF later
      <4> QED
        BY <3>0
    <3>2. runs' = {[run EXCEPT !.tracked = @ /\ ~(run.process = p /\ run.snapshot = s)] : run \in runs}
                  \union {new}
      BY <2>1 DEF Claim
    <3>3. runs' \subseteq {after[run] : run \in runs} \union {new}
      BY <3>2
    <3> QED
      BY <3>1, <3>3
  <2>2. CASE ClaimLost(r, o)
    <3> DEFINE after == [run \in runs |-> run]
    <3>1. /\ after \in [runs -> Run]
          /\ \A run \in runs : after[run].owner = run.owner /\ after[run].snapshot = run.snapshot
          /\ runs' \subseteq {after[run] : run \in runs}
      BY <1>1, <2>2 DEF ClaimLost
    <3> QED
      BY <3>1
  <2> QED
    BY <2>1, <2>2
<1>6. PICK after \in [runs -> Run] :
        /\ \A run \in runs : after[run].owner = run.owner /\ after[run].snapshot = run.snapshot
        /\ runs' \subseteq {after[run] : run \in runs} \union {new}
  BY <1>5
<1> HIDE DEF s
<1>7. ASSUME NEW a \in runs', NEW b \in runs', a.owner = b.owner
      PROVE  a = b
  <2>1. new.owner = o
    OBVIOUS
  <2>2. (a = new \/ \E x \in runs : a = after[x]) /\ (b = new \/ \E y \in runs : b = after[y])
    BY <1>6
  <2> HIDE DEF new
  <2>3. CASE a = new /\ b = new
    BY <2>3
  <2>4. ASSUME NEW x \in runs, a = after[x] PROVE a = b
    BY <1>4, <1>6, <1>7, <2>1, <2>2, <2>4 DEF ClaimsAreExclusive
  <2>5. ASSUME NEW y \in runs, b = after[y] PROVE a = b
    BY <1>4, <1>6, <1>7, <2>1, <2>2, <2>5 DEF ClaimsAreExclusive
  <2> QED
    BY <2>2, <2>3, <2>4, <2>5
<1>8. ASSUME NEW z \in Snapshot, rows'[z] # None
      PROVE  /\ rows'[z].status = "indexing" <=> rows'[z].owner # None
             /\ \A run \in runs' : rows'[z].owner = run.owner => run.snapshot = z
             /\ \A y \in Snapshot \ {z} :
                   rows'[y] # None /\ rows'[y].owner = rows'[z].owner => rows'[z].owner = None
  <2>1. rows'[s] = ClaimedBy(s, o) /\ \A y \in Snapshot \ {s} : rows'[y] = rows[y]
    BY <1>1, <1>2
  <2>2. CASE z = s
    BY <1>1, <1>3, <1>4, <1>6, <2>1, <2>2
  <2>3. CASE z # s
    BY <1>1, <1>3, <1>4, <1>6, <1>8, <2>1, <2>3 DEF ClaimsAreExclusive
  <2> QED
    BY <2>2, <2>3
<1> QED
  BY <1>7, <1>8 DEF ClaimsAreExclusive

\* A run that ends, or comes to its next phase, leaves the others their tokens.
LEMMA EndedKeepsRuns ==
    ASSUME TypeOK, ClaimsAreExclusive, NEW run \in runs, runs' = Ended(run)
    PROVE  OnlyRunsBefore
<1> DEFINE later(other) == [other EXCEPT !.tracked =
                               @ /\ ~(other.process = run.process /\ other.snapshot = run.snapshot)]
           after == [other \in runs |-> later(other)]
<1>1. \A other \in runs :
        /\ later(other) \in Run
        /\ later(other).owner = other.owner /\ later(other).snapshot = other.snapshot
  BY DEF TypeOK, Run
<1>2. runs' = {later(other) : other \in runs \ {run}}
  BY DEF Ended
<1> HIDE DEF later
<1>3. after \in [runs -> Run] /\ \A other \in runs : after[other] = later(other)
  BY <1>1
<1> HIDE DEF after
<1> QED
  BY <1>1, <1>2, <1>3, RunsKept

LEMMA InPhaseKeepsRuns ==
    ASSUME TypeOK, ClaimsAreExclusive, NEW run \in runs,
           NEW phase \in {"building", "built", "failing", "releasing"}, runs' = InPhase(run, phase)
    PROVE  OnlyRunsBefore
<1> DEFINE after == [other \in runs |->
                        IF other = run THEN [run EXCEPT !.phase = phase] ELSE other]
<1>1. \A other \in runs :
        /\ after[other] \in Run
        /\ after[other].owner = other.owner /\ after[other].snapshot = other.snapshot
  BY DEF TypeOK, Run
<1>2. after \in [runs -> Run]
  BY <1>1
<1>3. runs' \subseteq {after[other] : other \in runs}
  BY DEF InPhase
<1> HIDE DEF after
<1> QED
  BY <1>1, <1>2, <1>3, RunsKept

\* What a run does to a row it holds leaves every row with its holder, or with nobody.
LEMMA HeldRowKeepsHolders ==
    ASSUME TypeOK, ClaimsAreExclusive, NEW s \in Snapshot, NEW row, rows[s] # None,
           rows' = [rows EXCEPT ![s] = row],
           \/ row.status = "indexing" /\ row.owner = rows[s].owner /\ rows[s].owner # None
           \/ row.status # "indexing" /\ row.owner = None
    PROVE  OnlyHoldersBefore
<1>1. rows'[s] = row /\ \A z \in Snapshot \ {s} : rows'[z] = rows[z]
  BY DEF TypeOK
<1>2. ASSUME NEW z \in Snapshot, rows'[z] # None
      PROVE  /\ rows'[z].status = "indexing" <=> rows'[z].owner # None
             /\ rows'[z].owner # None => rows[z] # None /\ rows[z].owner = rows'[z].owner
  <2>1. CASE z = s
    BY <1>1, <2>1
  <2>2. CASE z # s
    BY <1>1, <1>2, <2>2 DEF ClaimsAreExclusive
  <2> QED
    BY <2>1, <2>2
<1> QED
  BY <1>2 DEF OnlyHoldersBefore

\* Every step but a claim takes nothing.
LEMMA RequestTakesNothing ==
    ASSUME TypeOK, ClaimsAreExclusive, NEW r \in Request, RequestStep(r),
           ~ \E o \in Owner : Claim(r, o) \/ ClaimLost(r, o)
    PROVE  OnlyRunsBefore /\ OnlyHoldersBefore
<1>1. CASE Ask(r)
  BY <1>1, SameRowsOrRuns DEF Ask
<1>2. CASE AskHeld(r)
  BY <1>2, SameRowsOrRuns DEF AskHeld
<1>3. CASE Insert(r)
  <2>1. CASE rows' = rows
    BY <1>3, <2>1, SameRowsOrRuns DEF Insert
  <2>2. ASSUME NEW c \in Commit, NEW s \in Snapshot, rows' = [rows EXCEPT ![s] = NewRow(c)]
        PROVE  OnlyHoldersBefore
    <3>1. rows'[s] = NewRow(c) /\ \A z \in Snapshot \ {s} : rows'[z] = rows[z]
      BY <2>2 DEF TypeOK
    <3>2. NewRow(c).status = "pending" /\ NewRow(c).owner = None
      BY DEF NewRow
    <3> QED
      BY <3>1, <3>2 DEF OnlyHoldersBefore, ClaimsAreExclusive
  <2>3. req[r].commit \in Commit
    BY DEF TypeOK, Asked
  <2> QED
    BY <1>3, <2>1, <2>2, <2>3, SameRowsOrRuns DEF Insert
<1>4. CASE ReadRow(r)
  BY <1>4, SameRowsOrRuns DEF ReadRow
<1>5. CASE SendBack(r)
  <2>1. CASE rows' = rows
    BY <1>5, <2>1, SameRowsOrRuns DEF SendBack
  <2>2. ASSUME NEW s \in RowsOf(req[r].commit), Outdated(AnsweredBy[r], s),
               rows' = [rows EXCEPT ![s] = SentBack(s)]
        PROVE  OnlyHoldersBefore
    <3>1. s \in Snapshot /\ rows[s] # None /\ rows[s] \in Row /\ rows[s].status = "ready"
      BY <2>2 DEF RowsOf, TypeOK, Outdated
    <3>2. rows[s].owner = None
      BY <3>1 DEF ClaimsAreExclusive
    <3>3. SentBack(s).status = "pending" /\ SentBack(s).owner = None
      BY <3>1, <3>2 DEF SentBack, Row
    <3> QED
      BY <2>2, <3>1, <3>3, HeldRowKeepsHolders
  <2>3. runs' = runs
    BY <1>5 DEF SendBack
  <2>4. OnlyHoldersBefore
    BY <1>5, <2>1, <2>2, SameRowsOrRuns DEF SendBack
  <2> QED
    BY <2>3, <2>4, SameRowsOrRuns
<1>6. CASE ClaimRefused(r)
  BY <1>6, SameRowsOrRuns DEF ClaimRefused
<1>7. CASE Poll(r)
  BY <1>7, SameRowsOrRuns DEF Poll
<1>8. CASE BudgetEnds(r)
  BY <1>8, SameRowsOrRuns DEF BudgetEnds
<1>9. CASE Done(r)
  BY <1>9, SameRowsOrRuns DEF Done
<1> QED
  BY <1>1, <1>2, <1>3, <1>4, <1>5, <1>6, <1>7, <1>8, <1>9 DEF RequestStep

LEMMA RunTakesNothing ==
    ASSUME TypeOK, ClaimsAreExclusive, NEW run \in runs, RunStep(run)
    PROVE  OnlyRunsBefore /\ OnlyHoldersBefore
<1> DEFINE s == run.snapshot
<1>1. run \in Run /\ s \in Snapshot /\ run.owner # None
  BY CommitAssumption DEF TypeOK, Run
<1>2. Held(run) => rows[s] # None /\ rows[s] \in Row /\ rows[s].owner # None
  BY <1>1 DEF Held, TypeOK
<1>3. Held(run) /\ rows' = [rows EXCEPT ![s] = WrittenBy(run)] => OnlyHoldersBefore
  <2>1. Held(run) => WrittenBy(run).status = "ready" /\ WrittenBy(run).owner = None
    BY <1>2 DEF WrittenBy, Row
  <2> QED
    BY <1>1, <1>2, <2>1, HeldRowKeepsHolders
<1>4. CASE Renew(run)
  <2>1. [rows[s] EXCEPT !.lease = LeaseTicks].status = "indexing"
        /\ [rows[s] EXCEPT !.lease = LeaseTicks].owner = rows[s].owner
    BY <1>2, <1>4 DEF Renew, Held, Row
  <2>2. rows' = [rows EXCEPT ![s] = [rows[s] EXCEPT !.lease = LeaseTicks]]
    BY <1>4 DEF Renew
  <2>3. OnlyHoldersBefore
    BY <1>1, <1>2, <1>4, <2>1, <2>2, HeldRowKeepsHolders DEF Renew
  <2> QED
    BY <1>4, <2>3, SameRowsOrRuns DEF Renew
<1>5. CASE Built(run)
  BY <1>5, InPhaseKeepsRuns, SameRowsOrRuns DEF Built
<1>6. CASE BuildFails(run)
  BY <1>6, InPhaseKeepsRuns, SameRowsOrRuns DEF BuildFails
<1>7. CASE Write(run)
  BY <1>3, <1>7, EndedKeepsRuns, SameRowsOrRuns DEF Write
<1>8. CASE WriteFails(run)
  BY <1>3, <1>8, InPhaseKeepsRuns, SameRowsOrRuns DEF WriteFails
<1>9. CASE Release(run)
  <2> DEFINE row == [rows[s] EXCEPT !.status = "pending", !.owner = None, !.lease = 0]
  <2>1. rows' = rows \/ (Held(run) /\ rows' = [rows EXCEPT ![s] = row])
    BY <1>9 DEF Release
  <2>2. Held(run) => row.status = "pending" /\ row.owner = None
    BY <1>2 DEF Row
  <2> HIDE DEF row
  <2>3. OnlyHoldersBefore
    BY <1>1, <1>2, <2>1, <2>2, SameRowsOrRuns, HeldRowKeepsHolders
  <2> QED
    BY <1>9, <2>3, EndedKeepsRuns DEF Release
<1>10. CASE Fail(run)
  <2> DEFINE row(wait) == [rows[s] EXCEPT !.status = "failed", !.owner = None, !.lease = 0,
                                          !.retry = wait]
  <2>1. rows' = rows \/ \E wait : Held(run) /\ rows' = [rows EXCEPT ![s] = row(wait)]
    BY <1>10 DEF Fail
  <2>2. \A wait : Held(run) => row(wait).status = "failed" /\ row(wait).owner = None
    BY <1>2 DEF Row
  <2> HIDE DEF row
  <2>3. OnlyHoldersBefore
    BY <1>1, <1>2, <2>1, <2>2, SameRowsOrRuns, HeldRowKeepsHolders
  <2> QED
    BY <1>10, <2>3, EndedKeepsRuns DEF Fail
<1>11. CASE EndLost(run)
  BY <1>11, EndedKeepsRuns, SameRowsOrRuns DEF EndLost
<1> QED
  BY <1>4, <1>5, <1>6, <1>7, <1>8, <1>9, <1>10, <1>11 DEF RunStep

LEMMA OtherTakesNothing ==
    ASSUME TypeOK, ClaimsAreExclusive, (\E p \in Process : ProcessStep(p)) \/ Tick \/ Purge
    PROVE  OnlyRunsBefore /\ OnlyHoldersBefore
<1>1. ASSUME NEW p \in Process, Close(p) PROVE OnlyRunsBefore /\ OnlyHoldersBefore
  <2> DEFINE later(run) == [run EXCEPT !.aborted = @ \/ run \in Tracked(p)]
             after == [run \in runs |-> later(run)]
  <2>1. \A run \in runs :
          later(run) \in Run /\ later(run).owner = run.owner /\ later(run).snapshot = run.snapshot
    BY DEF TypeOK, Run
  <2>2. runs' = {later(run) : run \in runs}
    BY <1>1 DEF Close
  <2> HIDE DEF later
  <2>3. after \in [runs -> Run] /\ \A run \in runs : after[run] = later(run)
    BY <2>1
  <2> HIDE DEF after
  <2>4. OnlyRunsBefore
    BY <2>1, <2>2, <2>3, RunsKept
  <2> QED
    BY <1>1, <2>4, SameRowsOrRuns DEF Close
<1>2. ASSUME NEW p \in Process, Exit(p) \/ Crash(p) PROVE OnlyRunsBefore /\ OnlyHoldersBefore
  BY <1>2, SameRowsOrRuns DEF Exit, Crash, Gone
<1>3. CASE Tick
  <2> DEFINE later(row) == [row EXCEPT !.lease = IF @ > 0 THEN @ - 1 ELSE 0,
                                       !.retry = IF @ > 0 THEN @ - 1 ELSE 0]
  <2>1. \A row \in Row : later(row).status = row.status /\ later(row).owner = row.owner
    BY DEF Row
  <2>2. \A s \in Snapshot : rows'[s] = IF rows[s] = None THEN None ELSE later(rows[s])
    BY <1>3 DEF Tick
  <2> HIDE DEF later
  <2>3. OnlyHoldersBefore
    BY <2>1, <2>2 DEF OnlyHoldersBefore, ClaimsAreExclusive, TypeOK
  <2> QED
    BY <1>3, <2>3, SameRowsOrRuns DEF Tick
<1>4. CASE Purge
  BY <1>4, SameRowsOrRuns DEF Purge, OnlyHoldersBefore
<1> QED
  BY <1>1, <1>2, <1>3, <1>4 DEF ProcessStep

LEMMA ExclusiveStep == TypeOK /\ ClaimsAreExclusive /\ [Next]_vars => ClaimsAreExclusive'
<1> SUFFICES ASSUME TypeOK, ClaimsAreExclusive, [Next]_vars
             PROVE  ClaimsAreExclusive'
  OBVIOUS
<1>1. CASE UNCHANGED vars
  BY <1>1 DEF vars, ClaimsAreExclusive
<1>2. ASSUME NEW r \in Request, RequestStep(r) PROVE ClaimsAreExclusive'
  BY <1>2, ClaimKeepsExclusive, RequestTakesNothing, NothingTaken
<1>3. ASSUME NEW run \in runs, RunStep(run) PROVE ClaimsAreExclusive'
  BY <1>3, RunTakesNothing, NothingTaken
<1>4. CASE (\E p \in Process : ProcessStep(p)) \/ Tick \/ Purge
  BY <1>4, OtherTakesNothing, NothingTaken
<1> QED
  BY <1>1, <1>2, <1>3, <1>4 DEF Next

\* The fence of heldBy: whatever crashes, pauses, purges and lost calls there are, a token names one
\* run and one row, so that what a run does with its token touches nothing of its successor's.
THEOREM ExclusiveClaims == Spec => []ClaimsAreExclusive
<1>1. Init => ClaimsAreExclusive
  BY DEF Init, ClaimsAreExclusive
<1> QED
  BY <1>1, ExclusiveStep, TypesHold, PTL DEF Spec

-----------------------------------------------------------------------------
(* Rows at rest *)

\* Only a row that is being indexed has a lease, and only one that failed has a wait.
AtRest(row) ==
    /\ row.status # "indexing" => row.lease = 0
    /\ row.status # "failed" => row.retry = 0

RowsAtRest == \A s \in Snapshot : rows[s] # None => AtRest(rows[s])

\* The rows as a step leaves them: each as it was, or one of them changed to one at rest.
LEMMA OneRowAtRest ==
    ASSUME TypeOK, RowsAtRest, NEW s \in Snapshot, NEW row, AtRest(row),
           rows' = rows \/ rows' = [rows EXCEPT ![s] = row]
    PROVE  RowsAtRest'
BY DEF TypeOK, RowsAtRest

LEMMA RequestAtRest ==
    ASSUME TypeOK, RowsAtRest, NEW r \in Request, RequestStep(r)
    PROVE  RowsAtRest'
<1>1. CASE rows' = rows
  BY <1>1 DEF RowsAtRest
<1>2. CASE Insert(r)
  <2>1. \A c \in Commit : AtRest(NewRow(c))
    BY DEF AtRest, NewRow
  <2>2. req[r].commit \in Commit
    BY DEF TypeOK, Asked
  <2> QED
    BY <1>1, <1>2, <2>1, <2>2, OneRowAtRest DEF Insert
<1>3. CASE SendBack(r)
  <2>1. ASSUME NEW s \in RowsOf(req[r].commit), rows' = [rows EXCEPT ![s] = SentBack(s)]
        PROVE  RowsAtRest'
    <3>1. s \in Snapshot /\ rows[s] \in Row
      BY DEF RowsOf, TypeOK
    <3>2. AtRest(SentBack(s))
      BY <3>1 DEF SentBack, AtRest, Row
    <3> QED
      BY <2>1, <3>1, <3>2, OneRowAtRest
  <2> QED
    BY <1>1, <1>3, <2>1 DEF SendBack
<1>4. ASSUME NEW o \in Owner, Claim(r, o) \/ ClaimLost(r, o) PROVE RowsAtRest'
  <2> DEFINE s == req[r].snapshot
  <2>1. s \in Snapshot /\ rows[s] \in Row /\ rows' = [rows EXCEPT ![s] = ClaimedBy(s, o)]
    BY <1>4, CommitAssumption DEF Claim, ClaimLost, Claimable, TypeOK, Asked
  <2>2. AtRest(ClaimedBy(s, o))
    BY <2>1 DEF ClaimedBy, AtRest, Row
  <2> QED
    BY <2>1, <2>2, OneRowAtRest
<1> QED
  BY <1>1, <1>2, <1>3, <1>4
     DEF RequestStep, Ask, AskHeld, ReadRow, ClaimRefused, Poll, BudgetEnds, Done

\* A failure is recorded in the row that is still held, with a wait no longer than the longest.
LEMMA FailRow ==
    ASSUME TypeOK, NEW run \in runs, Fail(run)
    PROVE  \E wait \in 0..LongestRetry :
             rows' = IF Held(run)
                     THEN [rows EXCEPT ![run.snapshot] =
                             [rows[run.snapshot] EXCEPT !.status = "failed", !.owner = None,
                                                        !.lease = 0, !.retry = wait]]
                     ELSE rows
<1> DEFINE s == run.snapshot
<1>1. AttemptsSeen(run) \subseteq Int
  BY BoundAssumption DEF AttemptsSeen, Row, TypeOK, Run
<1>2. PICK n \in AttemptsSeen(run), hinted \in {0, HintedRetry} :
        LET wait == IF hinted > Backoff(n) THEN hinted ELSE Backoff(n) IN
        rows' = IF Held(run)
                THEN [rows EXCEPT ![s].status = "failed", ![s].owner = None,
                                  ![s].lease = 0, ![s].retry = wait]
                ELSE rows
  BY DEF Fail
<1> DEFINE wait == IF hinted > Backoff(n) THEN hinted ELSE Backoff(n)
           failed == [rows[s] EXCEPT !.status = "failed", !.owner = None, !.lease = 0, !.retry = wait]
<1>3. wait \in 0..LongestRetry
  BY <1>1, RetryType, NothingLeft
<1>4. rows' = IF Held(run) THEN [rows EXCEPT ![s] = failed] ELSE rows
  BY <1>2
<1> HIDE DEF wait
<1> QED
  BY <1>3, <1>4

\* What a run leaves of the row it holds.
RowAfter(run, row) ==
    /\ Held(run)
    /\ \/ row = [rows[run.snapshot] EXCEPT !.lease = LeaseTicks]
       \/ row = WrittenBy(run)
       \/ row = [rows[run.snapshot] EXCEPT !.status = "pending", !.owner = None, !.lease = 0]
       \/ \E wait \in 0..LongestRetry :
            row = [rows[run.snapshot] EXCEPT !.status = "failed", !.owner = None, !.lease = 0,
                                             !.retry = wait]

\* A run changes the row it holds, if any, and no other.
LEMMA RunRow ==
    ASSUME TypeOK, NEW run \in runs, RunStep(run)
    PROVE  rows' = rows \/ \E row : RowAfter(run, row) /\ rows' = [rows EXCEPT ![run.snapshot] = row]
<1> DEFINE s == run.snapshot
<1>1. run \in Run /\ s \in Snapshot
  BY DEF TypeOK, Run
<1>2. ASSUME NEW row, Held(run), rows' = [rows EXCEPT ![s] = row],
             \/ row = [rows[s] EXCEPT !.lease = LeaseTicks]
             \/ row = WrittenBy(run)
             \/ row = [rows[s] EXCEPT !.status = "pending", !.owner = None, !.lease = 0]
      PROVE  \E new : RowAfter(run, new) /\ rows' = [rows EXCEPT ![s] = new]
  BY <1>2 DEF RowAfter
<1>3. CASE Renew(run)
  BY <1>2, <1>3 DEF Renew
<1>4. CASE Write(run) \/ WriteFails(run)
  BY <1>2, <1>4 DEF Write, WriteFails
<1>5. CASE Release(run)
  BY <1>2, <1>5 DEF Release
<1>6. CASE Fail(run)
  BY <1>6, FailRow DEF RowAfter
<1> QED
  BY <1>3, <1>4, <1>5, <1>6 DEF RunStep, Built, BuildFails, EndLost

LEMMA RunAtRest ==
    ASSUME TypeOK, RowsAtRest, NEW run \in runs, RunStep(run)
    PROVE  RowsAtRest'
<1> DEFINE s == run.snapshot
<1>1. s \in Snapshot /\ (Held(run) => rows[s] # None /\ rows[s] \in Row /\ rows[s].status = "indexing")
  BY DEF TypeOK, Run, Held
<1>2. ASSUME NEW row, RowAfter(run, row) PROVE AtRest(row)
  BY <1>1, <1>2 DEF RowAfter, RowsAtRest, AtRest, WrittenBy, Row
<1> QED
  BY <1>1, <1>2, RunRow, OneRowAtRest DEF RowsAtRest

LEMMA OtherAtRest ==
    ASSUME TypeOK, RowsAtRest, (\E p \in Process : ProcessStep(p)) \/ Tick \/ Purge
    PROVE  RowsAtRest'
<1>1. CASE Tick
  <2> DEFINE later(row) == [row EXCEPT !.lease = IF @ > 0 THEN @ - 1 ELSE 0,
                                       !.retry = IF @ > 0 THEN @ - 1 ELSE 0]
  <2>1. \A row \in Row : AtRest(row) => AtRest(later(row))
    BY DEF Row, AtRest
  <2>2. \A s \in Snapshot : rows'[s] = IF rows[s] = None THEN None ELSE later(rows[s])
    BY <1>1 DEF Tick
  <2> HIDE DEF later
  <2> QED
    BY <2>1, <2>2 DEF RowsAtRest, TypeOK
<1>2. CASE Purge
  BY <1>2 DEF Purge, RowsAtRest
<1> QED
  BY <1>1, <1>2 DEF ProcessStep, Close, Exit, Crash, Gone, RowsAtRest

LEMMA AlwaysAtRest == Spec => []RowsAtRest
<1>1. Init => RowsAtRest
  BY DEF Init, RowsAtRest
<1>2. TypeOK /\ RowsAtRest /\ [Next]_vars => RowsAtRest'
  <2>1. RowsAtRest /\ UNCHANGED vars => RowsAtRest'
    BY DEF vars, RowsAtRest
  <2> QED
    BY <2>1, RequestAtRest, RunAtRest, OtherAtRest DEF Next
<1> QED
  BY <1>1, <1>2, TypesHold, PTL DEF Spec

-----------------------------------------------------------------------------
(* An index is not undone *)

NotUndone ==
    \A s \in Snapshot :
      rows[s] # None /\ rows[s].status = "ready" =>
        \/ rows'[s] = rows[s]
        \/ \A z \in Snapshot : rows'[z] = None
        \/ /\ rows'[s] = [rows[s] EXCEPT !.status = "pending", !.lease = 0, !.retry = 0]
           /\ \E p \in Process : IndexVersion[p] > rows[s].version

\* A request undoes an index only by sending it back, which takes a process with newer rules.
LEMMA RequestUndoesNothing ==
    ASSUME TypeOK, NEW r \in Request, RequestStep(r)
    PROVE  NotUndone
<1>1. CASE rows' = rows
  BY <1>1 DEF NotUndone
<1>2. CASE Insert(r)
  BY <1>1, <1>2 DEF Insert, FreshSnapshot, NotUndone, TypeOK
<1>3. CASE SendBack(r)
  <2>1. ASSUME NEW s \in RowsOf(req[r].commit), Outdated(AnsweredBy[r], s),
               rows' = [rows EXCEPT ![s] = SentBack(s)]
        PROVE  NotUndone
    <3>1. /\ s \in Snapshot /\ rows[s] \in Row
          /\ AnsweredBy[r] \in Process
          /\ IndexVersion[AnsweredBy[r]] \in Int
          /\ rows[s].version \in Int
      BY CommitAssumption, VersionAssumption DEF RowsOf, TypeOK, Row, Version
    <3>2. IndexVersion[AnsweredBy[r]] > rows[s].version
      BY <2>1, <3>1 DEF Outdated
    <3>3. \A z \in Snapshot : rows'[z] = IF z = s THEN SentBack(s) ELSE rows[z]
      BY <2>1 DEF TypeOK
    <3> QED
      BY <3>1, <3>2, <3>3 DEF NotUndone, SentBack
  <2> QED
    BY <1>1, <1>3, <2>1 DEF SendBack
<1>4. ASSUME NEW o \in Owner, Claim(r, o) \/ ClaimLost(r, o) PROVE NotUndone
  <2> DEFINE s == req[r].snapshot
  <2>1. rows[s].status # "ready" /\ rows' = [rows EXCEPT ![s] = ClaimedBy(s, o)]
    BY <1>4 DEF Claim, ClaimLost, Claimable
  <2> QED
    BY <2>1 DEF NotUndone, TypeOK
<1> QED
  BY <1>1, <1>2, <1>3, <1>4
     DEF RequestStep, Ask, AskHeld, ReadRow, ClaimRefused, Poll, BudgetEnds, Done

\* A run undoes nothing: the row it may change is one that is being indexed.
LEMMA RunUndoesNothing ==
    ASSUME TypeOK, NEW run \in runs, RunStep(run)
    PROVE  NotUndone
<1>1. Held(run) => rows[run.snapshot].status # "ready"
  BY DEF Held
<1> QED
  BY <1>1, RunRow DEF NotUndone, RowAfter, TypeOK

\* The clock does not touch an index: it has neither a lease nor a wait.
LEMMA TickUndoesNothing ==
    ASSUME TypeOK, RowsAtRest, Tick
    PROVE  NotUndone
<1> DEFINE later(row) == [row EXCEPT !.lease = IF @ > 0 THEN @ - 1 ELSE 0,
                                     !.retry = IF @ > 0 THEN @ - 1 ELSE 0]
<1>1. ASSUME NEW row \in Row, row.lease = 0, row.retry = 0 PROVE later(row) = row
  <2>1. later(row) = [row EXCEPT !.lease = 0, !.retry = 0]
    BY <1>1
  <2> QED
    BY <1>1, <2>1 DEF Row
<1>2. \A s \in Snapshot : rows'[s] = IF rows[s] = None THEN None ELSE later(rows[s])
  BY DEF Tick
<1>3. \A s \in Snapshot : rows[s] # None /\ rows[s].status = "ready" =>
        rows[s] \in Row /\ rows[s].lease = 0 /\ rows[s].retry = 0
  BY DEF TypeOK, RowsAtRest, AtRest
<1> HIDE DEF later
<1> QED
  BY <1>1, <1>2, <1>3 DEF NotUndone

LEMMA UndoesNothing == TypeOK /\ RowsAtRest /\ [Next]_vars => [NotUndone]_vars
<1>1. ASSUME NEW p \in Process, ProcessStep(p) PROVE NotUndone
  BY <1>1 DEF ProcessStep, Close, Exit, Crash, Gone, NotUndone
<1>2. Purge => NotUndone
  BY DEF Purge, NotUndone
<1> QED
  BY <1>1, <1>2, RequestUndoesNothing, RunUndoesNothing, TickUndoesNothing DEF Next

\* An index that was written goes away only with its repository or for newer rules: no run, however
\* late, and no clock takes it away.
THEOREM NotUndoneHolds == Spec => IndexIsNotUndone
<1> QED
  BY UndoesNothing, TypesHold, AlwaysAtRest, PTL DEF Spec, IndexIsNotUndone, NotUndone

-----------------------------------------------------------------------------
(* Versions only rise, as long as two builds run at once *)

\* A row has a version once its index was written; what is sent back was outdated for some process.
IndexesAreNewest ==
    \A s \in Snapshot : rows[s] # None =>
        /\ rows[s].status = "ready" => rows[s].version > 0
        /\ rows[s].status # "ready" /\ rows[s].version > 0 =>
              \E p \in Process : IndexVersion[p] > rows[s].version

\* What a step leaves of a row that stays.
Rises(old, new) == new # None /\ new.commit = old.commit /\ new.version >= old.version
VersionsRise == \A s \in Snapshot : rows[s] # None => Rises(rows[s], rows'[s])

LEMMA VersionType ==
    /\ Version \subseteq Nat
    /\ \A row \in Row : row.version \in Nat /\ row # None
BY VersionAssumption, RowAssumption DEF Version, Row

\* One row changes: to one that says no less.
LEMMA OneRowRises ==
    ASSUME TypeOK, NEW s \in Snapshot, rows[s] # None, NEW row, Rises(rows[s], row),
           rows' = [rows EXCEPT ![s] = row]
    PROVE  VersionsRise
<1>1. \A z \in Snapshot : rows[z] # None => rows[z] \in Row /\ rows[z].version \in Nat
  BY VersionType DEF TypeOK
<1> QED
  BY <1>1 DEF VersionsRise, Rises, TypeOK

LEMMA SameRowsRise == TypeOK /\ rows' = rows => VersionsRise
<1> SUFFICES ASSUME TypeOK, rows' = rows PROVE VersionsRise
  OBVIOUS
<1>1. \A z \in Snapshot : rows[z] # None => rows[z] \in Row /\ rows[z].version \in Nat
  BY VersionType DEF TypeOK
<1> QED
  BY <1>1 DEF VersionsRise, Rises

\* A request makes a row, sends one back or claims one: the version stays.
LEMMA RequestRises ==
    ASSUME TypeOK, NEW r \in Request, RequestStep(r)
    PROVE  VersionsRise
<1>0. \A z \in Snapshot : rows[z] # None => rows[z] \in Row /\ rows[z].version \in Nat
  BY VersionType DEF TypeOK
<1>1. CASE rows' = rows
  BY <1>1, SameRowsRise
<1>2. CASE Insert(r)
  <2>1. ASSUME NEW s \in Snapshot, rows[s] = None, rows' = [rows EXCEPT ![s] = NewRow(req[r].commit)]
        PROVE  VersionsRise
    BY <1>0, <2>1 DEF VersionsRise, Rises, TypeOK
  <2> QED
    BY <1>1, <1>2, <2>1 DEF Insert, FreshSnapshot
<1>3. CASE SendBack(r)
  <2>1. ASSUME NEW s \in RowsOf(req[r].commit), rows' = [rows EXCEPT ![s] = SentBack(s)]
        PROVE  VersionsRise
    <3>1. s \in Snapshot /\ rows[s] # None
      BY DEF RowsOf
    <3>2. SentBack(s) \in Row
      BY <1>0, <3>1, NothingLeft DEF SentBack, Row, Status
    <3>3. SentBack(s).commit = rows[s].commit /\ SentBack(s).version = rows[s].version
      BY <1>0, <3>1 DEF SentBack, Row
    <3>4. Rises(rows[s], SentBack(s))
      BY <1>0, <3>1, <3>2, <3>3, VersionType DEF Rises
    <3> QED
      BY <2>1, <3>1, <3>4, OneRowRises
  <2> QED
    BY <1>1, <1>3, <2>1 DEF SendBack
<1>4. ASSUME NEW o \in Owner, Claim(r, o) \/ ClaimLost(r, o) PROVE VersionsRise
  <2> DEFINE s == req[r].snapshot
  <2>1. s \in Snapshot /\ rows[s] # None /\ rows' = [rows EXCEPT ![s] = ClaimedBy(s, o)]
    BY <1>4, CommitAssumption DEF Claim, ClaimLost, Claimable, TypeOK, Asked
  <2>2. ClaimedBy(s, o) # None
    BY <1>0, <2>1, ClaimedType, VersionType
  <2>3. Rises(rows[s], ClaimedBy(s, o))
    BY <1>0, <2>1, <2>2 DEF Rises, ClaimedBy, Row
  <2> QED
    BY <2>1, <2>3, OneRowRises
<1> QED
  BY <1>1, <1>2, <1>3, <1>4
     DEF RequestStep, Ask, AskHeld, ReadRow, ClaimRefused, Poll, BudgetEnds, Done

\* What a run leaves of its row is a row.
LEMMA RowAfterType ==
    ASSUME TypeOK, NEW run \in runs, NEW row, RowAfter(run, row)
    PROVE  row \in Row
<1> DEFINE s == run.snapshot
<1>1. rows[s] \in Row /\ run.process \in Process
  BY DEF RowAfter, Held, TypeOK, Run
<1>2. LeaseTicks \in 0..LeaseTicks /\ IndexVersion[run.process] \in Version
  BY <1>1, BoundAssumption DEF Version
<1> QED
  BY <1>1, <1>2, NothingLeft DEF RowAfter, WrittenBy, Row, Status

\* A run writes over an index only when some build is newer than the index; with two builds its own
\* is then no older.
LEMMA RunRises ==
    ASSUME TwoBuilds, TypeOK, IndexesAreNewest, NEW run \in runs, RunStep(run)
    PROVE  VersionsRise
<1> DEFINE s == run.snapshot
<1>1. run \in Run /\ s \in Snapshot /\ run.process \in Process
  BY DEF TypeOK, Run
<1>2. ASSUME NEW row, RowAfter(run, row) PROVE Rises(rows[s], row)
  <2>1. rows[s] # None /\ rows[s] \in Row /\ rows[s].status = "indexing" /\ rows[s].version \in Nat
    BY <1>1, <1>2, VersionType DEF RowAfter, Held, TypeOK
  <2>2. IndexVersion[run.process] >= rows[s].version
    <3>1. CASE rows[s].version = 0
      BY <1>1, <3>1, VersionAssumption
    <3>2. CASE rows[s].version > 0
      <4>1. PICK q \in Process : IndexVersion[q] > rows[s].version
        BY <1>1, <2>1, <3>2 DEF IndexesAreNewest
      <4>2. PICK p \in Process : rows[s].version = IndexVersion[p]
        BY <2>1, <3>2 DEF Row, Version
      <4> QED
        BY <1>1, <4>1, <4>2, VersionAssumption DEF TwoBuilds
    <3> QED
      BY <2>1, <3>1, <3>2
  <2>3. row # None
    BY <1>2, RowAfterType, VersionType
  <2>4. row.commit = rows[s].commit /\ (row.version = rows[s].version \/ row.version = IndexVersion[run.process])
    BY <1>2, <2>1 DEF RowAfter, WrittenBy, Row
  <2> QED
    BY <2>1, <2>2, <2>3, <2>4 DEF Rises
<1> QED
  BY <1>1, <1>2, RunRow, OneRowRises, SameRowsRise DEF RowAfter, Held

LEMMA OtherRises ==
    ASSUME TypeOK, (\E p \in Process : ProcessStep(p)) \/ Tick
    PROVE  VersionsRise
<1>1. ASSUME NEW p \in Process, ProcessStep(p) PROVE VersionsRise
  BY <1>1, SameRowsRise DEF ProcessStep, Close, Exit, Crash, Gone
<1>2. CASE Tick
  <2> DEFINE later(row) == [row EXCEPT !.lease = IF @ > 0 THEN @ - 1 ELSE 0,
                                       !.retry = IF @ > 0 THEN @ - 1 ELSE 0]
  <2>0. /\ \A n \in 0..LeaseTicks : (IF n > 0 THEN n - 1 ELSE 0) \in 0..LeaseTicks
        /\ \A n \in 0..LongestRetry : (IF n > 0 THEN n - 1 ELSE 0) \in 0..LongestRetry
    BY BoundAssumption, RetryType
  <2>1. \A row \in Row :
          later(row) \in Row /\ later(row).commit = row.commit /\ later(row).version = row.version
    BY <2>0 DEF Row
  <2>2. \A s \in Snapshot : rows'[s] = IF rows[s] = None THEN None ELSE later(rows[s])
    BY <1>2 DEF Tick
  <2> HIDE DEF later
  <2>3. \A s \in Snapshot : rows[s] # None => rows[s] \in Row
    BY DEF TypeOK
  <2> QED
    BY <2>1, <2>2, <2>3, VersionType DEF VersionsRise, Rises
<1> QED
  BY <1>1, <1>2

\* No step but a purge takes a row away, gives it to another commit or lets its version go down.
LEMMA OnlyPurgesTakeRows ==
    TwoBuilds /\ TypeOK /\ IndexesAreNewest /\ [Next]_vars => VersionsRise \/ Purge
<1>1. TypeOK /\ UNCHANGED vars => VersionsRise
  BY SameRowsRise DEF vars
<1> QED
  BY <1>1, RequestRises, RunRises, OtherRises DEF Next

\* One row changes: to one that is ready with a version, or outdated for somebody.
IsNewest(row) ==
    /\ row.status = "ready" => row.version > 0
    /\ row.status # "ready" /\ row.version > 0 => \E p \in Process : IndexVersion[p] > row.version

LEMMA OneRowIsNewest ==
    ASSUME TypeOK, IndexesAreNewest, NEW s \in Snapshot, NEW row, IsNewest(row),
           rows' = rows \/ rows' = [rows EXCEPT ![s] = row]
    PROVE  IndexesAreNewest'
BY DEF TypeOK, IndexesAreNewest, IsNewest

LEMMA RequestNewest ==
    ASSUME TypeOK, IndexesAreNewest, NEW r \in Request, RequestStep(r)
    PROVE  IndexesAreNewest'
<1>1. CASE rows' = rows
  BY <1>1 DEF IndexesAreNewest
<1>2. CASE Insert(r)
  <2>1. IsNewest(NewRow(req[r].commit))
    BY DEF IsNewest, NewRow
  <2> QED
    BY <1>1, <1>2, <2>1, OneRowIsNewest DEF Insert
<1>3. CASE SendBack(r)
  <2>1. ASSUME NEW s \in RowsOf(req[r].commit), Outdated(AnsweredBy[r], s), rows' = [rows EXCEPT ![s] = SentBack(s)]
        PROVE  IndexesAreNewest'
    <3>1. s \in Snapshot /\ rows[s] \in Row /\ AnsweredBy[r] \in Process
      BY CommitAssumption DEF RowsOf, TypeOK
    <3>2. SentBack(s).status = "pending" /\ SentBack(s).version = rows[s].version
      BY <3>1 DEF SentBack, Row
    <3>3. IndexVersion[AnsweredBy[r]] > rows[s].version
      BY <2>1, <3>1, VersionType, VersionAssumption DEF Outdated
    <3>4. IsNewest(SentBack(s))
      BY <3>1, <3>2, <3>3 DEF IsNewest
    <3> QED
      BY <2>1, <3>1, <3>4, OneRowIsNewest
  <2> QED
    BY <1>1, <1>3, <2>1 DEF SendBack
<1>4. ASSUME NEW o \in Owner, Claim(r, o) \/ ClaimLost(r, o) PROVE IndexesAreNewest'
  <2> DEFINE s == req[r].snapshot
  <2>1. /\ s \in Snapshot /\ rows[s] \in Row /\ rows[s] # None /\ rows[s].status # "ready"
        /\ rows' = [rows EXCEPT ![s] = ClaimedBy(s, o)]
    BY <1>4, CommitAssumption DEF Claim, ClaimLost, Claimable, TypeOK, Asked
  <2>2. ClaimedBy(s, o).status = "indexing" /\ ClaimedBy(s, o).version = rows[s].version
    BY <2>1 DEF ClaimedBy, Row
  <2>3. IsNewest(ClaimedBy(s, o))
    BY <2>1, <2>2 DEF IsNewest, IndexesAreNewest
  <2> QED
    BY <2>1, <2>3, OneRowIsNewest
<1> QED
  BY <1>1, <1>2, <1>3, <1>4
     DEF RequestStep, Ask, AskHeld, ReadRow, ClaimRefused, Poll, BudgetEnds, Done

LEMMA RunNewest ==
    ASSUME TypeOK, IndexesAreNewest, NEW run \in runs, RunStep(run)
    PROVE  IndexesAreNewest'
<1> DEFINE s == run.snapshot
<1>1. run \in Run /\ s \in Snapshot /\ run.process \in Process
  BY DEF TypeOK, Run
<1>2. ASSUME NEW row, RowAfter(run, row) PROVE IsNewest(row)
  <2>1. rows[s] # None /\ rows[s] \in Row /\ rows[s].status = "indexing"
    BY <1>1, <1>2 DEF RowAfter, Held, TypeOK
  <2>2. \/ row.status = "ready" /\ row.version = IndexVersion[run.process]
        \/ row.status # "ready" /\ row.version = rows[s].version
    BY <1>2, <2>1 DEF RowAfter, WrittenBy, Row
  <2> QED
    BY <1>1, <2>1, <2>2, VersionAssumption DEF IsNewest, IndexesAreNewest
<1> QED
  BY <1>1, <1>2, RunRow, OneRowIsNewest DEF IndexesAreNewest

LEMMA NewestStep == TypeOK /\ IndexesAreNewest /\ [Next]_vars => IndexesAreNewest'
<1>1. ASSUME IndexesAreNewest, rows' = rows PROVE IndexesAreNewest'
  BY <1>1 DEF IndexesAreNewest
<1>2. ASSUME NEW p \in Process, ProcessStep(p), IndexesAreNewest PROVE IndexesAreNewest'
  BY <1>1, <1>2 DEF ProcessStep, Close, Exit, Crash, Gone
<1>3. ASSUME TypeOK, IndexesAreNewest, Tick PROVE IndexesAreNewest'
  <2> DEFINE later(row) == [row EXCEPT !.lease = IF @ > 0 THEN @ - 1 ELSE 0,
                                       !.retry = IF @ > 0 THEN @ - 1 ELSE 0]
  <2>1. \A row \in Row : later(row).status = row.status /\ later(row).version = row.version
    BY DEF Row
  <2>2. \A s \in Snapshot : rows'[s] = IF rows[s] = None THEN None ELSE later(rows[s])
    BY <1>3 DEF Tick
  <2> HIDE DEF later
  <2>3. \A s \in Snapshot : rows[s] # None => rows[s] \in Row
    BY <1>3 DEF TypeOK
  <2> QED
    BY <1>3, <2>1, <2>2, <2>3 DEF IndexesAreNewest
<1>4. Purge => IndexesAreNewest'
  BY DEF Purge, IndexesAreNewest
<1>5. UNCHANGED vars => rows' = rows
  BY DEF vars
<1> QED
  BY <1>1, <1>2, <1>3, <1>4, <1>5, RequestNewest, RunNewest DEF Next

LEMMA AlwaysNewest == Spec => []IndexesAreNewest
<1>1. Init => IndexesAreNewest
  BY DEF Init, IndexesAreNewest
<1> QED
  BY <1>1, NewestStep, TypesHold, PTL DEF Spec

NewerStays ==
    \A s \in Snapshot : rows[s] # None /\ rows'[s] # None => rows'[s].version >= rows[s].version

\* "Newer rules are never undone by older ones" (ensureSnapshot), of every number of processes of two
\* builds: whoever rebuilds an index that was sent back is no older than the index.
THEOREM NewerRulesStay == ASSUME TwoBuilds PROVE Spec => RulesOnlyGetNewer
<1>1. TypeOK /\ IndexesAreNewest /\ [Next]_vars => [NewerStays]_vars
  <2>1. VersionsRise => NewerStays
    BY DEF VersionsRise, Rises, NewerStays
  <2>2. Purge => NewerStays
    BY DEF Purge, NewerStays
  <2> QED
    BY <2>1, <2>2, OnlyPurgesTakeRows
<1>2. Spec => [][NewerStays]_vars
  BY <1>1, TypesHold, AlwaysNewest, PTL DEF Spec
<1> QED
  BY <1>2 DEF RulesOnlyGetNewer, NewerStays

-----------------------------------------------------------------------------
(* A pack that can be served is served *)

OneRowEach ==
    \A s, z \in Snapshot : rows[s] # None /\ rows[z] # None /\ rows[s].commit = rows[z].commit => s = z

LEMMA RowsAreInserted ==
    TypeOK /\ [Next]_vars =>
        \/ \A s \in Snapshot : rows'[s] # None => rows[s] # None
        \/ \E r \in Request : Insert(r) /\ rows' # rows
<1> SUFFICES ASSUME TypeOK, [Next]_vars
             PROVE  \/ \A s \in Snapshot : rows'[s] # None => rows[s] # None
                    \/ \E r \in Request : Insert(r) /\ rows' # rows
  OBVIOUS
<1> DEFINE OnlyOld == \A s \in Snapshot : rows'[s] # None => rows[s] # None
<1>1. ASSUME NEW s \in Snapshot, rows[s] # None, NEW row, rows' = [rows EXCEPT ![s] = row] PROVE OnlyOld
  BY <1>1 DEF TypeOK
<1>2. ASSUME NEW r \in Request, RequestStep(r), ~Insert(r) \/ rows' = rows PROVE OnlyOld
  <2>1. CASE SendBack(r)
    BY <1>1, <2>1 DEF SendBack, RowsOf
  <2>2. ASSUME NEW o \in Owner, Claim(r, o) \/ ClaimLost(r, o) PROVE OnlyOld
    <3>1. req[r].snapshot \in Snapshot /\ rows[req[r].snapshot] # None
      BY <2>2, CommitAssumption DEF Claim, ClaimLost, Claimable, TypeOK, Asked
    <3> QED
      BY <1>1, <2>2, <3>1 DEF Claim, ClaimLost
  <2>3. CASE rows' = rows
    BY <2>3
  <2> QED
    BY <1>2, <2>1, <2>2, <2>3 DEF RequestStep, Ask, AskHeld, ReadRow, ClaimRefused, Poll, BudgetEnds, Done
<1>3. ASSUME NEW run \in runs, RunStep(run) PROVE OnlyOld
  <2>1. run.snapshot \in Snapshot
    BY DEF TypeOK, Run
  <2> QED
    BY <1>1, <1>3, <2>1, RunRow DEF RowAfter, Held
<1>4. ASSUME NEW p \in Process, ProcessStep(p) PROVE OnlyOld
  BY <1>4 DEF ProcessStep, Close, Exit, Crash, Gone
<1> QED
  BY <1>2, <1>3, <1>4 DEF Next, Tick, Purge, vars

LEMMA OneRowStep ==
    TwoBuilds /\ TypeOK /\ IndexesAreNewest /\ OneRowEach /\ [Next]_vars => OneRowEach'
<1> SUFFICES ASSUME TwoBuilds, TypeOK, IndexesAreNewest, OneRowEach, [Next]_vars PROVE OneRowEach'
  OBVIOUS
<1>1. CASE Purge
  BY <1>1 DEF Purge, OneRowEach
<1>2. CASE VersionsRise /\ \A s \in Snapshot : rows'[s] # None => rows[s] # None
  BY <1>2 DEF VersionsRise, Rises, OneRowEach
<1>3. ASSUME NEW r \in Request, Insert(r), rows' # rows PROVE OneRowEach'
  <2> DEFINE c == req[r].commit
  <2>1. RowsOf(c) = {}
    BY <1>3 DEF Insert
  <2>2. PICK s \in Snapshot : rows' = [rows EXCEPT ![s] = NewRow(c)]
    BY <1>3 DEF Insert
  <2>3. \A z \in Snapshot : rows'[z] = IF z = s THEN NewRow(c) ELSE rows[z]
    BY <2>2 DEF TypeOK
  <2>4. NewRow(c).commit = c
    BY DEF NewRow
  <2> QED
    BY <2>1, <2>3, <2>4 DEF OneRowEach, RowsOf
<1> QED
  BY <1>1, <1>2, <1>3, OnlyPurgesTakeRows, RowsAreInserted

LEMMA AlwaysOneRow == ASSUME TwoBuilds PROVE Spec => []OneRowEach
<1>1. Init => OneRowEach
  BY DEF Init, OneRowEach
<1>2. TypeOK /\ IndexesAreNewest /\ OneRowEach /\ [Next]_vars => OneRowEach'
  BY OneRowStep
<1> QED
  BY <1>1, <1>2, TypesHold, AlwaysNewest, PTL DEF Spec

\* What a mount is served from, and what follows a request: the row its loop reads, the row it claims.
HasServed(p, c, version) == Before(p, c) # {} \/ version >= Floor(p)
Follows(c, s) == s # None => rows[s] # None /\ rows[s].commit = c

\* A request that came in while there was an index to serve, until it is answered and then.
StaysUp(p, q) ==
    /\ q.phase # "idle"
    /\ q.phase = "answered" => q.served > 0
    /\ q.phase # "answered" => Servable(p, q.commit) /\ Follows(q.commit, q.scope) /\ Follows(q.commit, q.snapshot)
    /\ q.phase \in {"claiming", "waiting"} => HasServed(p, q.commit, q.version)
    /\ q.phase = "claiming" => q.status # "ready"

PacksStayUp == \A r \in Request : req[r].owed /\ ~req[r].pinned => StaysUp(AnsweredBy[r], req[r])

LEMMA FloorType == \A p \in Process : Floor(p) \in Nat /\ Floor(p) > 0
BY VersionAssumption DEF Floor

\* What could be served can be served after a step that takes nothing away.
LEMMA ServableStays ==
    ASSUME TypeOK, TypeOK', VersionsRise, NEW p \in Process, NEW c \in Commit
    PROVE  /\ Before(p, c) # {} => Before(p, c)' # {}
           /\ Servable(p, c) => Servable(p, c)'
           /\ \A s \in Snapshot \union {None} : Follows(c, s) => Follows(c, s)'
<1>1. \A s \in Snapshot : rows[s] # None => /\ rows[s].version \in Nat
                                            /\ rows'[s] # None /\ rows'[s].commit = rows[s].commit
                                            /\ rows'[s].version \in Nat
                                            /\ rows'[s].version >= rows[s].version
  BY VersionType DEF TypeOK, VersionsRise, Rises
<1>2. \A b, s : s \in RowsOf(b) => s \in RowsOf(b)' /\ rows'[s].version >= rows[s].version
                                    /\ rows[s].version \in Nat /\ rows'[s].version \in Nat
  BY <1>1 DEF RowsOf
<1>3. Before(p, c) # {} => Before(p, c)' # {}
  <2>1. SUFFICES ASSUME NEW b \in {Previous[c]} \ {None, c}, NEW s \in RowsOf(b), rows[s].version >= Floor(p)
                 PROVE  Before(p, c)' # {}
    BY DEF Before
  <2>2. s \in RowsOf(b)' /\ rows'[s].version >= Floor(p)
    BY <1>2, <2>1, FloorType
  <2>3. rows'[s].version \in Before(p, c)'
    BY <2>1, <2>2 DEF Before
  <2> QED
    BY <2>3
<1>4. (\E s \in RowsOf(c) : rows[s].version >= Floor(p)) => \E s \in RowsOf(c)' : rows'[s].version >= Floor(p)
  BY <1>2, FloorType
<1>5. Servable(p, c) => Servable(p, c)'
  BY <1>3, <1>4 DEF Servable
<1>6. \A s \in Snapshot \union {None} : Follows(c, s) => Follows(c, s)'
  BY <1>1 DEF Follows
<1> QED
  BY <1>3, <1>5, <1>6

LEMMA StaysUpStays ==
    ASSUME TypeOK, TypeOK', VersionsRise, NEW p \in Process, NEW q \in Asked, StaysUp(p, q)
    PROVE  StaysUp(p, q)'
<1>1. q.commit \in Commit /\ {q.scope, q.snapshot} \subseteq Snapshot \union {None}
  BY DEF Asked
<1> QED
  BY <1>1, ServableStays DEF StaysUp, HasServed

\* A mount that has something to be served from is served something.
LEMMA SomethingIsServed ==
    ASSUME TypeOK, NEW p \in Process, NEW c \in Commit, NEW status \in Status, NEW version \in {0} \union Version,
           HasServed(p, c, version), status = "ready" => version > 0
    PROVE  Served(p, c, FALSE, status, version) > 0
<1>1. version \in Nat /\ Floor(p) \in Nat /\ Floor(p) > 0
  BY VersionType, FloorType
<1>2. ASSUME Before(p, c) # {} PROVE (CHOOSE v \in Before(p, c) : TRUE) > 0
  <2>1. \A v \in Before(p, c) : v \in Nat /\ v >= Floor(p)
    BY VersionType DEF Before, RowsOf, TypeOK
  <2>2. (CHOOSE v \in Before(p, c) : TRUE) \in Before(p, c)
    BY <1>2
  <2> QED
    BY <1>1, <2>1, <2>2
<1> QED
  BY <1>1, <1>2 DEF Served, HasServed

\* The record a request has of its row is as good as the row: what it is answered with, or waits with.
LEMMA SeeStaysUp ==
    ASSUME TypeOK, TypeOK', VersionsRise, NEW r \in Request, NEW s \in Snapshot,
           NEW status \in Status, NEW version \in {0} \union Version,
           ~req[r].pinned,
           Servable(AnsweredBy[r], req[r].commit),
           Follows(req[r].commit, s), Follows(req[r].commit, req[r].scope),
           HasServed(AnsweredBy[r], req[r].commit, version),
           status = "ready" => version > 0,
           See(r, s, status, version)
    PROVE  StaysUp(AnsweredBy[r], req[r])'
<1> DEFINE p == AnsweredBy[r]
           c == req[r].commit
<1>1. p \in Process /\ req[r] \in Asked /\ c \in Commit /\ req[r].scope \in Snapshot \union {None}
  BY CommitAssumption DEF TypeOK, Asked
<1>2. CASE status \in {"ready", "failed"}
  <2>1. Answer(r, status, version)
    BY <1>2 DEF See
  <2>2. req'[r].phase = "answered" /\ req'[r].served = Served(p, c, req[r].pinned, status, version)
    BY <1>1, <2>1 DEF Answer, TypeOK, Asked
  <2>3. req[r].pinned = FALSE
    BY <1>1 DEF Asked
  <2>4. req'[r].served > 0
    BY <1>1, <2>2, <2>3, SomethingIsServed
  <2> QED
    BY <2>2, <2>4 DEF StaysUp
<1>3. CASE status \notin {"ready", "failed"}
  <2> DEFINE scope == IF req[r].scope = None THEN s ELSE req[r].scope
  <2>1. req' = [req EXCEPT ![r] = [@ EXCEPT !.phase = "waiting", !.snapshot = None, !.scope = scope,
                                            !.status = status, !.version = version]]
    BY <1>3 DEF See
  <2>2. /\ req'[r].phase = "waiting" /\ req'[r].snapshot = None /\ req'[r].scope = scope
        /\ req'[r].version = version /\ req'[r].commit = c
    BY <1>1, <2>1 DEF TypeOK, Asked
  <2>3. PICK at \in Commit, to \in Snapshot \union {None} : at = c /\ to = scope
    BY <1>1
  <2>4. Servable(p, at) /\ Follows(at, to) /\ Follows(at, None) /\ HasServed(p, at, version)
    BY <1>1, <2>3 DEF Follows
  <2>5. Servable(p, at)' /\ Follows(at, to)' /\ Follows(at, None)' /\ HasServed(p, at, version)'
    BY <1>1, <2>4, ServableStays DEF HasServed
  <2>6. /\ req'[r].phase = "waiting" /\ req'[r].snapshot = None /\ req'[r].scope = to
        /\ req'[r].version = version /\ req'[r].commit = at
    BY <2>2, <2>3
  <2> QED
    BY <2>5, <2>6 DEF StaysUp
<1> QED
  BY <1>2, <1>3

\* With one row of a commit, the version of that row says whether the commit can be served.
LEMMA TheRowServes ==
    ASSUME TypeOK, OneRowEach, NEW p \in Process, NEW c \in Commit, NEW s \in RowsOf(c), Servable(p, c)
    PROVE  HasServed(p, c, rows[s].version)
BY DEF Servable, HasServed, RowsOf, OneRowEach

LEMMA DecideStaysUp ==
    ASSUME TypeOK, TypeOK', VersionsRise, NEW r \in Request, NEW s \in Snapshot, NEW row \in Row,
           ~req[r].pinned,
           Servable(AnsweredBy[r], req[r].commit),
           Follows(req[r].commit, s), Follows(req[r].commit, req[r].scope),
           HasServed(AnsweredBy[r], req[r].commit, row.version),
           row.status = "ready" => row.version > 0,
           Decide(r, s, row)
    PROVE  StaysUp(AnsweredBy[r], req[r])'
<1> DEFINE p == AnsweredBy[r]
<1>1. p \in Process /\ req[r] \in Asked /\ req[r].commit \in Commit /\ req[r].scope \in Snapshot \union {None}
  BY CommitAssumption DEF TypeOK, Asked
<1>2. row.status \in Status /\ row.version \in {0} \union Version
  BY DEF Row
<1>3. CASE See(r, s, row.status, row.version)
  BY <1>2, <1>3, SeeStaysUp
<1>4. CASE /\ row.status # "ready"
           /\ req' = [req EXCEPT ![r] = [@ EXCEPT !.phase = "claiming", !.snapshot = s,
                                                 !.status = row.status, !.version = row.version]]
  <2>1. PICK at \in Commit, to \in Snapshot \union {None} : at = req[r].commit /\ to = req[r].scope
    BY <1>1
  <2>2. Servable(p, at) /\ Follows(at, to) /\ Follows(at, s) /\ HasServed(p, at, row.version)
    BY <2>1
  <2>3. Servable(p, at)' /\ Follows(at, to)' /\ Follows(at, s)' /\ HasServed(p, at, row.version)'
    BY <1>1, <2>2, ServableStays DEF HasServed
  <2>4. /\ req'[r].phase = "claiming" /\ req'[r].snapshot = s /\ req'[r].scope = to
        /\ req'[r].version = row.version /\ req'[r].commit = at /\ req'[r].status # "ready"
    BY <1>1, <1>4, <2>1 DEF TypeOK, Asked
  <2> QED
    BY <2>3, <2>4 DEF StaysUp
<1> QED
  BY <1>3, <1>4 DEF Decide

\* A request changes what it is doing, and what no other request is doing.
LEMMA RequestsApart ==
    ASSUME TypeOK, NEW r \in Request, RequestStep(r), NEW q \in Request, q # r
    PROVE  req'[q] = req[q]
<1>1. ASSUME NEW new, req' = [req EXCEPT ![r] = new] PROVE req'[q] = req[q]
  BY <1>1 DEF TypeOK
<1>2. ASSUME NEW s, NEW status, NEW version, See(r, s, status, version) PROVE req'[q] = req[q]
  BY <1>1, <1>2 DEF See, Answer
<1>3. ASSUME NEW s, NEW row, Decide(r, s, row) PROVE req'[q] = req[q]
  BY <1>1, <1>2, <1>3 DEF Decide
<1>4. CASE Ask(r) \/ AskHeld(r)
  BY <1>1, <1>4 DEF Ask, AskHeld
<1>5. CASE Insert(r) \/ ReadRow(r) \/ SendBack(r)
  BY <1>1, <1>3, <1>5 DEF Insert, ReadRow, SendBack
<1>6. ASSUME NEW o \in Owner, Claim(r, o) \/ ClaimLost(r, o) PROVE req'[q] = req[q]
  BY <1>1, <1>2, <1>6 DEF Claim, ClaimLost
<1>7. CASE ClaimRefused(r) \/ Poll(r)
  BY <1>1, <1>2, <1>7 DEF ClaimRefused, Poll, Answer
<1>8. CASE BudgetEnds(r) \/ Done(r)
  BY <1>1, <1>8 DEF BudgetEnds, Done, Answer
<1> QED
  BY <1>4, <1>5, <1>6, <1>7, <1>8 DEF RequestStep

\* A step that moves a request on keeps what it is owed, the mount it is for and the row it reads.
LEMMA MovesOn ==
    ASSUME TypeOK, TypeOK', VersionsRise, NEW r \in Request, StaysUp(AnsweredBy[r], req[r]),
           NEW phase \in {"starting", "reading", "sending", "rereading"}, req[r].phase # "answered",
           req' = [req EXCEPT ![r].phase = phase]
    PROVE  StaysUp(AnsweredBy[r], req[r])'
<1>1. AnsweredBy[r] \in Process /\ req[r] \in Asked
  BY CommitAssumption DEF TypeOK
<1>2. PICK at \in Commit, to \in Snapshot \union {None}, for \in Snapshot \union {None} :
        at = req[r].commit /\ to = req[r].scope /\ for = req[r].snapshot
  BY <1>1 DEF Asked
<1>3. Servable(AnsweredBy[r], at)' /\ Follows(at, to)' /\ Follows(at, for)'
  BY <1>1, <1>2, ServableStays DEF StaysUp
<1>4. req'[r].phase = phase /\ req'[r].commit = at /\ req'[r].scope = to /\ req'[r].snapshot = for
  BY <1>1, <1>2 DEF TypeOK, Asked
<1> QED
  BY <1>3, <1>4 DEF StaysUp

\* What was owed stays owed, to a request that goes on.
LEMMA OwedStays ==
    ASSUME TypeOK, NEW r \in Request
    PROVE  /\ \A status, version : Answer(r, status, version) =>
                req'[r].owed = req[r].owed /\ req'[r].pinned = req[r].pinned
           /\ \A s, status, version : See(r, s, status, version) =>
                req'[r].owed = req[r].owed /\ req'[r].pinned = req[r].pinned
           /\ \A s, row : Decide(r, s, row) => req'[r].owed = req[r].owed /\ req'[r].pinned = req[r].pinned
<1>0. req[r] \in Asked /\ req \in [Request -> Asked]
  BY DEF TypeOK
<1>1. \A status, version : Answer(r, status, version) =>
        req'[r].owed = req[r].owed /\ req'[r].pinned = req[r].pinned
  BY <1>0 DEF Answer, Asked
<1>2. ASSUME NEW s, NEW status, NEW version, See(r, s, status, version)
      PROVE  req'[r].owed = req[r].owed /\ req'[r].pinned = req[r].pinned
  <2>1. CASE Answer(r, status, version)
    BY <1>1, <2>1
  <2> DEFINE scope == IF req[r].scope = None THEN s ELSE req[r].scope
  <2>2. CASE req' = [req EXCEPT ![r] = [req[r] EXCEPT !.phase = "waiting", !.snapshot = None, !.scope = scope,
                                                      !.status = status, !.version = version]]
    <3> HIDE DEF scope
    <3> QED
      BY <1>0, <2>2 DEF Asked
  <2> QED
    BY <1>2, <2>1, <2>2 DEF See
<1>3. ASSUME NEW s, NEW row, Decide(r, s, row)
      PROVE  req'[r].owed = req[r].owed /\ req'[r].pinned = req[r].pinned
  <2>1. CASE See(r, s, row.status, row.version)
    BY <1>2, <2>1
  <2>2. CASE req' = [req EXCEPT ![r] = [req[r] EXCEPT !.phase = "claiming", !.snapshot = s,
                                             !.status = row.status, !.version = row.version]]
    BY <1>0, <2>2 DEF Asked
  <2> QED
    BY <1>3, <2>1, <2>2 DEF Decide
<1> QED
  BY <1>1, <1>2, <1>3

\* A request that comes in.
LEMMA AskedStaysUp ==
    ASSUME TypeOK, TypeOK', VersionsRise, OneRowEach, IndexesAreNewest,
           NEW r \in Request, Ask(r) \/ AskHeld(r), req'[r].owed, ~req'[r].pinned
    PROVE  StaysUp(AnsweredBy[r], req[r])'
<1> DEFINE p == AnsweredBy[r]
<1>1. p \in Process /\ req \in [Request -> Asked]
  BY CommitAssumption DEF TypeOK
<1>2. ASSUME NEW c \in Commit, NEW pinned \in BOOLEAN,
             req' = [req EXCEPT ![r] = [Idle(c) EXCEPT !.phase = "starting", !.pinned = pinned,
                                                       !.owed = Servable(p, c)]]
      PROVE  StaysUp(p, req[r])'
  <2>1. /\ req'[r].phase = "starting" /\ req'[r].commit = c /\ req'[r].scope = None /\ req'[r].snapshot = None
        /\ req'[r].owed = Servable(p, c)
    BY <1>1, <1>2 DEF Idle
  <2>2. Servable(p, c)'
    BY <1>1, <2>1, ServableStays
  <2> QED
    BY <2>1, <2>2 DEF StaysUp, Follows
<1>3. ASSUME NEW c \in Commit, NEW pinned \in BOOLEAN,
             LET status == HeldStatus(p, RowOf(c))
                 version == RowOf(c).version
             IN  req' = [req EXCEPT ![r] = [Idle(c) EXCEPT
                            !.phase = "answered", !.pinned = pinned, !.status = status,
                            !.version = version, !.served = Served(p, c, pinned, status, version),
                            !.owed = Servable(p, c)]]
      PROVE  StaysUp(p, req[r])'
  <2> DEFINE status == HeldStatus(p, RowOf(c))
             version == RowOf(c).version
  <2>1. /\ req'[r].phase = "answered" /\ req'[r].served = Served(p, c, pinned, status, version)
        /\ req'[r].pinned = pinned /\ req'[r].owed = Servable(p, c)
    BY <1>1, <1>3 DEF Idle
  <2>2. pinned = FALSE /\ Servable(p, c)
    BY <2>1
  <2>3. CASE RowsOf(c) = {}
    <3>1. RowOf(c) = NewRow(c) /\ RowOf(c) \in Row /\ RowOf(c).status = "pending"
      BY <2>3, NewRowType DEF RowOf, NewRow
    <3>2. HasServed(p, c, version)
      BY <2>2, <2>3 DEF Servable, HasServed
    <3>3. status = "pending" /\ status \in Status /\ version \in {0} \union Version
      BY <3>1 DEF HeldStatus, Status, Row
    <3> QED
      BY <1>1, <2>1, <2>2, <3>2, <3>3, SomethingIsServed DEF StaysUp
  <2>4. CASE RowsOf(c) # {}
    <3>1. PICK s \in RowsOf(c) : RowOf(c) = rows[s]
      BY <2>4 DEF RowOf
    <3>2. s \in Snapshot /\ rows[s] # None /\ rows[s] \in Row
      BY <3>1 DEF RowsOf, TypeOK
    <3>3. HasServed(p, c, version)
      BY <1>1, <2>2, <3>1, TheRowServes
    <3>4. status \in Status /\ version \in {0} \union Version
      BY <3>1, <3>2 DEF HeldStatus, Status, Row
    <3>5. status = "ready" => version > 0
      BY <3>1, <3>2 DEF HeldStatus, IndexesAreNewest
    <3> HIDE DEF status, version
    <3> QED
      BY <1>1, <2>1, <2>2, <3>3, <3>4, <3>5, SomethingIsServed DEF StaysUp
  <2> QED
    BY <2>3, <2>4
<1> QED
  BY <1>2, <1>3 DEF Ask, AskHeld

LEMMA RequestStaysUp ==
    ASSUME TypeOK, TypeOK', VersionsRise, OneRowEach, IndexesAreNewest, PacksStayUp,
           NEW r \in Request, RequestStep(r), req'[r].owed, ~req'[r].pinned
    PROVE  StaysUp(AnsweredBy[r], req[r])'
<1> DEFINE p == AnsweredBy[r]
           c == req[r].commit
<1>1. /\ p \in Process /\ req[r] \in Asked /\ req \in [Request -> Asked] /\ c \in Commit
      /\ req[r].scope \in Snapshot \union {None} /\ req[r].snapshot \in Snapshot \union {None}
  BY CommitAssumption DEF TypeOK, Asked
<1>2. CASE Ask(r) \/ AskHeld(r)
  BY <1>2, AskedStaysUp
<1>3. CASE \E at \in Commit : req' = [req EXCEPT ![r] = Idle(at)]
  <2>1. PICK at \in Commit : req' = [req EXCEPT ![r] = Idle(at)]
    BY <1>3
  <2>2. req'[r].owed = FALSE
    BY <1>1, <2>1 DEF Idle
  <2> QED
    BY <2>2
<1>4. ASSUME req'[r].owed = req[r].owed, req'[r].pinned = req[r].pinned
      PROVE  ~req[r].pinned /\ StaysUp(p, req[r])
  BY <1>4 DEF PacksStayUp
<1>5. ASSUME NEW phase, req' = [req EXCEPT ![r].phase = phase]
      PROVE  req'[r].owed = req[r].owed /\ req'[r].pinned = req[r].pinned
  BY <1>1, <1>5 DEF Asked
<1>6. ASSUME NEW s \in RowsOf(c), req[r].phase # "answered", StaysUp(p, req[r])
      PROVE  /\ s \in Snapshot /\ rows[s] \in Row /\ Follows(c, s) /\ Follows(c, req[r].scope) /\ Servable(p, c)
             /\ HasServed(p, c, rows[s].version)
             /\ rows[s].status = "ready" => rows[s].version > 0
  <2>1. s \in Snapshot /\ rows[s] # None /\ rows[s].commit = c
    BY DEF RowsOf
  <2>2. Servable(p, c) /\ Follows(c, req[r].scope)
    BY <1>6 DEF StaysUp
  <2> QED
    BY <1>1, <2>1, <2>2, TheRowServes DEF TypeOK, Follows, IndexesAreNewest
<1>7. CASE Insert(r)
  BY <1>4, <1>5, <1>7, MovesOn DEF Insert
<1>8. CASE ReadRow(r)
  <2>1. ASSUME NEW s \in RowsOf(c), Decide(r, s, rows[s]) PROVE StaysUp(p, req[r])'
    BY <1>4, <1>6, <1>8, <2>1, OwedStays, DecideStaysUp DEF ReadRow
  <2> QED
    BY <1>1, <1>3, <1>4, <1>5, <1>8, <2>1, MovesOn DEF ReadRow
<1>9. CASE SendBack(r)
  <2>1. ASSUME NEW s \in RowsOf(c), Decide(r, s, SentBack(s)) PROVE StaysUp(p, req[r])'
    <3>1. ~req[r].pinned /\ StaysUp(p, req[r])
      BY <1>4, <2>1, OwedStays
    <3>2. s \in Snapshot /\ rows[s] \in Row
      BY <1>6, <1>9, <3>1 DEF SendBack
    <3>3. SentBack(s) \in Row /\ SentBack(s).version = rows[s].version /\ SentBack(s).status = "pending"
      BY <3>2, NothingLeft DEF SentBack, Row, Status
    <3>4. HasServed(p, c, SentBack(s).version)
      BY <1>6, <1>9, <3>1, <3>3 DEF SendBack
    <3> QED
      BY <1>6, <1>9, <2>1, <3>1, <3>2, <3>3, <3>4, DecideStaysUp DEF SendBack
  <2> QED
    BY <1>4, <1>5, <1>9, <2>1, MovesOn DEF SendBack
<1>10. ASSUME NEW o \in Owner, Claim(r, o) PROVE StaysUp(p, req[r])'
  <2> DEFINE s == req[r].snapshot
  <2>1. See(r, s, "indexing", rows[s].version) /\ req[r].phase = "claiming"
    BY <1>10 DEF Claim
  <2>2. ~req[r].pinned /\ StaysUp(p, req[r])
    BY <1>4, <2>1, OwedStays
  <2>3. s \in Snapshot /\ rows[s] # None /\ rows[s] \in Row
    BY <1>1, <1>10, CommitAssumption DEF Claim, Claimable, TypeOK, Asked
  <2>4. s \in RowsOf(c)
    BY <2>1, <2>2, <2>3, CommitAssumption DEF StaysUp, Follows, RowsOf
  <2>5. "indexing" \in Status /\ rows[s].version \in {0} \union Version
    BY <2>3 DEF Status, Row
  <2> QED
    BY <1>6, <2>1, <2>2, <2>4, <2>5, SeeStaysUp
<1>11. CASE ClaimRefused(r)
  <2> DEFINE s == req[r].snapshot
  <2>1. See(r, s, req[r].status, req[r].version) /\ req[r].phase = "claiming"
    BY <1>11 DEF ClaimRefused
  <2>2. ~req[r].pinned /\ StaysUp(p, req[r])
    BY <1>4, <2>1, OwedStays
  <2>3. s \in Snapshot
    BY <1>1, <2>1 DEF Asked
  <2>4. req[r].status \in Status /\ req[r].version \in {0} \union Version
    BY <1>1 DEF Asked
  <2> QED
    BY <2>1, <2>2, <2>3, <2>4, SeeStaysUp DEF StaysUp
<1>12. CASE Poll(r)
  <2> DEFINE s == req[r].scope
  <2>1. s \in Snapshot /\ s # None /\ req[r].phase = "waiting"
    BY <1>1, <1>12, CommitAssumption DEF Poll, Asked
  <2>2. ~req[r].pinned /\ StaysUp(p, req[r])
    BY <1>4, <1>5, <1>12, OwedStays DEF Poll
  <2>3. s \in RowsOf(c) /\ rows[s] # None /\ rows[s] \in Row
    BY <2>1, <2>2 DEF StaysUp, Follows, RowsOf, TypeOK
  <2>4. rows[s].status \in Status /\ rows[s].version \in {0} \union Version
    BY <2>3 DEF Row
  <2>5. CASE See(r, s, rows[s].status, rows[s].version)
    BY <1>6, <2>1, <2>2, <2>3, <2>4, <2>5, SeeStaysUp
  <2> QED
    BY <1>12, <2>1, <2>2, <2>3, <2>5, MovesOn DEF Poll
<1>13. CASE BudgetEnds(r)
  <2>1. Answer(r, "indexing", req[r].version) /\ req[r].phase = "waiting"
    BY <1>13 DEF BudgetEnds
  <2>2. /\ req'[r].phase = "answered"
        /\ req'[r].served = Served(p, c, req[r].pinned, "indexing", req[r].version)
        /\ req'[r].owed = req[r].owed /\ req'[r].pinned = req[r].pinned
    BY <1>1, <2>1 DEF Answer, Asked
  <2>3. ~req[r].pinned /\ StaysUp(p, req[r])
    BY <1>4, <2>2
  <2>4. req[r].pinned = FALSE /\ "indexing" \in Status /\ req[r].version \in {0} \union Version
    BY <1>1, <2>3 DEF Asked, Status
  <2> QED
    BY <1>1, <2>1, <2>2, <2>3, <2>4, SomethingIsServed DEF StaysUp
<1> QED
  BY <1>1, <1>2, <1>3, <1>7, <1>8, <1>9, <1>10, <1>11, <1>12, <1>13 DEF RequestStep, ClaimLost, Done

\* What leaves a request alone leaves it what it can be served.
LEMMA AloneStaysUp ==
    ASSUME TypeOK, TypeOK', VersionsRise, PacksStayUp, NEW r \in Request, req'[r] = req[r],
           req'[r].owed, ~req'[r].pinned
    PROVE  StaysUp(AnsweredBy[r], req[r])'
<1>1. PICK q \in Asked : q = req[r]
  BY DEF TypeOK
<1>2. StaysUp(AnsweredBy[r], q) /\ AnsweredBy[r] \in Process
  BY <1>1, CommitAssumption DEF PacksStayUp
<1>3. StaysUp(AnsweredBy[r], q)'
  BY <1>2, StaysUpStays
<1>4. q = req'[r]
  BY <1>1
<1> QED
  BY <1>3, <1>4 DEF StaysUp

LEMMA StaysUpStep ==
    ASSUME TwoBuilds, TypeOK, TypeOK', OneRowEach, IndexesAreNewest, PacksStayUp, [Next]_vars
    PROVE  PacksStayUp'
<1> SUFFICES ASSUME NEW r \in Request, req'[r].owed, ~req'[r].pinned
             PROVE  StaysUp(AnsweredBy[r], req[r])'
  BY DEF PacksStayUp
<1>1. CASE Purge
  <2>1. req'[r].owed = FALSE
    BY <1>1 DEF Purge, TypeOK, Asked
  <2> QED
    BY <2>1
<1>2. CASE VersionsRise
  <2>1. CASE req'[r] = req[r]
    BY <1>2, <2>1, AloneStaysUp
  <2>2. ASSUME NEW q \in Request, RequestStep(q) PROVE StaysUp(AnsweredBy[r], req[r])'
    BY <1>2, <2>1, <2>2, RequestStaysUp, RequestsApart
  <2>3. ASSUME NEW p \in Process, Gone(p) PROVE StaysUp(AnsweredBy[r], req[r])'
    <3>1. req'[r] = IF AnsweredBy[r] = p THEN Idle(req[r].commit) ELSE req[r]
      BY <2>3 DEF Gone
    <3>2. Idle(req[r].commit).owed = FALSE
      BY DEF Idle
    <3> QED
      BY <2>1, <3>1, <3>2
  <2>4. ASSUME NEW run \in runs, RunStep(run) PROVE req' = req
    BY <2>4 DEF RunStep, Renew, Built, BuildFails, Write, WriteFails, Release, Fail, EndLost
  <2>5. ASSUME NEW p \in Process, Close(p) PROVE req' = req
    BY <2>5 DEF Close
  <2> QED
    BY <1>1, <2>1, <2>2, <2>3, <2>4, <2>5 DEF Next, ProcessStep, Exit, Crash, Tick, vars
<1> QED
  BY <1>1, <1>2, OnlyPurgesTakeRows

\* ADR-0068, "a rebuild, a failing commit or a shutdown takes no pack down", of every number of
\* processes, commits and requests, while two builds run at once: what could be served when a request
\* came in by a moving ref is there, or newer, when it is answered, and the record of its row that the
\* request keeps meanwhile tells it so.
THEOREM NoPackDown == ASSUME TwoBuilds PROVE Spec => []NoPackGoesDown
<1>1. Init => PacksStayUp
  BY DEF Init, PacksStayUp, Idle
<1>2. TypeOK /\ TypeOK' /\ OneRowEach /\ IndexesAreNewest /\ PacksStayUp /\ [Next]_vars => PacksStayUp'
  BY StaysUpStep
<1>3. PacksStayUp => NoPackGoesDown
  BY DEF PacksStayUp, StaysUp, NoPackGoesDown
<1> QED
  BY <1>1, <1>2, <1>3, TypesHold, AlwaysOneRow, AlwaysNewest, PTL DEF Spec

-----------------------------------------------------------------------------
(* The promise is kept *)

\* CommitIndex's view of the rows and runs.
Attempts == {<<run.snapshot, run.owner>> : run \in runs}
Holder == [s \in Snapshot |-> IF rows[s] = None THEN None ELSE rows[s].owner]
Published == [s \in Snapshot |-> IF rows[s] = None THEN 0 ELSE rows[s].version]

\* How the view changes with one row.
LEMMA ViewOfRow ==
    ASSUME TypeOK, NEW s \in Snapshot, NEW row \in Row, rows' = [rows EXCEPT ![s] = row]
    PROVE  /\ Holder' = [Holder EXCEPT ![s] = row.owner]
           /\ Published' = [Published EXCEPT ![s] = row.version]
BY RowAssumption DEF TypeOK, Holder, Published

\* It does not change with a row that keeps its holder and its index.
LEMMA SameView ==
    ASSUME TypeOK, NEW s \in Snapshot, NEW row \in Row, rows' = [rows EXCEPT ![s] = row],
           row.owner = Holder[s], row.version = Published[s]
    PROVE  Holder' = Holder /\ Published' = Published
<1>1. Holder' = [Holder EXCEPT ![s] = row.owner] /\ Published' = [Published EXCEPT ![s] = row.version]
  BY ViewOfRow
<1> QED
  BY <1>1 DEF Holder, Published

\* A run that is over takes its own attempt with it and no other: no two runs share a token.
LEMMA EndedAttempt ==
    ASSUME ClaimsAreExclusive, TypeOK, NEW run \in runs, runs' = Ended(run)
    PROVE  Attempts' = Attempts \ {<<run.snapshot, run.owner>>}
<1> DEFINE later(other) == [other EXCEPT !.tracked =
                               @ /\ ~(other.process = run.process /\ other.snapshot = run.snapshot)]
<1>1. \A other \in runs :
        later(other).owner = other.owner /\ later(other).snapshot = other.snapshot
  BY DEF TypeOK, Run
<1>2. runs' = {later(other) : other \in runs \ {run}}
  BY DEF Ended
<1>3. \A other \in runs : other.owner = run.owner => other = run
  BY DEF ClaimsAreExclusive
<1> HIDE DEF later
<1> QED
  BY <1>1, <1>2, <1>3 DEF Attempts

LEMMA SameAttempts ==
    ASSUME TypeOK, NEW run \in runs, NEW phase, runs' = InPhase(run, phase)
    PROVE  Attempts' = Attempts
<1>1. /\ [run EXCEPT !.phase = phase].owner = run.owner
      /\ [run EXCEPT !.phase = phase].snapshot = run.snapshot
  BY DEF TypeOK, Run
<1> QED
  BY <1>1 DEF InPhase, Attempts

\* A request takes a snapshot, or nothing the promise is about happens.
LEMMA RequestKeepsPromise ==
    ASSUME TypeOK, NEW r \in Request, RequestStep(r)
    PROVE  [Promise!Next]_(Promise!vars)
<1>1. CASE rows' = rows /\ runs' = runs
  BY <1>1 DEF Promise!vars
<1>2. CASE Insert(r)
  <2>1. ASSUME NEW c \in Commit, NEW s \in Snapshot, rows[s] = None,
               rows' = [rows EXCEPT ![s] = NewRow(c)], runs' = runs
        PROVE  UNCHANGED Promise!vars
    <3>1. NewRow(c) \in Row
      BY NewRowType
    <3>2. Holder' = Holder /\ Published' = Published
      BY <2>1, <3>1, SameView DEF NewRow, Holder, Published
    <3> QED
      BY <2>1, <3>2 DEF Promise!vars, Holder, Published
  <2> QED
    BY <1>1, <1>2, <2>1 DEF Insert, FreshSnapshot, TypeOK, Asked
<1>3. CASE SendBack(r)
  <2>1. ASSUME NEW s \in RowsOf(req[r].commit), rows' = [rows EXCEPT ![s] = SentBack(s)], runs' = runs
        PROVE  UNCHANGED Promise!vars
    <3>1. s \in Snapshot /\ rows[s] \in Row /\ rows[s] # None
      BY DEF RowsOf, TypeOK
    <3>2. /\ SentBack(s) \in Row
          /\ SentBack(s).owner = rows[s].owner /\ SentBack(s).version = rows[s].version
      BY <3>1, NothingLeft DEF SentBack, Row, Status
    <3>3. Holder' = Holder /\ Published' = Published
      BY <2>1, <3>1, <3>2, SameView DEF Holder, Published
    <3> QED
      BY <2>1, <3>3 DEF Promise!vars, Holder, Published
  <2> QED
    BY <1>1, <1>3, <2>1 DEF SendBack
<1>4. ASSUME NEW o \in Owner, Claim(r, o) \/ ClaimLost(r, o) PROVE Promise!Take(req[r].snapshot, o)
  <2> DEFINE s == req[r].snapshot
  <2>1. /\ s \in Snapshot /\ rows[s] \in Row /\ rows[s] # None
        /\ rows' = [rows EXCEPT ![s] = ClaimedBy(s, o)]
    BY <1>4, CommitAssumption DEF Claim, ClaimLost, Claimable, TypeOK, Asked
  <2> DEFINE row == ClaimedBy(s, o)
  <2>2. row \in Row /\ row.owner = o /\ row.version = rows[s].version
    BY <2>1, ClaimedType DEF ClaimedBy, Row
  <2>2a. rows' = [rows EXCEPT ![s] = row]
    BY <2>1
  <2> HIDE DEF row
  <2>3. Holder' = [Holder EXCEPT ![s] = o] /\ Published' = [Published EXCEPT ![s] = rows[s].version]
    <3>1. s \in Snapshot /\ row \in Row
      BY <2>1, <2>2
    <3>2. /\ Holder' = [Holder EXCEPT ![s] = row.owner]
          /\ Published' = [Published EXCEPT ![s] = row.version]
      <4> HIDE DEF s
      <4> QED
        BY <2>2a, <3>1, ViewOfRow
    <3> QED
      BY <2>2, <3>2
  <2>4. Published' = Published
    BY <2>1, <2>3 DEF Published
  <2>5. ClaimLost(r, o) => Attempts' = Attempts
    BY DEF ClaimLost, Attempts
  <2>6. ASSUME Claim(r, o) PROVE Attempts' = Attempts \union {<<s, o>>}
    <3> DEFINE later(run) == [run EXCEPT !.tracked =
                                @ /\ ~(run.process = AnsweredBy[r] /\ run.snapshot = s)]
               new == [process |-> AnsweredBy[r], snapshot |-> s, owner |-> o, phase |-> "building",
                       tracked |-> TRUE, aborted |-> FALSE]
    <3>1. \A run \in runs : later(run).owner = run.owner /\ later(run).snapshot = run.snapshot
      BY DEF TypeOK, Run
    <3>2. runs' = {later(run) : run \in runs} \union {new}
      BY <2>6 DEF Claim
    <3>3. new.snapshot = s /\ new.owner = o
      OBVIOUS
    <3> HIDE DEF later, new
    <3> QED
      BY <3>1, <3>2, <3>3 DEF Attempts
  <2> QED
    BY <1>4, <2>3, <2>4, <2>5, <2>6 DEF Promise!Take, Attempts, Holder, Published
<1>5. ASSUME NEW o \in Owner, Claim(r, o) \/ ClaimLost(r, o) PROVE req[r].snapshot \in Snapshot
  BY <1>5, CommitAssumption DEF Claim, ClaimLost, Claimable, TypeOK, Asked
<1> QED
  BY <1>1, <1>2, <1>3, <1>4, <1>5
     DEF RequestStep, Ask, AskHeld, ReadRow, ClaimRefused, Poll, BudgetEnds, Done, Promise!Next

\* A run publishes, hands back or ends without a word, and does the first two only with the row it
\* holds.
LEMMA RunKeepsPromise ==
    ASSUME TypeOK, ClaimsAreExclusive, NEW run \in runs, RunStep(run)
    PROVE  [Promise!Next]_(Promise!vars)
<1> DEFINE s == run.snapshot
           o == run.owner
<1>1. s \in Snapshot /\ o \in Owner /\ run.process \in Process /\ <<s, o>> \in Attempts
  BY DEF TypeOK, Run, Attempts
<1>2. Held(run) => rows[s] \in Row /\ rows[s] # None /\ Holder[s] = o
  BY <1>1 DEF Held, TypeOK, Holder
<1>3. ASSUME Attempts' \subseteq Attempts, rows' = rows PROVE Promise!Die
  BY <1>3 DEF Promise!Die, Attempts, Holder, Published
<1>4. ASSUME NEW row \in Row, Held(run), rows' = [rows EXCEPT ![s] = row],
             row.owner = None, row.version = rows[s].version, Attempts' = Attempts \ {<<s, o>>}
      PROVE  Promise!HandBack(s, o)
  <2>1. Holder' = [Holder EXCEPT ![s] = None] /\ Published' = [Published EXCEPT ![s] = row.version]
    BY <1>1, <1>4, ViewOfRow
  <2>2. Published' = Published
    BY <1>2, <1>4, <2>1 DEF Published
  <2> QED
    BY <1>1, <1>2, <1>4, <2>1, <2>2 DEF Promise!HandBack, Attempts, Holder, Published
<1>5. ASSUME Held(run), rows' = [rows EXCEPT ![s] = WrittenBy(run)],
             Attempts' = Attempts \/ Attempts' = Attempts \ {<<s, o>>}
      PROVE  Promise!Publish(s, o)
  <2>1. /\ IndexVersion[run.process] \in Version
        /\ WrittenBy(run) \in Row
        /\ WrittenBy(run).owner = None
        /\ WrittenBy(run).version = IndexVersion[run.process]
    BY <1>1, <1>2, <1>5, NothingLeft, VersionAssumption DEF WrittenBy, Row, Version, Status
  <2> DEFINE row == WrittenBy(run)
  <2>3. row \in Row /\ row.owner = None /\ row.version = IndexVersion[run.process]
    BY <2>1
  <2>4. rows' = [rows EXCEPT ![s] = row]
    BY <1>5
  <2> HIDE DEF row
  <2>2. /\ Holder' = [Holder EXCEPT ![s] = None]
        /\ Published' = [Published EXCEPT ![s] = IndexVersion[run.process]]
    <3>1. Holder' = [Holder EXCEPT ![s] = row.owner] /\ Published' = [Published EXCEPT ![s] = row.version]
      BY <1>1, <2>3, <2>4, ViewOfRow
    <3> QED
      BY <2>3, <3>1
  <2> QED
    BY <1>1, <1>2, <1>5, <2>1, <2>2 DEF Promise!Publish, Attempts, Holder, Published
<1>6. CASE Renew(run)
  <2> DEFINE row == [rows[s] EXCEPT !.lease = LeaseTicks]
  <2>1. Held(run) /\ rows' = [rows EXCEPT ![s] = row] /\ runs' = runs
    BY <1>6 DEF Renew
  <2>2. row \in Row /\ row.owner = rows[s].owner /\ row.version = rows[s].version
    BY <1>2, <2>1, BoundAssumption DEF Row
  <2> HIDE DEF row
  <2>3. Holder' = Holder /\ Published' = Published
    BY <1>1, <1>2, <2>1, <2>2, SameView DEF Holder, Published
  <2> QED
    BY <2>1, <2>3 DEF Promise!vars, Holder, Published
<1>7. CASE Built(run) \/ BuildFails(run)
  <2>1. Attempts' = Attempts /\ rows' = rows
    BY <1>7, SameAttempts DEF Built, BuildFails
  <2> QED
    BY <2>1 DEF Promise!vars, Attempts
<1>8. CASE Write(run)
  <2>1. Attempts' = Attempts \ {<<s, o>>}
    BY <1>8, EndedAttempt DEF Write
  <2> QED
    BY <1>1, <1>3, <1>5, <1>8, <2>1 DEF Write, Promise!Next
<1>9. CASE WriteFails(run)
  <2>1. Attempts' = Attempts
    BY <1>9, SameAttempts DEF WriteFails
  <2> QED
    BY <1>1, <1>3, <1>5, <1>9, <2>1 DEF WriteFails, Promise!Next
<1>10. CASE Release(run)
  <2> DEFINE row == [rows[s] EXCEPT !.status = "pending", !.owner = None, !.lease = 0]
  <2>1. Attempts' = Attempts \ {<<s, o>>}
    BY <1>10, EndedAttempt DEF Release
  <2>2. Held(run) => row \in Row /\ row.owner = None /\ row.version = rows[s].version
    BY <1>2, NothingLeft DEF Row, Status
  <2>3. IF Held(run) THEN rows' = [rows EXCEPT ![s] = row] ELSE rows' = rows
    BY <1>10 DEF Release
  <2> HIDE DEF row
  <2> QED
    BY <1>1, <1>3, <1>4, <2>1, <2>2, <2>3 DEF Promise!Next
<1>11. CASE Fail(run)
  <2>1. Attempts' = Attempts \ {<<s, o>>}
    BY <1>11, EndedAttempt DEF Fail
  <2> DEFINE row(wait) == [rows[s] EXCEPT !.status = "failed", !.owner = None, !.lease = 0, !.retry = wait]
  <2>2. \A wait \in 0..LongestRetry : Held(run) =>
          row(wait) \in Row /\ row(wait).owner = None /\ row(wait).version = rows[s].version
    BY <1>2, NothingLeft DEF Row, Status
  <2>3. PICK wait \in 0..LongestRetry :
          IF Held(run) THEN rows' = [rows EXCEPT ![s] = row(wait)] ELSE rows' = rows
    BY <1>1, <1>11, FailRow
  <2> HIDE DEF row
  <2> QED
    BY <1>1, <1>3, <1>4, <2>1, <2>2, <2>3 DEF Promise!Next
<1>12. CASE EndLost(run)
  <2>1. Attempts' = Attempts \ {<<s, o>>} /\ rows' = rows
    BY <1>12, EndedAttempt DEF EndLost
  <2> QED
    BY <1>3, <2>1 DEF Promise!Next
<1> QED
  BY <1>6, <1>7, <1>8, <1>9, <1>10, <1>11, <1>12 DEF RunStep

\* Processes come and go, the clock ticks, the operator purges: attempts may end, and only the purge
\* touches what is held or readable.
LEMMA OtherKeepsPromise ==
    ASSUME TypeOK, (\E p \in Process : ProcessStep(p)) \/ Tick \/ Purge
    PROVE  [Promise!Next]_(Promise!vars)
<1>1. ASSUME NEW p \in Process, Close(p) PROVE UNCHANGED Promise!vars
  <2> DEFINE later(run) == [run EXCEPT !.aborted = @ \/ run \in Tracked(p)]
  <2>1. \A run \in runs : later(run).owner = run.owner /\ later(run).snapshot = run.snapshot
    BY DEF TypeOK, Run
  <2>2. runs' = {later(run) : run \in runs} /\ rows' = rows
    BY <1>1 DEF Close
  <2> HIDE DEF later
  <2>3. Attempts' = Attempts
    BY <2>1, <2>2 DEF Attempts
  <2> QED
    BY <2>2, <2>3 DEF Promise!vars, Attempts
<1>2. ASSUME NEW p \in Process, Gone(p) PROVE Promise!Die
  BY <1>2 DEF Gone, Promise!Die
<1>3. CASE Tick
  <2> DEFINE later(row) == [row EXCEPT !.lease = IF @ > 0 THEN @ - 1 ELSE 0,
                                       !.retry = IF @ > 0 THEN @ - 1 ELSE 0]
  <2>1. \A row \in Row : later(row) \in Row /\ later(row).owner = row.owner
                         /\ later(row).version = row.version
    <3>1. \A n \in Nat : \A m \in 0..n : (IF m > 0 THEN m - 1 ELSE 0) \in 0..n
      OBVIOUS
    <3>2. LeaseTicks \in Nat /\ LongestRetry \in Nat
      BY RetryType, BoundAssumption
    <3> TAKE row \in Row
    <3>3. /\ (IF row.lease > 0 THEN row.lease - 1 ELSE 0) \in 0..LeaseTicks
          /\ (IF row.retry > 0 THEN row.retry - 1 ELSE 0) \in 0..LongestRetry
      BY <3>1, <3>2 DEF Row
    <3> QED
      BY <3>3 DEF Row
  <2>2. \A s \in Snapshot : rows'[s] = IF rows[s] = None THEN None ELSE later(rows[s])
    BY <1>3 DEF Tick
  <2> HIDE DEF later
  <2>3. \A s \in Snapshot :
          /\ (IF rows'[s] = None THEN None ELSE rows'[s].owner) = Holder[s]
          /\ (IF rows'[s] = None THEN 0 ELSE rows'[s].version) = Published[s]
    BY <2>1, <2>2, RowAssumption DEF TypeOK, Holder, Published
  <2>4. Holder' = [s \in Snapshot |-> Holder[s]] /\ Published' = [s \in Snapshot |-> Published[s]]
    BY <2>3 DEF Holder, Published
  <2>5. Holder' = Holder /\ Published' = Published
    BY <2>4 DEF Holder, Published
  <2> QED
    BY <1>3, <2>5 DEF Tick, Promise!vars, Holder, Published
<1>4. CASE Purge
  BY <1>4 DEF Purge, Promise!Next, Promise!Purge
<1> QED
  BY <1>1, <1>2, <1>3, <1>4 DEF ProcessStep, Exit, Crash, Promise!Next

\* The table keeps its promise: only the run that holds a row publishes, in one step, and nothing
\* else changes what readers find; leases, retries, crashes and late runs implement CommitIndex.
THEOREM PromiseKept == Spec => ImplementsPromise
<1>1. Init => Promise!Init
  BY DEF Init, Promise!Init
<1>2. TypeOK /\ ClaimsAreExclusive /\ [Next]_vars => [Promise!Next]_(Promise!vars)
  <2>1. UNCHANGED vars => UNCHANGED Promise!vars
    BY DEF vars, Promise!vars
  <2> QED
    BY <2>1, RequestKeepsPromise, RunKeepsPromise, OtherKeepsPromise DEF Next
<1> QED
  BY <1>1, <1>2, TypesHold, ExclusiveClaims, PTL DEF Spec, ImplementsPromise, Promise!Spec

-----------------------------------------------------------------------------
(* One run at a time, as long as the renewal timers run in time *)

\* A run that still works towards an index.
Working(run) == run.phase \in {"building", "built"}

\* With timers that run in time, a working run holds its row and its lease has not run out, unless
\* the repository was purged.
WorkersHold ==
    \A run \in runs : Working(run) =>
        \/ rows[run.snapshot] = None
        \/ Held(run) /\ rows[run.snapshot].lease > 0

\* No run starts to work in a step.
NoNewWorker ==
    \A a \in runs' : Working(a) =>
        \E run \in runs : Working(run) /\ a.owner = run.owner /\ a.snapshot = run.snapshot

\* The row of every run that works on after a step is left to it, or is purged.
WorkersKeepRows ==
    \A a \in runs' : Working(a) =>
        \/ rows'[a.snapshot] = None
        \/ /\ rows'[a.snapshot].status = "indexing"
           /\ rows'[a.snapshot].owner = a.owner
           /\ rows'[a.snapshot].lease > 0

\* Together: what the proof carries along.
OneWorker == WorkersHold /\ OneIndexerAtATime

LEMMA NobodyStarts ==
    ASSUME OneWorker, ClaimsAreExclusive', NoNewWorker, WorkersKeepRows
    PROVE  OneWorker'
<1>1. WorkersHold'
  BY DEF WorkersHold, WorkersKeepRows, Held, Working
<1>2. OneIndexerAtATime'
  <2> SUFFICES ASSUME NEW a \in runs', NEW b \in runs', a.snapshot = b.snapshot, Working(a), Working(b)
               PROVE  a = b
    BY DEF OneIndexerAtATime, Working
  <2>1. PICK x \in runs : Working(x) /\ a.owner = x.owner /\ a.snapshot = x.snapshot
    BY DEF NoNewWorker
  <2>2. PICK y \in runs : Working(y) /\ b.owner = y.owner /\ b.snapshot = y.snapshot
    BY DEF NoNewWorker
  <2>3. x = y
    BY <2>1, <2>2 DEF OneWorker, OneIndexerAtATime, Working
  <2> QED
    BY <2>1, <2>2, <2>3 DEF ClaimsAreExclusive
<1> QED
  BY <1>1, <1>2 DEF OneWorker

\* A row nobody works on may change in any way.
LEMMA IdleRow ==
    ASSUME TypeOK, OneWorker, NEW s \in Snapshot, NEW row, rows' = [rows EXCEPT ![s] = row],
           \A run \in runs : Working(run) => run.snapshot # s, NoNewWorker
    PROVE  WorkersKeepRows
BY DEF TypeOK, Run, OneWorker, WorkersHold, NoNewWorker, WorkersKeepRows, Held

LEMMA SameRows ==
    ASSUME OneWorker, rows' = rows, NoNewWorker
    PROVE  WorkersKeepRows
BY DEF OneWorker, WorkersHold, NoNewWorker, WorkersKeepRows, Held

\* The row of a working run is neither ready nor to be claimed.
LEMMA NotForOthers ==
    ASSUME TypeOK, OneWorker, NEW run \in runs, Working(run), rows[run.snapshot] # None
    PROVE  ~Claimable(run.snapshot) /\ rows[run.snapshot].status = "indexing"
<1>1. Held(run) /\ rows[run.snapshot].lease > 0
  BY DEF OneWorker, WorkersHold
<1> QED
  BY <1>1 DEF Claimable, Held

LEMMA RequestKeepsOneWorker ==
    ASSUME TypeOK, ClaimsAreExclusive', OneWorker, NEW r \in Request, RequestStep(r)
    PROVE  OneWorker'
<1>1. runs' = runs => NoNewWorker
  BY DEF NoNewWorker
<1>2. CASE rows' = rows /\ runs' = runs
  BY <1>1, <1>2, SameRows, NobodyStarts
<1>3. ASSUME NEW s \in Snapshot, NEW row, rows' = [rows EXCEPT ![s] = row], runs' = runs,
             \A run \in runs : Working(run) => run.snapshot # s
      PROVE  OneWorker'
  BY <1>1, <1>3, IdleRow, NobodyStarts
<1>4. CASE Insert(r)
  BY <1>2, <1>3, <1>4 DEF Insert, FreshSnapshot
<1>5. CASE SendBack(r)
  <2>1. ASSUME NEW s \in RowsOf(req[r].commit), Outdated(AnsweredBy[r], s),
               rows' = [rows EXCEPT ![s] = SentBack(s)], runs' = runs
        PROVE  OneWorker'
    <3>1. s \in Snapshot /\ rows[s] # None /\ rows[s].status # "indexing"
      BY <2>1 DEF RowsOf, Outdated
    <3> QED
      BY <1>3, <2>1, <3>1, NotForOthers
  <2> QED
    BY <1>2, <1>5, <2>1 DEF SendBack
<1>6. ASSUME NEW o \in Owner, ClaimLost(r, o) PROVE OneWorker'
  <2>1. req[r].snapshot \in Snapshot /\ rows[req[r].snapshot] # None
    BY <1>6 DEF ClaimLost, Claimable, TypeOK, Asked
  <2>2. /\ Claimable(req[r].snapshot)
        /\ rows' = [rows EXCEPT ![req[r].snapshot] = ClaimedBy(req[r].snapshot, o)]
        /\ runs' = runs
    BY <1>6 DEF ClaimLost
  <2> QED
    BY <1>3, <2>1, <2>2, NotForOthers
<1>7. ASSUME NEW o \in Owner, Claim(r, o) PROVE OneWorker'
  <2> DEFINE s == req[r].snapshot
             later(run) == [run EXCEPT !.tracked = @ /\ ~(run.process = AnsweredBy[r] /\ run.snapshot = s)]
             new == [process |-> AnsweredBy[r], snapshot |-> s, owner |-> o, phase |-> "building",
                     tracked |-> TRUE, aborted |-> FALSE]
  <2>1. s \in Snapshot /\ rows[s] \in Row /\ rows[s] # None /\ Claimable(s)
    BY <1>7 DEF Claim, Claimable, TypeOK, Asked
  <2>2. \A run \in runs : Working(run) => run.snapshot # s
    BY <2>1, NotForOthers
  <2>3. /\ rows'[s].status = "indexing" /\ rows'[s].owner = o /\ rows'[s].lease = LeaseTicks
        /\ \A z \in Snapshot \ {s} : rows'[z] = rows[z]
    <3>1. rows' = [rows EXCEPT ![s] = ClaimedBy(s, o)]
      BY <1>7 DEF Claim
    <3> QED
      BY <2>1, <3>1 DEF ClaimedBy, Row, TypeOK
  <2>4. \A run \in runs : /\ later(run).owner = run.owner /\ later(run).snapshot = run.snapshot
                          /\ later(run).phase = run.phase
    BY DEF TypeOK, Run
  <2>5. runs' = {later(run) : run \in runs} \union {new}
    BY <1>7 DEF Claim
  <2>6. new.snapshot = s /\ new.owner = o
    OBVIOUS
  <2>7. \A run \in runs : run.snapshot \in Snapshot
    BY DEF TypeOK, Run
  <2>8. LeaseTicks > 0
    BY BoundAssumption
  <2> HIDE DEF later, new, s
  <2>9. \A a \in runs' : Working(a) =>
          \/ a = new
          \/ /\ a.snapshot \in Snapshot \ {s}
             /\ \E run \in runs : Working(run) /\ a.owner = run.owner /\ a.snapshot = run.snapshot
    BY <2>2, <2>4, <2>5, <2>7 DEF Working
  <2>10. WorkersHold'
    <3> SUFFICES ASSUME NEW a \in runs', Working(a)
                 PROVE  \/ rows'[a.snapshot] = None
                        \/ /\ rows'[a.snapshot].status = "indexing"
                           /\ rows'[a.snapshot].owner = a.owner
                           /\ rows'[a.snapshot].lease > 0
      BY DEF WorkersHold, Working, Held
    <3> QED
      BY <2>3, <2>6, <2>8, <2>9 DEF OneWorker, WorkersHold, Held
  <2>11. OneIndexerAtATime'
    <3> SUFFICES ASSUME NEW a \in runs', NEW b \in runs', a.snapshot = b.snapshot, Working(a), Working(b)
                 PROVE  a = b
      BY DEF OneIndexerAtATime, Working
    <3>1. CASE a = new \/ b = new
      BY <2>6, <2>9, <3>1
    <3>2. CASE a # new /\ b # new
      BY <2>9, <3>2 DEF OneWorker, OneIndexerAtATime, ClaimsAreExclusive, Working
    <3> QED
      BY <3>1, <3>2
  <2> QED
    BY <2>10, <2>11 DEF OneWorker
<1> QED
  BY <1>2, <1>4, <1>5, <1>6, <1>7
     DEF RequestStep, Ask, AskHeld, ReadRow, ClaimRefused, Poll, BudgetEnds, Done

\* What ending a run, or moving it on, does to the runs that work.
LEMMA WorkersAfterEnd ==
    ASSUME TypeOK, ClaimsAreExclusive, NEW run \in runs, runs' = Ended(run)
    PROVE  NoNewWorker /\ \A a \in runs' : a.owner # run.owner
<1> DEFINE later(other) == [other EXCEPT !.tracked =
                               @ /\ ~(other.process = run.process /\ other.snapshot = run.snapshot)]
<1>1. \A other \in runs : /\ later(other).owner = other.owner /\ later(other).snapshot = other.snapshot
                          /\ later(other).phase = other.phase
  BY DEF TypeOK, Run
<1>2. runs' = {later(other) : other \in runs \ {run}}
  BY DEF Ended
<1>3. \A other \in runs : other.owner = run.owner => other = run
  BY DEF ClaimsAreExclusive
<1> HIDE DEF later
<1> QED
  BY <1>1, <1>2, <1>3 DEF NoNewWorker, Working

LEMMA WorkersInPhase ==
    ASSUME TypeOK, ClaimsAreExclusive, NEW run \in runs, NEW phase, runs' = InPhase(run, phase)
    PROVE  /\ Working(run) => NoNewWorker
           /\ phase \in {"failing", "releasing"} =>
                NoNewWorker /\ \A a \in runs' : Working(a) => a.owner # run.owner
<1>1. /\ [run EXCEPT !.phase = phase].owner = run.owner
      /\ [run EXCEPT !.phase = phase].snapshot = run.snapshot
      /\ [run EXCEPT !.phase = phase].phase = phase
  BY DEF TypeOK, Run
<1>2. \A other \in runs : other.owner = run.owner => other = run
  BY DEF ClaimsAreExclusive
<1> QED
  BY <1>1, <1>2 DEF InPhase, NoNewWorker, Working

\* Only the run that holds the row can change it, so nobody else works on it.
LEMMA HoldersRow ==
    ASSUME TypeOK, ClaimsAreExclusive, OneWorker, NEW run \in runs, Held(run), NEW row,
           rows' = [rows EXCEPT ![run.snapshot] = row], NoNewWorker,
           \A a \in runs' : Working(a) => a.owner # run.owner
    PROVE  WorkersKeepRows
<1> SUFFICES ASSUME NEW a \in runs', Working(a)
             PROVE  \/ rows'[a.snapshot] = None
                    \/ /\ rows'[a.snapshot].status = "indexing"
                       /\ rows'[a.snapshot].owner = a.owner
                       /\ rows'[a.snapshot].lease > 0
  BY DEF WorkersKeepRows
<1>1. PICK x \in runs : Working(x) /\ a.owner = x.owner /\ a.snapshot = x.snapshot
  BY DEF NoNewWorker
<1>2. x.snapshot \in Snapshot /\ run.snapshot \in Snapshot
  BY DEF TypeOK, Run
<1>3. x.snapshot # run.snapshot
  <2> SUFFICES ASSUME x.snapshot = run.snapshot PROVE FALSE
    OBVIOUS
  <2>1. Held(x)
    BY <1>1 DEF OneWorker, WorkersHold, Held
  <2> QED
    BY <1>1, <2>1 DEF Held
<1>4. rows'[a.snapshot] = rows[x.snapshot]
  BY <1>1, <1>2, <1>3 DEF TypeOK
<1> QED
  BY <1>1, <1>4 DEF OneWorker, WorkersHold, Held

LEMMA RunKeepsOneWorker ==
    ASSUME TypeOK, ClaimsAreExclusive, ClaimsAreExclusive', OneWorker, NEW run \in runs, RunStep(run)
    PROVE  OneWorker'
<1> DEFINE s == run.snapshot
<1>1. s \in Snapshot
  BY DEF TypeOK, Run
<1>2. CASE Renew(run)
  <2>1. /\ rows[s] \in Row /\ LeaseTicks \in Nat /\ LeaseTicks > 0
    BY <1>1, <1>2, BoundAssumption DEF Renew, Held, TypeOK
  <2>2. /\ rows'[s] = [rows[s] EXCEPT !.lease = LeaseTicks]
        /\ \A z \in Snapshot \ {s} : rows'[z] = rows[z]
    BY <1>1, <1>2 DEF Renew, TypeOK
  <2>3. /\ rows'[s].status = rows[s].status /\ rows'[s].owner = rows[s].owner /\ rows'[s].lease > 0
    BY <2>1, <2>2 DEF Row
  <2>4. NoNewWorker
    BY <1>2 DEF Renew, NoNewWorker
  <2>5. WorkersKeepRows
    BY <1>2, <2>2, <2>3 DEF Renew, Held, OneWorker, WorkersHold, WorkersKeepRows, TypeOK, Run
  <2> QED
    BY <2>4, <2>5, NobodyStarts
<1>3. CASE Built(run) \/ BuildFails(run)
  <2>1. NoNewWorker
    BY <1>3, WorkersInPhase DEF Built, BuildFails, Working
  <2> QED
    BY <1>3, <2>1, SameRows, NobodyStarts DEF Built, BuildFails
<1>4. CASE runs' = Ended(run)
  <2>1. rows' = rows \/ (Held(run) /\ \E row : rows' = [rows EXCEPT ![s] = row])
    <3>1. CASE Fail(run)
      BY <3>1 DEF Fail
    <3>2. CASE Write(run) \/ Release(run) \/ EndLost(run)
      BY <3>2 DEF Write, Release, EndLost
    <3>3. CASE Renew(run) \/ Built(run) \/ BuildFails(run)
      BY <3>3 DEF Renew, Built, BuildFails
    <3>4. CASE WriteFails(run)
      BY <3>4 DEF WriteFails
    <3> QED
      BY <3>1, <3>2, <3>3, <3>4 DEF RunStep
  <2> QED
    BY <1>4, <2>1, WorkersAfterEnd, HoldersRow, SameRows, NobodyStarts
<1>5. CASE WriteFails(run)
  <2>1. NoNewWorker /\ \A a \in runs' : Working(a) => a.owner # run.owner
    BY <1>5, WorkersInPhase DEF WriteFails
  <2> QED
    BY <1>5, <2>1, HoldersRow, SameRows, NobodyStarts DEF WriteFails
<1> QED
  BY <1>2, <1>3, <1>4, <1>5 DEF RunStep, Write, Release, Fail, EndLost

LEMMA OtherKeepsOneWorker ==
    ASSUME TypeOK, Punctual, ClaimsAreExclusive', OneWorker,
           (\E p \in Process : ProcessStep(p)) \/ Tick \/ Purge
    PROVE  OneWorker'
<1>1. ASSUME NEW p \in Process, Close(p) PROVE OneWorker'
  <2> DEFINE later(run) == [run EXCEPT !.aborted = @ \/ run \in Tracked(p)]
  <2>1. \A run \in runs : /\ later(run).owner = run.owner /\ later(run).snapshot = run.snapshot
                          /\ later(run).phase = run.phase
    BY DEF TypeOK, Run
  <2>2. runs' = {later(run) : run \in runs} /\ rows' = rows
    BY <1>1 DEF Close
  <2> HIDE DEF later
  <2>3. NoNewWorker
    BY <2>1, <2>2 DEF NoNewWorker, Working
  <2> QED
    BY <2>2, <2>3, SameRows, NobodyStarts
<1>2. ASSUME NEW p \in Process, Gone(p) PROVE OneWorker'
  <2>1. NoNewWorker /\ rows' = rows
    BY <1>2 DEF Gone, NoNewWorker
  <2> QED
    BY <2>1, SameRows, NobodyStarts
<1>3. CASE Tick
  <2>1. NoNewWorker
    BY <1>3 DEF Tick, NoNewWorker
  <2>2. ASSUME NEW run \in runs, Working(run), rows[run.snapshot] # None
        PROVE  /\ rows'[run.snapshot].status = "indexing" /\ rows'[run.snapshot].owner = run.owner
               /\ rows'[run.snapshot].lease > 0
    <3> DEFINE row == rows[run.snapshot]
    <3>1. Held(run)
      BY <2>2 DEF OneWorker, WorkersHold
    <3>2. run.snapshot \in Snapshot /\ row \in Row /\ row.lease > 1
      BY <1>3, <2>2, <3>1 DEF Tick, TypeOK, Run
    <3>3. rows'[run.snapshot] = [row EXCEPT !.lease = IF @ > 0 THEN @ - 1 ELSE 0,
                                            !.retry = IF @ > 0 THEN @ - 1 ELSE 0]
      BY <1>3, <2>2, <3>2 DEF Tick
    <3>4. row.lease \in Int /\ row.lease - 1 > 0
      BY <3>2, BoundAssumption DEF Row
    <3> QED
      BY <3>1, <3>2, <3>3, <3>4 DEF Held, Row
  <2>3. \A run \in runs : rows[run.snapshot] = None => rows'[run.snapshot] = None
    BY <1>3 DEF Tick, TypeOK, Run
  <2>4. WorkersKeepRows
    BY <1>3, <2>2, <2>3 DEF Tick, WorkersKeepRows
  <2> QED
    BY <2>1, <2>4, NobodyStarts
<1>4. CASE Purge
  <2>1. NoNewWorker
    BY <1>4 DEF Purge, NoNewWorker
  <2>2. WorkersKeepRows
    BY <1>4 DEF Purge, WorkersKeepRows, TypeOK, Run
  <2> QED
    BY <2>1, <2>2, NobodyStarts
<1> QED
  BY <1>1, <1>2, <1>3, <1>4 DEF ProcessStep, Exit, Crash

LEMMA OneWorkerStep ==
    TypeOK /\ ClaimsAreExclusive /\ ClaimsAreExclusive' /\ Punctual /\ OneWorker /\ [Next]_vars
        => OneWorker'
<1>1. OneWorker /\ UNCHANGED vars => OneWorker'
  BY DEF vars, OneWorker, WorkersHold, OneIndexerAtATime, Held
<1> QED
  BY <1>1, RequestKeepsOneWorker, RunKeepsOneWorker, OtherKeepsOneWorker DEF Next

\* ADR-0007, "exactly one process indexes a commit at a time", wherever the renewal timers run in
\* time. The lease alone gives it, not the token: a run whose timer is late goes on beside the one
\* that took its row.
THEOREM OneIndexerHolds == ASSUME Punctual PROVE Spec => []OneIndexerAtATime
<1>1. Init => OneWorker
  BY DEF Init, OneWorker, WorkersHold, OneIndexerAtATime
<1>2. TypeOK /\ ClaimsAreExclusive /\ ClaimsAreExclusive' /\ OneWorker /\ [Next]_vars => OneWorker'
  BY OneWorkerStep
<1>3. OneWorker => OneIndexerAtATime
  BY DEF OneWorker
<1> QED
  BY <1>1, <1>2, <1>3, TypesHold, ExclusiveClaims, PTL DEF Spec

=============================================================================
