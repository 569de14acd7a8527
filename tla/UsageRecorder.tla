----------------------------- MODULE UsageRecorder -----------------------------
(***************************************************************************)
(* What agents do is counted in memory, flushed as daily totals, and the   *)
(* clients of a day are rows until the day is over and they are folded     *)
(* into a count (apps/server/src/stats/usage-recorder.ts over              *)
(* packages/db/src/queries/usage.ts).  One repository and one counter; a   *)
(* client is its hash under the key of the day.                            *)
(***************************************************************************)
EXTENDS Integers, Sequences, FiniteSets, FiniteSetsExt

CONSTANTS
    Recorder,       \* processes that count
    Client,
    MaxRemembered,  \* MAX_REMEMBERED_CLIENTS
    LastDay,        \* bound: days there are
    MaxRequests,    \* bound: requests counted in all
    MaxFailures     \* bound: writes that fail and processes that die

ASSUME UsageAssumption ==
    /\ MaxRemembered \in Nat \ {0}
    /\ {LastDay, MaxRequests, MaxFailures} \subseteq Nat
    /\ IsFiniteSet(Recorder) /\ IsFiniteSet(Client)

Day == 0..LastDay

VARIABLES
    today,
    counts,         \* #buffer: per day
    clients,        \* #clients: the clients of a day in line to be written
    remembered,     \* #remembered: those written or in line
    rememberedDay,
    foldedBefore,   \* the day its last fold was asked for, -1 before the first
    writing,        \* #writing: the writes under way, one at a time and in order
    usageClients,   \* usage_clients
    usageDaily,     \* usage_daily: the counter, and the count of clients
    requests,       \* history: requests per day
    seen,           \* history: the clients of each day that were seen
    dropped,        \* history: requests per day whose write failed or that died in memory
    reopened,       \* history: the days whose clients were written after a fold had moved some
    failures

counting ==
    <<today, counts, clients, remembered, rememberedDay, foldedBefore, writing, usageClients, usageDaily,
      requests, seen, dropped, reopened, failures>>

NoCount == [d \in Day |-> 0]

\* "clients" before "counts" before "fold": the order of the statements of a flush.
Write == [step: {"clients", "counts", "fold"}, clients: SUBSET (Day \X Client), counts: [Day -> 0..MaxRequests],
          fold: BOOLEAN, before: Day]

UsageTypeOK ==
    /\ today \in Day
    /\ counts \in [Recorder -> [Day -> 0..MaxRequests]]
    /\ clients \in [Recorder -> SUBSET (Day \X Client)]
    /\ remembered \in [Recorder -> SUBSET (Day \X Client)]
    /\ rememberedDay \in [Recorder -> Day \union {-1}]
    /\ foldedBefore \in [Recorder -> Day \union {-1}]
    /\ \A p \in Recorder : Cardinality(remembered[p]) <= MaxRemembered /\ \A w \in DOMAIN writing[p] : writing[p][w] \in Write
    /\ usageClients \subseteq Day \X Client
    /\ usageDaily \in [Day -> [requests: 0..MaxRequests, clients: Nat]]
    /\ requests \in [Day -> 0..MaxRequests]
    /\ seen \subseteq Day \X Client
    /\ dropped \in [Day -> 0..MaxRequests]
    /\ reopened \subseteq Day
    /\ failures \in 0..MaxFailures

UsageInit ==
    /\ today = 0
    /\ counts = [p \in Recorder |-> NoCount]
    /\ clients = [p \in Recorder |-> {}]
    /\ remembered = [p \in Recorder |-> {}]
    /\ rememberedDay = [p \in Recorder |-> -1]
    /\ foldedBefore = [p \in Recorder |-> -1]
    /\ writing = [p \in Recorder |-> <<>>]
    /\ usageClients = {}
    /\ usageDaily = [d \in Day |-> [requests |-> 0, clients |-> 0]]
    /\ requests = NoCount /\ seen = {} /\ dropped = NoCount /\ reopened = {}
    /\ failures = 0

Plus(f, g) == [d \in Day |-> f[d] + g[d]]
SumOf(f, S) == MapThenSumSet(LAMBDA x : f[x], S)

\* Variants of definitions, named with an underscore, are not part of the specification: each is the
\* definition with a slip that the property it is listed with in PROJECT.json must notice.

-----------------------------------------------------------------------------
(* count and client: in memory *)

\* #forgetDaysBefore and #noteClient: forgetting costs rows that the database ignores.
RememberedWith(p, key) ==
    LET known == IF rememberedDay[p] = today THEN remembered[p] ELSE {}
    IN  IF key \in known THEN known
        ELSE IF Cardinality(known) >= MaxRemembered THEN {key}
        ELSE known \union {key}

Known(p, key) == rememberedDay[p] = today /\ key \in remembered[p]

CountsRequest(p) ==
    /\ SumOf(requests, Day) < MaxRequests
    /\ \E c \in Client :
        LET key == <<today, c>>
        IN /\ clients' = IF Known(p, key) THEN clients ELSE [clients EXCEPT ![p] = @ \union {key}]
           /\ remembered' = [remembered EXCEPT ![p] = RememberedWith(p, key)]
           /\ seen' = seen \union {key}
    /\ rememberedDay' = [rememberedDay EXCEPT ![p] = today]
    /\ counts' = [counts EXCEPT ![p][today] = @ + 1]
    /\ requests' = [requests EXCEPT ![today] = @ + 1]
    /\ UNCHANGED <<today, foldedBefore, writing, usageClients, usageDaily, dropped, reopened, failures>>

-----------------------------------------------------------------------------
(* flush: takes what is buffered, and its write waits for the one before *)

\* What is left in memory once a flush has taken it.
LeftToCount_All(p) == counts[p]
LeftToCount(p) == NoCount

Flush(p) ==
    /\ LET fold == foldedBefore[p] # today
       IN /\ counts[p] # NoCount \/ clients[p] # {} \/ fold
          /\ writing' = [writing EXCEPT ![p] = Append(@,
               [step |-> "clients", clients |-> clients[p], counts |-> counts[p], fold |-> fold, before |-> today])]
    /\ counts' = [counts EXCEPT ![p] = LeftToCount(p)]
    /\ clients' = [clients EXCEPT ![p] = {}]
    /\ foldedBefore' = [foldedBefore EXCEPT ![p] = today]
    /\ UNCHANGED <<today, remembered, rememberedDay, usageClients, usageDaily, requests, seen, dropped, reopened, failures>>

Steps(p, w) == writing' = [writing EXCEPT ![p][1] = w]
WriteEnds(p) == writing' = [writing EXCEPT ![p] = Tail(@)]

\* addUsageClients: a client seen before on that day is not a new row.
AddClients(p) ==
    /\ writing[p] # <<>> /\ writing[p][1].step = "clients"
    /\ usageClients' = usageClients \union writing[p][1].clients
    /\ reopened' = reopened \union {d \in Day : usageDaily[d].clients > 0 /\ \E c \in Client : <<d, c>> \in writing[p][1].clients}
    /\ Steps(p, [writing[p][1] EXCEPT !.step = "counts"])
    /\ UNCHANGED <<today, counts, clients, remembered, rememberedDay, foldedBefore, usageDaily, requests, seen, dropped, failures>>

\* addUsage: totals are additive.
AddCounts(p) ==
    /\ writing[p] # <<>> /\ writing[p][1].step = "counts"
    /\ usageDaily' = [d \in Day |-> [usageDaily[d] EXCEPT !.requests = @ + writing[p][1].counts[d]]]
    /\ IF writing[p][1].fold THEN Steps(p, [writing[p][1] EXCEPT !.step = "fold"]) ELSE WriteEnds(p)
    /\ UNCHANGED <<today, counts, clients, remembered, rememberedDay, foldedBefore, usageClients, requests, seen, dropped,
                   reopened, failures>>

\* foldUsageClients: one statement deletes the rows of the days before and adds how many there were.
Folded(before) == {row \in usageClients : row[1] < before}

KeptRows(moved) == usageClients \ moved

Fold(p) ==
    /\ writing[p] # <<>> /\ writing[p][1].step = "fold"
    /\ LET moved == Folded(writing[p][1].before)
       IN /\ usageClients' = KeptRows(moved)
          /\ usageDaily' = [d \in Day |->
               [usageDaily[d] EXCEPT !.clients = @ + Cardinality({row \in moved : row[1] = d})]]
    /\ WriteEnds(p)
    /\ UNCHANGED <<today, counts, clients, remembered, rememberedDay, foldedBefore, requests, seen, dropped, reopened, failures>>

Failure == failures < MaxFailures /\ failures' = failures + 1

\* What a write had still to count.
Uncounted(w) == IF w.step = "fold" THEN NoCount ELSE w.counts
InWrites(writes, d) == SumOf([w \in DOMAIN writes |-> Uncounted(writes[w])[d]], DOMAIN writes)

\* What a process has still to count, in its buffer and in its writes.
Unwritten(d) == [p \in Recorder |-> counts[p][d] + InWrites(writing[p], d)]

\* A statement fails: the rest of the write is dropped, a fold among it.
WriteFails(p) ==
    /\ writing[p] # <<>>
    /\ Failure
    /\ dropped' = Plus(dropped, Uncounted(writing[p][1]))
    /\ WriteEnds(p)
    /\ UNCHANGED <<today, counts, clients, remembered, rememberedDay, foldedBefore, usageClients, usageDaily, requests, seen,
                   reopened>>

\* A process starts with nothing in memory in the place of one that stopped.
Replaced(p) ==
    /\ counts' = [counts EXCEPT ![p] = NoCount]
    /\ clients' = [clients EXCEPT ![p] = {}]
    /\ remembered' = [remembered EXCEPT ![p] = {}]
    /\ rememberedDay' = [rememberedDay EXCEPT ![p] = -1]
    /\ foldedBefore' = [foldedBefore EXCEPT ![p] = -1]
    /\ writing' = [writing EXCEPT ![p] = <<>>]
    /\ UNCHANGED <<today, usageClients, usageDaily, requests, seen, reopened>>

\* Dead, with what it had not written.
RecorderDies(p) ==
    /\ Failure
    /\ dropped' = [d \in Day |-> dropped[d] + Unwritten(d)[p]]
    /\ Replaced(p)

\* close: it writes what is left first.
RecorderCloses(p) ==
    /\ counts[p] = NoCount /\ clients[p] = {} /\ writing[p] = <<>>
    /\ Replaced(p)
    /\ UNCHANGED <<dropped, failures>>

DayEnds ==
    /\ today < LastDay /\ today' = today + 1
    /\ UNCHANGED <<counts, clients, remembered, rememberedDay, foldedBefore, writing, usageClients, usageDaily, requests,
                   seen, dropped, reopened, failures>>

UsageNext ==
    \/ \E p \in Recorder :
        \/ CountsRequest(p) \/ Flush(p) \/ AddClients(p) \/ AddCounts(p) \/ Fold(p)
        \/ WriteFails(p) \/ RecorderDies(p) \/ RecorderCloses(p)
    \/ DayEnds

-----------------------------------------------------------------------------
(* Properties *)

\* "Totals are additive in the database, so every process reports on its own, and a lost report loses
\* a few seconds of counts, no more": every request is in a buffer, in a write, in the total or in a
\* report that was lost, once.
EveryRequestIsCountedOnce ==
    \A d \in Day :
        requests[d] = usageDaily[d].requests + dropped[d] + SumOf(Unwritten(d), Recorder)

\* The clients of a day are told apart: none is counted twice, however many processes saw it, however
\* often it was written and whoever folds; unless a process writes clients of a day that another has
\* folded already, whose rows are then gone.
ClientsAreCountedOnce ==
    \A d \in Day \ reopened :
        usageDaily[d].clients + Cardinality({row \in usageClients : row[1] = d})
            <= Cardinality({key \in seen : key[1] = d})

\* No row that can be matched to an address outlives its day for long: once every process has flushed
\* on a later day and no write failed, all of them are counts.
NoHashOutlivesItsDay ==
    (failures = 0 /\ \A p \in Recorder : foldedBefore[p] = today /\ writing[p] = <<>>)
        => \A row \in usageClients : row[1] = today

\* Requests and clients are counted once at most, and no address is kept for it past its day.
CountsAreRight == UsageTypeOK /\ EveryRequestIsCountedOnce /\ ClientsAreCountedOnce /\ NoHashOutlivesItsDay
================================================================================
