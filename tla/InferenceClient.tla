---------------------------- MODULE InferenceClient ----------------------------
(***************************************************************************)
(* A client of an inference server (packages/inference/src/inference.ts):  *)
(* the gate that lets a few calls run at once, the breaker that leaves a   *)
(* failing server alone, and the calls that go through the one and then    *)
(* the other, as embeddings-api.ts and rerank-api.ts send them.            *)
(*                                                                         *)
(* The code runs on one thread; a step is what runs between two of its     *)
(* awaits.  Resuming a call that was handed a slot, the breaker taking     *)
(* note of an answer and the gate giving the slot on are steps of their    *)
(* own: other calls' steps come between them.                              *)
(***************************************************************************)
EXTENDS Naturals, Sequences, FiniteSets

CONSTANTS
    Call,           \* callers, each with one call at a time
    Concurrency,    \* calls the gate lets run at once
    Failures,       \* transient failures in a row after which the server is left alone
    MaxTroubles     \* bound: transient failures there are in all

ASSUME ClientAssumption ==
    /\ IsFiniteSet(Call)
    /\ Concurrency \in Nat \ {0}
    /\ Failures \in Nat \ {0}
    /\ MaxTroubles \in Nat

VARIABLES
    running,    \* slots taken
    waiting,    \* calls that wait for a slot, the longest first
    timers,     \* calls whose timer of the wait is armed
    calls,      \* how far each call is
    breaker,    \* failures in a row, whether the server is left alone, whether a call tries it
    probes,     \* history: calls that were let through to try the server
    troubles,   \* how many transient failures there were
    recent      \* history: how the last Failures calls that were sent ended, the last one first

vars == <<running, waiting, timers, calls, breaker, probes, troubles, recent>>

\* "granted": it was handed a slot and is about to resume. "ending": the breaker is done with it, and
\* the gate is about to give its slot on.
Phase == {"idle", "queued", "granted", "calling", "ending"}

\* openedAt is undefined, not so long ago, or longer ago than the cooldown.
Door == {"closed", "cooling", "cooled"}

\* How a call that was sent ended: the server answered it, be it with a refusal, or it failed as a
\* server does that may be back in a moment.
Outcome == {"answered", "failed"}

TypeOK ==
    /\ running \in Nat
    /\ waiting \in Seq(Call)
    /\ timers \subseteq Call
    /\ calls \in [Call -> Phase]
    /\ breaker \in [failures: 0..Failures, door: Door, probing: BOOLEAN]
    /\ probes \subseteq Call
    /\ troubles \in 0..MaxTroubles
    /\ recent \in [1..Failures -> Outcome]

Init ==
    /\ running = 0
    /\ waiting = <<>>
    /\ timers = {}
    /\ calls = [c \in Call |-> "idle"]
    /\ breaker = [failures |-> 0, door |-> "closed", probing |-> FALSE]
    /\ probes = {}
    /\ troubles = 0
    /\ recent = [i \in 1..Failures |-> "answered"]

Waits(c) == \E i \in 1..Len(waiting) : waiting[i] = c

\* The sequence without its element i, the others in order.
Without(seq, i) == [j \in 1..(Len(seq) - 1) |-> IF j < i THEN seq[j] ELSE seq[j + 1]]

-----------------------------------------------------------------------------
(* The breaker *)

\* The server is left alone: it failed a moment ago, or a call is trying it.
LeftAlone == breaker.door # "closed" /\ (breaker.probing \/ breaker.door = "cooling")

\* The call comes to the breaker, which refuses it at once or lets it through.
Enter(c) ==
    IF LeftAlone
    THEN /\ calls' = [calls EXCEPT ![c] = "ending"]
         /\ probes' = probes \ {c}
         /\ UNCHANGED breaker
    ELSE /\ calls' = [calls EXCEPT ![c] = "calling"]
         /\ probes' = IF breaker.door = "closed" THEN probes \ {c} ELSE probes \union {c}
         /\ breaker' = [breaker EXCEPT !.probing = breaker.door # "closed"]

Noted_KeepsProbing(b) ==
    LET n == IF b.failures < Failures THEN b.failures + 1 ELSE Failures
    IN  [b EXCEPT !.failures = n, !.door = IF n = Failures \/ b.door # "closed" THEN "cooling" ELSE @]

\* One transient failure more. Past Failures the count makes no difference.
Noted(b) ==
    LET n == IF b.failures < Failures THEN b.failures + 1 ELSE Failures
    IN  [b EXCEPT !.failures = n, !.probing = FALSE,
                  !.door = IF n = Failures \/ b.door # "closed" THEN "cooling" ELSE @]

\* The history goes on; no step looks at it.
Ended(outcome) == recent' = [i \in 1..Failures |-> IF i = 1 THEN outcome ELSE recent[i - 1]]

Answers_KeepsCount(c) ==
    /\ calls[c] = "calling"
    /\ calls' = [calls EXCEPT ![c] = "ending"]
    /\ breaker' = [breaker EXCEPT !.door = "closed", !.probing = FALSE,
                                  !.failures = IF breaker.door = "closed" THEN @ ELSE 0]
    /\ Ended("answered")
    /\ UNCHANGED <<running, waiting, timers, probes, troubles>>

\* The server answered, or refused the request: it is there.
Answers(c) ==
    /\ calls[c] = "calling"
    /\ calls' = [calls EXCEPT ![c] = "ending"]
    /\ breaker' = [failures |-> 0, door |-> "closed", probing |-> FALSE]
    /\ Ended("answered")
    /\ UNCHANGED <<running, waiting, timers, probes, troubles>>

\* The server could not be reached in time, is overloaded or failed.
Fails(c) ==
    /\ calls[c] = "calling"
    /\ troubles < MaxTroubles
    /\ troubles' = troubles + 1
    /\ calls' = [calls EXCEPT ![c] = "ending"]
    /\ breaker' = Noted(breaker)
    /\ Ended("failed")
    /\ UNCHANGED <<running, waiting, timers, probes>>

\* The cooldown is over.
Cools ==
    /\ breaker.door = "cooling"
    /\ breaker' = [breaker EXCEPT !.door = "cooled"]
    /\ UNCHANGED <<running, waiting, timers, calls, probes, troubles, recent>>

-----------------------------------------------------------------------------
(* The gate *)

\* A call takes a slot and goes straight on, or waits its turn with a timer.
Ask(c) ==
    /\ calls[c] = "idle"
    /\ IF running < Concurrency
       THEN /\ running' = running + 1
            /\ Enter(c)
            /\ UNCHANGED <<waiting, timers, troubles, recent>>
       ELSE /\ waiting' = Append(waiting, c)
            /\ timers' = timers \union {c}
            /\ calls' = [calls EXCEPT ![c] = "queued"]
            /\ UNCHANGED <<running, breaker, probes, troubles, recent>>

\* A call that was handed a slot resumes.
Start(c) ==
    /\ calls[c] = "granted"
    /\ Enter(c)
    /\ UNCHANGED <<running, waiting, timers, troubles, recent>>

\* The timer of a waiting call fires: it leaves the queue, wherever it is in it, and fails as busy.
\* A call that is not in the queue any more would take the last one's place in it (splice at -1), and
\* could not be failed any more.
Expire(c) ==
    /\ c \in timers
    /\ timers' = timers \ {c}
    /\ IF Waits(c)
       THEN waiting' = Without(waiting, CHOOSE i \in 1..Len(waiting) : waiting[i] = c)
       ELSE waiting' = IF waiting = <<>> THEN waiting ELSE Without(waiting, Len(waiting))
    /\ calls' = [calls EXCEPT ![c] = IF @ = "queued" THEN "idle" ELSE @]
    /\ UNCHANGED <<running, breaker, probes, troubles, recent>>

Release_FreesToo(c) ==
    /\ calls[c] = "ending"
    /\ running' = running - 1
    /\ IF waiting = <<>>
       THEN /\ calls' = [calls EXCEPT ![c] = "idle"]
            /\ UNCHANGED <<waiting, timers>>
       ELSE /\ waiting' = Tail(waiting)
            /\ timers' = timers \ {Head(waiting)}
            /\ calls' = [calls EXCEPT ![c] = "idle", ![Head(waiting)] = "granted"]
    /\ UNCHANGED <<breaker, probes, troubles, recent>>

Release_FreesOnly(c) ==
    /\ calls[c] = "ending"
    /\ running' = running - 1
    /\ calls' = [calls EXCEPT ![c] = "idle"]
    /\ UNCHANGED <<waiting, timers, breaker, probes, troubles, recent>>

Release_NeverStarts(c) ==
    /\ calls[c] = "ending"
    /\ calls' = [calls EXCEPT ![c] = "idle"]
    /\ IF waiting = <<>>
       THEN running' = running - 1 /\ UNCHANGED <<waiting, timers>>
       ELSE waiting' = Tail(waiting) /\ timers' = timers \ {Head(waiting)} /\ UNCHANGED running
    /\ UNCHANGED <<breaker, probes, troubles, recent>>

\* A call is over: its slot is free, or passes straight on to whoever waited longest.
Release(c) ==
    /\ calls[c] = "ending"
    /\ IF waiting = <<>>
       THEN /\ running' = running - 1
            /\ calls' = [calls EXCEPT ![c] = "idle"]
            /\ UNCHANGED <<waiting, timers>>
       ELSE /\ waiting' = Tail(waiting)
            /\ timers' = timers \ {Head(waiting)}
            /\ calls' = [calls EXCEPT ![c] = "idle", ![Head(waiting)] = "granted"]
            /\ UNCHANGED running
    /\ UNCHANGED <<breaker, probes, troubles, recent>>

-----------------------------------------------------------------------------

CallStep(c) ==
    \/ Ask(c)
    \/ Start(c)
    \/ Expire(c)
    \/ Answers(c)
    \/ Fails(c)
    \/ Release(c)

Next == Cools \/ \E c \in Call : CallStep(c)

Spec == Init /\ [][Next]_vars

\* Promises resume, timers fire, a call that is sent is answered or runs out of its time, and time
\* passes. Transient failures are finitely many (MaxTroubles).
Fairness ==
    /\ \A c \in Call :
        /\ WF_vars(Start(c))
        /\ WF_vars(Expire(c))
        /\ WF_vars(Answers(c) \/ Fails(c))
        /\ WF_vars(Release(c))
    /\ WF_vars(Cools)

\* Calls keep being made besides.
FairSpec == Spec /\ Fairness /\ \A c \in Call : WF_vars(Ask(c))

-----------------------------------------------------------------------------
(* Properties *)

\* The calls that hold a slot of the gate.
Holding == {c \in Call : calls[c] \in {"granted", "calling", "ending"}}

\* The gate's count is the number of calls that hold a slot, and never more than it may let run: no
\* slot is lost or given twice, whatever waits end, calls fail or breakers refuse.
SlotsAreCounted == running = Cardinality(Holding) /\ running <= Concurrency

\* The queue and the timers are those of the calls that wait, each once: a release hands its slot to
\* a call that still waits, and no timer of a call that was started can take another's place.
WaitersAreQueued ==
    /\ \A c \in Call : Waits(c) <=> calls[c] = "queued"
    /\ \A i, j \in 1..Len(waiting) : waiting[i] = waiting[j] => i = j
    /\ timers = {c \in Call : calls[c] = "queued"}

\* No call waits beside a free slot.
NobodyWaitsForNothing == waiting # <<>> => running = Concurrency

\* While the breaker waits for the call that tries the server, there is such a call: the breaker never
\* refuses everyone for the sake of a call that is over.
ProbeIsUnderWay == breaker.probing =>
    /\ breaker.door # "closed"
    /\ \E c \in probes : calls[c] = "calling"

\* The server is left alone exactly when the last Failures calls that ended, in whatever order they
\* were sent, all ended in a transient failure: one answer between two failures starts the count anew,
\* and an answer to a call sent before the breaker opened closes it.
OpensAfterFailuresInARow == breaker.door # "closed" <=> \A i \in 1..Failures : recent[i] = "failed"

\* The breaker's count is how many calls ended so one after the other. With it the above is inductive.
CountIsOfTheLast ==
    /\ breaker.door # "closed" <=> breaker.failures = Failures
    /\ \A i \in 1..breaker.failures : recent[i] = "failed"
    /\ breaker.failures < Failures => recent[breaker.failures + 1] = "answered"

\* Every call ends.
CallsEnd == \A c \in Call : calls[c] # "idle" ~> calls[c] = "idle"

\* A server that is back is asked again.
ServerIsAskedAgain == breaker.door # "closed" ~> breaker.door = "closed"

=============================================================================
