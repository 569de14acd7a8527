------------------------------ MODULE Calls_proofs ------------------------------
(***************************************************************************)
(* Theorems about a server's calls to others, for any number of calls,     *)
(* slots, requests, processes and tokens: those to the inference server,   *)
(* and those to the git host with the credential of a person.  The two     *)
(* share no state.                                                         *)
(***************************************************************************)
EXTENDS InferenceClient, UserCredentials, FiniteSetTheorems, TLAPS

-----------------------------------------------------------------------------
(* The inference server: the queue *)

\* Leaving out one element of a sequence without repetitions leaves every other element where the
\* order puts it, once.
LEMMA WithoutElement ==
    ASSUME NEW seq \in Seq(Call), NEW i \in 1..Len(seq),
           \A j, k \in 1..Len(seq) : seq[j] = seq[k] => j = k
    PROVE  /\ Without(seq, i) \in Seq(Call)
           /\ Len(Without(seq, i)) = Len(seq) - 1
           /\ \A j, k \in 1..Len(Without(seq, i)) : Without(seq, i)[j] = Without(seq, i)[k] => j = k
           /\ \A c \in Call : (\E j \in 1..Len(Without(seq, i)) : Without(seq, i)[j] = c)
                                <=> (c # seq[i] /\ \E j \in 1..Len(seq) : seq[j] = c)
<1> DEFINE n   == Len(seq)
           out == [j \in 1..(n - 1) |-> IF j < i THEN seq[j] ELSE seq[j + 1]]
<1>1. n \in Nat /\ n >= 1 /\ \A j \in 1..n : seq[j] \in Call
  OBVIOUS
<1>2. out = Without(seq, i)
  BY DEF Without
<1>3. out \in Seq(Call) /\ Len(out) = n - 1
  <2>1. out \in [1..(n - 1) -> Call]
    BY <1>1
  <2> QED
    BY <1>1, <2>1
<1>4. \A j \in 1..(n - 1) : out[j] = IF j < i THEN seq[j] ELSE seq[j + 1]
  OBVIOUS
<1>5. \A j, k \in 1..(n - 1) : out[j] = out[k] => j = k
  BY <1>1, <1>4
<1>6. ASSUME NEW c \in Call
      PROVE  (\E j \in 1..(n - 1) : out[j] = c) <=> (c # seq[i] /\ \E j \in 1..n : seq[j] = c)
  <2>1. ASSUME NEW j \in 1..(n - 1), out[j] = c
        PROVE  c # seq[i] /\ \E k \in 1..n : seq[k] = c
    BY <1>1, <1>4, <2>1
  <2>2. ASSUME NEW j \in 1..n, seq[j] = c, c # seq[i]
        PROVE  \E k \in 1..(n - 1) : out[k] = c
    <3>1. CASE j < i
      <4>1. j \in 1..(n - 1) /\ out[j] = c
        BY <1>1, <1>4, <2>2, <3>1
      <4> QED
        BY <4>1
    <3>2. CASE j > i
      <4>1. j - 1 \in 1..(n - 1) /\ out[j - 1] = c
        BY <1>1, <1>4, <2>2, <3>2
      <4> QED
        BY <4>1
    <3> QED
      BY <1>1, <2>2, <3>1, <3>2
  <2> QED
    BY <2>1, <2>2
<1> HIDE DEF out, n
<1> QED
  BY <1>2, <1>3, <1>5, <1>6 DEF n

LEMMA TailElements ==
    ASSUME NEW seq \in Seq(Call), seq # <<>>,
           \A j, k \in 1..Len(seq) : seq[j] = seq[k] => j = k
    PROVE  /\ Head(seq) \in Call /\ Head(seq) = seq[1] /\ 1 \in 1..Len(seq)
           /\ Tail(seq) \in Seq(Call)
           /\ \A j, k \in 1..Len(Tail(seq)) : Tail(seq)[j] = Tail(seq)[k] => j = k
           /\ \A c \in Call : (\E j \in 1..Len(Tail(seq)) : Tail(seq)[j] = c)
                                <=> (c # Head(seq) /\ \E j \in 1..Len(seq) : seq[j] = c)
<1> DEFINE n == Len(seq)
<1>1. n \in Nat /\ n >= 1 /\ Head(seq) = seq[1] /\ \A j \in 1..n : seq[j] \in Call
  OBVIOUS
<1>2. Tail(seq) \in Seq(Call) /\ Len(Tail(seq)) = n - 1 /\ \A j \in 1..(n - 1) : Tail(seq)[j] = seq[j + 1]
  BY <1>1
<1>3. ASSUME NEW c \in Call, NEW j \in 1..n, seq[j] = c, c # seq[1]
      PROVE  \E k \in 1..(n - 1) : Tail(seq)[k] = c
  <2>1. j - 1 \in 1..(n - 1) /\ Tail(seq)[j - 1] = c
    BY <1>1, <1>2, <1>3
  <2> QED
    BY <2>1
<1>4. ASSUME NEW k \in 1..(n - 1)
      PROVE  k + 1 \in 1..n /\ seq[k + 1] = Tail(seq)[k] /\ seq[k + 1] # seq[1]
  BY <1>1, <1>2, <1>4
<1>5. \A j, k \in 1..(n - 1) : Tail(seq)[j] = Tail(seq)[k] => j = k
  BY <1>1, <1>2
<1> QED
  BY <1>1, <1>2, <1>3, <1>4, <1>5

-----------------------------------------------------------------------------
(* The inference server: the invariant *)

\* Everything the gate and the breaker rely on, together; it is inductive.
Sound ==
    /\ TypeOK
    /\ SlotsAreCounted
    /\ WaitersAreQueued
    /\ NobodyWaitsForNothing
    /\ ProbeIsUnderWay
    /\ OpensAfterFailuresInARow
    /\ CountIsOfTheLast

LEMMA InitSound == Init => Sound
<1> SUFFICES ASSUME Init PROVE Sound
  OBVIOUS
<1>1. TypeOK
  BY ClientAssumption DEF Init, TypeOK, Phase, Door, Outcome
<1>2. SlotsAreCounted
  <2>1. Holding = {}
    BY DEF Init, Holding
  <2> QED
    BY <2>1, FS_EmptySet, ClientAssumption DEF Init, SlotsAreCounted
<1>3. WaitersAreQueued /\ NobodyWaitsForNothing /\ ProbeIsUnderWay
  BY ClientAssumption DEF Init, WaitersAreQueued, Waits, NobodyWaitsForNothing, ProbeIsUnderWay
<1>4. OpensAfterFailuresInARow /\ CountIsOfTheLast
  BY ClientAssumption DEF Init, OpensAfterFailuresInARow, CountIsOfTheLast
<1> QED
  BY <1>1, <1>2, <1>3, <1>4 DEF Sound

-----------------------------------------------------------------------------
(* The inference server: steps *)

\* What the breaker does with a call that comes to it.
LEMMA EnterSound ==
    ASSUME TypeOK, ProbeIsUnderWay, OpensAfterFailuresInARow, CountIsOfTheLast,
           NEW c \in Call, calls[c] \in {"idle", "granted"}, Enter(c), recent' = recent
    PROVE  /\ \E phase \in {"calling", "ending"} : calls' = [calls EXCEPT ![c] = phase]
           /\ breaker' \in [failures: 0..Failures, door: Door, probing: BOOLEAN]
           /\ probes' \subseteq Call
           /\ ProbeIsUnderWay'
           /\ OpensAfterFailuresInARow'
           /\ CountIsOfTheLast'
<1>1. CASE LeftAlone
  BY <1>1 DEF Enter, TypeOK, ProbeIsUnderWay, OpensAfterFailuresInARow, CountIsOfTheLast
<1>2. CASE ~LeftAlone
  <2>1. /\ calls' = [calls EXCEPT ![c] = "calling"]
        /\ breaker' = [breaker EXCEPT !.probing = breaker.door # "closed"]
        /\ probes' = IF breaker.door = "closed" THEN probes \ {c} ELSE probes \union {c}
    BY <1>2 DEF Enter
  <2>2. /\ breaker'.failures = breaker.failures
        /\ breaker'.door = breaker.door
        /\ breaker'.probing <=> breaker.door # "closed"
    BY <2>1 DEF TypeOK
  <2>3. breaker' \in [failures: 0..Failures, door: Door, probing: BOOLEAN]
    BY <2>1 DEF TypeOK
  <2>4. calls'[c] = "calling"
    BY <2>1 DEF TypeOK
  <2> QED
    BY <2>1, <2>2, <2>3, <2>4 DEF TypeOK, ProbeIsUnderWay, OpensAfterFailuresInARow, CountIsOfTheLast
<1> QED
  BY <1>1, <1>2

\* An outcome comes first in the history, and the others keep their order behind it.
LEMMA HistoryGoesOn ==
    ASSUME TypeOK, NEW outcome \in Outcome, Ended(outcome)
    PROVE  /\ recent' \in [1..Failures -> Outcome]
           /\ recent'[1] = outcome
           /\ \A i \in 1..Failures : i # 1 => i - 1 \in 1..Failures /\ recent'[i] = recent[i - 1]
BY ClientAssumption DEF TypeOK, Ended

\* A transient failure ends any trial, and opens the breaker when it is the last in a row.
LEMMA NotedSound ==
    ASSUME TypeOK, CountIsOfTheLast, breaker' = Noted(breaker), Ended("failed")
    PROVE  /\ breaker' \in [failures: 0..Failures, door: Door, probing: BOOLEAN]
           /\ ~breaker'.probing
           /\ CountIsOfTheLast'
<1>1. /\ breaker.failures \in 0..Failures /\ breaker.door \in Door
      /\ breaker.door # "closed" <=> breaker.failures = Failures
  BY DEF TypeOK, CountIsOfTheLast
<1> DEFINE n == IF breaker.failures < Failures THEN breaker.failures + 1 ELSE Failures
           door == IF n = Failures \/ breaker.door # "closed" THEN "cooling" ELSE breaker.door
<1>2. n \in 1..Failures /\ n \in 0..Failures /\ door \in Door /\ (door # "closed" <=> n = Failures)
  BY <1>1, ClientAssumption DEF Door
<1>3. breaker' = [breaker EXCEPT !.failures = n, !.probing = FALSE, !.door = door]
  BY DEF Noted
<1>4. /\ recent' \in [1..Failures -> Outcome]
      /\ recent'[1] = "failed"
      /\ \A i \in 1..Failures : i # 1 => i - 1 \in 1..Failures /\ recent'[i] = recent[i - 1]
  BY HistoryGoesOn DEF Outcome
<1>5. \A i \in 1..n : recent'[i] = "failed"
  BY <1>1, <1>4, ClientAssumption DEF CountIsOfTheLast
<1>6. n < Failures => recent'[n + 1] = "answered"
  <2> SUFFICES ASSUME n < Failures PROVE recent'[n + 1] = "answered"
    OBVIOUS
  <2>1. n = breaker.failures + 1 /\ recent[breaker.failures + 1] = "answered"
    BY <1>1, ClientAssumption DEF CountIsOfTheLast
  <2>2. n + 1 \in 1..Failures /\ n + 1 # 1
    BY <1>2, ClientAssumption
  <2>3. recent'[n + 1] = recent[(n + 1) - 1] /\ (n + 1) - 1 = n
    BY <1>2, <1>4, <2>2
  <2> QED
    BY <2>1, <2>3
<1> HIDE DEF n, door
<1>7. breaker'.failures = n /\ breaker'.door = door /\ ~breaker'.probing
  BY <1>3 DEF TypeOK
<1>8. breaker' \in [failures: 0..Failures, door: Door, probing: BOOLEAN]
  BY <1>2, <1>3 DEF TypeOK
<1> QED
  BY <1>2, <1>5, <1>6, <1>7, <1>8 DEF CountIsOfTheLast

\* The calls that hold a slot, counted again after one was given or taken back.
LEMMA HoldingFinite == IsFiniteSet(Holding) /\ Cardinality(Holding) \in Nat
BY FS_Subset, FS_CardinalityType, ClientAssumption DEF Holding

LEMMA OneMore ==
    ASSUME NEW c \in Call, c \notin Holding, Holding' = Holding \union {c}
    PROVE  Cardinality(Holding') = Cardinality(Holding) + 1
BY HoldingFinite, FS_AddElement

LEMMA OneLess ==
    ASSUME NEW c \in Call, c \in Holding, Holding' = Holding \ {c}
    PROVE  Cardinality(Holding') = Cardinality(Holding) - 1
BY HoldingFinite, FS_RemoveElement

LEMMA AskStep == ASSUME Sound, NEW c \in Call, Ask(c) PROVE Sound'
<1>1. CASE running < Concurrency
  <2>1. /\ running' = running + 1
        /\ Enter(c)
        /\ UNCHANGED <<waiting, timers, troubles, recent>>
        /\ calls[c] = "idle"
    BY <1>1 DEF Ask
  <2>2. PICK phase \in {"calling", "ending"} : calls' = [calls EXCEPT ![c] = phase]
    BY <2>1, EnterSound DEF Sound
  <2>3. TypeOK'
    <3>1. /\ breaker' \in [failures: 0..Failures, door: Door, probing: BOOLEAN]
          /\ probes' \subseteq Call
      BY <2>1, EnterSound DEF Sound
    <3>2. running' \in Nat /\ calls' \in [Call -> Phase]
      BY <2>1, <2>2 DEF Sound, TypeOK, Phase
    <3> QED
      BY <2>1, <3>1, <3>2 DEF Sound, TypeOK
  <2>4. Holding' = Holding \union {c} /\ c \notin Holding
    BY <2>1, <2>2 DEF Holding, Sound, TypeOK
  <2>5. SlotsAreCounted'
    <3>1. Cardinality(Holding') = Cardinality(Holding) + 1
      BY <2>4, OneMore
    <3>2. running + 1 <= Concurrency
      BY <1>1, ClientAssumption DEF Sound, TypeOK
    <3> QED
      BY <2>1, <3>1, <3>2 DEF SlotsAreCounted, Sound
  <2>6. waiting = <<>>
    BY <1>1, ClientAssumption DEF Sound, NobodyWaitsForNothing, TypeOK
  <2>7. WaitersAreQueued'
    BY <2>1, <2>2 DEF WaitersAreQueued, Waits, Sound, TypeOK
  <2> QED
    BY <2>1, <2>3, <2>5, <2>6, <2>7, EnterSound DEF Sound, NobodyWaitsForNothing
<1>2. CASE ~(running < Concurrency)
  <2>1. /\ waiting' = Append(waiting, c)
        /\ timers' = timers \union {c}
        /\ calls' = [calls EXCEPT ![c] = "queued"]
        /\ UNCHANGED <<running, breaker, probes, troubles, recent>>
        /\ calls[c] = "idle"
    BY <1>2 DEF Ask
  <2>2. TypeOK'
    BY <2>1 DEF Sound, TypeOK, Phase
  <2>3. Holding' = Holding
    BY <2>1 DEF Holding, Sound, TypeOK
  <2>4. SlotsAreCounted'
    BY <2>1, <2>3 DEF SlotsAreCounted, Sound
  <2>5. NobodyWaitsForNothing'
    BY <1>2, <2>1, ClientAssumption DEF SlotsAreCounted, Sound, TypeOK, NobodyWaitsForNothing
  <2>6. /\ Len(waiting') = Len(waiting) + 1
        /\ waiting'[Len(waiting) + 1] = c
        /\ \A i \in 1..Len(waiting) : waiting'[i] = waiting[i]
    BY <2>1 DEF Sound, TypeOK
  <2>7. ~Waits(c)
    BY <2>1 DEF Sound, WaitersAreQueued
  <2>8. \A d \in Call : Waits(d)' <=> d = c \/ Waits(d)
    <3>1. Len(waiting) \in Nat
      BY DEF Sound, TypeOK
    <3> QED
      BY <2>6, <3>1 DEF Waits
  <2>9. \A i, j \in 1..Len(waiting') : waiting'[i] = waiting'[j] => i = j
    <3>1. Len(waiting) \in Nat
      BY DEF Sound, TypeOK
    <3>2. \A i \in 1..Len(waiting) : waiting[i] # c
      BY <2>7 DEF Waits
    <3> QED
      BY <2>6, <3>1, <3>2 DEF Sound, WaitersAreQueued
  <2>10. WaitersAreQueued'
    BY <2>1, <2>8, <2>9 DEF WaitersAreQueued, Sound, TypeOK
  <2>11. ProbeIsUnderWay' /\ OpensAfterFailuresInARow' /\ CountIsOfTheLast'
    BY <2>1 DEF Sound, TypeOK, ProbeIsUnderWay, OpensAfterFailuresInARow, CountIsOfTheLast
  <2> QED
    BY <2>2, <2>4, <2>5, <2>10, <2>11 DEF Sound
<1> QED
  BY <1>1, <1>2

LEMMA StartStep == ASSUME Sound, NEW c \in Call, Start(c) PROVE Sound'
<1>1. /\ Enter(c)
      /\ UNCHANGED <<running, waiting, timers, troubles, recent>>
      /\ calls[c] = "granted"
  BY DEF Start
<1>2. PICK phase \in {"calling", "ending"} : calls' = [calls EXCEPT ![c] = phase]
  BY <1>1, EnterSound DEF Sound
<1>3. TypeOK'
  BY <1>1, <1>2, EnterSound DEF Sound, TypeOK, Phase
<1>4. Holding' = Holding
  BY <1>1, <1>2 DEF Holding, Sound, TypeOK
<1>5. SlotsAreCounted'
  BY <1>1, <1>4 DEF SlotsAreCounted, Sound
<1>6. WaitersAreQueued'
  BY <1>1, <1>2 DEF WaitersAreQueued, Waits, Sound, TypeOK
<1> QED
  BY <1>1, <1>3, <1>5, <1>6, EnterSound DEF Sound, NobodyWaitsForNothing

LEMMA EndStep == ASSUME Sound, NEW c \in Call, Answers(c) \/ Fails(c) PROVE Sound'
<1>1. /\ calls[c] = "calling"
      /\ calls' = [calls EXCEPT ![c] = "ending"]
      /\ UNCHANGED <<running, waiting, timers, probes>>
      /\ troubles' \in 0..MaxTroubles
  BY ClientAssumption DEF Answers, Fails, Sound, TypeOK
<1>2. /\ breaker' \in [failures: 0..Failures, door: Door, probing: BOOLEAN]
      /\ ~breaker'.probing
      /\ recent' \in [1..Failures -> Outcome]
      /\ CountIsOfTheLast'
  <2>1. CASE Answers(c)
    <3>1. breaker' = [failures |-> 0, door |-> "closed", probing |-> FALSE] /\ Ended("answered")
      BY <2>1 DEF Answers
    <3>2. recent' \in [1..Failures -> Outcome] /\ recent'[1] = "answered"
      BY <3>1, HistoryGoesOn DEF Sound, Outcome
    <3> QED
      BY <3>1, <3>2, ClientAssumption DEF Door, CountIsOfTheLast
  <2>2. CASE Fails(c)
    <3>1. breaker' = Noted(breaker) /\ Ended("failed")
      BY <2>2 DEF Fails
    <3>2. recent' \in [1..Failures -> Outcome]
      BY <3>1, HistoryGoesOn DEF Sound, Outcome
    <3> QED
      BY <3>1, <3>2, NotedSound DEF Sound
  <2> QED
    BY <2>1, <2>2
<1>3. TypeOK'
  BY <1>1, <1>2 DEF Sound, TypeOK, Phase
<1>4. Holding' = Holding
  BY <1>1 DEF Holding, Sound, TypeOK
<1>5. SlotsAreCounted'
  BY <1>1, <1>4 DEF SlotsAreCounted, Sound
<1>6. WaitersAreQueued'
  BY <1>1 DEF WaitersAreQueued, Waits, Sound, TypeOK
<1>7. OpensAfterFailuresInARow'
  <2>1. breaker'.failures \in 0..Failures
    BY <1>2
  <2>2. CASE breaker'.failures = Failures
    BY <1>2, <2>2 DEF CountIsOfTheLast, OpensAfterFailuresInARow
  <2>3. CASE breaker'.failures # Failures
    <3>1. breaker'.failures + 1 \in 1..Failures /\ recent'[breaker'.failures + 1] = "answered"
      BY <1>2, <2>1, <2>3, ClientAssumption DEF CountIsOfTheLast
    <3> QED
      BY <1>2, <2>3, <3>1 DEF CountIsOfTheLast, OpensAfterFailuresInARow
  <2> QED
    BY <2>2, <2>3
<1> QED
  BY <1>1, <1>2, <1>3, <1>5, <1>6, <1>7 DEF Sound, NobodyWaitsForNothing, ProbeIsUnderWay

LEMMA ExpireStep == ASSUME Sound, NEW c \in Call, Expire(c) PROVE Sound'
<1>1. calls[c] = "queued" /\ Waits(c)
  BY DEF Expire, Sound, WaitersAreQueued
<1>2. PICK i \in 1..Len(waiting) : waiting[i] = c /\ waiting' = Without(waiting, i)
  <2> DEFINE at == CHOOSE j \in 1..Len(waiting) : waiting[j] = c
  <2>1. at \in 1..Len(waiting) /\ waiting[at] = c
    BY <1>1 DEF Waits
  <2>2. waiting' = Without(waiting, at)
    BY <1>1 DEF Expire
  <2> QED
    BY <2>1, <2>2
<1>3. /\ timers' = timers \ {c}
      /\ calls' = [calls EXCEPT ![c] = "idle"]
      /\ UNCHANGED <<running, breaker, probes, troubles, recent>>
  BY <1>1 DEF Expire, Sound, TypeOK
<1>4. /\ waiting' \in Seq(Call)
      /\ \A j, k \in 1..Len(waiting') : waiting'[j] = waiting'[k] => j = k
      /\ \A d \in Call : Waits(d)' <=> d # c /\ Waits(d)
  <2> DEFINE rest == Without(waiting, i)
  <2>1. /\ rest \in Seq(Call)
        /\ \A j, k \in 1..Len(rest) : rest[j] = rest[k] => j = k
        /\ \A d \in Call : (\E j \in 1..Len(rest) : rest[j] = d)
                             <=> (d # waiting[i] /\ \E j \in 1..Len(waiting) : waiting[j] = d)
    BY WithoutElement DEF Sound, TypeOK, WaitersAreQueued
  <2> HIDE DEF rest
  <2>2. waiting' = rest
    BY <1>2 DEF rest
  <2> QED
    BY <1>2, <2>1, <2>2 DEF Waits
<1>5. TypeOK'
  BY <1>3, <1>4 DEF Sound, TypeOK, Phase
<1>6. Holding' = Holding
  BY <1>1, <1>3 DEF Holding, Sound, TypeOK
<1>7. SlotsAreCounted'
  BY <1>3, <1>6 DEF SlotsAreCounted, Sound
<1>8. WaitersAreQueued'
  BY <1>3, <1>4 DEF WaitersAreQueued, Sound, TypeOK
<1>9. NobodyWaitsForNothing'
  BY <1>2, <1>3 DEF NobodyWaitsForNothing, Sound, TypeOK
<1>10. ProbeIsUnderWay' /\ OpensAfterFailuresInARow' /\ CountIsOfTheLast'
  BY <1>1, <1>3 DEF Sound, TypeOK, ProbeIsUnderWay, OpensAfterFailuresInARow, CountIsOfTheLast
<1> QED
  BY <1>5, <1>7, <1>8, <1>9, <1>10 DEF Sound

LEMMA ReleaseStep == ASSUME Sound, NEW c \in Call, Release(c) PROVE Sound'
<1>1. calls[c] = "ending" /\ c \in Holding /\ UNCHANGED <<breaker, probes, troubles, recent>>
  BY DEF Release, Holding
<1>2. CASE waiting = <<>>
  <2>1. /\ running' = running - 1
        /\ calls' = [calls EXCEPT ![c] = "idle"]
        /\ UNCHANGED <<waiting, timers>>
    BY <1>2 DEF Release
  <2>2. Holding' = Holding \ {c}
    BY <1>1, <2>1 DEF Holding, Sound, TypeOK
  <2>3. running = Cardinality(Holding) /\ Cardinality(Holding') = Cardinality(Holding) - 1
    BY <1>1, <2>2, OneLess DEF Sound, SlotsAreCounted
  <2>4. Cardinality(Holding') \in Nat
    BY <2>2, HoldingFinite, FS_Subset, FS_CardinalityType
  <2>5. TypeOK'
    BY <1>1, <2>1, <2>3, <2>4 DEF Sound, TypeOK, Phase
  <2>6. SlotsAreCounted'
    BY <2>1, <2>3, ClientAssumption DEF Sound, SlotsAreCounted, TypeOK
  <2>7. WaitersAreQueued' /\ NobodyWaitsForNothing'
    BY <1>1, <1>2, <2>1 DEF WaitersAreQueued, NobodyWaitsForNothing, Waits, Sound, TypeOK
  <2>8. ProbeIsUnderWay' /\ OpensAfterFailuresInARow' /\ CountIsOfTheLast'
    BY <1>1, <2>1 DEF Sound, TypeOK, ProbeIsUnderWay, OpensAfterFailuresInARow, CountIsOfTheLast
  <2> QED
    BY <2>5, <2>6, <2>7, <2>8 DEF Sound
<1>3. CASE waiting # <<>>
  <2> DEFINE next == Head(waiting)
  <2>1. /\ waiting' = Tail(waiting)
        /\ timers' = timers \ {next}
        /\ calls' = [calls EXCEPT ![c] = "idle", ![next] = "granted"]
        /\ UNCHANGED running
    BY <1>3 DEF Release
  <2>2. /\ next \in Call /\ Waits(next)
        /\ waiting' \in Seq(Call)
        /\ \A j, k \in 1..Len(waiting') : waiting'[j] = waiting'[k] => j = k
        /\ \A d \in Call : Waits(d)' <=> d # next /\ Waits(d)
    <3> DEFINE rest == Tail(waiting)
    <3>1. /\ next \in Call /\ next = waiting[1] /\ 1 \in 1..Len(waiting)
          /\ rest \in Seq(Call)
          /\ \A j, k \in 1..Len(rest) : rest[j] = rest[k] => j = k
          /\ \A d \in Call : (\E j \in 1..Len(rest) : rest[j] = d)
                               <=> (d # next /\ \E j \in 1..Len(waiting) : waiting[j] = d)
      BY <1>3, TailElements DEF Sound, TypeOK, WaitersAreQueued
    <3> HIDE DEF next
    <3>2. waiting' = rest
      BY <2>1
    <3> HIDE DEF rest
    <3> QED
      BY <3>1, <3>2 DEF Waits
  <2>3. calls[next] = "queued" /\ next # c
    BY <1>1, <2>2 DEF Sound, WaitersAreQueued
  <2> HIDE DEF next
  <2>4. TypeOK'
    BY <1>1, <2>1, <2>2 DEF Sound, TypeOK, Phase
  <2>5. Holding' = (Holding \ {c}) \union {next} /\ next \notin Holding
    BY <1>1, <2>1, <2>2, <2>3 DEF Holding, Sound, TypeOK
  <2>6. Cardinality(Holding') = Cardinality(Holding)
    <3>1. IsFiniteSet(Holding \ {c}) /\ Cardinality(Holding \ {c}) = Cardinality(Holding) - 1
      BY <1>1, HoldingFinite, FS_RemoveElement
    <3>2. Cardinality(Holding') = Cardinality(Holding \ {c}) + 1
      BY <2>5, <3>1, FS_AddElement
    <3> QED
      BY <3>1, <3>2, HoldingFinite
  <2>7. SlotsAreCounted'
    BY <2>1, <2>6 DEF Sound, SlotsAreCounted
  <2>8. WaitersAreQueued'
    BY <1>1, <2>1, <2>2, <2>3 DEF WaitersAreQueued, Sound, TypeOK
  <2>9. NobodyWaitsForNothing'
    BY <1>3, <2>1 DEF NobodyWaitsForNothing, Sound
  <2>10. ProbeIsUnderWay' /\ OpensAfterFailuresInARow' /\ CountIsOfTheLast'
    BY <1>1, <2>1, <2>3 DEF Sound, TypeOK, ProbeIsUnderWay, OpensAfterFailuresInARow, CountIsOfTheLast
  <2> QED
    BY <2>4, <2>7, <2>8, <2>9, <2>10 DEF Sound
<1> QED
  BY <1>2, <1>3

LEMMA CoolsStep == ASSUME Sound, Cools PROVE Sound'
<1>1. /\ breaker.door = "cooling"
      /\ breaker' = [breaker EXCEPT !.door = "cooled"]
      /\ UNCHANGED <<running, waiting, timers, calls, probes, troubles, recent>>
  BY DEF Cools
<1>2. /\ breaker' \in [failures: 0..Failures, door: Door, probing: BOOLEAN]
      /\ breaker'.door = "cooled" /\ breaker'.failures = breaker.failures
      /\ breaker'.probing = breaker.probing
  BY <1>1 DEF Sound, TypeOK, Door
<1>3. TypeOK'
  BY <1>1, <1>2 DEF Sound, TypeOK
<1>4. SlotsAreCounted' /\ WaitersAreQueued' /\ NobodyWaitsForNothing'
  BY <1>1 DEF Sound, SlotsAreCounted, Holding, WaitersAreQueued, Waits, NobodyWaitsForNothing
<1>5. ProbeIsUnderWay' /\ OpensAfterFailuresInARow' /\ CountIsOfTheLast'
  BY <1>1, <1>2 DEF Sound, ProbeIsUnderWay, OpensAfterFailuresInARow, CountIsOfTheLast
<1> QED
  BY <1>3, <1>4, <1>5 DEF Sound

LEMMA SoundStep == Sound /\ [Next]_vars => Sound'
<1> SUFFICES ASSUME Sound, [Next]_vars PROVE Sound'
  OBVIOUS
<1>1. CASE UNCHANGED vars
  BY <1>1 DEF vars, Sound, TypeOK, SlotsAreCounted, Holding, WaitersAreQueued, Waits,
     NobodyWaitsForNothing, ProbeIsUnderWay, OpensAfterFailuresInARow, CountIsOfTheLast
<1>2. CASE Cools
  BY <1>2, CoolsStep
<1>3. ASSUME NEW c \in Call, CallStep(c) PROVE Sound'
  BY <1>3, AskStep, StartStep, ExpireStep, EndStep, ReleaseStep DEF CallStep
<1> QED
  BY <1>1, <1>2, <1>3 DEF Next

-----------------------------------------------------------------------------
(* The inference server: theorems *)

LEMMA AlwaysSound == Spec => []Sound
BY InitSound, SoundStep, PTL DEF Spec

\* The gate never lets more than Concurrency calls run, and loses no slot, whatever calls fail, are
\* refused by the breaker or give up waiting: its count is always the number of calls that hold one.
THEOREM SlotsHold == Spec => []SlotsAreCounted
<1>1. Sound => SlotsAreCounted
  BY DEF Sound
<1> QED
  BY <1>1, AlwaysSound, PTL

\* A waiter is in the queue once, with its timer, exactly as long as it waits; the timer of a call
\* that was handed a slot never takes another call out of the queue.
THEOREM QueueHolds == Spec => []WaitersAreQueued
<1>1. Sound => WaitersAreQueued
  BY DEF Sound
<1> QED
  BY <1>1, AlwaysSound, PTL

\* No call waits while a slot is free.
THEOREM NoIdleSlot == Spec => []NobodyWaitsForNothing
<1>1. Sound => NobodyWaitsForNothing
  BY DEF Sound
<1> QED
  BY <1>1, AlwaysSound, PTL

\* The breaker refuses calls for the sake of a trial only while that trial is under way.
THEOREM TrialIsReal == Spec => []ProbeIsUnderWay
<1>1. Sound => ProbeIsUnderWay
  BY DEF Sound
<1> QED
  BY <1>1, AlwaysSound, PTL

\* The breaker is open exactly while the last Failures calls that ended all failed transiently, as the
\* history of how calls ended tells it, which the code does not keep: its count is right whatever order
\* the calls were sent and ended in, and one answer starts it anew.
THEOREM OpensWhenItShould == Spec => []OpensAfterFailuresInARow
<1>1. Sound => OpensAfterFailuresInARow
  BY DEF Sound
<1> QED
  BY <1>1, AlwaysSound, PTL

-----------------------------------------------------------------------------
(* The credential of a person: the invariant *)

\* The rows anyone has: what is stored, and what requests and renewals read.
Around ==
    {row \in Row : row = stored \/ (\E r \in Request : req[r].seen = row) \/ \E p \in Process : renewal[p].seen = row}

\* The tokens somebody is about to decide by, or to renew.
Held ==
    {req[r].seen.token : r \in {q \in Request : req[q].phase = "deciding"}}
        \union {renewal[p].seen.token : p \in {q \in Process : renewal[q].phase # "none"}}

CredentialTypes ==
    /\ CredentialsTypeOK
    /\ \A p \in Process : /\ renewal[p].phase # "none" => renewal[p].seen \in Row
                          /\ renewal[p].phase = "saving" => renewal[p].got \in Token
    /\ login.phase # "none" => login.token \in Token
    /\ revoked <= upsets

\* A token tells its row, and every one was issued.
RowsAreTold ==
    /\ \A a, b \in Around : a.token = b.token => a = b
    /\ \A a \in Around : host[a.token].access # "none"

NewToAll(t) == host[t].access = "fresh" /\ \A a \in Around : a.token # t

\* What the host has just issued, to a renewal or to a sign-in, is new to everyone, and was issued to one;
\* and a renewal that saves has used the refresh token it read.
ComesIn ==
    /\ \A p \in Process : renewal[p].phase = "saving" =>
         /\ NewToAll(renewal[p].got)
         /\ host[renewal[p].seen.token].refresh = "used"
         /\ \A q \in Process : renewal[q].phase = "saving" /\ renewal[q].got = renewal[p].got => q = p
         /\ login.phase = "issued" => login.token # renewal[p].got
    /\ login.phase = "issued" => NewToAll(login.token)

\* Whoever still works with a token that is no longer stored finds one in its place that is not about to end:
\* tokens live longer than a request or a renewal takes.
NewestIsFresh == stored # None => \A t \in Held : t = stored.token \/ host[stored.token].access = "fresh"

Gone(t) == host[t].access # "fresh" /\ host[t].refresh # "good" /\ ~BeingSaved(t)

\* A request asks with what is accepted, is never refused, and forgets only what its process cannot read.
RequestRight(r) ==
    /\ req[r].phase = "asking" => Accepted(req[r].seen.token)
    /\ req[r].phase # "refused"
    /\ req[r].phase = "forgetting" => ~Opens(AnsweredBy[r], req[r].seen)

\* A renewal is of a token that is about to end, is refused only a refresh token that was used or is over,
\* and forgets only what is of no more use.
RenewalRight(p) ==
    /\ renewal[p].phase # "none" => host[renewal[p].seen.token].access # "fresh"
    /\ renewal[p].phase = "racing" => host[renewal[p].seen.token].refresh # "good"
    /\ renewal[p].phase = "forgetting" => Gone(renewal[p].seen.token) \/ ~Opens(p, renewal[p].seen)

\* What becomes of a refresh token: its end comes after that of the access token, what was just issued was
\* not used, and a stored one that was used is being renewed, or what it was used for was lost.
UseIsNoted ==
    /\ \A t \in Token : host[t].access # "taken" /\ (host[t].refresh = "over" => host[t].access = "over")
    /\ \A p \in Process : renewal[p].phase = "saving" => host[renewal[p].got].refresh = "good"
    /\ login.phase = "issued" => host[login.token].refresh = "good"
    /\ stored # None /\ host[stored.token].refresh = "used" =>
         BeingSaved(stored.token) \/ stored.token \in wasted

Working ==
    /\ RowsAreTold /\ ComesIn /\ NewestIsFresh
    /\ \A r \in Request : RequestRight(r)
    /\ \A p \in Process : RenewalRight(p)

\* Once the person has taken the access back at the host nothing is promised but types.
Issuing == CredentialTypes /\ (revoked = 0 => Working /\ UseIsNoted)

-----------------------------------------------------------------------------
(* The credential of a person: types *)

LEMMA CredentialShapes ==
    /\ NoRow \notin Row /\ NoRow.token = 0 /\ None \notin Row
    /\ \A t \in Token : t \in Nat /\ t # 0
    /\ \A row \in Row : row.token \in Token /\ row.by \in Process /\ row = [token |-> row.token, by |-> row.by]
    /\ AtRest.phase = "idle" /\ AtRest.seen = NoRow /\ AtRest \in [phase: Work, seen: Row \union {NoRow}]
    /\ NoRenewal.phase = "none" /\ NoRenewal.seen = NoRow
    /\ NoRenewal \in [phase: Renewing, seen: Row \union {NoRow}, got: Token \union {0}]
    /\ NoLogin.phase = "none" /\ NoLogin \in [phase: {"none", "issued", "stored"}, token: Token \union {0}]
    /\ \A r \in Request : AnsweredBy[r] \in Process
<1>1. \A t \in Token : t \in Nat /\ t # 0
  BY CredentialAssumption DEF Token
<1>2. \A row \in Row : row.token \in Token /\ row.by \in Process /\ row = [token |-> row.token, by |-> row.by]
  BY DEF Row
<1>3. None \notin Row
  <2>1. Row \subseteq [token: Nat, by: Process]
    BY <1>1 DEF Row
  <2> QED
    BY <2>1, CredentialAssumption
<1>4. NoRow \notin Row /\ NoRow.token = 0
  BY <1>1, <1>2 DEF NoRow
<1> QED
  BY <1>1, <1>2, <1>3, <1>4, CredentialAssumption DEF AtRest, NoRenewal, NoLogin, Work, Renewing

LEMMA RequestTypes ==
    ASSUME CredentialTypes, NEW r \in Request
    PROVE  /\ req[r] \in [phase: Work, seen: Row \union {NoRow}]
           /\ req[r].seen \in Row <=> req[r].phase \in {"deciding", "asking", "forgetting"}
           /\ AnsweredBy[r] \in Process
BY CredentialShapes DEF CredentialTypes, CredentialsTypeOK

LEMMA RenewalTypes ==
    ASSUME CredentialTypes, NEW p \in Process
    PROVE  /\ renewal[p] \in [phase: Renewing, seen: Row \union {NoRow}, got: Token \union {0}]
           /\ renewal[p].phase # "none" => renewal[p].seen \in Row /\ renewal[p].seen.token \in Token
           /\ renewal[p].phase = "saving" => renewal[p].got \in Token
BY CredentialShapes DEF CredentialTypes, CredentialsTypeOK

\* The types of what a step does to one request.
LEMMA OneRequestTypes ==
    ASSUME CredentialTypes, NEW r \in Request, NEW s \in [phase: Work, seen: Row \union {NoRow}],
           s.seen \in Row <=> s.phase \in {"deciding", "asking", "forgetting"}, req' = [req EXCEPT ![r] = s]
    PROVE  /\ req' \in [Request -> [phase: Work, seen: Row \union {NoRow}]]
           /\ \A q \in Request : req'[q].seen \in Row <=> req'[q].phase \in {"deciding", "asking", "forgetting"}
           /\ req'[r] = s /\ \A q \in Request : q # r => req'[q] = req[q]
<1>1. req \in [Request -> [phase: Work, seen: Row \union {NoRow}]]
      /\ \A q \in Request : req[q].seen \in Row <=> req[q].phase \in {"deciding", "asking", "forgetting"}
  BY DEF CredentialTypes, CredentialsTypeOK
<1>2. req'[r] = s /\ \A q \in Request : q # r => req'[q] = req[q]
  BY <1>1
<1>3. \A q \in Request : req'[q].seen \in Row <=> req'[q].phase \in {"deciding", "asking", "forgetting"}
  <2> SUFFICES ASSUME NEW q \in Request
               PROVE  req'[q].seen \in Row <=> req'[q].phase \in {"deciding", "asking", "forgetting"}
    OBVIOUS
  <2>1. CASE q = r
    BY <1>2, <2>1
  <2>2. CASE q # r
    BY <1>1, <1>2, <2>2
  <2> QED
    BY <2>1, <2>2
<1> QED
  BY <1>1, <1>2, <1>3

LEMMA OneRenewalTypes ==
    ASSUME CredentialTypes, NEW p \in Process,
           NEW s \in [phase: Renewing, seen: Row \union {NoRow}, got: Token \union {0}],
           s.phase # "none" => s.seen \in Row, s.phase = "saving" => s.got \in Token, renewal' = [renewal EXCEPT ![p] = s]
    PROVE  /\ renewal' \in [Process -> [phase: Renewing, seen: Row \union {NoRow}, got: Token \union {0}]]
           /\ \A q \in Process : /\ renewal'[q].phase # "none" => renewal'[q].seen \in Row
                                 /\ renewal'[q].phase = "saving" => renewal'[q].got \in Token
           /\ renewal'[p] = s /\ \A q \in Process : q # p => renewal'[q] = renewal[q]
<1>1. /\ renewal \in [Process -> [phase: Renewing, seen: Row \union {NoRow}, got: Token \union {0}]]
      /\ \A q \in Process : /\ renewal[q].phase # "none" => renewal[q].seen \in Row
                            /\ renewal[q].phase = "saving" => renewal[q].got \in Token
  BY DEF CredentialTypes, CredentialsTypeOK
<1>2. renewal'[p] = s /\ \A q \in Process : q # p => renewal'[q] = renewal[q]
  BY <1>1
<1>3. \A q \in Process : /\ renewal'[q].phase # "none" => renewal'[q].seen \in Row
                         /\ renewal'[q].phase = "saving" => renewal'[q].got \in Token
  <2> SUFFICES ASSUME NEW q \in Process
               PROVE  /\ renewal'[q].phase # "none" => renewal'[q].seen \in Row
                      /\ renewal'[q].phase = "saving" => renewal'[q].got \in Token
    OBVIOUS
  <2>1. CASE q = p
    BY <1>2, <2>1
  <2>2. CASE q # p
    BY <1>1, <1>2, <2>2
  <2> QED
    BY <2>1, <2>2
<1> QED
  BY <1>1, <1>2, <1>3

\* What a renewal that settles leaves: its place, and what was handed to who shared it.
LEMMA SettledIs ==
    ASSUME CredentialTypes, NEW p \in Process, NEW row \in Row \union {NoRow}, Settled(p, row)
    PROVE  /\ req' \in [Request -> [phase: Work, seen: Row \union {NoRow}]]
           /\ \A r \in Request : req'[r].seen \in Row <=> req'[r].phase \in {"deciding", "asking", "forgetting"}
           /\ renewal' \in [Process -> [phase: Renewing, seen: Row \union {NoRow}, got: Token \union {0}]]
           /\ \A q \in Process : /\ renewal'[q].phase # "none" => renewal'[q].seen \in Row
                                 /\ renewal'[q].phase = "saving" => renewal'[q].got \in Token
           /\ renewal'[p] = NoRenewal /\ \A q \in Process : q # p => renewal'[q] = renewal[q]
           /\ \A r \in Request : \/ req'[r] \in {req[r], AtRest}
                                 \/ row \in Row /\ req'[r] = [phase |-> "asking", seen |-> row]
<1>1. /\ renewal' = [renewal EXCEPT ![p] = NoRenewal]
      /\ req' = [r \in Request |->
                 IF AnsweredBy[r] # p \/ req[r].phase # "joined" THEN req[r]
                 ELSE IF row = NoRow THEN AtRest
                 ELSE [phase |-> "asking", seen |-> row]]
  BY DEF Settled
<1>2. \A r \in Request : \/ req'[r] \in {req[r], AtRest}
                         \/ row \in Row /\ req'[r] = [phase |-> "asking", seen |-> row]
  BY <1>1
<1>3. ASSUME NEW r \in Request
      PROVE  /\ req'[r] \in [phase: Work, seen: Row \union {NoRow}]
             /\ req'[r].seen \in Row <=> req'[r].phase \in {"deciding", "asking", "forgetting"}
  <2>1. CASE req'[r] = req[r]
    BY <2>1, RequestTypes
  <2>2. CASE req'[r] = AtRest
    <3>1. req'[r].phase = "idle" /\ req'[r].seen \notin Row
      BY <2>2, CredentialShapes
    <3> QED
      BY <2>2, <3>1, CredentialShapes
  <2>3. CASE row \in Row /\ req'[r] = [phase |-> "asking", seen |-> row]
    BY <2>3 DEF Work
  <2> QED
    BY <1>2, <2>1, <2>2, <2>3
<1>4. req' \in [Request -> [phase: Work, seen: Row \union {NoRow}]]
  <2>1. req' = [r \in Request |-> req'[r]]
    BY <1>1
  <2> QED
    BY <1>3, <2>1
<1>5. /\ renewal' \in [Process -> [phase: Renewing, seen: Row \union {NoRow}, got: Token \union {0}]]
      /\ \A q \in Process : /\ renewal'[q].phase # "none" => renewal'[q].seen \in Row
                            /\ renewal'[q].phase = "saving" => renewal'[q].got \in Token
      /\ renewal'[p] = NoRenewal /\ \A q \in Process : q # p => renewal'[q] = renewal[q]
  <2>1. /\ NoRenewal \in [phase: Renewing, seen: Row \union {NoRow}, got: Token \union {0}]
        /\ NoRenewal.phase # "none" => NoRenewal.seen \in Row
        /\ NoRenewal.phase = "saving" => NoRenewal.got \in Token
    BY CredentialShapes
  <2> QED
    BY <1>1, <2>1, OneRenewalTypes
<1> QED
  BY <1>2, <1>3, <1>4, <1>5

-----------------------------------------------------------------------------
(* The credential of a person: what steps have in common *)

\* A step that issues nothing and stores nothing: rows and tokens are what they were, or fewer.
LEMMA NothingIssued ==
    ASSUME CredentialTypes, CredentialTypes', RowsAreTold, ComesIn, NewestIsFresh, host' = host, stored' \in {stored, None},
           \A r \in Request : req'[r].seen \in Row => req'[r].seen \in Around,
           \A p \in Process : renewal'[p].seen \in Row => renewal'[p].seen \in Around,
           \A r \in Request : req'[r].phase = "deciding" => req'[r].seen = stored \/ req'[r].seen.token \in Held,
           \A p \in Process : renewal'[p].phase # "none" => renewal'[p].seen.token \in Held,
           \A p \in Process : renewal'[p].phase = "saving" => renewal'[p] = renewal[p],
           login'.phase = "issued" => login' = login
    PROVE  RowsAreTold' /\ ComesIn' /\ NewestIsFresh'
<1>1. ASSUME NEW a \in Around' PROVE a \in Around
  <2>1. /\ a \in Row
        /\ a = stored' \/ (\E r \in Request : req'[r].seen = a) \/ \E p \in Process : renewal'[p].seen = a
    BY DEF Around
  <2>2. CASE a = stored'
    <3>1. a = stored
      BY <2>1, <2>2, CredentialShapes
    <3> QED
      BY <2>1, <3>1 DEF Around
  <2>3. CASE a # stored'
    BY <2>1, <2>3
  <2> QED
    BY <2>2, <2>3
<1>2. RowsAreTold'
  BY <1>1 DEF RowsAreTold
<1>3. ComesIn'
  <2>1. \A t : NewToAll(t) => NewToAll(t)'
    BY <1>1 DEF NewToAll
  <2> QED
    BY <2>1 DEF ComesIn
<1>4. NewestIsFresh'
  <2>1. ASSUME NEW t \in Held', stored' # None PROVE stored' = stored /\ (t = stored.token \/ t \in Held)
    <3>1. \/ \E r \in Request : req'[r].phase = "deciding" /\ t = req'[r].seen.token
          \/ \E p \in Process : renewal'[p].phase # "none" /\ t = renewal'[p].seen.token
      BY DEF Held
    <3> QED
      BY <2>1, <3>1
  <2> QED
    BY <2>1 DEF NewestIsFresh
<1> QED
  BY <1>2, <1>3, <1>4

LEMMA RequestStays ==
    ASSUME host' = host, NEW r \in Request, RequestRight(r), req'[r] \in {req[r], AtRest} PROVE RequestRight(r)'
<1>1. CASE req'[r] = req[r]
  BY <1>1 DEF RequestRight, Accepted, Opens
<1>2. CASE req'[r] = AtRest
  BY <1>2, CredentialShapes DEF RequestRight
<1> QED
  BY <1>1, <1>2

LEMMA RenewalStays ==
    ASSUME host' = host, NEW p \in Process, RenewalRight(p), renewal'[p] \in {renewal[p], NoRenewal},
           \A q \in Process : renewal'[q].phase = "saving" => renewal'[q] = renewal[q]
    PROVE  RenewalRight(p)'
<1>1. CASE renewal'[p] = renewal[p]
  <2>1. \A t : BeingSaved(t)' => BeingSaved(t)
    BY DEF BeingSaved
  <2> QED
    BY <1>1, <2>1 DEF RenewalRight, Gone, Opens
<1>2. CASE renewal'[p] = NoRenewal
  BY <1>2, CredentialShapes DEF RenewalRight
<1> QED
  BY <1>1, <1>2

LEMMA QuietStep ==
    ASSUME CredentialTypes, CredentialTypes', Working, host' = host, stored' \in {stored, None},
           \A r \in Request : \/ req'[r] \in {req[r], AtRest}
                              \/ /\ RequestRight(r)'
                                 /\ req'[r].seen \in Row => req'[r].seen \in Around
                                 /\ req'[r].phase = "deciding" => req'[r].seen = stored,
           \A p \in Process : \/ renewal'[p] \in {renewal[p], NoRenewal}
                              \/ /\ RenewalRight(p)' /\ renewal'[p].phase # "saving"
                                 /\ renewal'[p].seen \in Around /\ renewal'[p].seen.token \in Held,
           login'.phase = "issued" => login' = login
    PROVE  Working'
<1>1. \A p \in Process : renewal'[p].phase = "saving" => renewal'[p] = renewal[p]
  BY CredentialShapes
<1>2. \A r \in Request : RequestRight(r)'
  BY RequestStays DEF Working
<1>3. \A p \in Process : RenewalRight(p)'
  BY <1>1, RenewalStays DEF Working
<1>4. /\ \A r \in Request : req[r].seen \in Row => req[r].seen \in Around
      /\ \A p \in Process : renewal[p].seen \in Row => renewal[p].seen \in Around
  BY DEF Around
<1>5. \A r \in Request : req'[r].seen \in Row => req'[r].seen \in Around
  BY <1>4, CredentialShapes
<1>6. \A p \in Process : renewal'[p].seen \in Row => renewal'[p].seen \in Around
  BY <1>4, CredentialShapes
<1>7. \A r \in Request : req'[r].phase = "deciding" => req'[r].seen = stored \/ req'[r].seen.token \in Held
  <2>1. \A r \in Request : req[r].phase = "deciding" => req[r].seen.token \in Held
    BY DEF Held
  <2> QED
    BY <2>1, CredentialShapes
<1>8. \A p \in Process : renewal'[p].phase # "none" => renewal'[p].seen.token \in Held
  <2>1. \A p \in Process : renewal[p].phase # "none" => renewal[p].seen.token \in Held
    BY DEF Held
  <2> QED
    BY <2>1, CredentialShapes
<1>9. RowsAreTold' /\ ComesIn' /\ NewestIsFresh'
  BY <1>1, <1>5, <1>6, <1>7, <1>8, NothingIssued DEF Working
<1> QED
  BY <1>2, <1>3, <1>9 DEF Working

\* A step of one request that touches nothing but rows that go and sessions.
LEMMA RequestMoves ==
    ASSUME CredentialTypes, NEW r \in Request, NEW s \in [phase: Work, seen: Row \union {NoRow}],
           s.seen \in Row <=> s.phase \in {"deciding", "asking", "forgetting"}, req' = [req EXCEPT ![r] = s],
           stored' \in {stored, None}, sessions' \in {sessions, {}}, UNCHANGED <<host, renewal, login, event, upsets, revoked, wasted>>,
           Working => RequestRight(r)', s.seen \in Row => s.seen \in Around, s.phase = "deciding" => s.seen = stored
    PROVE  CredentialTypes' /\ (Working => Working')
<1>1. /\ req' \in [Request -> [phase: Work, seen: Row \union {NoRow}]]
      /\ \A q \in Request : req'[q].seen \in Row <=> req'[q].phase \in {"deciding", "asking", "forgetting"}
      /\ req'[r] = s /\ \A q \in Request : q # r => req'[q] = req[q]
  BY OneRequestTypes
<1>2. CredentialTypes'
  BY <1>1 DEF CredentialTypes, CredentialsTypeOK
<1>3. ASSUME Working PROVE Working'
  <2>1. \A q \in Request : \/ req'[q] \in {req[q], AtRest}
                           \/ /\ RequestRight(q)'
                              /\ req'[q].seen \in Row => req'[q].seen \in Around
                              /\ req'[q].phase = "deciding" => req'[q].seen = stored
    BY <1>1, <1>3
  <2> QED
    BY <1>2, <1>3, <2>1, QuietStep
<1> QED
  BY <1>2, <1>3

LEMMA RequestTypesMove ==
    ASSUME CredentialTypes, NEW r \in Request, NEW s \in [phase: Work, seen: Row \union {NoRow}],
           s.seen \in Row <=> s.phase \in {"deciding", "asking", "forgetting"}, req' = [req EXCEPT ![r] = s],
           UNCHANGED <<host, stored, sessions, renewal, login, event, upsets, revoked, wasted>>
    PROVE  CredentialTypes'
<1>1. /\ req' \in [Request -> [phase: Work, seen: Row \union {NoRow}]]
      /\ \A q \in Request : req'[q].seen \in Row <=> req'[q].phase \in {"deciding", "asking", "forgetting"}
  BY OneRequestTypes
<1> QED
  BY <1>1 DEF CredentialTypes, CredentialsTypeOK

LEMMA StoredIsAround == ASSUME CredentialTypes, stored # None PROVE stored \in Row /\ stored \in Around
BY DEF CredentialTypes, CredentialsTypeOK, Around

-----------------------------------------------------------------------------
(* The credential of a person: steps *)

LEMMA ReadStep == ASSUME CredentialTypes, NEW r \in Request, Read(r) PROVE CredentialTypes' /\ (Working => Working')
<1> DEFINE s == [phase |-> "deciding", seen |-> stored]
<1>1. req' = [req EXCEPT ![r] = s] /\ stored # None
      /\ UNCHANGED <<host, stored, sessions, renewal, login, event, upsets, revoked, wasted>>
  BY DEF Read
<1>2. stored \in Row /\ stored \in Around
  BY <1>1, StoredIsAround
<1>3. s \in [phase: Work, seen: Row \union {NoRow}] /\ s.seen = stored /\ s.phase = "deciding"
  BY <1>2 DEF Work
<1> HIDE DEF s
<1>4. RequestRight(r)'
  <2>1. req'[r] = s
    BY <1>1 DEF CredentialTypes, CredentialsTypeOK
  <2> QED
    BY <1>3, <2>1 DEF RequestRight
<1> QED
  BY <1>1, <1>2, <1>3, <1>4, RequestMoves

LEMMA HostTakesStep == ASSUME CredentialTypes, NEW r \in Request, HostTakes(r) PROVE CredentialTypes' /\ (Working => Working')
<1>1. req' = [req EXCEPT ![r] = AtRest] /\ UNCHANGED <<host, stored, sessions, renewal, login, event, upsets, revoked, wasted>>
  BY DEF HostTakes
<1>2. RequestRight(r)'
  <2>1. req'[r] = AtRest
    BY <1>1 DEF CredentialTypes, CredentialsTypeOK
  <2> QED
    BY <2>1, CredentialShapes DEF RequestRight
<1> QED
  BY <1>1, <1>2, CredentialShapes, RequestMoves

\* What the host is asked with it takes.
LEMMA HostRefusesStep == ASSUME CredentialTypes, NEW r \in Request, HostRefuses(r) PROVE CredentialTypes' /\ (Working => Working')
<1> DEFINE s == [phase |-> "refused", seen |-> NoRow]
<1>1. req' = [req EXCEPT ![r] = s] /\ UNCHANGED <<host, stored, sessions, renewal, login, event, upsets, revoked, wasted>>
  BY DEF HostRefuses
<1>2. ~Working
  BY DEF HostRefuses, Working, RequestRight
<1>3. s \in [phase: Work, seen: Row \union {NoRow}] /\ s.seen = NoRow /\ s.phase = "refused"
  BY DEF Work
<1> HIDE DEF s
<1> QED
  BY <1>1, <1>2, <1>3, CredentialShapes, RequestMoves

LEMMA RefusedStep == ASSUME CredentialTypes, NEW r \in Request, Refused(r) PROVE CredentialTypes' /\ (Working => Working')
<1> DEFINE s == IF stored = None THEN AtRest ELSE [phase |-> "forgetting", seen |-> stored]
<1>1. req' = [req EXCEPT ![r] = s] /\ UNCHANGED <<host, stored, sessions, renewal, login, event, upsets, revoked, wasted>>
  BY DEF Refused
<1>2. ~Working
  BY DEF Refused, Working, RequestRight
<1>3. /\ s \in [phase: Work, seen: Row \union {NoRow}]
      /\ s.seen \in Row <=> s.phase \in {"deciding", "asking", "forgetting"}
      /\ s.seen \in Row => s.seen \in Around
      /\ s.phase # "deciding"
  <2>1. CASE stored = None
    BY <2>1, CredentialShapes
  <2>2. CASE stored # None
    <3>1. stored \in Row /\ stored \in Around
      BY <2>2, StoredIsAround
    <3> QED
      BY <2>2, <3>1 DEF Work
  <2> QED
    BY <2>1, <2>2
<1> HIDE DEF s
<1> QED
  BY <1>1, <1>2, <1>3, RequestMoves

LEMMA DeletedIs == ASSUME NEW row PROVE Deleted(row) \in {stored, None}
BY DEF Deleted

LEMMA ForgetStep == ASSUME CredentialTypes, NEW r \in Request, Forget(r) PROVE CredentialTypes' /\ (Working => Working')
<1> DEFINE s == IF stored' = stored THEN AtRest ELSE [phase |-> "signingOut", seen |-> NoRow]
<1>1. /\ req' = [req EXCEPT ![r] = s] /\ stored' \in {stored, None}
      /\ UNCHANGED <<host, sessions, renewal, login, event, upsets, revoked, wasted>>
  BY DeletedIs DEF Forget
<1>2. s \in [phase: Work, seen: Row \union {NoRow}] /\ s.seen = NoRow /\ s.phase \in {"idle", "signingOut"}
  BY CredentialShapes DEF Work
<1> HIDE DEF s
<1>3. RequestRight(r)'
  <2>1. req'[r] = s
    BY <1>1 DEF CredentialTypes, CredentialsTypeOK
  <2> QED
    BY <1>2, <2>1 DEF RequestRight
<1> QED
  BY <1>1, <1>2, <1>3, CredentialShapes, RequestMoves

LEMMA SignOutStep == ASSUME CredentialTypes, NEW r \in Request, SignOut(r) PROVE CredentialTypes' /\ (Working => Working')
<1>1. /\ req' = [req EXCEPT ![r] = AtRest] /\ sessions' = {}
      /\ UNCHANGED <<host, stored, renewal, login, event, upsets, revoked, wasted>>
  BY DEF SignOut
<1>2. RequestRight(r)'
  <2>1. req'[r] = AtRest
    BY <1>1 DEF CredentialTypes, CredentialsTypeOK
  <2> QED
    BY <2>1, CredentialShapes DEF RequestRight
<1> QED
  BY <1>1, <1>2, CredentialShapes, RequestMoves

\* A renewal begins where the host does not take the token for long, or what is stored cannot be used.
LEMMA DecideStep == ASSUME CredentialTypes, NEW r \in Request, Decide(r)
    PROVE  CredentialTypes' /\ (Working /\ UseIsNoted => Working')
<1> DEFINE p == AnsweredBy[r]
           row == req[r].seen
           renewable == Opens(p, row) /\ host[row.token].refresh # "over"
<1>1. p \in Process /\ row \in Row /\ row.token \in Token /\ req[r].phase = "deciding"
      /\ row \in Around /\ row.token \in Held
  <2>1. req[r].phase = "deciding"
    BY DEF Decide
  <2>2. row \in Row
    BY <2>1, RequestTypes
  <2> QED
    BY <2>1, <2>2, CredentialShapes DEF Around, Held
<1>2. CASE Usable(row.token)
  <2> DEFINE s == [phase |-> IF Opens(p, row) THEN "asking" ELSE "forgetting", seen |-> row]
  <2>1. req' = [req EXCEPT ![r] = s] /\ UNCHANGED <<host, stored, sessions, renewal, login, event, upsets, revoked, wasted>>
    <3>1. [req EXCEPT ![r].phase = IF Opens(p, row) THEN "asking" ELSE "forgetting"] = [req EXCEPT ![r] = s]
      <4>1. [req[r] EXCEPT !.phase = IF Opens(p, row) THEN "asking" ELSE "forgetting"] = s
        BY RequestTypes
      <4> QED
        BY <4>1
    <3> QED
      BY <1>2, <3>1 DEF Decide
  <2>2. s \in [phase: Work, seen: Row \union {NoRow}] /\ s.seen = row /\ s.phase \in {"asking", "forgetting"}
        /\ (s.phase = "forgetting" => ~Opens(p, row))
    BY <1>1 DEF Work
  <2> HIDE DEF s
  <2>3. UseIsNoted => RequestRight(r)'
    <3>1. req'[r] = s
      BY <2>1 DEF CredentialTypes, CredentialsTypeOK
    <3>2. UseIsNoted => Accepted(row.token)
      BY <1>1, <1>2 DEF UseIsNoted, Usable, Accepted
    <3> QED
      BY <1>1, <2>1, <2>2, <3>1, <3>2 DEF RequestRight, Accepted, Opens
  <2>4. CredentialTypes'
    BY <1>1, <2>1, <2>2, RequestTypesMove
  <2>5. ASSUME Working, UseIsNoted PROVE Working'
    BY <1>1, <2>1, <2>2, <2>3, <2>5, RequestMoves
  <2> QED
    BY <2>4, <2>5
<1>3. CASE ~Usable(row.token)
  <2> DEFINE s == [phase |-> "joined", seen |-> NoRow]
             w == [phase |-> IF renewable THEN "refreshing" ELSE "forgetting", seen |-> row, got |-> 0]
  <2>1. /\ req' = [req EXCEPT ![r] = s]
        /\ renewal' = IF renewal[p].phase # "none" THEN renewal ELSE [renewal EXCEPT ![p] = w]
        /\ UNCHANGED <<host, stored, sessions, login, event, upsets, revoked, wasted>>
    BY <1>3 DEF Decide
  <2>2. s \in [phase: Work, seen: Row \union {NoRow}] /\ s.seen = NoRow /\ s.phase = "joined"
    BY DEF Work
  <2>3. w \in [phase: Renewing, seen: Row \union {NoRow}, got: Token \union {0}] /\ w.seen = row
        /\ w.phase \in {"refreshing", "forgetting"} /\ (w.phase = "forgetting" => ~renewable)
    BY <1>1 DEF Renewing
  <2> HIDE DEF s, w
  <2>4. /\ req' \in [Request -> [phase: Work, seen: Row \union {NoRow}]]
        /\ \A q \in Request : req'[q].seen \in Row <=> req'[q].phase \in {"deciding", "asking", "forgetting"}
        /\ req'[r] = s /\ \A q \in Request : q # r => req'[q] = req[q]
    BY <2>1, <2>2, CredentialShapes, OneRequestTypes
  <2>5. /\ renewal' \in [Process -> [phase: Renewing, seen: Row \union {NoRow}, got: Token \union {0}]]
        /\ \A q \in Process : /\ renewal'[q].phase # "none" => renewal'[q].seen \in Row
                              /\ renewal'[q].phase = "saving" => renewal'[q].got \in Token
        /\ \A q \in Process : renewal'[q] = renewal[q] \/ (q = p /\ renewal'[q] = w)
    <3>1. CASE renewal[p].phase # "none"
      BY <2>1, <3>1 DEF CredentialTypes, CredentialsTypeOK
    <3>2. CASE renewal[p].phase = "none"
      <4>1. renewal' = [renewal EXCEPT ![p] = w]
        BY <2>1, <3>2
      <4>2. (w.phase # "none" => w.seen \in Row) /\ (w.phase = "saving" => w.got \in Token)
        BY <1>1, <2>3
      <4> HIDE DEF p, row, renewable
      <4> QED
        BY <1>1, <2>3, <4>1, <4>2, OneRenewalTypes
    <3> QED
      BY <3>1, <3>2
  <2>6. CredentialTypes'
    BY <2>1, <2>4, <2>5 DEF CredentialTypes, CredentialsTypeOK
  <2>7. ASSUME Working PROVE Working'
    <3>1. RequestRight(r)'
      BY <2>2, <2>4 DEF RequestRight
    <3>2. ASSUME renewal'[p] = w PROVE RenewalRight(p)'
      <4>1. PICK k \in Row : k = row
        BY <1>1
      <4>2. ~renewable => Gone(k.token)' \/ ~Opens(p, k)
        <5>1. CASE ~Opens(p, k)
          BY <5>1
        <5>2. CASE host[k.token].refresh = "over"
          <6>1. ~BeingSaved(k.token)'
            <7> SUFFICES ASSUME NEW q \in Process, renewal'[q].phase = "saving", renewal'[q].seen.token = k.token
                         PROVE  FALSE
              BY DEF BeingSaved
            <7>1. renewal'[q] = renewal[q]
              BY <2>3, <2>5
            <7>2. host[renewal[q].seen.token].refresh = "used"
              BY <2>7, <7>1 DEF Working, ComesIn
            <7> QED
              BY <5>2, <7>1, <7>2
          <6> QED
            BY <1>3, <2>1, <4>1, <5>2, <6>1 DEF Gone, Usable
        <5> QED
          BY <4>1, <5>1, <5>2
      <4>3. host'[k.token].access # "fresh"
        BY <1>3, <2>1, <4>1 DEF Usable
      <4>4. w.seen = k
        BY <2>3, <4>1
      <4> QED
        BY <2>3, <3>2, <4>2, <4>3, <4>4 DEF RenewalRight
    <3>3. \A q \in Request : \/ req'[q] \in {req[q], AtRest}
                             \/ /\ RequestRight(q)'
                                /\ req'[q].seen \in Row => req'[q].seen \in Around
                                /\ req'[q].phase = "deciding" => req'[q].seen = stored
      BY <2>2, <2>4, <3>1, CredentialShapes
    <3>4. \A q \in Process : \/ renewal'[q] \in {renewal[q], NoRenewal}
                             \/ /\ RenewalRight(q)' /\ renewal'[q].phase # "saving"
                                /\ renewal'[q].seen \in Around /\ renewal'[q].seen.token \in Held
      BY <1>1, <2>3, <2>5, <3>2
    <3> QED
      BY <2>1, <2>6, <2>7, <3>3, <3>4, QuietStep
  <2> QED
    BY <2>6, <2>7
<1> QED
  BY <1>2, <1>3

\* A renewal that settles with what is stored, or with nothing.
LEMMA SettlesQuietly ==
    ASSUME CredentialTypes, NEW p \in Process, NEW row \in Row \union {NoRow}, Settled(p, row),
           stored' \in {stored, None}, sessions' \in {sessions, {}}, upsets' \in 0..MaxUpsets, revoked <= upsets',
           UNCHANGED <<host, login, event, revoked>>, wasted' \subseteq Token,
           Working /\ row \in Row => row \in Around /\ Accepted(row.token)
    PROVE  CredentialTypes' /\ (Working => Working')
<1>1. /\ req' \in [Request -> [phase: Work, seen: Row \union {NoRow}]]
      /\ \A r \in Request : req'[r].seen \in Row <=> req'[r].phase \in {"deciding", "asking", "forgetting"}
      /\ renewal' \in [Process -> [phase: Renewing, seen: Row \union {NoRow}, got: Token \union {0}]]
      /\ \A q \in Process : /\ renewal'[q].phase # "none" => renewal'[q].seen \in Row
                            /\ renewal'[q].phase = "saving" => renewal'[q].got \in Token
      /\ renewal'[p] = NoRenewal /\ \A q \in Process : q # p => renewal'[q] = renewal[q]
      /\ \A r \in Request : \/ req'[r] \in {req[r], AtRest}
                            \/ row \in Row /\ req'[r] = [phase |-> "asking", seen |-> row]
  BY SettledIs
<1>2. CredentialTypes'
  <2>1. /\ req' \in [Request -> [phase: Work, seen: Row \union {NoRow}]]
        /\ \A r \in Request : req'[r].seen \in Row <=> req'[r].phase \in {"deciding", "asking", "forgetting"}
        /\ renewal' \in [Process -> [phase: Renewing, seen: Row \union {NoRow}, got: Token \union {0}]]
        /\ \A q \in Process : /\ renewal'[q].phase # "none" => renewal'[q].seen \in Row
                              /\ renewal'[q].phase = "saving" => renewal'[q].got \in Token
    BY <1>1
  <2>2. stored' \in Row \union {None} /\ sessions' \subseteq Token
    BY DEF CredentialTypes, CredentialsTypeOK
  <2> QED
    BY <2>1, <2>2 DEF CredentialTypes, CredentialsTypeOK
<1>3. ASSUME Working PROVE Working'
  <2>1. \A q \in Request : \/ req'[q] \in {req[q], AtRest}
                           \/ /\ RequestRight(q)'
                              /\ req'[q].seen \in Row => req'[q].seen \in Around
                              /\ req'[q].phase = "deciding" => req'[q].seen = stored
    <3> SUFFICES ASSUME NEW q \in Request, row \in Row, req'[q] = [phase |-> "asking", seen |-> row]
                 PROVE  /\ RequestRight(q)'
                        /\ req'[q].seen \in Row => req'[q].seen \in Around
                        /\ req'[q].phase = "deciding" => req'[q].seen = stored
      BY <1>1
    <3>1. req'[q].phase = "asking" /\ req'[q].seen = row
      OBVIOUS
    <3>2. row \in Around /\ Accepted(row.token)
      BY <1>3
    <3> QED
      BY <3>1, <3>2 DEF RequestRight, Accepted
  <2>2. \A q \in Process : renewal'[q] \in {renewal[q], NoRenewal}
    BY <1>1
  <2> QED
    BY <1>2, <1>3, <2>1, <2>2, QuietStep
<1> QED
  BY <1>2, <1>3

LEMMA UpsetIs == ASSUME CredentialTypes, Upset PROVE upsets' \in 0..MaxUpsets /\ revoked <= upsets' /\ revoked + 1 <= upsets'
BY CredentialAssumption DEF CredentialTypes, CredentialsTypeOK, Upset

LEMMA SettlesInFailure ==
    ASSUME CredentialTypes, NEW p \in Process, RefreshFails(p) \/ SaveFails(p) \/ SignOutRenewed(p)
    PROVE  CredentialTypes' /\ (Working => Working')
<1>1. /\ Settled(p, NoRow) /\ stored' = stored /\ sessions' \in {sessions, {}}
      /\ upsets' \in 0..MaxUpsets /\ revoked <= upsets' /\ wasted' \subseteq Token
      /\ UNCHANGED <<host, login, event, revoked>>
  <2>1. upsets \in 0..MaxUpsets /\ revoked <= upsets /\ wasted \subseteq Token
    BY DEF CredentialTypes, CredentialsTypeOK
  <2>2. renewal[p].phase = "saving" => renewal[p].seen.token \in Token
    BY RenewalTypes
  <2> QED
    BY <2>1, <2>2, UpsetIs DEF RefreshFails, SaveFails, SignOutRenewed
<1> QED
  BY <1>1, CredentialShapes, SettlesQuietly

\* A step of one renewal that only changes how far it is.
LEMMA RenewalMoves ==
    ASSUME CredentialTypes, NEW p \in Process, renewal[p].phase # "none", NEW ph \in Renewing, ph \notin {"none", "saving"},
           renewal' = [renewal EXCEPT ![p].phase = ph], stored' \in {stored, None},
           UNCHANGED <<host, sessions, req, login, event, upsets, revoked, wasted>>,
           Working => RenewalRight(p)'
    PROVE  CredentialTypes' /\ (Working => Working')
<1> DEFINE w == [phase |-> ph, seen |-> renewal[p].seen, got |-> renewal[p].got]
<1>1. renewal' = [renewal EXCEPT ![p] = w] /\ w.phase = ph /\ w.seen = renewal[p].seen
  <2>1. [renewal[p] EXCEPT !.phase = ph] = w
    BY RenewalTypes
  <2> QED
    BY <2>1
<1>2. w \in [phase: Renewing, seen: Row \union {NoRow}, got: Token \union {0}]
  BY RenewalTypes
<1> HIDE DEF w
<1>3. /\ renewal' \in [Process -> [phase: Renewing, seen: Row \union {NoRow}, got: Token \union {0}]]
      /\ \A q \in Process : /\ renewal'[q].phase # "none" => renewal'[q].seen \in Row
                            /\ renewal'[q].phase = "saving" => renewal'[q].got \in Token
      /\ renewal'[p] = w /\ \A q \in Process : q # p => renewal'[q] = renewal[q]
  <2>1. (w.phase # "none" => w.seen \in Row) /\ (w.phase = "saving" => w.got \in Token)
    BY <1>1, RenewalTypes
  <2> QED
    BY <1>1, <1>2, <2>1, OneRenewalTypes
<1>4. CredentialTypes'
  <2>1. stored' \in Row \union {None}
    BY DEF CredentialTypes, CredentialsTypeOK
  <2> QED
    BY <1>3, <2>1 DEF CredentialTypes, CredentialsTypeOK
<1>5. ASSUME Working PROVE Working'
  <2>1. renewal[p].seen \in Around /\ renewal[p].seen.token \in Held
    BY RenewalTypes DEF Around, Held
  <2>2. \A q \in Process : \/ renewal'[q] \in {renewal[q], NoRenewal}
                           \/ /\ RenewalRight(q)' /\ renewal'[q].phase # "saving"
                              /\ renewal'[q].seen \in Around /\ renewal'[q].seen.token \in Held
    BY <1>1, <1>3, <1>5, <2>1
  <2> QED
    BY <1>4, <1>5, <2>2, QuietStep
<1> QED
  BY <1>4, <1>5

LEMMA RereadStep == ASSUME CredentialTypes, Punctual, NEW p \in Process, Reread(p) PROVE CredentialTypes' /\ (Working => Working')
<1>1. renewal[p].phase = "racing" /\ renewal[p].seen \in Row /\ ~BeingSaved(renewal[p].seen.token)
  BY RenewalTypes DEF Reread
<1>2. UNCHANGED <<host, stored, sessions, login, event, upsets, revoked, wasted>> /\ upsets \in 0..MaxUpsets /\ revoked <= upsets
      /\ wasted \subseteq Token
  BY DEF Reread, CredentialTypes, CredentialsTypeOK
<1>3. CASE stored # None /\ stored # renewal[p].seen /\ Opens(p, stored)
  <2>1. Settled(p, stored) /\ stored \in Row /\ stored \in Around
    BY <1>3, StoredIsAround DEF Reread
  <2>2. ASSUME Working PROVE Accepted(stored.token)
    <3>1. renewal[p].seen \in Around /\ renewal[p].seen.token \in Held
      BY <1>1 DEF Around, Held
    <3>2. renewal[p].seen.token # stored.token
      BY <1>3, <2>1, <2>2, <3>1 DEF Working, RowsAreTold
    <3> QED
      BY <1>3, <2>2, <3>1, <3>2 DEF Working, NewestIsFresh, Accepted
  <2> QED
    BY <1>2, <2>1, <2>2, SettlesQuietly
<1>4. CASE ~(stored # None /\ stored # renewal[p].seen /\ Opens(p, stored))
  <2>1. renewal' = [renewal EXCEPT ![p].phase = "forgetting"] /\ UNCHANGED req
    BY <1>4 DEF Reread
  <2>2. ASSUME Working PROVE RenewalRight(p)'
    <3>1. PICK k \in Row : k = renewal[p].seen
      BY <1>1
    <3>2. host[k.token].access # "fresh" /\ host[k.token].refresh # "good"
      BY <1>1, <2>2, <3>1 DEF Working, RenewalRight
    <3>3. renewal'[p].phase = "forgetting" /\ renewal'[p].seen = k /\ \A q \in Process : q # p => renewal'[q] = renewal[q]
      BY <2>1, <3>1 DEF CredentialTypes, CredentialsTypeOK
    <3>4. ~BeingSaved(k.token)'
      BY <1>1, <3>1, <3>3 DEF BeingSaved
    <3> QED
      BY <1>2, <3>2, <3>3, <3>4 DEF RenewalRight, Gone
  <2>3. "forgetting" \in Renewing
    BY DEF Renewing
  <2> QED
    BY <1>1, <1>2, <2>1, <2>2, <2>3, RenewalMoves
<1> QED
  BY <1>3, <1>4

LEMMA ForgetRenewedStep ==
    ASSUME CredentialTypes, NEW p \in Process, ForgetRenewed(p) PROVE CredentialTypes' /\ (Working => Working')
<1>1. renewal[p].phase = "forgetting" /\ stored' \in {stored, None}
      /\ UNCHANGED <<host, sessions, login, event, upsets, revoked, wasted>> /\ upsets \in 0..MaxUpsets /\ revoked <= upsets
      /\ wasted \subseteq Token
  BY DeletedIs DEF ForgetRenewed, CredentialTypes, CredentialsTypeOK
<1>2. CASE stored' = stored
  <2>1. Settled(p, NoRow)
    BY <1>2 DEF ForgetRenewed
  <2> QED
    BY <1>1, <2>1, CredentialShapes, SettlesQuietly
<1>3. CASE stored' # stored
  <2>1. renewal' = [renewal EXCEPT ![p].phase = "signingOut"] /\ UNCHANGED req
    BY <1>3 DEF ForgetRenewed
  <2>2. ASSUME Working PROVE RenewalRight(p)'
    <3>1. renewal'[p].phase = "signingOut" /\ renewal'[p].seen = renewal[p].seen
      BY <2>1 DEF CredentialTypes, CredentialsTypeOK
    <3> QED
      BY <1>1, <2>2, <3>1 DEF Working, RenewalRight
  <2>3. "signingOut" \in Renewing
    BY DEF Renewing
  <2> QED
    BY <1>1, <2>1, <2>2, <2>3, RenewalMoves
<1> QED
  BY <1>2, <1>3

LEMMA StartSessionStep == ASSUME CredentialTypes, StartSession PROVE CredentialTypes' /\ (Working => Working')
<1>1. /\ login.phase = "stored" /\ sessions' = sessions \union {login.token} /\ login' = NoLogin
      /\ UNCHANGED <<host, stored, req, renewal, event, upsets, revoked, wasted>>
  BY DEF StartSession
<1>2. CredentialTypes'
  <2>1. sessions' \subseteq Token
    BY <1>1 DEF CredentialTypes, CredentialsTypeOK
  <2> QED
    BY <1>1, <2>1, CredentialShapes DEF CredentialTypes, CredentialsTypeOK
<1> QED
  BY <1>1, <1>2, CredentialShapes, QuietStep

LEMMA EventSteps == ASSUME CredentialTypes, EventDeletes \/ EventSignsOut \/ EventLost PROVE CredentialTypes' /\ (Working => Working')
<1>1. /\ stored' \in {stored, None} /\ sessions' \in {sessions, {}} /\ event' \in {"none", "deleted"}
      /\ UNCHANGED <<host, req, renewal, login, upsets, revoked, wasted>>
  BY DEF EventDeletes, EventSignsOut, EventLost
<1>2. CredentialTypes'
  <2>1. stored' \in Row \union {None} /\ sessions' \subseteq Token
    BY <1>1 DEF CredentialTypes, CredentialsTypeOK
  <2> QED
    BY <1>1, <2>1 DEF CredentialTypes, CredentialsTypeOK
<1> QED
  BY <1>1, <1>2, QuietStep

LEMMA CrashStep == ASSUME CredentialTypes, NEW p \in Process, Crash(p) PROVE CredentialTypes' /\ (Working => Working')
<1>1. /\ renewal' = [renewal EXCEPT ![p] = NoRenewal] /\ upsets' \in 0..MaxUpsets /\ revoked <= upsets'
      /\ wasted' \subseteq Token
      /\ req' = [r \in Request |-> IF AnsweredBy[r] = p THEN AtRest ELSE req[r]]
      /\ login' \in {login, NoLogin}
      /\ UNCHANGED <<host, stored, sessions, event, revoked>>
  BY UpsetIs, RenewalTypes DEF Crash, CredentialTypes, CredentialsTypeOK
<1>2. \A r \in Request : req'[r] \in {req[r], AtRest}
  BY <1>1
<1>3. \A q \in Process : renewal'[q] \in {renewal[q], NoRenewal}
  BY <1>1 DEF CredentialTypes, CredentialsTypeOK
<1>4. CredentialTypes'
  <2>1. ASSUME NEW r \in Request
        PROVE  /\ req'[r] \in [phase: Work, seen: Row \union {NoRow}]
               /\ req'[r].seen \in Row <=> req'[r].phase \in {"deciding", "asking", "forgetting"}
    <3>1. CASE req'[r] = req[r]
      BY <3>1, RequestTypes
    <3>2. CASE req'[r] = AtRest
      <4>1. req'[r].phase = "idle" /\ req'[r].seen \notin Row
        BY <3>2, CredentialShapes
      <4> QED
        BY <3>2, <4>1, CredentialShapes
    <3> QED
      BY <1>2, <3>1, <3>2
  <2>2. req' \in [Request -> [phase: Work, seen: Row \union {NoRow}]]
    <3>1. req' = [r \in Request |-> req'[r]]
      BY <1>1
    <3> QED
      BY <2>1, <3>1
  <2>3. /\ renewal' \in [Process -> [phase: Renewing, seen: Row \union {NoRow}, got: Token \union {0}]]
        /\ \A q \in Process : /\ renewal'[q].phase # "none" => renewal'[q].seen \in Row
                              /\ renewal'[q].phase = "saving" => renewal'[q].got \in Token
    <3>1. /\ NoRenewal \in [phase: Renewing, seen: Row \union {NoRow}, got: Token \union {0}]
          /\ NoRenewal.phase # "none" => NoRenewal.seen \in Row
          /\ NoRenewal.phase = "saving" => NoRenewal.got \in Token
      BY CredentialShapes
    <3> QED
      BY <1>1, <3>1, OneRenewalTypes
  <2>4. login' \in [phase: {"none", "issued", "stored"}, token: Token \union {0}] /\ (login'.phase # "none" => login'.token \in Token)
    BY <1>1, CredentialShapes DEF CredentialTypes, CredentialsTypeOK
  <2> QED
    BY <1>1, <2>1, <2>2, <2>3, <2>4 DEF CredentialTypes, CredentialsTypeOK
<1>5. login'.phase = "issued" => login' = login
  BY <1>1, CredentialShapes
<1> QED
  BY <1>1, <1>2, <1>3, <1>4, <1>5, QuietStep

LEMMA HostTypes == ASSUME CredentialTypes, NEW t \in Token PROVE host[t].access \in Access /\ host[t].refresh \in Refresh
BY DEF CredentialTypes, CredentialsTypeOK

\* A new token changes nothing for the rows there are.
LEMMA NewToken ==
    ASSUME CredentialTypes, Working, NEW n \in Token, Fresh(n), host'[n] = Issued,
           \A u \in Token : u # n => host'[u].access = host[u].access,
           stored' = stored, req' = req,
           \A p \in Process : renewal'[p].seen = renewal[p].seen /\ (renewal'[p].phase # "none" => renewal[p].phase # "none")
    PROVE  /\ \A a \in Around : a.token \in Token /\ a.token # n /\ host'[a.token].access = host[a.token].access
           /\ \A r \in Request : RequestRight(r)'
           /\ RowsAreTold' /\ NewestIsFresh' /\ NewToAll(n)'
           /\ \A t \in Token : NewToAll(t) => t # n /\ NewToAll(t)'
<1>1. host[n].access = "none"
  BY DEF Fresh
<1>2. \A a \in Around : a.token \in Token /\ a.token # n /\ host'[a.token].access = host[a.token].access
  BY <1>1, CredentialShapes DEF Working, RowsAreTold, Around
<1>3. \A a \in Around' : a \in Around
  BY DEF Around
<1>4. ASSUME NEW r \in Request PROVE RequestRight(r)'
  <2>1. RequestRight(r)
    BY DEF Working
  <2>2. CASE req[r].phase = "asking"
    <3>1. req[r].seen \in Around
      BY <2>2, RequestTypes DEF Around
    <3> QED
      BY <1>2, <2>1, <2>2, <3>1 DEF RequestRight, Accepted
  <2>3. CASE req[r].phase # "asking"
    BY <2>1, <2>3 DEF RequestRight, Opens
  <2> QED
    BY <2>2, <2>3
<1>5. RowsAreTold'
  BY <1>2, <1>3 DEF Working, RowsAreTold
<1>6. NewestIsFresh'
  <2> SUFFICES ASSUME stored # None, NEW t \in Held' PROVE t = stored.token \/ host'[stored.token].access = "fresh"
    BY DEF NewestIsFresh
  <2>1. t \in Held
    BY DEF Held
  <2>2. stored \in Around
    BY StoredIsAround
  <2> QED
    BY <1>2, <2>1, <2>2 DEF Working, NewestIsFresh
<1>7. NewToAll(n)'
  BY <1>2, <1>3 DEF NewToAll, Issued
<1>8. ASSUME NEW t \in Token, NewToAll(t) PROVE t # n /\ NewToAll(t)'
  BY <1>1, <1>3, <1>8 DEF NewToAll
<1> QED
  BY <1>2, <1>4, <1>5, <1>6, <1>7, <1>8

LEMMA ExchangeStep == ASSUME CredentialTypes, Exchange PROVE CredentialTypes' /\ (Working => Working')
<1>1. PICK n \in Token : Fresh(n) /\ host' = [host EXCEPT ![n] = Issued] /\ login' = [phase |-> "issued", token |-> n]
  BY DEF Exchange
<1>2. login = NoLogin /\ UNCHANGED <<stored, sessions, req, renewal, event, upsets, revoked, wasted>>
  BY DEF Exchange
<1>3. host'[n] = Issued /\ \A u \in Token : u # n => host'[u] = host[u]
  BY <1>1 DEF CredentialTypes, CredentialsTypeOK
<1>4. CredentialTypes'
  <2>1. host' \in [Token -> [access: Access, refresh: Refresh]]
    <3>1. Issued \in [access: Access, refresh: Refresh]
      BY DEF Issued, Access, Refresh
    <3> QED
      BY <1>1, <3>1 DEF CredentialTypes, CredentialsTypeOK
  <2>2. login' \in [phase: {"none", "issued", "stored"}, token: Token \union {0}] /\ login'.token \in Token
    BY <1>1
  <2> QED
    BY <1>2, <2>1, <2>2 DEF CredentialTypes, CredentialsTypeOK
<1>5. ASSUME Working PROVE Working'
  <2>1. /\ \A a \in Around : a.token \in Token /\ a.token # n /\ host'[a.token].access = host[a.token].access
        /\ \A r \in Request : RequestRight(r)'
        /\ RowsAreTold' /\ NewestIsFresh' /\ NewToAll(n)'
        /\ \A t \in Token : NewToAll(t) => t # n /\ NewToAll(t)'
    BY <1>1, <1>2, <1>3, <1>5, NewToken
  <2>2. ASSUME NEW p \in Process, renewal[p].phase = "saving"
        PROVE  /\ NewToAll(renewal[p].got)' /\ renewal[p].got # n
               /\ host'[renewal[p].seen.token].refresh = "used"
    <3>1. NewToAll(renewal[p].got) /\ host[renewal[p].seen.token].refresh = "used" /\ renewal[p].got \in Token
      BY <1>5, <2>2, RenewalTypes DEF Working, ComesIn
    <3>2. renewal[p].seen \in Around
      BY <2>2, RenewalTypes DEF Around
    <3>3. \A t \in Token : t = renewal[p].got => NewToAll(t)'
      BY <2>1, <3>1
    <3>4. NewToAll(renewal[p].got)'
      BY <1>2, <3>1, <3>3
    <3> QED
      BY <1>3, <2>1, <3>1, <3>2, <3>4
  <2>3. ComesIn'
    <3>1. login'.token = n
      BY <1>1
    <3>2. NewToAll(login.token)'
      BY <2>1, <3>1 DEF NewToAll, Around
    <3>3. \A p \in Process : renewal[p].phase = "saving" =>
            \A q \in Process : renewal[q].phase = "saving" /\ renewal[q].got = renewal[p].got => q = p
      BY <1>5 DEF Working, ComesIn
    <3> QED
      BY <1>2, <2>2, <3>1, <3>2, <3>3 DEF ComesIn
  <2>4. ASSUME NEW p \in Process PROVE RenewalRight(p)'
    <3>1. RenewalRight(p)
      BY <1>5 DEF Working
    <3>2. CASE renewal[p].phase = "none"
      BY <1>2, <3>2 DEF RenewalRight
    <3>3. CASE renewal[p].phase # "none"
      <4>1. renewal[p].seen \in Around
        BY <3>3, RenewalTypes DEF Around
      <4>2. host'[renewal[p].seen.token] = host[renewal[p].seen.token]
        BY <1>3, <2>1, <4>1
      <4> QED
        BY <1>2, <3>1, <4>2 DEF RenewalRight, Gone, BeingSaved, Opens
    <3> QED
      BY <3>2, <3>3
  <2> QED
    BY <2>1, <2>3, <2>4 DEF Working
<1> QED
  BY <1>4, <1>5

LEMMA RefreshAtHostStep ==
    ASSUME CredentialTypes, EndsReplaced = FALSE, NEW p \in Process, RefreshAtHost(p)
    PROVE  CredentialTypes' /\ (Working => Working')
<1>1. PICK t \in Token : t = renewal[p].seen.token
  BY RenewalTypes DEF RefreshAtHost
<1>2. /\ renewal[p].phase = "refreshing" /\ renewal[p].seen \in Row /\ renewal[p].seen \in Around
      /\ UNCHANGED <<stored, sessions, req, login, event, upsets, revoked, wasted>>
  <2>1. renewal[p].phase = "refreshing"
    BY DEF RefreshAtHost
  <2> QED
    BY <2>1, RenewalTypes DEF RefreshAtHost, Around
<1>3. CASE host[t].refresh # "good"
  <2>1. UNCHANGED host /\ renewal' = [renewal EXCEPT ![p].phase = "racing"]
    BY <1>1, <1>3 DEF RefreshAtHost
  <2>2. ASSUME Working PROVE RenewalRight(p)'
    <3>1. renewal'[p].phase = "racing" /\ renewal'[p].seen = renewal[p].seen
      BY <2>1 DEF CredentialTypes, CredentialsTypeOK
    <3> QED
      BY <1>1, <1>2, <1>3, <2>1, <2>2, <3>1 DEF Working, RenewalRight
  <2>3. "racing" \in Renewing
    BY DEF Renewing
  <2> QED
    BY <1>2, <2>1, <2>2, <2>3, RenewalMoves
<1>4. CASE host[t].refresh = "good"
  <2>1. PICK n \in Token :
          /\ Fresh(n)
          /\ host' = [host EXCEPT ![n] = Issued, ![t] = [access |-> host[t].access, refresh |-> "used"]]
          /\ renewal' = [renewal EXCEPT ![p] = [phase |-> "saving", seen |-> @.seen, got |-> n]]
    BY <1>1, <1>4 DEF RefreshAtHost
  <2>2. /\ host' \in [Token -> [access: Access, refresh: Refresh]]
        /\ n # t => /\ host'[n] = Issued /\ host'[t].access = host[t].access /\ host'[t].refresh = "used"
                    /\ \A u \in Token : u \notin {n, t} => host'[u] = host[u]
    <3>1. PICK h : h = [host EXCEPT ![n] = Issued]
      OBVIOUS
    <3>2. Issued \in [access: Access, refresh: Refresh]
      BY DEF Issued, Access, Refresh
    <3>3. h \in [Token -> [access: Access, refresh: Refresh]] /\ h[n] = Issued /\ \A u \in Token : u # n => h[u] = host[u]
      BY <3>1, <3>2 DEF CredentialTypes, CredentialsTypeOK
    <3>4. host' = [h EXCEPT ![t] = [access |-> host[t].access, refresh |-> "used"]]
      BY <2>1, <3>1
    <3>5. [access |-> host[t].access, refresh |-> "used"] \in [access: Access, refresh: Refresh]
      BY HostTypes DEF Refresh
    <3> QED
      BY <3>3, <3>4, <3>5
  <2> DEFINE w == [phase |-> "saving", seen |-> renewal[p].seen, got |-> n]
  <2>3. /\ renewal' \in [Process -> [phase: Renewing, seen: Row \union {NoRow}, got: Token \union {0}]]
        /\ \A q \in Process : /\ renewal'[q].phase # "none" => renewal'[q].seen \in Row
                              /\ renewal'[q].phase = "saving" => renewal'[q].got \in Token
        /\ renewal'[p] = w /\ \A q \in Process : q # p => renewal'[q] = renewal[q]
    <3>1. w \in [phase: Renewing, seen: Row \union {NoRow}, got: Token \union {0}] /\ w.seen \in Row /\ w.got \in Token
      BY <1>2 DEF Renewing
    <3>2. renewal' = [renewal EXCEPT ![p] = w]
      BY <2>1
    <3> HIDE DEF w
    <3> QED
      BY <3>1, <3>2, OneRenewalTypes
  <2>4. renewal'[p].phase = "saving" /\ renewal'[p].seen = renewal[p].seen /\ renewal'[p].got = n
    BY <2>3
  <2> HIDE DEF w
  <2>5. CredentialTypes'
    BY <1>2, <2>2, <2>3 DEF CredentialTypes, CredentialsTypeOK
  <2>6. ASSUME Working PROVE Working'
    <3>1. n # t
      BY <1>1, <1>2, <2>1, <2>6 DEF Working, RowsAreTold, Fresh
    <3>2. /\ \A a \in Around : a.token \in Token /\ a.token # n /\ host'[a.token].access = host[a.token].access
          /\ \A r \in Request : RequestRight(r)'
          /\ RowsAreTold' /\ NewestIsFresh' /\ NewToAll(n)'
          /\ \A u \in Token : NewToAll(u) => u # n /\ NewToAll(u)'
      <4>1. \A q \in Process : renewal'[q].seen = renewal[q].seen /\ (renewal'[q].phase # "none" => renewal[q].phase # "none")
        BY <1>2, <2>3, <2>4
      <4>2. host'[n] = Issued /\ \A u \in Token : u # n => host'[u].access = host[u].access
        BY <2>2, <3>1
      <4> QED
        BY <1>2, <2>1, <2>6, <4>1, <4>2, NewToken
    <3>3. ASSUME NEW q \in Process, q # p, renewal[q].phase = "saving"
          PROVE  /\ NewToAll(renewal[q].got)' /\ renewal[q].got # n
                 /\ host'[renewal[q].seen.token].refresh = "used"
      <4>1. NewToAll(renewal[q].got) /\ host[renewal[q].seen.token].refresh = "used" /\ renewal[q].got \in Token
        BY <2>6, <3>3, RenewalTypes DEF Working, ComesIn
      <4>2. renewal[q].seen \in Around
        BY <3>3, RenewalTypes DEF Around
      <4>3. \A u \in Token : u = renewal[q].got => NewToAll(u)'
        BY <3>2, <4>1
      <4>4. NewToAll(renewal[q].got)'
        <5>1. renewal'[q] = renewal[q]
          BY <2>3, <3>3
        <5> QED
          BY <4>1, <4>3, <5>1
      <4> QED
        BY <2>2, <3>1, <3>2, <4>1, <4>2, <4>4
    <3>4. ComesIn'
      <4>1. login.phase = "issued" => login.token # n /\ NewToAll(login.token)'
        <5>1. login.phase = "issued" => NewToAll(login.token) /\ login.token \in Token
          BY <2>6 DEF Working, ComesIn, CredentialTypes
        <5>2. \A u \in Token : login.phase = "issued" /\ u = login.token => u # n /\ NewToAll(u)'
          BY <3>2, <5>1
        <5> QED
          BY <1>2, <5>1, <5>2
      <4>2. \A q \in Process : renewal[q].phase = "saving" =>
              /\ \A o \in Process : renewal[o].phase = "saving" /\ renewal[o].got = renewal[q].got => o = q
              /\ login.phase = "issued" => login.token # renewal[q].got
        BY <2>6 DEF Working, ComesIn
      <4>3. ASSUME NEW q \in Process, renewal'[q].phase = "saving"
            PROVE  /\ NewToAll(renewal[q].got)'
                   /\ host'[renewal'[q].seen.token].refresh = "used"
                   /\ \A o \in Process : renewal'[o].phase = "saving" /\ renewal'[o].got = renewal'[q].got => o = q
                   /\ login.phase = "issued" => login.token # renewal'[q].got
        <5>1. CASE q = p
          <6>1. NewToAll(renewal[q].got)'
            BY <2>4, <3>2, <5>1 DEF NewToAll, Around
          <6> QED
            BY <1>1, <2>2, <2>3, <2>4, <3>1, <3>3, <4>1, <5>1, <6>1
        <5>2. CASE q # p
          BY <2>3, <2>4, <3>3, <4>2, <4>3, <5>2
        <5> QED
          BY <5>1, <5>2
      <4> QED
        BY <1>2, <4>1, <4>3 DEF ComesIn
    <3>5. ASSUME NEW q \in Process PROVE RenewalRight(q)'
      <4>1. RenewalRight(q)
        BY <2>6 DEF Working
      <4>2. CASE q = p
        <5>1. host'[t].access # "fresh"
          BY <1>1, <1>2, <2>2, <3>1, <4>1, <4>2 DEF RenewalRight
        <5> QED
          BY <1>1, <2>4, <4>2, <5>1 DEF RenewalRight
      <4>3. CASE q # p /\ renewal[q].phase = "none"
        BY <2>3, <4>3 DEF RenewalRight
      <4>4. CASE q # p /\ renewal[q].phase # "none"
        <5>1. renewal[q].seen \in Around /\ renewal'[q] = renewal[q]
          BY <2>3, <4>4, RenewalTypes DEF Around
        <5>2. PICK k \in Token : k = renewal[q].seen.token
          BY <4>4, RenewalTypes
        <5>3. host'[k].access = host[k].access /\ host'[k].refresh \in {host[k].refresh, "used"}
          BY <2>2, <3>1, <3>2, <5>1, <5>2
        <5>4. Gone(k) => Gone(k)'
          <6> SUFFICES ASSUME Gone(k) PROVE Gone(k)'
            OBVIOUS
          <6>1. k # t
            BY <1>4 DEF Gone
          <6>2. ~BeingSaved(k)'
            BY <1>1, <2>3, <2>4, <6>1 DEF BeingSaved, Gone
          <6> QED
            BY <5>3, <6>2 DEF Gone
        <5> QED
          BY <4>1, <5>1, <5>2, <5>3, <5>4 DEF RenewalRight, Opens
      <4> QED
        BY <4>2, <4>3, <4>4
    <3> QED
      BY <3>2, <3>4, <3>5 DEF Working
  <2> QED
    BY <2>5, <2>6
<1> QED
  BY <1>3, <1>4

\* A row with a token nobody has seen takes the place of what was stored.
LEMMA NewRow ==
    ASSUME CredentialTypes, CredentialTypes', Working, host' = host, NEW row \in Row, stored' = row, NewToAll(row.token),
           \A r \in Request : req'[r] \in {req[r], AtRest} \/ req'[r] = [phase |-> "asking", seen |-> row],
           \A p \in Process : renewal'[p] \in {renewal[p], NoRenewal},
           \A p \in Process : renewal'[p].phase = "saving" => renewal[p].got # row.token,
           login'.phase = "issued" => login' = login /\ login.token # row.token
    PROVE  Working'
<1>1. ASSUME NEW a \in Around' PROVE a \in Around \/ a = row
  <2>1. a \in Row /\ (a = row \/ (\E r \in Request : req'[r].seen = a) \/ \E p \in Process : renewal'[p].seen = a)
    BY DEF Around
  <2>2. ASSUME NEW r \in Request, req'[r].seen = a, a # row PROVE a \in Around
    BY <2>1, <2>2, CredentialShapes DEF Around
  <2>3. ASSUME NEW p \in Process, renewal'[p].seen = a PROVE a \in Around
    BY <2>1, <2>3, CredentialShapes DEF Around
  <2> QED
    BY <2>1, <2>2, <2>3
<1>2. RowsAreTold'
  BY <1>1 DEF Working, RowsAreTold, NewToAll
<1>3. \A t : NewToAll(t) /\ t # row.token => NewToAll(t)'
  BY <1>1 DEF NewToAll
<1>4. ComesIn'
  <2>1. \A p \in Process : renewal'[p].phase = "saving" => renewal'[p] = renewal[p]
    BY CredentialShapes
  <2>2. ASSUME NEW p \in Process, renewal'[p].phase = "saving"
        PROVE  /\ NewToAll(renewal[p].got)' /\ host'[renewal'[p].seen.token].refresh = "used"
               /\ \A q \in Process : renewal'[q].phase = "saving" /\ renewal'[q].got = renewal'[p].got => q = p
               /\ login'.phase = "issued" => login'.token # renewal'[p].got
    <3>1. NewToAll(renewal[p].got) /\ renewal'[p] = renewal[p] /\ renewal[p].got # row.token
      BY <2>1, <2>2 DEF Working, ComesIn
    <3>2. PICK t : t = renewal[p].got
      OBVIOUS
    <3>3. NewToAll(t)'
      BY <1>3, <3>1, <3>2
    <3>4. NewToAll(renewal[p].got)'
      BY <3>1, <3>2, <3>3
    <3> QED
      BY <2>1, <2>2, <3>1, <3>4 DEF Working, ComesIn
  <2>3. ASSUME login'.phase = "issued" PROVE NewToAll(login.token)'
    <3>1. PICK t : t = login.token
      OBVIOUS
    <3>2. NewToAll(t) /\ t # row.token
      BY <2>3, <3>1 DEF Working, ComesIn
    <3>3. NewToAll(t)'
      BY <1>3, <3>2
    <3> QED
      BY <2>3, <3>1, <3>3
  <2> QED
    BY <2>2, <2>3 DEF ComesIn
<1>5. NewestIsFresh'
  BY DEF NewestIsFresh, NewToAll
<1>6. ASSUME NEW r \in Request PROVE RequestRight(r)'
  <2>1. CASE req'[r] \in {req[r], AtRest}
    BY <2>1, RequestStays DEF Working
  <2>2. CASE req'[r] = [phase |-> "asking", seen |-> row]
    BY <2>2 DEF RequestRight, Accepted, NewToAll
  <2> QED
    BY <2>1, <2>2
<1>7. \A p \in Process : RenewalRight(p)'
  <2>1. \A p \in Process : renewal'[p].phase = "saving" => renewal'[p] = renewal[p]
    BY CredentialShapes
  <2> QED
    BY <2>1, RenewalStays DEF Working
<1> QED
  BY <1>2, <1>4, <1>5, <1>6, <1>7 DEF Working

LEMMA SaveStep == ASSUME CredentialTypes, NEW p \in Process, Save(p) PROVE CredentialTypes' /\ (Working => Working')
<1>1. PICK row : row = [token |-> renewal[p].got, by |-> p]
  OBVIOUS
<1>2. /\ renewal[p].phase = "saving" /\ stored' = row /\ Settled(p, row)
      /\ UNCHANGED <<host, sessions, login, event, upsets, revoked, wasted>>
  BY <1>1 DEF Save
<1>3. row \in Row /\ row.token = renewal[p].got
  BY <1>1, <1>2, RenewalTypes DEF Row
<1>4. /\ req' \in [Request -> [phase: Work, seen: Row \union {NoRow}]]
      /\ \A r \in Request : req'[r].seen \in Row <=> req'[r].phase \in {"deciding", "asking", "forgetting"}
      /\ renewal' \in [Process -> [phase: Renewing, seen: Row \union {NoRow}, got: Token \union {0}]]
      /\ \A q \in Process : /\ renewal'[q].phase # "none" => renewal'[q].seen \in Row
                            /\ renewal'[q].phase = "saving" => renewal'[q].got \in Token
      /\ renewal'[p] = NoRenewal /\ \A q \in Process : q # p => renewal'[q] = renewal[q]
      /\ \A r \in Request : \/ req'[r] \in {req[r], AtRest}
                            \/ row \in Row /\ req'[r] = [phase |-> "asking", seen |-> row]
  BY <1>2, <1>3, SettledIs
<1>5. CredentialTypes'
  BY <1>2, <1>3, <1>4 DEF CredentialTypes, CredentialsTypeOK
<1>6. ASSUME Working PROVE Working'
  <2>1. NewToAll(row.token)
    BY <1>2, <1>3, <1>6 DEF Working, ComesIn
  <2>2. \A q \in Process : renewal'[q].phase = "saving" => renewal[q].got # row.token
    BY <1>2, <1>3, <1>4, <1>6, CredentialShapes DEF Working, ComesIn
  <2>3. login'.phase = "issued" => login' = login /\ login.token # row.token
    BY <1>2, <1>3, <1>6 DEF Working, ComesIn
  <2>4. \A q \in Process : renewal'[q] \in {renewal[q], NoRenewal}
    BY <1>4
  <2>5. \A r \in Request : req'[r] \in {req[r], AtRest} \/ req'[r] = [phase |-> "asking", seen |-> row]
    BY <1>4
  <2> QED
    BY <1>2, <1>3, <1>5, <1>6, <2>1, <2>2, <2>3, <2>4, <2>5, NewRow
<1> QED
  BY <1>5, <1>6

LEMMA StoreStep == ASSUME CredentialTypes, Store PROVE CredentialTypes' /\ (Working => Working')
<1>1. PICK row : stored' = row /\ \E p \in Process : row = [token |-> login.token, by |-> p]
  BY DEF Store
<1>2. /\ login.phase = "issued" /\ login' = [login EXCEPT !.phase = "stored"]
      /\ UNCHANGED <<host, sessions, req, renewal, event, upsets, revoked, wasted>>
  BY DEF Store
<1>3. row \in Row /\ row.token = login.token
  BY <1>1, <1>2 DEF Row, CredentialTypes
<1>4. /\ login' \in [phase: {"none", "issued", "stored"}, token: Token \union {0}]
      /\ login'.phase = "stored" /\ login'.token = login.token
  BY <1>2 DEF CredentialTypes, CredentialsTypeOK
<1>5. CredentialTypes'
  BY <1>1, <1>2, <1>3, <1>4 DEF CredentialTypes, CredentialsTypeOK
<1>6. ASSUME Working PROVE Working'
  <2>1. NewToAll(row.token) /\ \A q \in Process : renewal[q].phase = "saving" => renewal[q].got # row.token
    BY <1>2, <1>3, <1>6 DEF Working, ComesIn
  <2> QED
    BY <1>1, <1>2, <1>3, <1>4, <1>5, <1>6, <2>1, NewRow
<1> QED
  BY <1>5, <1>6

\* Whatever else a host's token becomes, what is at work with another is not touched by it.
LEMMA AgesStep == ASSUME CredentialTypes, Punctual, Ages PROVE CredentialTypes' /\ (Working => Working')
<1>1. PICK t \in Token :
        \/ /\ host[t].access = "fresh" /\ Settles(t)
           /\ host' = [host EXCEPT ![t].access = "ending"]
        \/ /\ host[t].access \in {"ending", "taken"} /\ LetGo(t)
           /\ host' = [host EXCEPT ![t].access = "over"]
        \/ /\ host[t].access = "over" /\ host[t].refresh = "good"
           /\ host' = [host EXCEPT ![t].refresh = "over"]
  BY DEF Ages
<1>2. UNCHANGED <<stored, sessions, req, renewal, login, event, upsets, revoked, wasted>>
  BY DEF Ages
<1>3. host \in [Token -> [access: Access, refresh: Refresh]]
  BY DEF CredentialTypes, CredentialsTypeOK
<1>4. /\ host' \in [Token -> [access: Access, refresh: Refresh]]
      /\ \A u \in Token : u # t => host'[u] = host[u]
      /\ host'[t].access # "none" /\ host'[t].access # "fresh"
      /\ host'[t].refresh \in {host[t].refresh, "over"} /\ (host[t].refresh = "used" => host'[t].refresh = "used")
      /\ Accepted(t) => host'[t].access \in {"ending", "over"}
      /\ host'[t].access = "over" /\ Accepted(t) => LetGo(t)
      /\ host[t].access = "fresh" => Settles(t)
  <2>1. PICK x : x = host[t]
    OBVIOUS
  <2>2. x \in [access: Access, refresh: Refresh]
    BY <1>3, <2>1
  <2>3. CASE host[t].access = "fresh" /\ Settles(t) /\ host' = [host EXCEPT ![t].access = "ending"]
    <3>1. host' = [host EXCEPT ![t] = [x EXCEPT !.access = "ending"]]
      BY <2>1, <2>3
    <3>2. [x EXCEPT !.access = "ending"] \in [access: Access, refresh: Refresh]
          /\ [x EXCEPT !.access = "ending"].access = "ending" /\ [x EXCEPT !.access = "ending"].refresh = x.refresh
      BY <2>2 DEF Access
    <3> QED
      BY <1>3, <2>1, <2>3, <3>1, <3>2
  <2>4. CASE host[t].access \in {"ending", "taken"} /\ LetGo(t) /\ host' = [host EXCEPT ![t].access = "over"]
    <3>1. host' = [host EXCEPT ![t] = [x EXCEPT !.access = "over"]]
      BY <2>1, <2>4
    <3>2. [x EXCEPT !.access = "over"] \in [access: Access, refresh: Refresh]
          /\ [x EXCEPT !.access = "over"].access = "over" /\ [x EXCEPT !.access = "over"].refresh = x.refresh
      BY <2>2 DEF Access
    <3> QED
      BY <1>3, <2>1, <2>4, <3>1, <3>2
  <2>5. CASE host[t].access = "over" /\ host[t].refresh = "good" /\ host' = [host EXCEPT ![t].refresh = "over"]
    <3>1. host' = [host EXCEPT ![t] = [x EXCEPT !.refresh = "over"]]
      BY <2>1, <2>5
    <3>2. [x EXCEPT !.refresh = "over"] \in [access: Access, refresh: Refresh]
          /\ [x EXCEPT !.refresh = "over"].access = x.access /\ [x EXCEPT !.refresh = "over"].refresh = "over"
      BY <2>2 DEF Refresh
    <3> QED
      BY <1>3, <2>1, <2>5, <3>1, <3>2 DEF Accepted
  <2> QED
    BY <1>1, <2>3, <2>4, <2>5
<1>5. CredentialTypes'
  BY <1>2, <1>4 DEF CredentialTypes, CredentialsTypeOK
<1>6. ASSUME Working PROVE Working'
  <2>1. Around' = Around /\ Held' = Held
    BY <1>2 DEF Around, Held
  <2>2. \A a \in Around : a.token \in Token
    BY CredentialShapes DEF Around
  <2>3. RowsAreTold'
    BY <1>4, <1>6, <2>1, <2>2 DEF Working, RowsAreTold
  <2>4. \A u \in Token : NewToAll(u) /\ u # t => NewToAll(u)'
    BY <1>4, <2>1 DEF NewToAll
  <2>5. ASSUME NEW p \in Process, renewal[p].phase = "saving"
        PROVE  /\ NewToAll(renewal[p].got)' /\ host'[renewal[p].seen.token].refresh = "used"
    <3>1. /\ NewToAll(renewal[p].got) /\ host[renewal[p].seen.token].refresh = "used" /\ renewal[p].got \in Token
          /\ renewal[p].seen \in Around /\ renewal[p].seen.token \in Token
      BY <1>6, <2>5, RenewalTypes DEF Working, ComesIn, Around
    <3>2. renewal[p].got # t
      <4> SUFFICES ASSUME renewal[p].got = t PROVE FALSE
        OBVIOUS
      <4>1. Settles(t)
        BY <1>4, <3>1 DEF NewToAll
      <4>2. renewal[p].seen.token = t
        BY <3>1, <4>1, CredentialShapes DEF Settles
      <4> QED
        BY <3>1, <4>2 DEF NewToAll
    <3>3. \A u \in Token : u = renewal[p].got => NewToAll(u)'
      BY <2>4, <3>1, <3>2
    <3>4. NewToAll(renewal[p].got)'
      BY <1>2, <3>1, <3>3
    <3> QED
      BY <1>4, <3>1, <3>4
  <2>6. ASSUME login.phase = "issued" PROVE NewToAll(login.token)'
    <3>1. NewToAll(login.token) /\ login.token \in Token
      BY <1>6, <2>6 DEF Working, ComesIn, CredentialTypes
    <3>2. login.token # t
      BY <1>4, <3>1 DEF NewToAll, Settles
    <3>3. \A u \in Token : u = login.token => NewToAll(u)'
      BY <2>4, <3>1, <3>2
    <3> QED
      BY <1>2, <3>1, <3>3
  <2>7. ComesIn'
    <3>1. \A p \in Process : renewal[p].phase = "saving" =>
            /\ \A q \in Process : renewal[q].phase = "saving" /\ renewal[q].got = renewal[p].got => q = p
            /\ login.phase = "issued" => login.token # renewal[p].got
      BY <1>6 DEF Working, ComesIn
    <3> QED
      BY <1>2, <2>5, <2>6, <3>1 DEF ComesIn
  <2>8. NewestIsFresh'
    <3> SUFFICES ASSUME stored # None, NEW u \in Held PROVE u = stored.token \/ host'[stored.token].access = "fresh"
      BY <1>2, <2>1 DEF NewestIsFresh
    <3>1. stored.token \in Token
      BY StoredIsAround, CredentialShapes
    <3>2. u = stored.token \/ host[stored.token].access = "fresh"
      BY <1>6 DEF Working, NewestIsFresh
    <3>3. CASE stored.token = t /\ host[t].access = "fresh"
      <4>1. Settles(t)
        BY <1>4, <3>3
      <4>2. \/ \E r \in Request : req[r].phase = "deciding" /\ u = req[r].seen.token
            \/ \E p \in Process : renewal[p].phase # "none" /\ u = renewal[p].seen.token
        BY DEF Held
      <4>3. u = t
        BY <4>1, <4>2, RenewalTypes, CredentialShapes DEF Settles
      <4> QED
        BY <3>3, <4>3
    <3> QED
      BY <1>4, <3>1, <3>2, <3>3
  <2>9. ASSUME NEW r \in Request PROVE RequestRight(r)'
    <3>1. RequestRight(r)
      BY <1>6 DEF Working
    <3>2. CASE req[r].phase = "asking"
      <4>1. PICK u \in Token : u = req[r].seen.token
        BY <3>2, RequestTypes, CredentialShapes
      <4>2. Accepted(u)
        BY <3>1, <3>2, <4>1 DEF RequestRight
      <4>3. Accepted(u)'
        BY <1>4, <3>2, <4>1, <4>2 DEF Accepted, LetGo
      <4> QED
        BY <1>2, <3>2, <4>1, <4>3 DEF RequestRight
    <3>3. CASE req[r].phase # "asking"
      BY <1>2, <3>1, <3>3 DEF RequestRight, Opens
    <3> QED
      BY <3>2, <3>3
  <2>10. ASSUME NEW p \in Process PROVE RenewalRight(p)'
    <3>1. RenewalRight(p)
      BY <1>6 DEF Working
    <3>2. CASE renewal[p].phase = "none"
      BY <1>2, <3>2 DEF RenewalRight
    <3>3. CASE renewal[p].phase # "none"
      <4>1. PICK k \in Token : k = renewal[p].seen.token
        BY <3>3, RenewalTypes
      <4>2. (host[k].access # "fresh" => host'[k].access # "fresh") /\ (host[k].refresh # "good" => host'[k].refresh # "good")
        BY <1>4
      <4>3. BeingSaved(k)' <=> BeingSaved(k)
        BY <1>2 DEF BeingSaved
      <4> QED
        BY <1>2, <3>1, <4>1, <4>2, <4>3 DEF RenewalRight, Gone, Opens
    <3> QED
      BY <3>2, <3>3
  <2> QED
    BY <2>3, <2>7, <2>8, <2>9, <2>10 DEF Working
<1> QED
  BY <1>5, <1>6

LEMMA RevokeStep == ASSUME CredentialTypes, Revoke PROVE CredentialTypes' /\ revoked' # 0
<1>1. /\ revoked' = revoked + 1 /\ upsets' \in 0..MaxUpsets /\ revoked + 1 <= upsets' /\ event' = "sent"
      /\ host' = [t \in Token |-> IF host[t].access = "none" THEN host[t]
                                 ELSE [access |-> IF Usable(t) THEN "taken" ELSE "over", refresh |-> "used"]]
      /\ UNCHANGED <<stored, sessions, req, renewal, login, wasted>>
  BY UpsetIs DEF Revoke
<1>2. revoked \in Nat /\ MaxUpsets \in Nat
  BY CredentialAssumption DEF CredentialTypes, CredentialsTypeOK
<1>3. host' \in [Token -> [access: Access, refresh: Refresh]]
  <2>1. \A t \in Token : host[t] \in [access: Access, refresh: Refresh]
    BY DEF CredentialTypes, CredentialsTypeOK
  <2>2. \A a \in {"taken", "over"} : [access |-> a, refresh |-> "used"] \in [access: Access, refresh: Refresh]
    BY DEF Access, Refresh
  <2> QED
    BY <1>1, <2>1, <2>2
<1>4. revoked' \in 0..MaxUpsets /\ revoked' # 0 /\ revoked' <= upsets'
  BY <1>1, <1>2
<1> QED
  BY <1>1, <1>3, <1>4 DEF CredentialTypes, CredentialsTypeOK

\* A step that issues nothing and stores nothing, and loses no renewal it does not note.
LEMMA UseStays ==
    ASSUME UseIsNoted, host' = host, stored' \in {stored, None}, wasted \subseteq wasted',
           \A p \in Process : renewal'[p].phase = "saving" => renewal'[p] = renewal[p],
           \A p \in Process : renewal[p].phase = "saving" => renewal'[p] = renewal[p] \/ renewal[p].seen.token \in wasted',
           login'.phase = "issued" => login' = login
    PROVE  UseIsNoted'
<1>1. \A t : BeingSaved(t) => BeingSaved(t)' \/ t \in wasted'
  BY DEF BeingSaved
<1>2. \A p \in Process : renewal'[p].phase = "saving" => host[renewal'[p].got].refresh = "good"
  BY DEF UseIsNoted
<1>3. ASSUME stored' # None, host[stored.token].refresh = "used"
      PROVE  BeingSaved(stored.token)' \/ stored.token \in wasted'
  <2>1. stored' = stored /\ stored # None
    BY <1>3
  <2>2. PICK t : t = stored.token
    OBVIOUS
  <2>3. BeingSaved(t) \/ t \in wasted
    BY <1>3, <2>1, <2>2 DEF UseIsNoted
  <2>4. BeingSaved(t)' \/ t \in wasted'
    BY <1>1, <2>3
  <2> QED
    BY <2>1, <2>2, <2>4 DEF BeingSaved
<1>4. stored' # None => stored' = stored
  OBVIOUS
<1> QED
  BY <1>2, <1>3, <1>4 DEF UseIsNoted, BeingSaved

LEMMA RequestsNoteUse == ASSUME CredentialTypes, NEW r \in Request, RequestStep(r) PROVE UseIsNoted => UseIsNoted'
<1> SUFFICES ASSUME UseIsNoted PROVE UseIsNoted'
  OBVIOUS
<1>1. host' = host /\ stored' \in {stored, None} /\ wasted' = wasted /\ login' = login
  BY DeletedIs DEF RequestStep, Read, Decide, HostTakes, HostRefuses, Refused, Forget, SignOut
<1>2. \A p \in Process : renewal'[p] = renewal[p] \/ (renewal[p].phase = "none" /\ renewal'[p].phase \in {"refreshing", "forgetting"})
  <2>1. CASE Decide(r)
    <3> DEFINE o == AnsweredBy[r]
               ph == IF Opens(o, req[r].seen) /\ host[req[r].seen.token].refresh # "over" THEN "refreshing" ELSE "forgetting"
               w == [phase |-> ph, seen |-> req[r].seen, got |-> 0]
    <3>1. renewal' = renewal \/ (renewal[o].phase = "none" /\ renewal' = [renewal EXCEPT ![o] = w])
      BY <2>1 DEF Decide
    <3>2. w.phase \in {"refreshing", "forgetting"}
      OBVIOUS
    <3> HIDE DEF w
    <3> QED
      BY <3>1, <3>2 DEF CredentialTypes, CredentialsTypeOK
  <2>2. CASE ~Decide(r)
    BY <2>2 DEF RequestStep, Read, HostTakes, HostRefuses, Refused, Forget, SignOut
  <2> QED
    BY <2>1, <2>2
<1> QED
  BY <1>1, <1>2, UseStays

LEMMA RenewalsNoteUse ==
    ASSUME CredentialTypes, NEW p \in Process,
           RefreshFails(p) \/ SaveFails(p) \/ Reread(p) \/ ForgetRenewed(p) \/ SignOutRenewed(p) \/ Crash(p)
    PROVE  UseIsNoted => UseIsNoted'
<1> SUFFICES ASSUME UseIsNoted PROVE UseIsNoted'
  OBVIOUS
<1>1. /\ host' = host /\ stored' \in {stored, None} /\ wasted \subseteq wasted'
      /\ login' \in {login, NoLogin}
  BY DeletedIs DEF RefreshFails, SaveFails, Reread, ForgetRenewed, SignOutRenewed, Crash
<1>2. PICK ph \in {"forgetting", "signingOut"} :
        renewal' = [renewal EXCEPT ![p] = NoRenewal] \/ renewal' = [renewal EXCEPT ![p].phase = ph]
  BY DEF RefreshFails, SaveFails, Reread, ForgetRenewed, SignOutRenewed, Crash, Settled
<1>3. /\ renewal'[p].phase # "saving"
      /\ \A q \in Process : q # p => renewal'[q] = renewal[q]
  <2>1. renewal[p] \in [phase: Renewing, seen: Row \union {NoRow}, got: Token \union {0}]
    BY RenewalTypes
  <2> QED
    BY <1>2, <2>1, CredentialShapes DEF CredentialTypes, CredentialsTypeOK
<1>4. renewal[p].phase = "saving" => renewal[p].seen.token \in wasted'
  BY DEF RefreshFails, SaveFails, Reread, ForgetRenewed, SignOutRenewed, Crash
<1>5. login'.phase = "issued" => login' = login
  BY <1>1, CredentialShapes
<1> QED
  BY <1>1, <1>3, <1>4, <1>5, UseStays

LEMMA EventsNoteUse == ASSUME EventDeletes \/ EventSignsOut \/ EventLost PROVE UseIsNoted => UseIsNoted'
BY UseStays DEF EventDeletes, EventSignsOut, EventLost

LEMMA StartNotesUse == ASSUME StartSession PROVE UseIsNoted => UseIsNoted'
BY CredentialShapes, UseStays DEF StartSession

\* What was just issued takes the place of what was stored.
LEMMA NewRowNotesUse ==
    ASSUME UseIsNoted, host' = host, NEW row \in Row, stored' = row, host[row.token].refresh = "good",
           \A p \in Process : renewal'[p].phase = "saving" => renewal'[p] = renewal[p],
           login'.phase = "issued" => login' = login
    PROVE  UseIsNoted'
BY DEF UseIsNoted

LEMMA SaveNotesUse == ASSUME CredentialTypes, NEW p \in Process, Save(p) PROVE UseIsNoted => UseIsNoted'
<1> SUFFICES ASSUME UseIsNoted PROVE UseIsNoted'
  OBVIOUS
<1>1. PICK row : row = [token |-> renewal[p].got, by |-> p]
  OBVIOUS
<1>2. /\ renewal[p].phase = "saving" /\ stored' = row /\ UNCHANGED <<host, login>>
      /\ renewal' = [renewal EXCEPT ![p] = NoRenewal]
  BY <1>1 DEF Save, Settled
<1>3. row \in Row /\ row.token = renewal[p].got
  BY <1>1, <1>2, RenewalTypes DEF Row
<1>4. host[row.token].refresh = "good"
  BY <1>2, <1>3 DEF UseIsNoted
<1>5. \A q \in Process : renewal'[q].phase = "saving" => renewal'[q] = renewal[q]
  BY <1>2, CredentialShapes DEF CredentialTypes, CredentialsTypeOK
<1> QED
  BY <1>2, <1>3, <1>4, <1>5, NewRowNotesUse

LEMMA StoreNotesUse == ASSUME CredentialTypes, Store PROVE UseIsNoted => UseIsNoted'
<1> SUFFICES ASSUME UseIsNoted PROVE UseIsNoted'
  OBVIOUS
<1>1. PICK row : stored' = row /\ \E p \in Process : row = [token |-> login.token, by |-> p]
  BY DEF Store
<1>2. login.phase = "issued" /\ login' = [login EXCEPT !.phase = "stored"] /\ UNCHANGED <<host, renewal>>
  BY DEF Store
<1>3. row \in Row /\ row.token = login.token /\ login'.phase = "stored"
  BY <1>1, <1>2 DEF Row, CredentialTypes, CredentialsTypeOK
<1>4. host[row.token].refresh = "good"
  BY <1>2, <1>3 DEF UseIsNoted
<1> QED
  BY <1>1, <1>2, <1>3, <1>4, NewRowNotesUse

LEMMA ExchangeNotesUse == ASSUME CredentialTypes, Exchange PROVE UseIsNoted => UseIsNoted'
<1> SUFFICES ASSUME UseIsNoted PROVE UseIsNoted'
  OBVIOUS
<1>1. PICK n \in Token : host' = [host EXCEPT ![n] = Issued] /\ login' = [phase |-> "issued", token |-> n]
  BY DEF Exchange
<1>2. UNCHANGED <<stored, renewal, wasted>>
  BY DEF Exchange
<1>3. /\ host'[n].access = "fresh" /\ host'[n].refresh = "good" /\ login'.token = n
      /\ \A t \in Token : t # n => host'[t] = host[t]
  BY <1>1 DEF CredentialTypes, CredentialsTypeOK, Issued
<1>4. \A t \in Token : host[t].refresh = "good" => host'[t].refresh = "good"
  BY <1>3
<1>5. \A t \in Token : host'[t].refresh = "used" => host[t].refresh = "used"
  BY <1>3
<1>6. stored # None => stored.token \in Token
  BY StoredIsAround, CredentialShapes
<1>7. \A p \in Process : renewal[p].phase = "saving" => renewal[p].got \in Token
  BY RenewalTypes
<1> QED
  BY <1>2, <1>3, <1>4, <1>5, <1>6, <1>7 DEF UseIsNoted, BeingSaved

LEMMA RefreshNotesUse ==
    ASSUME CredentialTypes, EndsReplaced = FALSE, NEW p \in Process, RefreshAtHost(p)
    PROVE  Working /\ UseIsNoted => UseIsNoted'
<1> SUFFICES ASSUME Working, UseIsNoted PROVE UseIsNoted'
  OBVIOUS
<1>1. PICK t \in Token : t = renewal[p].seen.token
  BY RenewalTypes DEF RefreshAtHost
<1>2. /\ renewal[p].phase = "refreshing" /\ renewal[p].seen \in Around
      /\ UNCHANGED <<stored, login, wasted>>
  <2>1. renewal[p].phase = "refreshing"
    BY DEF RefreshAtHost
  <2> QED
    BY <2>1, RenewalTypes DEF RefreshAtHost, Around
<1>3. CASE host[t].refresh # "good"
  <2>1. UNCHANGED host /\ renewal' = [renewal EXCEPT ![p].phase = "racing"]
    BY <1>1, <1>3 DEF RefreshAtHost
  <2>2. renewal'[p].phase = "racing" /\ \A q \in Process : q # p => renewal'[q] = renewal[q]
    BY <2>1 DEF CredentialTypes, CredentialsTypeOK
  <2> QED
    BY <1>2, <2>1, <2>2, UseStays
<1>4. CASE host[t].refresh = "good"
  <2>1. PICK n \in Token :
          /\ Fresh(n)
          /\ host' = [host EXCEPT ![n] = Issued, ![t] = [access |-> host[t].access, refresh |-> "used"]]
          /\ renewal' = [renewal EXCEPT ![p] = [phase |-> "saving", seen |-> @.seen, got |-> n]]
    BY <1>1, <1>4 DEF RefreshAtHost
  <2>2. n # t
    BY <1>1, <1>2, <2>1 DEF Working, RowsAreTold, Fresh
  <2>3. /\ host'[n].access = "fresh" /\ host'[n].refresh = "good"
        /\ host'[t].access = host[t].access /\ host'[t].refresh = "used"
        /\ \A u \in Token : u \notin {n, t} => host'[u] = host[u]
    <3>1. PICK h : h = [host EXCEPT ![n] = Issued]
      OBVIOUS
    <3>2. h \in [Token -> {host[u] : u \in Token} \union {Issued}] /\ h[n] = Issued /\ \A u \in Token : u # n => h[u] = host[u]
      BY <3>1 DEF CredentialTypes, CredentialsTypeOK
    <3>3. host' = [h EXCEPT ![t] = [access |-> host[t].access, refresh |-> "used"]]
      BY <2>1, <3>1
    <3> QED
      BY <2>2, <3>2, <3>3 DEF Issued
  <2>4. /\ renewal'[p].phase = "saving" /\ renewal'[p].seen = renewal[p].seen /\ renewal'[p].got = n
        /\ \A q \in Process : q # p => renewal'[q] = renewal[q]
    <3>1. PICK w : w = [phase |-> "saving", seen |-> renewal[p].seen, got |-> n]
      OBVIOUS
    <3>2. renewal' = [renewal EXCEPT ![p] = w]
      BY <2>1, <3>1
    <3> QED
      BY <3>1, <3>2 DEF CredentialTypes, CredentialsTypeOK
  <2>5. \A u \in Token : NewToAll(u) => u # t
    BY <1>1, <1>2 DEF NewToAll
  <2>6. ASSUME NEW q \in Process, renewal'[q].phase = "saving" PROVE host'[renewal'[q].got].refresh = "good"
    <3>1. CASE q = p
      BY <2>3, <2>4, <3>1
    <3>2. CASE q # p
      <4>1. renewal'[q] = renewal[q] /\ renewal[q].got \in Token /\ renewal[q].got # t /\ host[renewal[q].got].refresh = "good"
        BY <2>4, <2>5, <2>6, <3>2, RenewalTypes DEF Working, ComesIn, UseIsNoted
      <4> QED
        BY <2>3, <4>1
    <3> QED
      BY <3>1, <3>2
  <2>7. ASSUME login.phase = "issued" PROVE host'[login.token].refresh = "good"
    <3>1. login.token \in Token /\ login.token # t /\ host[login.token].refresh = "good"
      BY <2>5, <2>7 DEF Working, ComesIn, UseIsNoted, CredentialTypes
    <3> QED
      BY <2>3, <3>1
  <2>8. ASSUME stored # None, host'[stored.token].refresh = "used"
        PROVE  BeingSaved(stored.token)' \/ stored.token \in wasted
    <3>1. stored.token \in Token /\ stored.token # n
      BY <2>3, <2>8, StoredIsAround, CredentialShapes
    <3>2. CASE stored.token = t
      BY <1>1, <1>2, <2>4, <3>2 DEF BeingSaved
    <3>3. CASE stored.token # t
      <4>1. BeingSaved(stored.token) \/ stored.token \in wasted
        BY <2>3, <2>8, <3>1, <3>3 DEF UseIsNoted
      <4>2. \A q \in Process : renewal[q].phase = "saving" => renewal'[q] = renewal[q]
        BY <1>2, <2>4
      <4> QED
        BY <1>2, <4>1, <4>2 DEF BeingSaved
    <3> QED
      BY <3>2, <3>3
  <2>9. \A u \in Token : host'[u].access # "taken" /\ (host'[u].refresh = "over" => host'[u].access = "over")
    BY <2>3 DEF UseIsNoted
  <2> QED
    BY <1>2, <2>6, <2>7, <2>8, <2>9 DEF UseIsNoted, BeingSaved
<1> QED
  BY <1>3, <1>4

LEMMA AgesNotesUse == ASSUME CredentialTypes, Ages PROVE Working /\ UseIsNoted => UseIsNoted'
<1> SUFFICES ASSUME Working, UseIsNoted PROVE UseIsNoted'
  OBVIOUS
<1>1. PICK t \in Token :
        \/ host[t].access = "fresh" /\ host' = [host EXCEPT ![t].access = "ending"]
        \/ host[t].access \in {"ending", "taken"} /\ host' = [host EXCEPT ![t].access = "over"]
        \/ /\ host[t].access = "over" /\ host[t].refresh = "good"
           /\ host' = [host EXCEPT ![t].refresh = "over"]
  BY DEF Ages
<1>2. UNCHANGED <<stored, renewal, login, wasted>>
  BY DEF Ages
<1>3. /\ \A u \in Token : u # t => host'[u] = host[u]
      /\ host'[t].access # "taken" /\ (host'[t].refresh = "over" => host'[t].access = "over")
      /\ host'[t].refresh = "used" => host[t].refresh = "used"
      /\ host[t].access = "fresh" => host'[t].refresh = host[t].refresh
  <2>1. host \in [Token -> [access: Access, refresh: Refresh]] /\ host[t] \in [access: Access, refresh: Refresh]
    BY DEF CredentialTypes, CredentialsTypeOK
  <2>2. host[t].refresh = "over" => host[t].access = "over"
    BY DEF UseIsNoted
  <2> QED
    BY <1>1, <2>1, <2>2
<1>4. \A u \in Token : NewToAll(u) /\ host[u].refresh = "good" => host'[u].refresh = "good"
  BY <1>3 DEF NewToAll
<1>5. \A p \in Process : renewal[p].phase = "saving" => renewal[p].got \in Token /\ NewToAll(renewal[p].got)
  BY RenewalTypes DEF Working, ComesIn
<1>6. login.phase = "issued" => login.token \in Token /\ NewToAll(login.token)
  BY DEF Working, ComesIn, CredentialTypes
<1>7. stored # None => stored.token \in Token
  BY StoredIsAround, CredentialShapes
<1>8. \A u \in Token : host'[u].refresh = "used" => host[u].refresh = "used"
  BY <1>3
<1>9. \A u \in Token : host'[u].access # "taken" /\ (host'[u].refresh = "over" => host'[u].access = "over")
  BY <1>3 DEF UseIsNoted
<1>10. /\ \A p \in Process : renewal[p].phase = "saving" => host'[renewal[p].got].refresh = "good"
       /\ login.phase = "issued" => host'[login.token].refresh = "good"
  BY <1>4, <1>5, <1>6 DEF UseIsNoted
<1> QED
  BY <1>2, <1>7, <1>8, <1>9, <1>10 DEF UseIsNoted, BeingSaved

LEMMA CredentialsInitIs == CredentialsInit => Issuing
<1> SUFFICES ASSUME CredentialsInit PROVE Issuing
  OBVIOUS
<1>1. CredentialTypes
  <2>1. host \in [Token -> [access: Access, refresh: Refresh]]
    BY DEF CredentialsInit, Access, Refresh
  <2>2. \A r \in Request : req[r] = AtRest
    BY DEF CredentialsInit
  <2>3. \A p \in Process : renewal[p] = NoRenewal
    BY DEF CredentialsInit
  <2>4. 0 \in 0..MaxUpsets
    BY CredentialAssumption
  <2> QED
    BY <2>1, <2>2, <2>3, <2>4, CredentialShapes DEF CredentialTypes, CredentialsTypeOK, CredentialsInit
<1>2. Around = {} /\ Held = {}
  BY CredentialShapes DEF Around, Held, CredentialsInit
<1>3. \A r \in Request : RequestRight(r)
  BY CredentialShapes DEF RequestRight, CredentialsInit
<1>4. \A p \in Process : RenewalRight(p)
  BY CredentialShapes DEF RenewalRight, CredentialsInit
<1>5. ComesIn
  BY CredentialShapes DEF ComesIn, CredentialsInit
<1>6. UseIsNoted
  <2>1. /\ \A t \in Token : host[t].access = "none" /\ host[t].refresh = "used"
        /\ \A p \in Process : renewal[p].phase = "none"
        /\ login.phase = "none" /\ stored = None
    BY CredentialShapes DEF CredentialsInit
  <2> QED
    BY <2>1 DEF UseIsNoted
<1> QED
  BY <1>1, <1>2, <1>3, <1>4, <1>5, <1>6 DEF Issuing, Working, RowsAreTold, NewestIsFresh

LEMMA CredentialsStep ==
    ASSUME Punctual, EndsReplaced = FALSE, Issuing, [CredentialsNext]_credentials
    PROVE  Issuing'
<1>1. CredentialTypes /\ (revoked = 0 => Working /\ UseIsNoted)
  BY DEF Issuing
<1>2. SUFFICES \/ CredentialTypes' /\ revoked' # 0
               \/ CredentialTypes' /\ (Working /\ UseIsNoted => Working' /\ UseIsNoted') /\ revoked' = revoked
  BY <1>1 DEF Issuing
<1>3. ASSUME NEW r \in Request, RequestStep(r)
      PROVE  CredentialTypes' /\ (Working /\ UseIsNoted => Working' /\ UseIsNoted') /\ revoked' = revoked
  <2>1. revoked' = revoked
    BY <1>3 DEF RequestStep, Read, Decide, HostTakes, HostRefuses, Refused, Forget, SignOut
  <2> QED
    BY <1>1, <1>3, <2>1, ReadStep, DecideStep, HostTakesStep, HostRefusesStep, RefusedStep, ForgetStep, SignOutStep,
       RequestsNoteUse
    DEF RequestStep
<1>4. ASSUME NEW p \in Process, RenewalStep(p) \/ Crash(p)
      PROVE  CredentialTypes' /\ (Working /\ UseIsNoted => Working' /\ UseIsNoted') /\ revoked' = revoked
  <2>1. revoked' = revoked
    BY <1>4 DEF RenewalStep, RefreshAtHost, RefreshFails, Save, SaveFails, Reread, ForgetRenewed, SignOutRenewed, Crash
  <2> QED
    BY <1>1, <1>4, <2>1, RefreshAtHostStep, SettlesInFailure, SaveStep, RereadStep, ForgetRenewedStep, CrashStep,
       RefreshNotesUse, SaveNotesUse, RenewalsNoteUse
    DEF RenewalStep
<1>5. CASE LoginStep
  <2>1. revoked' = revoked
    BY <1>5 DEF LoginStep, Exchange, Store, StartSession
  <2> QED
    BY <1>1, <1>5, <2>1, ExchangeStep, StoreStep, StartSessionStep, ExchangeNotesUse, StoreNotesUse, StartNotesUse DEF LoginStep
<1>6. CASE EventDeletes \/ EventSignsOut \/ EventLost
  <2>1. revoked' = revoked
    BY <1>6 DEF EventDeletes, EventSignsOut, EventLost
  <2> QED
    BY <1>1, <1>6, <2>1, EventSteps, EventsNoteUse
<1>7. CASE Revoke
  BY <1>1, <1>7, RevokeStep
<1>8. CASE Ages
  BY <1>1, <1>8, AgesStep, AgesNotesUse DEF Ages
<1>9. CASE UNCHANGED credentials
  <2>1. UNCHANGED <<host, stored, sessions, req, renewal, login, event, upsets, revoked, wasted>>
    BY <1>9 DEF credentials
  <2>2. CredentialTypes'
    BY <1>1, <2>1 DEF CredentialTypes, CredentialsTypeOK
  <2>3. UseIsNoted => UseIsNoted'
    BY <2>1 DEF UseIsNoted, BeingSaved
  <2> QED
    BY <1>1, <2>1, <2>2, <2>3, QuietStep
<1> QED
  BY <1>3, <1>4, <1>5, <1>6, <1>7, <1>8, <1>9 DEF CredentialsNext, EventStep

-----------------------------------------------------------------------------
(* The credential of a person: theorems *)

LEMMA AlwaysIssuing == ASSUME Punctual, EndsReplaced = FALSE PROVE CredentialsSpec => []Issuing
BY CredentialsInitIs, CredentialsStep, PTL DEF CredentialsSpec

\* A request asks the host with a token that the host accepts, also the one a renewal was shared for
\* and the one another process wrote down (credentials.ts accessToken, #renew), where requests end
\* and renewals are saved in time and a refresh does not end the access token before it.
THEOREM TokensAreGood == ASSUME Punctual, EndsReplaced = FALSE PROVE CredentialsSpec => []TokensWork
<1>1. Issuing => TokensWork
  BY DEF Issuing, Working, RequestRight, TokensWork
<1> QED
  BY <1>1, AlwaysIssuing, PTL

\* A credential is given up only once the end of its refresh token is past and the host refuses its access
\* token too, when a renewal of it was issued and lost before it was written down, when the process that
\* lets it go cannot read it, or on the host's own word (credentials.ts #renew, #forget; users.ts deleteUserCredentials): never
\* because two processes used its refresh token at once.
THEOREM CredentialsGoForCause == ASSUME Punctual, EndsReplaced = FALSE PROVE CredentialsSpec => LostForCause
<1> DEFINE Cause == stored # None /\ stored' = None /\ event' = event /\ revoked = 0 =>
                      \/ host[stored.token].refresh = "over" /\ ~Accepted(stored.token)
                      \/ stored.token \in wasted
                      \/ \E p \in Process : LetsGo(p) /\ ~Opens(p, stored)
<1>1. ASSUME Issuing, CredentialsNext PROVE Cause
  <2> SUFFICES ASSUME stored # None, stored' = None, event' = event, revoked = 0
               PROVE  \/ host[stored.token].refresh = "over" /\ ~Accepted(stored.token)
                      \/ stored.token \in wasted
                      \/ \E p \in Process : LetsGo(p) /\ ~Opens(p, stored)
    OBVIOUS
  <2>1. CredentialTypes /\ Working /\ UseIsNoted /\ stored' # stored
    BY <1>1 DEF Issuing
  <2>2. Gone(stored.token) => (host[stored.token].refresh = "over" /\ ~Accepted(stored.token)) \/ stored.token \in wasted
    <3>1. PICK t \in Token : t = stored.token
      BY <2>1, StoredIsAround, CredentialShapes
    <3>2. host[t].refresh \in {"good", "used", "over"}
      BY <2>1, HostTypes DEF Refresh
    <3>3. host[t].refresh = "over" => ~Accepted(t)
      BY <2>1 DEF UseIsNoted, Accepted
    <3>4. host[t].refresh = "used" => BeingSaved(t) \/ t \in wasted
      BY <2>1, <3>1 DEF UseIsNoted
    <3> QED
      BY <3>1, <3>2, <3>3, <3>4 DEF Gone
  <2>3. ASSUME NEW r \in Request, Forget(r) PROVE \E p \in Process : LetsGo(p) /\ ~Opens(p, stored)
    <3>1. req[r].phase = "forgetting" /\ req[r].seen = stored /\ ~Opens(AnsweredBy[r], stored)
      BY <2>1, <2>3 DEF Forget, Deleted, Working, RequestRight
    <3>2. req'[r] = [phase |-> "signingOut", seen |-> NoRow]
      BY <2>1, <2>3 DEF Forget, CredentialTypes, CredentialsTypeOK
    <3>3. LetsGo(AnsweredBy[r])
      BY <3>1, <3>2 DEF LetsGo
    <3> QED
      BY <3>1, <3>3, CredentialShapes
  <2>4. ASSUME NEW p \in Process, ForgetRenewed(p)
        PROVE  Gone(stored.token) \/ (LetsGo(p) /\ ~Opens(p, stored))
    <3>1. renewal[p].phase = "forgetting" /\ renewal[p].seen = stored
      BY <2>1, <2>4 DEF ForgetRenewed, Deleted
    <3>2. Gone(stored.token) \/ ~Opens(p, stored)
      BY <2>1, <3>1 DEF Working, RenewalRight
    <3>3. renewal'[p].phase = "signingOut"
      BY <2>1, <2>4 DEF ForgetRenewed, CredentialTypes, CredentialsTypeOK
    <3> QED
      BY <3>1, <3>2, <3>3 DEF LetsGo
  <2>5. ASSUME NEW p \in Process, Save(p) PROVE FALSE
    <3>1. renewal[p].phase = "saving" /\ stored' = [token |-> renewal[p].got, by |-> p]
      BY <2>5 DEF Save
    <3>2. stored' \in Row
      BY <2>1, <3>1, RenewalTypes DEF Row
    <3> QED
      BY <3>2, CredentialShapes
  <2>6. ASSUME Store PROVE FALSE
    <3>1. login.phase = "issued" /\ \E p \in Process : stored' = [token |-> login.token, by |-> p]
      BY <2>6 DEF Store
    <3>2. stored' \in Row
      BY <2>1, <3>1 DEF Row, CredentialTypes
    <3> QED
      BY <3>2, CredentialShapes
  <2>7. ASSUME EventDeletes PROVE FALSE
    BY <2>7 DEF EventDeletes
  <2> QED
    BY <1>1, <2>1, <2>2, <2>3, <2>4, <2>5, <2>6, <2>7
    DEF CredentialsNext, RequestStep, RenewalStep, LoginStep, EventStep, Read, Decide, HostTakes, HostRefuses, Refused,
        SignOut, RefreshAtHost, RefreshFails, SaveFails, Reread, SignOutRenewed, Exchange, StartSession, Revoke,
        EventSignsOut, EventLost, Crash, Ages
<1>2. Issuing /\ [CredentialsNext]_credentials => [Cause]_credentials
  BY <1>1
<1>3. [Cause]_credentials => [stored # None /\ stored' = None /\ event' = event /\ revoked = 0 =>
                      \/ host[stored.token].refresh = "over" /\ ~Accepted(stored.token)
                      \/ stored.token \in wasted
                      \/ \E p \in Process : LetsGo(p) /\ ~Opens(p, stored)]_credentials
  OBVIOUS
<1> HIDE DEF Cause
<1> QED
  BY <1>2, <1>3, AlwaysIssuing, PTL DEF CredentialsSpec, LostForCause

=================================================================================
