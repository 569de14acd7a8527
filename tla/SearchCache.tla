------------------------------ MODULE SearchCache ------------------------------
(***************************************************************************)
(* What stands between the search across every pack and whoever asks for   *)
(* it: answers are kept for a while, a question that is being answered is  *)
(* answered once for everyone waiting on it, and only so many questions    *)
(* are answered at once (apps/server/src/search/cache.ts).  The process    *)
(* has one thread: a step runs up to the next await.                       *)
(***************************************************************************)
EXTENDS Naturals, FiniteSets, Sequences, SequencesExt

CONSTANTS
    Asker,
    Question,       \* the words and the limit: keyOf
    SearchTtl,      \* ttlMs
    KeptAtMost,     \* entries
    AtOnce          \* concurrency

ASSUME SearchAssumption == {SearchTtl, KeptAtMost, AtOnce} \subseteq Nat /\ IsFiniteSet(Asker)

VARIABLES
    kept,       \* the answers kept, the least recently asked first: question, time left, age
    pending,    \* the questions that are being answered
    active,     \* searches that run, as the cache counts them
    askers      \* what each asker is at: it leads a search, waits on one, or was answered

search == <<kept, pending, active, askers>>

Quiet == [phase |-> "quiet"]

\* age: history, for how long an answer has been kept.
SearchTypeOK ==
    /\ kept \in Seq([question: Question, left: 0..SearchTtl, age: 0..SearchTtl])
    /\ Len(kept) <= KeptAtMost
    /\ pending \subseteq Question
    /\ active \in Nat
    /\ askers \in [Asker -> {Quiet} \union [phase: {"leads", "waits", "busy"}, question: Question]
                            \union [phase: {"answered"}, question: Question, age: Nat]]

SearchInit ==
    /\ kept = <<>> /\ pending = {} /\ active = 0
    /\ askers = [a \in Asker |-> Quiet]

\* Variants of definitions, named with an underscore, are not part of the specification: each is the
\* definition with a slip that the property it is listed with in PROJECT.json must notice.

-----------------------------------------------------------------------------

Places(q) == {i \in DOMAIN kept : kept[i].question = q}
Without(q) == IF Places(q) = {} THEN kept ELSE RemoveAt(kept, CHOOSE i \in Places(q) : TRUE)
KeptOf(q) == {k \in ToSet(kept) : k.question = q}
Says(a, s) == askers' = [askers EXCEPT ![a] = s]

\* An answer whose time is not over.
StillKept(k) == k.left > 0

\* It goes to the end, so that it is the last to be let go of.
AskKept(a, q) ==
    /\ \E k \in KeptOf(q) :
        /\ StillKept(k)
        /\ kept' = Append(Without(q), k)
        /\ Says(a, [phase |-> "answered", question |-> q, age |-> k.age])
    /\ UNCHANGED <<pending, active>>

Joins(q) == q \in pending

Busy == active >= AtOnce

\* Joins the search that runs, is told to come back, or leads a search of its own.
AskAnew(a, q) ==
    /\ \A k \in KeptOf(q) : ~StillKept(k)
    /\ kept' = Without(q)
    /\ \/ /\ Joins(q)
          /\ Says(a, [phase |-> "waits", question |-> q])
          /\ UNCHANGED <<pending, active>>
       \/ /\ ~Joins(q) /\ Busy
          /\ Says(a, [phase |-> "busy", question |-> q])
          /\ UNCHANGED <<pending, active>>
       \/ /\ ~Joins(q) /\ ~Busy
          /\ Says(a, [phase |-> "leads", question |-> q])
          /\ pending' = pending \union {q}
          /\ active' = active + 1

AskSearch(a) == askers[a] = Quiet /\ \E q \in Question : AskKept(a, q) \/ AskAnew(a, q)

\* remember: only so many are kept.
LetGo(s) == IF Len(s) > KeptAtMost THEN Tail(s) ELSE s

Remembered(q) ==
    IF SearchTtl = 0 \/ KeptAtMost = 0 THEN kept
    ELSE LetGo(Append(Without(q), [question |-> q, left |-> SearchTtl, age |-> 0]))

\* Everyone on the search is told, and the leader gives its place back.
Tells(q, s) ==
    askers' = [a \in Asker |->
        IF askers[a].phase \in {"leads", "waits"} /\ askers[a].question = q THEN s ELSE askers[a]]

SearchAnswers(a) ==
    /\ askers[a].phase = "leads"
    /\ LET q == askers[a].question
       IN /\ kept' = Remembered(q)
          /\ Tells(q, [phase |-> "answered", question |-> q, age |-> 0])
          /\ pending' = pending \ {q}
    /\ active' = active - 1

\* One that failed is not kept, and gives its place back too.
ActiveAfterFailure_Left == active
ActiveAfterFailure == active - 1

SearchFails(a) ==
    /\ askers[a].phase = "leads"
    /\ LET q == askers[a].question
       IN Tells(q, Quiet) /\ pending' = pending \ {q}
    /\ active' = ActiveAfterFailure
    /\ UNCHANGED kept

Leaves(a) ==
    /\ askers[a].phase \in {"answered", "busy"}
    /\ Says(a, Quiet)
    /\ UNCHANGED <<kept, pending, active>>

SearchTick ==
    /\ \E k \in ToSet(kept) : k.left > 0
    /\ kept' = [i \in DOMAIN kept |->
         IF kept[i].left > 0 THEN [kept[i] EXCEPT !.left = @ - 1, !.age = @ + 1] ELSE kept[i]]
    /\ UNCHANGED <<pending, active, askers>>

SearchNext ==
    \/ \E a \in Asker : AskSearch(a) \/ SearchAnswers(a) \/ SearchFails(a) \/ Leaves(a)
    \/ SearchTick

SearchSpec == SearchInit /\ [][SearchNext]_search

-----------------------------------------------------------------------------
(* Properties *)

Leading(q) == {a \in Asker : askers[a].phase = "leads" /\ askers[a].question = q}

\* Each question is being searched for once, and whoever waits on one has a search that will answer:
\* what ended has left nothing pending, failed or not.
OneSearchPerQuestion ==
    \A q \in Question :
        /\ Cardinality(Leading(q)) = IF q \in pending THEN 1 ELSE 0
        /\ (\E a \in Asker : askers[a].phase = "waits" /\ askers[a].question = q) => q \in pending

\* The places that are taken are those of searches that run, and no more than the bound: a place that
\* a failed search kept would be lost until the process restarts.
PlacesAreGivenBack ==
    /\ active = Cardinality({a \in Asker : askers[a].phase = "leads"})
    /\ active <= AtOnce

\* What anyone is answered is no older than an answer is kept, and of a question at most one is.
AnswersAreRecent ==
    /\ \A a \in Asker : askers[a].phase = "answered" => askers[a].age < SearchTtl \/ askers[a].age = 0
    /\ \A i, j \in DOMAIN kept : kept[i].question = kept[j].question => i = j

\* A question asked by many costs one search and one place, and its answer is kept for its time.
SearchesAreShared == SearchTypeOK /\ OneSearchPerQuestion /\ PlacesAreGivenBack /\ AnswersAreRecent
================================================================================
