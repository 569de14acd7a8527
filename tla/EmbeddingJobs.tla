----------------------------- MODULE EmbeddingJobs -----------------------------
(***************************************************************************)
(* The sections of an indexed commit are embedded in slices, each a job of *)
(* a queue that the slice before it sends (apps/server/src/jobs/embed-     *)
(* snapshot.ts, worker.ts, sweep.ts over packages/db/src/queries/          *)
(* embeddings.ts and packages/db/src/jobs.ts).                             *)
(*                                                                         *)
(* One snapshot, whose index may be written anew (SnapshotIndexing), under *)
(* one key.  Its entries are paths in order, each with a body; what is     *)
(* embedded belongs to the bodies and stays.  The inference server is      *)
(* InferenceClient's.  Left out are the entries that are not embedded at   *)
(* all, bodies without a section, the end of a slice by its time, the jobs *)
(* that searches and requests send, and the order and the limit of a sweep.*)
(***************************************************************************)
EXTENDS Naturals, Sequences, FiniteSetsExt

CONSTANTS
    Worker,         \* slices that run at once
    Body,
    Indexes,        \* the indexes that are written, one after the other: path to body
    SliceBodies,    \* how much a slice embeds
    RetryLimit,     \* QUEUE_SETTINGS: how often a failed job is tried again
    MaxMishaps      \* bound: slices that fail, stop or die, bodies that are not stored, jobs
                    \*   that are never sent, and refusals

Path == DOMAIN Indexes[1]

ASSUME EmbeddingAssumption ==
    /\ Len(Indexes) > 0 /\ Indexes \in Seq([Path -> Body])
    /\ IsFiniteSet(Path) /\ Path = 1..Cardinality(Path) /\ IsFiniteSet(Worker)
    /\ SliceBodies \in Nat \ {0} /\ {RetryLimit, MaxMishaps} \subseteq Nat

VARIABLES
    written,    \* how many of the indexes were written; the last of them is served
    ready,      \* whether the index written last is served, or being built again
    announced,  \* whether the indexing that wrote it has sent its job, or never will
    standing,   \* what the deployment says of it by now: "wanted", "unasked", "refused" or "unreferenced"
    vectors,    \* section_vectors: the bodies that are embedded
    mark,       \* snapshot_embeddings: "none", "begun" or "done"
    queue,      \* the jobs that wait: where each starts, and how often it was tried
    slice,      \* the slice every worker runs
    usage,      \* embedding_usage_daily: the bodies counted
    spent,      \* history: the bodies sent to the embedder and stored
    unstored,   \* history: bodies of this index that were not stored when their turn came
    uncounted,  \* history: those of slices that ended before they were counted
    overtaken,  \* history: whether an index was written while a slice of one before was under way or queued
    mishaps

embeddings ==
    <<written, ready, announced, standing, vectors, mark, queue, slice, usage, spent, unstored, uncounted,
      overtaken, mishaps>>

\* Out of the scope or of no rank to be embedded unasked, refused by the entitlements, or of no ref any more.
Standing == {"wanted", "unasked", "refused", "unreferenced"}

Free == [phase |-> "none"]
Job == [after: Path \union {0}, attempt: 0..RetryLimit]

EmbeddingTypeOK ==
    /\ written \in 0..Len(Indexes)
    /\ {ready, announced} \subseteq BOOLEAN /\ standing \in Standing
    /\ vectors \subseteq Body /\ unstored \subseteq Body
    /\ mark \in {"none", "begun", "done"}
    /\ queue \subseteq Job
    /\ slice \in [Worker -> {Free} \union
         [phase: {"taken", "begins", "embeds", "records", "counts", "sends"},
          job: Job, left: SUBSET Path, of: DOMAIN Indexes, missing: SUBSET Body, did: 0..Cardinality(Body),
          next: Path \union {0}, stopped: {"no", "interrupted", "bound"}]]
    /\ {usage, spent, uncounted} \subseteq Nat
    /\ overtaken \in BOOLEAN
    /\ mishaps \in 0..MaxMishaps

EmbeddingInit ==
    /\ written = 0 /\ ready = FALSE /\ announced = TRUE /\ standing = "wanted"
    /\ vectors = {} /\ mark = "none"
    /\ queue = {}
    /\ slice = [w \in Worker |-> Free]
    /\ usage = 0 /\ spent = 0 /\ unstored = {} /\ uncounted = 0
    /\ overtaken = FALSE
    /\ mishaps = 0

Mishap == mishaps < MaxMishaps /\ mishaps' = mishaps + 1

\* Variants of definitions, named with an underscore, are not part of the specification: each is the
\* definition with a slip that the property it is listed with in PROJECT.json must notice.

-----------------------------------------------------------------------------
(* The queue, whose policy is "stately": of one key, one new job waits, one retry waits and one *)
(* job runs at a time.                                                                          *)

\* What is sent while the same slice waits is not queued again.
Sent(after) == queue \union {[after |-> after, attempt |-> 0]}

\* A job that failed waits again, until it was tried often enough.
GivenBack(job) ==
    IF job.attempt = RetryLimit \/ \E other \in queue : other.after = job.after /\ other.attempt > 0 THEN queue
    ELSE queue \union {[job EXCEPT !.attempt = @ + 1]}

Running(after) == \E w \in Worker : slice[w] # Free /\ slice[w].job.after = after

Take(w) ==
    /\ slice[w] = Free
    /\ \E job \in queue :
        /\ ~Running(job.after)
        /\ queue' = queue \ {job}
        /\ slice' = [slice EXCEPT ![w] =
             [phase |-> "taken", job |-> job, left |-> {}, of |-> 1, missing |-> {}, did |-> 0,
              next |-> 0, stopped |-> "no"]]
    /\ UNCHANGED <<written, ready, announced, standing, vectors, mark, usage, spent, unstored, uncounted,
                   overtaken, mishaps>>

-----------------------------------------------------------------------------
(* embedSnapshotSlice *)

Moves(w, s) == slice' = [slice EXCEPT ![w] = s]

\* The entries after where the slice before ended, and which of their bodies have no vectors.
PathsAfter(job) == {p \in Path : p > job.after}

\* Asked as it is indexed and by every slice; whether a ref is still at the commit is not.
MayEmbed == standing \notin {"unasked", "refused"}

ReadEntries(w) ==
    /\ slice[w].phase = "taken"
    /\ ready /\ MayEmbed
    /\ LET left == PathsAfter(slice[w].job)
           missing == {Indexes[written][p] : p \in left} \ vectors
       IN Moves(w, [slice[w] EXCEPT !.phase = "begins", !.left = left, !.of = written, !.missing = missing])
    /\ UNCHANGED <<written, ready, announced, standing, vectors, mark, queue, usage, spent, unstored,
                   uncounted,
                   overtaken, mishaps>>

\* Nothing is embedded of a snapshot that is being built again, or that may not be by now.
Skip(w) ==
    /\ slice[w].phase = "taken"
    /\ ~(ready /\ MayEmbed)
    /\ Moves(w, Free)
    /\ UNCHANGED <<written, ready, announced, standing, vectors, mark, queue, usage, spent, unstored,
                   uncounted,
                   overtaken, mishaps>>

\* The first slice says at once that the snapshot is being embedded.
Begin(w) ==
    /\ slice[w].phase = "begins"
    /\ mark' = IF slice[w].job.after = 0 /\ slice[w].missing # {} /\ mark = "none" THEN "begun" ELSE mark
    /\ Moves(w, [slice[w] EXCEPT !.phase = IF slice[w].left = {} THEN "records" ELSE "embeds"])
    /\ UNCHANGED <<written, ready, announced, standing, vectors, queue, usage, spent, unstored, uncounted,
                   overtaken, mishaps>>

Spent(did) == did >= SliceBodies

BodyOf(s) == Indexes[s.of][Min(s.left)]

\* The slice past its next entry, with so many bodies embedded: it ends when it is spent.
Past(s, did) ==
    LET p == Min(s.left)
        rest == s.left \ {p}
    IN [s EXCEPT !.missing = @ \ {BodyOf(s)}, !.did = did, !.left = rest,
                 !.next = IF Spent(did) /\ rest # {} THEN p ELSE 0,
                 !.phase = IF Spent(did) \/ rest = {} THEN "records" ELSE "embeds"]

\* The body of the next entry, unless it has its vectors already.
EmbedBody(w) ==
    /\ slice[w].phase = "embeds"
    /\ LET s == slice[w]
           did == IF BodyOf(s) \in s.missing THEN s.did + 1 ELSE s.did
       IN /\ vectors' = IF BodyOf(s) \in s.missing THEN vectors \union {BodyOf(s)} ELSE vectors
          /\ spent' = spent + did - s.did
          /\ Moves(w, Past(s, did))
    /\ UNCHANGED <<written, ready, announced, standing, mark, queue, usage, unstored, uncounted,
                   overtaken, mishaps>>

\* A body that is not stored is warned of and passed over, and not come back to.
PassOver(w) ==
    /\ slice[w].phase = "embeds"
    /\ BodyOf(slice[w]) \in slice[w].missing
    /\ Mishap
    /\ unstored' = unstored \union {BodyOf(slice[w])}
    /\ Moves(w, Past(slice[w], slice[w].did))
    /\ UNCHANGED <<written, ready, announced, standing, vectors, mark, queue, usage, spent, uncounted,
                   overtaken>>

\* Before its next body a slice is stopped by the queue, as its worker stops or its time runs out, or
\* stops at a bound: of the repository, or of the account's day.
Stop(w) ==
    /\ slice[w].phase = "embeds"
    /\ BodyOf(slice[w]) \in slice[w].missing
    /\ Mishap
    /\ \E why \in {"interrupted", "bound"} :
         Moves(w, [slice[w] EXCEPT !.phase = "records", !.stopped = why])
    /\ UNCHANGED <<written, ready, announced, standing, vectors, mark, queue, usage, spent, unstored,
                   uncounted, overtaken>>

\* recordSnapshotEmbedding: a completion is never undone.
Completed_AnyEnd(s) == s.next = 0
Completed(s) == s.next = 0 /\ s.stopped = "no"

Record(w) ==
    /\ slice[w].phase = "records"
    /\ mark' = IF Completed(slice[w]) \/ mark = "done" THEN "done" ELSE "begun"
    /\ Moves(w, [slice[w] EXCEPT !.phase = "counts"])
    /\ UNCHANGED <<written, ready, announced, standing, vectors, queue, usage, spent, unstored, uncounted,
                   overtaken, mishaps>>

\* addEmbeddingUsage, and the end of a slice that has no rest to send: one that was interrupted is
\* tried again, one that came to a bound is left to the sweep.
Counted_Again(s) == IF s.stopped = "no" THEN s.did ELSE 0
Counted(s) == s.did

Count(w) ==
    /\ slice[w].phase = "counts"
    /\ usage' = usage + Counted(slice[w])
    /\ \/ /\ slice[w].next # 0
          /\ Moves(w, [slice[w] EXCEPT !.phase = "sends", !.did = 0])
          /\ UNCHANGED queue
       \/ /\ slice[w].next = 0
          /\ Moves(w, Free)
          /\ queue' = IF slice[w].stopped = "interrupted" THEN GivenBack(slice[w].job) ELSE queue
    /\ UNCHANGED <<written, ready, announced, standing, vectors, mark, spent, unstored, uncounted,
                   overtaken, mishaps>>

\* The rest of the snapshot takes its turn behind the slices of the others.
SendRest(w) ==
    /\ slice[w].phase = "sends"
    /\ queue' = Sent(slice[w].next)
    /\ Moves(w, Free)
    /\ UNCHANGED <<written, ready, announced, standing, vectors, mark, usage, spent, unstored, uncounted,
                   overtaken, mishaps>>

\* The slice throws, its process dies, or the queue takes it for dead: the job is tried again.
SliceFails(w) ==
    /\ slice[w] # Free
    /\ Mishap
    /\ queue' = GivenBack(slice[w].job)
    /\ uncounted' = uncounted + slice[w].did
    /\ Moves(w, Free)
    /\ UNCHANGED <<written, ready, announced, standing, vectors, mark, usage, spent, unstored, overtaken>>

-----------------------------------------------------------------------------
(* What queues a first slice *)

\* writeSnapshotIndex: what was embedded of the index before no longer says the snapshot is done.
MarkOfNewIndex == "none"

BuildAgain ==
    /\ ready /\ written < Len(Indexes)
    /\ ready' = FALSE
    /\ UNCHANGED <<written, announced, standing, vectors, mark, queue, slice, usage, spent, unstored,
                   uncounted,
                   overtaken, mishaps>>

WriteIndex ==
    /\ ~ready
    /\ announced
    /\ ready' = TRUE
    /\ written' = written + 1
    /\ mark' = MarkOfNewIndex
    /\ announced' = FALSE
    /\ overtaken' = (overtaken \/ (\E job \in queue : job.after # 0) \/ (\E w \in Worker : slice[w] # Free))
    /\ unstored' = {}
    /\ UNCHANGED <<standing, vectors, queue, slice, usage, spent, uncounted, mishaps>>

\* onIndexed, unless its process dies first.
Announce ==
    /\ ~announced
    /\ announced' = TRUE
    /\ \/ queue' = (IF MayEmbed THEN Sent(0) ELSE queue) /\ UNCHANGED mishaps
       \/ Mishap /\ UNCHANGED queue
    /\ UNCHANGED <<written, ready, standing, vectors, mark, slice, usage, spent, unstored, uncounted,
                   overtaken>>

\* The repository becomes private, its rank changes, the entitlements refuse, or no ref is at the
\* commit any more; or all is well again.
StandingChanges ==
    /\ standing' \in Standing \ {standing}
    /\ \/ standing = "wanted" /\ Mishap
       \/ standing' = "wanted" /\ UNCHANGED mishaps
    /\ UNCHANGED <<written, ready, announced, vectors, mark, queue, slice, usage, spent, unstored, uncounted,
                   overtaken>>

\* sweepEmbeddings: a served snapshot that is embedded unasked and not completely, and no slice of it
\* waiting. The entitlements are asked by its slice.
Listed == standing \notin {"unasked", "unreferenced"}
Pending_Begun == Listed /\ mark = "none"
Pending == Listed /\ mark # "done"

Sweep ==
    /\ ready
    /\ Pending /\ queue = {}
    /\ queue' = Sent(0)
    /\ UNCHANGED <<written, ready, announced, standing, vectors, mark, slice, usage, spent, unstored,
                   uncounted,
                   overtaken, mishaps>>

SliceStep(w) ==
    \/ Take(w) \/ ReadEntries(w) \/ Skip(w) \/ Begin(w) \/ EmbedBody(w) \/ Record(w) \/ Count(w) \/ SendRest(w)

EmbeddingNext ==
    \/ \E w \in Worker : SliceStep(w) \/ PassOver(w) \/ Stop(w) \/ SliceFails(w)
    \/ BuildAgain \/ WriteIndex \/ Announce \/ StandingChanges \/ Sweep

\* Workers work, and the sweep comes every hour.
EmbeddingFairness == (\A w \in Worker : WF_embeddings(SliceStep(w))) /\ WF_embeddings(Sweep)

-----------------------------------------------------------------------------
(* Properties *)

\* Every body has its vectors, except what was not stored when its turn came.
Embedded == \A p \in Path : Indexes[written][p] \in vectors \union unstored

\* A snapshot that is marked as embedded is: no body that is stored is left out, whatever slices race,
\* fail, come to a bound, are interrupted and tried again from where they started; unless its index was
\* written anew while a slice of the one before was under way or queued.
DoneIsEmbedded == mark = "done" /\ ~overtaken => Embedded

\* writeSnapshotIndex (packages/db/src/queries/snapshots.ts:253): "A new index may name other bodies,
\* so what was embedded of the old one no longer says the snapshot is done".  Refuted by a slice of the
\* old one that ends, or a rest of it that starts, after the new one is written.
OldIndexSaysNothing == mark = "done" => Embedded

\* Every body that was embedded is counted for the account once, and only those of slices that died
\* between storing and counting are not: a retry finds nothing missing and counts nothing.
CountedOnce ==
    spent = usage + uncounted + MapThenSumSet(LAMBDA w : IF slice[w] = Free THEN 0 ELSE slice[w].did, Worker)

\* What is indexed, and embedded unasked, is embedded in the end, although jobs are given up after
\* their retries, rests are never sent, slices stop and processes die: the sweep finds it.
EmbeddedInTheEnd ==
    (ready /\ standing = "wanted" /\ ~overtaken)
        ~> ((ready /\ Embedded) \/ overtaken \/ ~ready \/ standing # "wanted")
================================================================================
