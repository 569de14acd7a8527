--------------------------------- MODULE Refs ---------------------------------
(***************************************************************************)
(* The commit a moving ref is at (apps/server/src/mounts/mount-service.ts  *)
(* over packages/db/src/queries/repos.ts): asked of the git host, written  *)
(* down with the commit it was at before, believed for a while, and made   *)
(* due by the host's push events.                                          *)
(*                                                                         *)
(* One ref of one repository.  A process asks once for all who ask at that *)
(* moment.  Times are kept as ages, as in RepoNames.                       *)
(***************************************************************************)
EXTENDS Integers

CONSTANTS
    RefReplica,     \* processes of the api role
    Commit,
    NoCommit,
    RefTtl,         \* REF_TTL_SECONDS
    RefGrace        \* how much longer a commit stands while the host cannot be asked

ASSUME RefsAssumption == {RefTtl, RefGrace} \subseteq Nat /\ NoCommit \notin Commit

VARIABLES
    head,       \* the commit the ref is at, at the host
    past,       \* of every commit: how long ago the ref was at it
    ref,        \* repo_refs: the row of the ref
    indexed,    \* the commits that have an index
    resolving,  \* #inFlight of every process
    pushes,     \* whether a delivery is on its way, and whether the newest push was applied
    served,     \* the answer someone is given in this step
    firm        \* whether the ref was ever kept at a commit with an index

refs == <<head, past, ref, indexed, resolving, pushes, served, firm>>

LongAgo == RefTtl + RefGrace
RefAge == 0..LongAgo
NoRef == [commit |-> NoCommit, previous |-> NoCommit, age |-> LongAgo]
NotAsking == [step |-> "none"]
NotServed == [commit |-> NoCommit]

RefsTypeOK ==
    /\ head \in Commit
    /\ past \in [Commit -> RefAge] /\ past[head] = 0
    /\ ref \in [commit: Commit \union {NoCommit}, previous: Commit \union {NoCommit}, age: RefAge]
    /\ indexed \subseteq Commit
    /\ resolving \in [RefReplica -> {NotAsking} \union
         [step: {"asks"}, cached: Commit \union {NoCommit}, age: RefAge]
         \union [step: {"saves"}, commit: Commit]]
    /\ pushes \in [sent: BOOLEAN, applied: BOOLEAN]
    /\ served \in {NotServed} \union [commit: Commit, borrowed: BOOLEAN, age: RefAge]
    /\ firm \in BOOLEAN

RefsInit ==
    /\ head \in Commit
    /\ past = [c \in Commit |-> IF c = head THEN 0 ELSE LongAgo]
    /\ ref = NoRef
    /\ indexed = {}
    /\ resolving = [p \in RefReplica |-> NotAsking]
    /\ pushes = [sent |-> FALSE, applied |-> FALSE]
    /\ served = NotServed
    /\ firm = FALSE

Serve(commit, borrowed) ==
    served' = [commit |-> commit, borrowed |-> borrowed, age |-> past[commit]]

\* Variants of definitions, named with an underscore, are not part of the specification: each is the
\* definition with a slip that the property it is listed with in PROJECT.json must notice.

-----------------------------------------------------------------------------
(* #resolveCommit *)

Trusted(age) == age < RefTtl

ResolveCached ==
    /\ ref.commit # NoCommit /\ Trusted(ref.age)
    /\ Serve(ref.commit, FALSE)
    /\ UNCHANGED <<head, past, ref, indexed, resolving, pushes, firm>>

ResolveAsks(p) ==
    /\ resolving[p] = NotAsking
    /\ ref.commit = NoCommit \/ ~Trusted(ref.age)
    /\ resolving' = [resolving EXCEPT ![p] = [step |-> "asks", cached |-> ref.commit, age |-> ref.age]]
    /\ served' = NotServed
    /\ UNCHANGED <<head, past, ref, indexed, pushes, firm>>

\* resolveRef answers where the ref points now.
HostSays(p) ==
    /\ resolving[p].step = "asks"
    /\ resolving' = [resolving EXCEPT ![p] = [step |-> "saves", commit |-> head]]
    /\ served' = NotServed
    /\ UNCHANGED <<head, past, ref, indexed, pushes, firm>>

\* Served on borrowed time while the host cannot be asked.
Borrowed(cached, age) == cached # NoCommit /\ age < RefTtl + RefGrace

HostIsSilent(p) ==
    /\ resolving[p].step = "asks"
    /\ resolving' = [resolving EXCEPT ![p] = NotAsking]
    /\ LET known == resolving[p] IN
         IF Borrowed(known.cached, known.age) THEN Serve(known.cached, TRUE) ELSE served' = NotServed
    /\ UNCHANGED <<head, past, ref, indexed, pushes, firm>>

\* saveCachedRef keeps what the ref was at before, when that has an index.
Previous_Always(commit) ==
    IF ref.commit \notin {commit, NoCommit} THEN ref.commit ELSE ref.previous

Previous(commit) ==
    IF ref.commit \in indexed \ {commit} THEN ref.commit ELSE ref.previous

SaveCachedRef(p) ==
    /\ resolving[p].step = "saves"
    /\ LET commit == resolving[p].commit IN
         /\ ref' = [commit |-> commit, previous |-> Previous(commit), age |-> 0]
         /\ firm' = (firm \/ commit \in indexed)
         /\ Serve(commit, FALSE)
    /\ resolving' = [resolving EXCEPT ![p] = NotAsking]
    /\ UNCHANGED <<head, past, indexed, pushes>>

ResolveDies(p) ==
    /\ resolving' = [resolving EXCEPT ![p] = NotAsking]
    /\ served' = NotServed
    /\ UNCHANGED <<head, past, ref, indexed, pushes, firm>>

\* The snapshot of the commit the ref is kept at gets its index (modelled by SnapshotIndexing).
Indexes ==
    /\ ref.commit # NoCommit
    /\ indexed' = indexed \union {ref.commit}
    /\ firm' = TRUE
    /\ served' = NotServed
    /\ UNCHANGED <<head, past, ref, resolving, pushes>>

-----------------------------------------------------------------------------
(* The host, and its push events *)

Push ==
    /\ \E c \in Commit \ {head} : head' = c /\ past' = [past EXCEPT ![c] = 0]
    /\ pushes' = [sent |-> TRUE, applied |-> FALSE]
    /\ served' = NotServed
    /\ UNCHANGED <<ref, indexed, resolving, firm>>

\* refs_changed: every ref of the repository is due, none is forgotten.
DueRef_Renewed(age) == RefTtl
DueRef(age) == IF age < RefTtl THEN RefTtl ELSE age

ExpireRepoRefs ==
    /\ pushes.sent
    /\ \E again \in BOOLEAN : pushes' = [sent |-> again, applied |-> TRUE]
    /\ ref' = [ref EXCEPT !.age = DueRef(@)]
    /\ served' = NotServed
    /\ UNCHANGED <<head, past, indexed, resolving, firm>>

PushIsLost ==
    /\ pushes.sent
    /\ pushes' = [pushes EXCEPT !.sent = FALSE]
    /\ served' = NotServed
    /\ UNCHANGED <<head, past, ref, indexed, resolving, firm>>

\* What is under way ends before the clock moves on.
RefsTick ==
    /\ \A p \in RefReplica : resolving[p] = NotAsking
    /\ past' = [c \in Commit |-> IF c = head \/ past[c] = LongAgo THEN past[c] ELSE past[c] + 1]
    /\ ref' = [ref EXCEPT !.age = IF @ = LongAgo THEN @ ELSE @ + 1]
    /\ served' = NotServed
    /\ UNCHANGED <<head, indexed, resolving, pushes, firm>>

RefsNext ==
    \/ ResolveCached
    \/ \E p \in RefReplica :
         ResolveAsks(p) \/ HostSays(p) \/ HostIsSilent(p) \/ SaveCachedRef(p) \/ ResolveDies(p)
    \/ Indexes
    \/ Push \/ ExpireRepoRefs \/ PushIsLost
    \/ RefsTick

RefsSpec == RefsInit /\ [][RefsNext]_refs

-----------------------------------------------------------------------------
(* Properties *)

\* What is served as the commit of a ref was its commit at the host within the time the answer is
\* trusted, and a grace longer when the host could not be asked: an event that makes a ref due, again
\* and again, does not prolong how long the old commit stands (host-events.ts:108).
ServedIsRecent ==
    served # NotServed =>
        served.age = 0 \/ served.age < RefTtl + (IF served.borrowed THEN RefGrace ELSE 0)

\* Once a ref was kept at a commit with an index, it leads to one for good, be it by the commit it
\* was at before: however often it moves before an index is ready, and whichever of two answers that
\* overtook each other is saved last (docs/adr/0068).
PackStays ==
    firm => {ref.commit, ref.previous} \intersect indexed # {}

\* The newest push was delivered: from there on no commit before it is served as fresh (README.md:48,
\* "a push is served by the very next request").  Refuted by an answer of the host from before the
\* push that is saved after the event: the old commit stands for a full time to live.
PushIsSeen ==
    pushes.applied /\ ref.commit # NoCommit /\ Trusted(ref.age) => ref.commit = head
=============================================================================
