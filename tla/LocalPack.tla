-------------------------------- MODULE LocalPack --------------------------------
(***************************************************************************)
(* A directory served by the command as a pack (skillcdn serve, skillcdn   *)
(* mcp): what was read of it last, the watcher that has it read again as   *)
(* its files change (packages/cli/src/local.ts), and the vectors of its    *)
(* bodies for the search by meaning (packages/cli/src/vectors.ts).         *)
(*                                                                         *)
(* A file is there or it is not: an edited file is another one with        *)
(* another body.  A directory made anew in the same place has another      *)
(* number; 0 is no directory.                                              *)
(***************************************************************************)
EXTENDS Naturals, FiniteSets

CONSTANTS
    Body,            \* the bodies the files of the directory may have
    BodiesInFlight,  \* bodies a pass embeds at once
    MaxChanges,      \* bound: changes to the directory
    MaxMishaps       \* bound: reads, watches, calls and writes that fail

ASSUME LocalAssumption ==
    /\ BodiesInFlight \in Nat \ {0}
    /\ MaxChanges \in Nat /\ MaxMishaps \in Nat

VARIABLES
    meaning,   \* whether the search by meaning is configured
    disk,      \* the directory: which one it is, and its files
    serving,   \* "mounted", "watched", "closed"
    inMemory,  \* the files of what was read last
    reload,    \* the read under way, if any
    again,     \* whether another is to follow it
    timer,     \* whether one is due after the burst of changes
    heard,     \* whether the watcher has something to tell
    watcher,   \* the directory it watches, 0: none
    identity,  \* the directory the liveness check takes it to watch, 0: unknown
    looks,     \* answers of stat on their way to the check
    statting,  \* whether the first of them is yet to be taken
    vectors,   \* bodies the search by meaning answers for
    cache,     \* bodies whose vectors are kept on the machine
    latest,    \* bodies the latest index names
    pending,   \* bodies a pass is embedding
    passes,    \* the passes under way
    stopped,   \* whether the embedding is to end
    changes, mishaps,
    unseen,    \* history: something changed while no watcher was on the directory
    unread,    \* history: the latest read failed
    troubled   \* history: a call or a write failed since the latest pass began

watchVars == <<disk, serving, inMemory, reload, again, timer, heard, watcher, identity, looks, statting,
               unseen, unread>>
meaningVars == <<vectors, cache, latest, pending, passes, stopped, troubled>>
localPack == <<meaning, watchVars, meaningVars, changes, mishaps>>

NotReading == [on |-> FALSE, left |-> {}, got |-> {}]
Reading    == [on |-> TRUE, left |-> Body, got |-> {}]

Pass == [of: Nat, left: SUBSET Body, missing: SUBSET Body, embedding: SUBSET Body, writing: SUBSET Body,
         failed: BOOLEAN]

LocalTypeOK ==
    /\ meaning \in BOOLEAN /\ disk \in [at: Nat, files: SUBSET Body]
    /\ serving \in {"mounted", "watched", "closed"} /\ inMemory \subseteq Body
    /\ reload \in [on: BOOLEAN, left: SUBSET Body, got: SUBSET Body]
    /\ {again, timer, heard, statting, stopped, unseen, unread, troubled} \subseteq BOOLEAN
    /\ watcher \in Nat /\ identity \in Nat /\ looks \subseteq [first: BOOLEAN, saw: Nat]
    /\ {vectors, cache, latest, pending} \subseteq SUBSET Body /\ passes \subseteq Pass
    /\ changes \in 0..MaxChanges /\ mishaps \in 0..MaxMishaps

\* The directory is read, and others are still to be mounted, or the port to be listened on.
LocalInit ==
    /\ meaning \in BOOLEAN
    /\ \E files \in SUBSET Body : disk = [at |-> 1, files |-> files] /\ inMemory = files
    /\ serving = "mounted"
    /\ reload = NotReading /\ again = FALSE /\ timer = FALSE /\ heard = FALSE
    /\ watcher = 0 /\ identity = 0 /\ looks = {} /\ statting = FALSE
    /\ vectors = {} /\ latest = {} /\ pending = {} /\ passes = {} /\ stopped = FALSE
    /\ cache \in IF meaning THEN SUBSET Body ELSE {{}}
    /\ changes = 0 /\ mishaps = 0
    /\ unseen = FALSE /\ unread = FALSE /\ troubled = FALSE

Mishap == mishaps < MaxMishaps /\ mishaps' = mishaps + 1

-----------------------------------------------------------------------------
(* The vectors: createVectorSet *)

\* update() until its first await: what the index names, and what of it is to be looked for.
BeginPass(files) ==
    IF ~meaning THEN UNCHANGED meaningVars
    ELSE /\ latest' = files
         /\ LET n == CHOOSE n \in 1..Cardinality(passes) + 1 : \A pass \in passes : pass.of # n IN
            passes' = passes \union
               {[of |-> n, left |-> files, missing |-> {}, embedding |-> {}, writing |-> {}, failed |-> FALSE]}
         /\ troubled' = FALSE
         /\ UNCHANGED <<vectors, cache, pending, stopped>>

Change(pass, to) == passes' = (passes \ {pass}) \union {to}

\* What is there, or being embedded by another pass, is left out; what is kept is taken.
LookFor(pass, b) ==
    /\ b \in pass.left
    /\ LET seen == [pass EXCEPT !.left = @ \ {b}] IN
       IF b \in vectors \union pending \union cache
       THEN /\ Change(pass, seen)
            /\ vectors' = IF b \in pending \ vectors THEN vectors ELSE vectors \union {b}
       ELSE /\ Change(pass, [seen EXCEPT !.missing = @ \union {b}])
            /\ UNCHANGED vectors
    /\ UNCHANGED <<meaning, watchVars, cache, latest, pending, stopped, troubled, changes, mishaps>>

\* embedNext: one of its bodies in flight takes the next from the queue.
TakeNext(pass, b) ==
    /\ pass.left = {} /\ b \in pass.missing
    /\ ~stopped /\ ~pass.failed
    /\ Cardinality(pass.embedding \union pass.writing) < BodiesInFlight
    /\ LET taken == [pass EXCEPT !.missing = @ \ {b}] IN
       IF b \in pending \union vectors
       THEN Change(pass, taken) /\ UNCHANGED pending
       ELSE Change(pass, [taken EXCEPT !.embedding = @ \union {b}]) /\ pending' = pending \union {b}
    /\ UNCHANGED <<meaning, watchVars, vectors, cache, latest, stopped, troubled, changes, mishaps>>

\* The server answered, and the vectors are there before they are kept.
Embedded(pass, b) ==
    /\ b \in pass.embedding
    /\ vectors' = vectors \union {b}
    /\ Change(pass, [pass EXCEPT !.embedding = @ \ {b}, !.writing = @ \union {b}])
    /\ UNCHANGED <<meaning, watchVars, cache, latest, pending, stopped, troubled, changes, mishaps>>

\* Between two batches a set that was stopped lets the body go.
StopsShort(pass, b) ==
    /\ stopped /\ b \in pass.embedding
    /\ Change(pass, [pass EXCEPT !.embedding = @ \ {b}])
    /\ pending' = pending \ {b}
    /\ UNCHANGED <<meaning, watchVars, vectors, cache, latest, stopped, troubled, changes, mishaps>>

CallFails(pass, b) ==
    /\ Mishap /\ b \in pass.embedding
    /\ Change(pass, [pass EXCEPT !.embedding = @ \ {b}, !.failed = TRUE])
    /\ pending' = pending \ {b}
    /\ troubled' = TRUE
    /\ UNCHANGED <<meaning, watchVars, vectors, cache, latest, stopped, changes>>

\* cache.write; one that fails is reported at the end.
Written(pass, b) ==
    /\ b \in pass.writing
    /\ Change(pass, [pass EXCEPT !.writing = @ \ {b}])
    /\ pending' = pending \ {b}
    /\ \/ cache' = cache \union {b} /\ UNCHANGED <<mishaps, troubled>>
       \/ Mishap /\ troubled' = TRUE /\ UNCHANGED cache
    /\ UNCHANGED <<meaning, watchVars, vectors, latest, stopped, changes>>

\* Variants of definitions, named with an underscore, are not part of the specification: each is the
\* definition with a slip that the property it is listed with in PROJECT.json must notice.
Named_All == vectors

\* "What the latest index no longer names is let go."
Named == vectors \intersect latest

\* The end of update().
PassEnds(pass) ==
    /\ pass.left = {} /\ pass.embedding = {} /\ pass.writing = {}
    /\ pass.missing = {} \/ pass.failed \/ stopped
    /\ vectors' = Named
    /\ passes' = passes \ {pass}
    /\ UNCHANGED <<meaning, watchVars, cache, latest, pending, stopped, troubled, changes, mishaps>>

-----------------------------------------------------------------------------
(* Reading and watching: mountDirectory, watchDirectory *)

\* arm(): what is there is watched, where it can be.
Arm ==
    \/ disk.at # 0 /\ watcher' = disk.at /\ UNCHANGED mishaps
    \/ disk.at = 0 /\ watcher' = 0 /\ UNCHANGED mishaps
    \/ disk.at # 0 /\ Mishap /\ watcher' = 0

\* serve: the embedding is begun, the directory watched, and asked which it is.
ServeDirectory ==
    /\ serving = "mounted"
    /\ serving' = "watched"
    /\ BeginPass(inMemory)
    /\ statting' = TRUE
    /\ Arm
    /\ UNCHANGED <<meaning, disk, inMemory, reload, again, timer, heard, identity, looks, unseen, unread, changes>>

\* A file comes, goes, or is another; the directory goes, or is made anew.
DiskChanges ==
    /\ changes < MaxChanges /\ changes' = changes + 1
    /\ \/ \E b \in Body :
             /\ disk.at # 0
             /\ disk' = [disk EXCEPT !.files = IF b \in @ THEN @ \ {b} ELSE @ \union {b}]
       \/ disk.at # 0 /\ disk' = [at |-> 0, files |-> {}]
       \/ \E files \in SUBSET Body : disk.at # changes + 2 /\ disk' = [at |-> changes + 2, files |-> files]
    /\ heard' = (heard \/ (watcher # 0 /\ watcher = disk.at))
    /\ unseen' = (unseen \/ (watcher # disk.at) \/ (disk'.at # disk.at))
    /\ UNCHANGED <<meaning, serving, inMemory, reload, again, timer, watcher, identity, looks, statting, unread,
                   meaningVars, mishaps>>

\* schedule(): once per burst.
Hears ==
    /\ heard /\ heard' = FALSE
    /\ timer' = (serving = "watched")
    /\ UNCHANGED <<meaning, disk, serving, inMemory, reload, again, watcher, identity, looks, statting, unseen, unread,
                   meaningVars, changes, mishaps>>

\* run(): never twice at once.
TimerFires ==
    /\ timer /\ timer' = FALSE
    /\ IF reload.on THEN again' = TRUE /\ UNCHANGED reload ELSE reload' = Reading /\ UNCHANGED again
    /\ UNCHANGED <<meaning, disk, serving, inMemory, heard, watcher, identity, looks, statting, unseen, unread,
                   meaningVars, changes, mishaps>>

\* readDirectory comes to one file after another.
ReadFile(b) ==
    /\ reload.on /\ b \in reload.left
    /\ reload' = [reload EXCEPT !.left = @ \ {b}, !.got = IF b \in disk.files THEN @ \union {b} ELSE @]
    /\ UNCHANGED <<meaning, disk, serving, inMemory, again, timer, heard, watcher, identity, looks, statting,
                   unseen, unread, meaningVars, changes, mishaps>>

NextRead_Forgets == reload' = NotReading /\ again' = FALSE

\* The finally of run(): what changed during a read is read after it.
NextRead == IF again THEN reload' = Reading /\ again' = FALSE ELSE reload' = NotReading /\ UNCHANGED again

ReadEnds ==
    /\ reload.on /\ reload.left = {}
    /\ inMemory' = reload.got
    /\ unread' = FALSE
    /\ NextRead
    /\ BeginPass(reload.got)
    /\ UNCHANGED <<meaning, disk, serving, timer, heard, watcher, identity, looks, statting, unseen, changes, mishaps>>

\* A directory that is not there, or a file that is not there any more: what was read last is served.
ReadFails ==
    /\ reload.on
    /\ \/ disk.at = 0 /\ UNCHANGED mishaps
       \/ Mishap
    /\ unread' = TRUE
    /\ NextRead
    /\ UNCHANGED <<meaning, disk, serving, inMemory, timer, heard, watcher, identity, looks, statting, unseen,
                   meaningVars, changes>>

\* The stat of a check is taken, and its answer arrives later.
Stat(first) ==
    /\ IF first THEN statting ELSE serving = "watched" /\ \A look \in looks : look.first
    /\ statting' = (statting /\ ~first)
    /\ looks' = looks \union {[first |-> first, saw |-> disk.at]}
    /\ UNCHANGED <<meaning, disk, serving, inMemory, reload, again, timer, heard, watcher, identity, unseen, unread,
                   meaningVars, changes, mishaps>>

FirstLook(look) ==
    /\ look \in looks /\ look.first
    /\ identity' = IF identity = 0 THEN look.saw ELSE identity
    /\ looks' = looks \ {look}
    /\ UNCHANGED <<meaning, disk, serving, inMemory, reload, again, timer, heard, watcher, statting, unseen, unread,
                   meaningVars, changes, mishaps>>

\* The liveness check: another directory, or one that is not watched, is watched and read again.
LivenessCheck(look) ==
    /\ look \in looks /\ ~look.first
    /\ looks' = looks \ {look}
    /\ IF serving = "closed" THEN UNCHANGED <<watcher, identity, timer, unseen, mishaps>>
       ELSE IF look.saw = 0 THEN watcher' = 0 /\ UNCHANGED <<identity, timer, unseen, mishaps>>
       ELSE IF look.saw = identity /\ watcher # 0 THEN UNCHANGED <<watcher, identity, timer, unseen, mishaps>>
       ELSE /\ identity' = look.saw
            /\ Arm
            /\ timer' = (timer \/ (watcher' # 0))
            /\ unseen' = (unseen /\ (watcher' = 0))
    /\ UNCHANGED <<meaning, disk, serving, inMemory, reload, again, heard, statting, unread, meaningVars, changes>>

WatcherFails ==
    /\ Mishap /\ watcher # 0
    /\ watcher' = 0
    /\ UNCHANGED <<meaning, disk, serving, inMemory, reload, again, timer, heard, identity, looks, statting, unseen, unread,
                   meaningVars, changes>>

\* The command ends: the watcher is closed, and the embedding stopped.
Stop ==
    /\ serving = "watched"
    /\ serving' = "closed"
    /\ watcher' = 0 /\ timer' = FALSE
    /\ stopped' = meaning
    /\ UNCHANGED <<meaning, disk, inMemory, reload, again, heard, identity, looks, statting, unseen, unread,
                   vectors, cache, latest, pending, passes, troubled, changes, mishaps>>

-----------------------------------------------------------------------------

WatchStep ==
    \/ ServeDirectory \/ DiskChanges \/ Hears \/ TimerFires \/ ReadEnds \/ ReadFails \/ WatcherFails \/ Stop
    \/ \E b \in Body : ReadFile(b)
    \/ \E first \in BOOLEAN : Stat(first)
    \/ \E look \in looks : FirstLook(look) \/ LivenessCheck(look)

MeaningStep ==
    \E pass \in passes :
       \/ \E b \in Body : LookFor(pass, b) \/ TakeNext(pass, b) \/ Embedded(pass, b) \/ StopsShort(pass, b)
                          \/ CallFails(pass, b) \/ Written(pass, b)
       \/ PassEnds(pass)

LocalNext == WatchStep \/ MeaningStep

LocalSpec == LocalInit /\ [][LocalNext]_localPack

-----------------------------------------------------------------------------
(* Properties *)

\* Nothing is on its way: no change is yet to be heard or read, and the check sees what it took.
Quiet ==
    /\ serving = "watched" /\ ~heard /\ ~timer /\ ~reload.on /\ looks = {} /\ ~statting
    /\ identity = disk.at /\ watcher # 0

\* cli.ts: the directory is "read again whenever its files change": when the bursts are over, what
\* is served is what is there, unless something changed while nobody watched, or it cannot be read.
ChangesAreRead == Quiet /\ ~unseen /\ ~unread => inMemory = disk.files

\* When no pass is under way and no call failed, the search by meaning answers for no body that is gone,
\* and for every body of the files served, whatever order the passes over several reads end in; but for
\* one that a pass let go while another was writing it down, which the next read takes from the cache.
MeaningFollows ==
    meaning /\ serving = "watched" /\ passes = {} /\ ~troubled =>
        vectors \subseteq inMemory /\ inMemory \ vectors \subseteq cache

\* What is served and what is searched follow the directory.
DirectoryIsFollowed == LocalTypeOK /\ ChangesAreRead /\ MeaningFollows
=============================================================================
