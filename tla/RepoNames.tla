------------------------------- MODULE RepoNames -------------------------------
(***************************************************************************)
(* What the name of a repository is to everyone (apps/server/src/mounts/   *)
(* mount-service.ts over packages/db/src/queries/repos.ts): looked up in   *)
(* what the process remembers as missing, in the database, and at the git  *)
(* host, whose answer is written down; made due, or closed, by the host's  *)
(* events (apps/server/src/events/host-events.ts).                         *)
(*                                                                         *)
(* One name and the repositories it may come to mean, one after another:   *)
(* an owner closes one, renames it, or makes another under its name; what  *)
(* else a repository is called is left out.  A process resolves a name     *)
(* once for all who ask at that moment, so it has one lookup under way.    *)
(* What the code keeps with a time is kept here with its age, which a tick *)
(* of the clock moves and which is not counted once nothing asks for it.   *)
(***************************************************************************)
EXTENDS Integers

CONSTANTS
    Replica,        \* processes of the api role
    Repository,     \* the repositories the name may mean, by the host's immutable id
    None,
    RepoTtl,        \* REPO_TTL_SECONDS
    StaleGrace      \* how much longer an answer stands while the host cannot be asked

ASSUME RepoNamesAssumption ==
    {RepoTtl, StaleGrace} \subseteq Nat /\ None \notin Int /\ None \notin Repository

VARIABLES
    host,       \* what the host shows everyone under the name, and how long ago it last showed what
    alias,      \* repo_aliases: where the name leads, and how long ago that was confirmed
    visibility, \* repos.visibility of each repository, "unseen" before there is a row
    note,       \* missing_repos: how long ago the name was nothing to the public
    missing,    \* #missing of every process: how much longer the name is nothing
    lookup,     \* #inFlight of every process
    person,     \* what a person's request read through the app's installation and has yet to save
    events,     \* whether deliveries of the host are on their way, and one is being applied
    told,       \* the answer someone is given in this step
    adrift      \* history: what is listed and lost the name without being about to be closed

names == <<host, alias, visibility, note, missing, lookup, person, events, told, adrift>>

Oldest == RepoTtl + StaleGrace
Age == 0..Oldest
Older(age) == IF age = None \/ age = Oldest THEN age ELSE age + 1

Shown == Repository \union {None}
NoAlias == [repo |-> None, age |-> Oldest]
Now(repo) == [repo |-> repo, age |-> 0]

AtRest == [step |-> "none"]
NoPerson == [step |-> "none", repo |-> None]
NoAnswer == [what |-> "none"]

\* How long ago what is told of a repository, or of nothing, was so.
Told(what, repo, borrowed) == [what |-> what, borrowed |-> borrowed, age |-> host.ago[repo]]

RepoNamesTypeOK ==
    /\ host \in [shows: Shown, ago: [Shown -> Age]]
    /\ alias \in [repo: Shown, age: Age]
    /\ visibility \in [Repository -> {"unseen", "public", "private"}]
    /\ note \in 0..RepoTtl \union {None}
    /\ missing \in [Replica -> 0..RepoTtl]
    /\ lookup \in [Replica -> {AtRest} \union
         [step: {"noted", "asking", "public", "private", "not_found", "closing", "missing"},
          anyone: BOOLEAN, row: [repo: Shown, age: Age]]]
    /\ person \in [step: {"none", "public", "private", "forgets"}, repo: Shown]
    /\ events \in [sent: SUBSET [what: {"closed", "changed"}, repo: Repository], applying: Shown]
    /\ told \in {NoAnswer} \union
         [what: {"found", "missing", "unavailable"}, borrowed: BOOLEAN, age: Age]
    /\ adrift \subseteq Repository

RepoNamesInit ==
    /\ \E now \in Shown : host = [shows |-> now, ago |-> [x \in Shown |-> IF x = now THEN 0 ELSE Oldest]]
    /\ alias = NoAlias
    /\ visibility = [r \in Repository |-> "unseen"]
    /\ note = None
    /\ missing = [p \in Replica |-> 0]
    /\ lookup = [p \in Replica |-> AtRest]
    /\ person = NoPerson
    /\ events = [sent |-> {}, applying |-> None]
    /\ told = NoAnswer
    /\ adrift = {}

\* Variants of definitions, named with an underscore, are not part of the specification: each is the
\* definition with a slip that the property it is listed with in PROJECT.json must notice.

-----------------------------------------------------------------------------
(* A lookup *)

Answer(p, what, repo, borrowed) ==
    /\ told' = Told(what, repo, borrowed)
    /\ lookup' = [lookup EXCEPT ![p] = AtRest]

\* `row` is the name's row as it was read, until the host answers; then what it answered, or the row
\* of what it no longer shows.
Goes(p, step, row) ==
    /\ told' = NoAnswer
    /\ lookup' = [lookup EXCEPT ![p] = [step |-> step, anyone |-> lookup[p].anyone, row |-> row]]

Public(repo) == repo # None /\ visibility[repo] = "public"

\* The name goes to another, or to none: who is listed and loses it.
Losing(repo) == {r \in {alias.repo} \ {repo} : Public(r)}

\* The row of a name as isAnonymouslyReadable lets it count.
CachedPublic == IF Public(alias.repo) THEN alias ELSE NoAlias

Fresh == Public(alias.repo) /\ alias.age < RepoTtl

\* #publicly for a request from nobody in particular, or for a person's (`anyone` is `remember`).
Look(p, anyone) ==
    /\ lookup[p] = AtRest
    /\ missing[p] = 0
    /\ IF Fresh
         THEN told' = Told("found", alias.repo, FALSE) /\ UNCHANGED lookup
         ELSE /\ told' = NoAnswer
              /\ lookup' = [lookup EXCEPT ![p] =
                   [step |-> "noted", anyone |-> anyone, row |-> CachedPublic]]
    /\ UNCHANGED <<host, alias, visibility, note, missing, person, events, adrift>>

\* What this process knows is missing.
LookMissing(p) ==
    /\ lookup[p] = AtRest
    /\ missing[p] > 0
    /\ told' = Told("missing", None, FALSE)
    /\ UNCHANGED <<host, alias, visibility, note, missing, lookup, person, events, adrift>>

\* How much longer a note of another process is believed: as long as when this process had made it.
Remaining_Anew(age) == RepoTtl
Remaining(age) == RepoTtl - age

\* findMissingRepo: a note that another process left.
ReadNote(p) ==
    /\ lookup[p].step = "noted"
    /\ IF note # None /\ note < RepoTtl
         THEN /\ missing' = [missing EXCEPT ![p] = Remaining(note)]
              /\ Answer(p, "missing", None, FALSE)
         ELSE Goes(p, "asking", lookup[p].row) /\ UNCHANGED missing
    /\ UNCHANGED <<host, alias, visibility, note, person, events, adrift>>

\* getRepository.  What is not public is not found, or seen by a credential that sees more.
Asked(p) ==
    /\ lookup[p].step = "asking"
    /\ IF host.shows # None
         THEN Goes(p, "public", Now(host.shows))
         ELSE \/ Goes(p, "not_found", [lookup[p].row EXCEPT !.age = Oldest])
              \/ \E r \in Repository : Goes(p, "private", Now(r))
    /\ UNCHANGED <<host, alias, visibility, note, missing, person, events, adrift>>

\* An old answer stands for a while when the host cannot be asked.
Borrowable(row) == row.repo # None /\ row.age < RepoTtl + StaleGrace

NotAsked(p) ==
    /\ lookup[p].step = "asking"
    /\ IF Borrowable(lookup[p].row)
         THEN Answer(p, "found", lookup[p].row.repo, TRUE)
         ELSE Answer(p, "unavailable", None, FALSE)
    /\ UNCHANGED <<host, alias, visibility, note, missing, person, events, adrift>>

\* A name that is nothing is remembered when the question was nobody's in particular.
Nothing(p) == IF lookup[p].anyone THEN Goes(p, "missing", NoAlias) ELSE Answer(p, "missing", None, FALSE)

\* saveRepository: the repository by its id, and the name led to it, wherever it led before.
Save(repo, as) ==
    /\ alias' = Now(repo)
    /\ visibility' = [visibility EXCEPT ![repo] = as]
    /\ adrift' = (adrift \union Losing(repo)) \ {repo}

SaveRepository(p) ==
    /\ lookup[p].step \in {"public", "private"}
    /\ Save(lookup[p].row.repo, lookup[p].step)
    /\ IF lookup[p].step = "public" THEN Answer(p, "found", lookup[p].row.repo, FALSE) ELSE Nothing(p)
    /\ UNCHANGED <<host, note, missing, person, events>>

\* What was public is forgotten by its name first, and then written down as public no longer.  By now
\* the name may lead to another.
DeleteAlias(p) ==
    /\ lookup[p].step = "not_found"
    /\ IF lookup[p].row.repo = None
         THEN Nothing(p) /\ UNCHANGED <<alias, adrift>>
         ELSE /\ alias' = NoAlias
              /\ adrift' = adrift \union Losing(lookup[p].row.repo)
              /\ Goes(p, "closing", lookup[p].row)
    /\ UNCHANGED <<host, visibility, note, missing, person, events>>

\* markRepositoryNotPublic.
NotPublic_Left(repo) == visibility
NotPublic(repo) == [visibility EXCEPT ![repo] = IF @ = "public" THEN "private" ELSE @]

Close(p) ==
    /\ lookup[p].step = "closing"
    /\ visibility' = NotPublic(lookup[p].row.repo)
    /\ adrift' = adrift \ {lookup[p].row.repo}
    /\ Nothing(p)
    /\ UNCHANGED <<host, alias, note, missing, person, events>>

\* #noteMissing: for this process, and for the others through the database.
NoteMissing(p) ==
    /\ lookup[p].step = "missing"
    /\ missing' = [missing EXCEPT ![p] = RepoTtl]
    /\ note' = 0
    /\ Answer(p, "missing", None, FALSE)
    /\ UNCHANGED <<host, alias, visibility, person, events, adrift>>

\* #knownPublic, for a person: what is public in the database is everyone's.
KnownPublic ==
    /\ Fresh
    /\ told' = Told("found", alias.repo, FALSE)
    /\ UNCHANGED <<host, alias, visibility, note, missing, lookup, person, events, adrift>>

\* The process starts again: what it remembered is gone.
Restart(p) ==
    /\ lookup' = [lookup EXCEPT ![p] = AtRest]
    /\ missing' = [missing EXCEPT ![p] = 0]
    /\ told' = NoAnswer
    /\ adrift' = adrift \union
         (IF lookup[p].step = "closing" THEN {lookup[p].row.repo} \ {alias.repo} ELSE {})
    /\ UNCHANGED <<host, alias, visibility, note, person, events>>

\* #resolvePrivate reads the repository through the app's installation, and saves what it read.
PersonReads ==
    /\ person = NoPerson
    /\ IF host.shows # None
         THEN person' = [step |-> "public", repo |-> host.shows]
         ELSE \E r \in Repository : person' = [step |-> "private", repo |-> r]
    /\ told' = NoAnswer
    /\ UNCHANGED <<host, alias, visibility, note, missing, lookup, events, adrift>>

\* The app is not installed there: the name is forgotten unless it is a public repository's.
PersonMisses ==
    /\ person = NoPerson
    /\ alias.repo # None /\ ~Public(alias.repo)
    /\ person' = [step |-> "forgets", repo |-> None]
    /\ told' = NoAnswer
    /\ UNCHANGED <<host, alias, visibility, note, missing, lookup, events, adrift>>

PersonForgets ==
    /\ person.step = "forgets"
    /\ alias' = NoAlias
    /\ adrift' = adrift \union Losing(None)
    /\ person' = NoPerson
    /\ told' = NoAnswer
    /\ UNCHANGED <<host, visibility, note, missing, lookup, events>>

PersonSaves ==
    /\ person.step \in {"public", "private"}
    /\ Save(person.repo, person.step)
    /\ person' = NoPerson
    /\ told' = NoAnswer
    /\ UNCHANGED <<host, note, missing, lookup, events>>

-----------------------------------------------------------------------------
(* The host, and its events *)

\* The owner makes the repository public or not, or the name means another from now on: the one that
\* had it is closed or gone, or goes by another name.  Of the events that the host sends the last one
\* counts here.
HostChanges ==
    \E now \in Shown \ {host.shows} :
        /\ host' = [shows |-> now, ago |-> [host.ago EXCEPT ![now] = 0]]
        /\ \E e \in ([what: {"closed", "changed"}, repo: {host.shows}]
                       \union [what: {"changed"}, repo: {now}]) :
             /\ e.repo # None
             /\ events' = [events EXCEPT !.sent = {e}]
        /\ told' = NoAnswer
        /\ UNCHANGED <<alias, visibility, note, missing, lookup, person, adrift>>

\* repository_changed: closing is believed at once.  The event may come again, and late.
ApplyEvent ==
    /\ events.applying = None
    /\ \E e \in events.sent, again \in BOOLEAN :
        /\ visibility[e.repo] # "unseen"
        /\ events' = [sent |-> IF again THEN events.sent ELSE {}, applying |-> e.repo]
        /\ visibility' = IF e.what = "closed" THEN NotPublic(e.repo) ELSE visibility
        /\ adrift' = IF e.what = "closed" THEN adrift \ {e.repo} ELSE adrift
    /\ told' = NoAnswer
    /\ UNCHANGED <<host, alias, note, missing, lookup, person>>

\* expireRepoAliases: the name is due for asking again.
ExpireAliases ==
    /\ events.applying # None
    /\ events' = [events EXCEPT !.applying = None]
    /\ alias' = IF alias.repo = events.applying /\ alias.age < RepoTtl THEN [alias EXCEPT !.age = RepoTtl] ELSE alias
    /\ told' = NoAnswer
    /\ UNCHANGED <<host, visibility, note, missing, lookup, person, adrift>>

\* A delivery is lost, or applied in part.
EventLost ==
    /\ events' = [sent |-> {}, applying |-> None]
    /\ told' = NoAnswer
    /\ UNCHANGED <<host, alias, visibility, note, missing, lookup, person, adrift>>

\* The times are hours and minutes, a lookup is over in seconds: what is under way ends before the
\* clock moves on.
Tick ==
    /\ person = NoPerson /\ \A p \in Replica : lookup[p] = AtRest
    /\ host' = [host EXCEPT !.ago = [x \in Shown |-> IF x = host.shows THEN 0 ELSE Older(host.ago[x])]]
    /\ alias' = [alias EXCEPT !.age = Older(@)]
    /\ note' = IF note = RepoTtl THEN note ELSE Older(note)
    /\ missing' = [p \in Replica |-> IF missing[p] = 0 THEN 0 ELSE missing[p] - 1]
    /\ told' = NoAnswer
    /\ UNCHANGED <<visibility, lookup, person, events, adrift>>

LookupStep(p) ==
    \/ \E anyone \in BOOLEAN : Look(p, anyone)
    \/ LookMissing(p) \/ ReadNote(p) \/ Asked(p) \/ NotAsked(p) \/ SaveRepository(p)
    \/ DeleteAlias(p) \/ Close(p) \/ NoteMissing(p) \/ Restart(p)

RepoNamesNext ==
    \/ \E p \in Replica : LookupStep(p)
    \/ KnownPublic \/ PersonReads \/ PersonSaves \/ PersonMisses \/ PersonForgets
    \/ HostChanges \/ ApplyEvent \/ ExpireAliases \/ EventLost
    \/ Tick

-----------------------------------------------------------------------------
(* Properties *)

\* Whoever is told that a name is a public repository is told what the host showed everyone within
\* the time its answers are trusted, a grace longer when the host could not be asked
\* (docs/specs/permissions.md, REPO_TTL_SECONDS), whatever lookups, a person's reading and events
\* interleave.
FoundIsRecent ==
    told.what = "found" =>
        told.age = 0 \/ told.age < RepoTtl + (IF told.borrowed THEN StaleGrace ELSE 0)

\* Whoever is told that a name is nothing is told what was so within the same time: a note that one
\* process takes over from another is not believed longer for it.
MissingIsRecent ==
    told.what = "missing" => told.age = 0 \/ told.age < RepoTtl

\* Found or missing, what a name is said to be is what it was within the time to live.
NamesAreRecent == RepoNamesTypeOK /\ FoundIsRecent /\ MissingIsRecent

\* A repository that is written down as public has the name that leads to it: one that the host no
\* longer shows is not left behind where it goes on being listed and no lookup finds it.  Except
\* until it is looked up or closed again when the name came to mean another repository, whoever saved
\* that or deleted the name meanwhile; when a process died between forgetting the name and closing
\* the repository; or when a person whose lookup found the app removed forgets a name that was made
\* public meanwhile.
ListedIsNamed ==
    \A r \in Repository :
        visibility[r] = "public" =>
            \/ alias.repo = r
            \/ \E p \in Replica : lookup[p].step = "closing" /\ lookup[p].row.repo = r
            \/ r \in adrift
=============================================================================
