------------------------------ MODULE PrivateNames ------------------------------
(***************************************************************************)
(* What a name means to a person, when it is not a public repository's     *)
(* (apps/server/src/mounts/mount-service.ts with apps/server/src/auth/     *)
(* permissions.ts over packages/db/src/queries/permissions.ts): what the   *)
(* host last let them see, asked again as them and read through the app,   *)
(* and what was nothing to them, which each process remembers.             *)
(*                                                                         *)
(* One person and one name, whose repository may be renamed and another    *)
(* take the name.  The public is shown none of them (RepoNames has what it *)
(* is shown).  Times are kept as ages.                                     *)
(***************************************************************************)
EXTENDS Integers

CONSTANTS
    Server,         \* processes of the api role
    Repo,
    Nobody,         \* no repository
    PermTtl,        \* PERMISSION_TTL_SECONDS
    NameTtl,        \* REPO_TTL_SECONDS
    NameGrace       \* how much longer a name stands while the host cannot be asked

ASSUME PrivateNamesAssumption ==
    {PermTtl, NameTtl, NameGrace} \subseteq Nat /\ Nobody \notin Repo

VARIABLES
    meant,      \* the repository the name means at the host, and how long ago it meant each
    sight,      \* the repositories the host shows the person, and how long ago it showed each
    installed,  \* whether the app is installed on them
    sightless,  \* how long ago the name was nothing to the person or the app, or came to mean another
    nameRow,    \* repo_aliases: what the name was last seen to mean, and how long ago
    permission, \* repo_permissions: how long ago the person was let see each; a no is as no row
    misses,     \* #misses of every process: how much longer the name is nothing to the person
    asking,     \* the person's request at every process
    shown       \* the answer the person is given in this step

privates == <<meant, sight, installed, sightless, nameRow, permission, misses, asking, shown>>

Horizon == NameTtl + NameGrace
Since == 0..Horizon
Aged(age, most) == IF age = most THEN age ELSE age + 1

Idle == [step |-> "none"]
Unanswered == [what |-> "none"]
NoYes == PermTtl + 1
NoName == [repo |-> Nobody, age |-> Horizon]

\* What the name is to the person at this moment.
Visible == IF meant.now \in sight.now THEN meant.now ELSE Nobody
IsNothing(m, s, a) == ~a \/ m \notin s

PrivateNamesTypeOK ==
    /\ meant \in [now: Repo, ago: [Repo -> Since]]
    /\ sight \in [now: SUBSET Repo, ago: [Repo -> 0..PermTtl]]
    /\ installed \in BOOLEAN
    /\ sightless \in 0..PermTtl
    /\ nameRow \in [repo: Repo \union {Nobody}, age: Since]
    /\ permission \in [Repo -> 0..PermTtl \union {NoYes}]
    /\ misses \in [Server -> 0..PermTtl]
    /\ asking \in [Server -> {Idle} \union
         [step: {"public", "asks", "reads", "missed"}, known: [repo: Repo \union {Nobody}, age: Since],
          visible: Repo \union {Nobody}, read: {Nobody}]
         \union [step: {"saves", "remembers"}, known: [repo: Repo \union {Nobody}, age: Since],
                 visible: Repo, read: Repo]]
    /\ shown \in {Unanswered} \union
         [what: {"found", "missing", "unavailable"}, repo: Repo \union {Nobody}]

PrivateNamesInit ==
    /\ \E r \in Repo :
         meant = [now |-> r, ago |-> [x \in Repo |-> IF x = r THEN 0 ELSE Horizon]]
    /\ \E s \in SUBSET Repo :
         sight = [now |-> s, ago |-> [x \in Repo |-> IF x \in s THEN 0 ELSE PermTtl]]
    /\ installed = TRUE
    /\ sightless = IF IsNothing(meant.now, sight.now, installed) THEN 0 ELSE PermTtl
    /\ nameRow = NoName
    /\ permission = [r \in Repo |-> NoYes]
    /\ misses = [p \in Server |-> 0]
    /\ asking = [p \in Server |-> Idle]
    /\ shown = Unanswered

\* Variants of definitions, named with an underscore, are not part of the specification: each is the
\* definition with a slip that the property it is listed with in PROJECT.json must notice.

-----------------------------------------------------------------------------
(* A person's request *)

Show(p, what, repo) ==
    /\ shown' = [what |-> what, repo |-> repo]
    /\ asking' = [asking EXCEPT ![p] = Idle]

Proceeds(p, request) ==
    /\ shown' = Unanswered
    /\ asking' = [asking EXCEPT ![p] = request]

Request(step, known, visible, read) ==
    [step |-> step, known |-> known, visible |-> visible, read |-> read]

\* A name that was nothing to them a moment ago is nothing again.
Missed(p) ==
    /\ asking[p] = Idle /\ misses[p] > 0
    /\ Show(p, "missing", Nobody)
    /\ UNCHANGED <<meant, sight, installed, sightless, nameRow, permission, misses>>

\* findReadableRepo: what the name leads to, when the person was let see it.
Readable ==
    IF nameRow.repo # Nobody /\ permission[nameRow.repo] # NoYes THEN nameRow ELSE NoName

StillFresh(known) == permission[known.repo] < PermTtl /\ known.age < NameTtl

Asks(p) ==
    /\ asking[p] = Idle /\ misses[p] = 0
    /\ IF Readable = NoName
         THEN Proceeds(p, Request("public", NoName, Nobody, Nobody))
         ELSE IF StillFresh(Readable)
           THEN Show(p, "found", Readable.repo)
           ELSE Proceeds(p, Request("asks", Readable, Nobody, Nobody))
    /\ UNCHANGED <<meant, sight, installed, sightless, nameRow, permission, misses>>

\* As everyone sees it: nothing.  The host is asked as the person next, unless it just was.
AsEveryone(p) ==
    /\ asking[p].step = "public"
    /\ Proceeds(p, [asking[p] EXCEPT !.step = IF asking[p].known = NoName THEN "asks" ELSE "missed"])
    /\ UNCHANGED <<meant, sight, installed, sightless, nameRow, permission, misses>>

\* Nothing under the name as the person: asked as everyone before, or asked so now.
AsNobody(known) == IF known = NoName THEN "missed" ELSE "public"

\* remember.
Remember(repo, allowed) ==
    permission' = [permission EXCEPT ![repo] = IF allowed THEN 0 ELSE NoYes]

\* visibleRepository, and what follows from it without another question to the host.
AsksAsPerson(p) ==
    /\ asking[p].step = "asks"
    /\ LET known == asking[p].known IN
        \/ /\ Visible = Nobody
           /\ IF known = NoName THEN UNCHANGED permission ELSE Remember(known.repo, FALSE)
           /\ Proceeds(p, [asking[p] EXCEPT !.step = AsNobody(known)])
        \/ /\ Visible # Nobody /\ Visible = known.repo /\ known.age < NameTtl
           /\ Remember(known.repo, TRUE)
           /\ Show(p, "found", known.repo)
        \/ /\ Visible # Nobody /\ ~(Visible = known.repo /\ known.age < NameTtl)
           /\ Proceeds(p, Request("reads", known, Visible, Nobody))
           /\ UNCHANGED permission
    /\ UNCHANGED <<meant, sight, installed, sightless, nameRow, misses>>

\* getRepository through the app's installation.
ReadsAsApp(p) ==
    /\ asking[p].step = "reads"
    /\ installed
    /\ Proceeds(p, Request("saves", asking[p].known, asking[p].visible, meant.now))
    /\ UNCHANGED <<meant, sight, installed, sightless, nameRow, permission, misses>>

\* The app is not installed there: what it read under the name is forgotten.
NotInstalled(p) ==
    /\ asking[p].step = "reads"
    /\ ~installed
    /\ nameRow' = NoName
    /\ Proceeds(p, Request(AsNobody(asking[p].known), asking[p].known, Nobody, Nobody))
    /\ UNCHANGED <<meant, sight, installed, sightless, permission, misses>>

\* The host cannot be asked: what is kept about the name stands when it is what they were shown.
Kept(known) == IF known = NoName THEN nameRow ELSE known
Stands_Whatever(kept, visible) == kept.repo # Nobody /\ kept.age < NameTtl + NameGrace
Stands(kept, visible) == kept.repo = visible /\ kept.age < NameTtl + NameGrace

NotRead(p) ==
    /\ asking[p].step = "reads"
    /\ LET kept == Kept(asking[p].known) IN
         IF Stands(kept, asking[p].visible) THEN Show(p, "found", kept.repo) ELSE Show(p, "unavailable", Nobody)
    /\ UNCHANGED <<meant, sight, installed, sightless, nameRow, permission, misses>>

\* saveRepository.
Saves(p) ==
    /\ asking[p].step = "saves"
    /\ nameRow' = [repo |-> asking[p].read, age |-> 0]
    /\ Proceeds(p, [asking[p] EXCEPT !.step = "remembers"])
    /\ UNCHANGED <<meant, sight, installed, sightless, permission, misses>>

\* The name has to mean to the app what it means to the person.
Allowed(request) == request.read = request.visible

Remembers(p) ==
    /\ asking[p].step = "remembers"
    /\ LET request == asking[p] IN
        /\ Remember(request.read, Allowed(request))
        /\ IF Allowed(request)
             THEN Show(p, "found", request.read)
             ELSE Proceeds(p, Request(AsNobody(request.known), request.known, Nobody, Nobody))
    /\ UNCHANGED <<meant, sight, installed, sightless, nameRow, misses>>

\* noteMiss.
MissTtl == PermTtl

NoteMiss(p) ==
    /\ asking[p].step = "missed"
    /\ misses' = [misses EXCEPT ![p] = MissTtl]
    /\ Show(p, "missing", Nobody)
    /\ UNCHANGED <<meant, sight, installed, sightless, nameRow, permission>>

\* The host cannot be asked as the person, or the process dies: no answer is no access.
Fails(p) ==
    /\ asking[p].step \in {"public", "asks", "saves", "remembers"}
    /\ Show(p, "unavailable", Nobody)
    /\ UNCHANGED <<meant, sight, installed, sightless, nameRow, permission, misses>>

-----------------------------------------------------------------------------
(* The host, and its events *)

\* A rename, a person let in or out, the app put on or taken off.
HostMoves ==
    /\ \/ /\ \E r \in Repo : meant' = [now |-> r, ago |-> [meant.ago EXCEPT ![r] = 0]]
          /\ UNCHANGED <<sight, installed>>
       \/ /\ \E s \in SUBSET Repo :
               sight' = [now |-> s, ago |-> [x \in Repo |-> IF x \in s THEN 0 ELSE sight.ago[x]]]
          /\ UNCHANGED <<meant, installed>>
       \/ installed' = ~installed /\ UNCHANGED <<meant, sight>>
    /\ sightless' =
         IF meant'.now # meant.now \/ IsNothing(meant'.now, sight'.now, installed') THEN 0 ELSE sightless
    /\ shown' = Unanswered
    /\ UNCHANGED <<nameRow, permission, misses, asking>>

\* access_changed, or the part of repository_changed that concerns it: late, again, or never.
ForgetPermissions ==
    /\ \E r \in Repo : permission' = [permission EXCEPT ![r] = NoYes]
    /\ shown' = Unanswered
    /\ UNCHANGED <<meant, sight, installed, sightless, nameRow, misses, asking>>

\* What is under way ends before the clock moves on.
PrivateNamesTick ==
    /\ \A p \in Server : asking[p] = Idle
    /\ meant' = [meant EXCEPT !.ago =
         [r \in Repo |-> IF r = meant.now THEN 0 ELSE Aged(meant.ago[r], Horizon)]]
    /\ sight' = [sight EXCEPT !.ago =
         [r \in Repo |-> IF r \in sight.now THEN 0 ELSE Aged(sight.ago[r], PermTtl)]]
    /\ sightless' = IF IsNothing(meant.now, sight.now, installed) THEN 0 ELSE Aged(sightless, PermTtl)
    /\ nameRow' = [nameRow EXCEPT !.age = Aged(@, Horizon)]
    /\ permission' = [r \in Repo |-> IF permission[r] = NoYes THEN NoYes ELSE Aged(permission[r], PermTtl)]
    /\ misses' = [p \in Server |-> IF misses[p] = 0 THEN 0 ELSE misses[p] - 1]
    /\ shown' = Unanswered
    /\ UNCHANGED <<installed, asking>>

PrivateNamesNext ==
    \/ \E p \in Server :
         \/ Missed(p) \/ Asks(p) \/ AsEveryone(p) \/ AsksAsPerson(p) \/ ReadsAsApp(p) \/ NotInstalled(p)
         \/ NotRead(p) \/ Saves(p) \/ Remembers(p) \/ NoteMiss(p) \/ Fails(p)
    \/ HostMoves \/ ForgetPermissions
    \/ PrivateNamesTick

-----------------------------------------------------------------------------
(* Properties *)

\* The repository a person is answered with is one the host showed them within the time a permission
\* is believed, although the name came to mean another between the question asked as them and the
\* reading through the app, and although answers of two processes are saved in either order
\* (docs/specs/permissions.md).
ShownWasVisible ==
    shown.what = "found" => sight.ago[shown.repo] = 0 \/ sight.ago[shown.repo] < PermTtl

\* It is one that the name meant within the time a name is believed, without the grace: what is kept
\* about a name stands longer only when the host has just shown the person that very repository.
ShownWasMeant ==
    shown.what = "found" => meant.ago[shown.repo] = 0 \/ meant.ago[shown.repo] < NameTtl

\* A person who is told that a name is nothing was shown no repository by it that the app could read,
\* or the name came to mean another, within the same time: being let in is noticed in time.
MissedWasNothing ==
    shown.what = "missing" => sightless = 0 \/ sightless < PermTtl

\* What a person is told of a private name was so, of that name and of that person, within its time.
ShownToWhoMaySee == PrivateNamesTypeOK /\ ShownWasVisible /\ ShownWasMeant /\ MissedWasNothing
=============================================================================
