# A formal model of skillcdn

skillcdn turns git repositories into packs that agents read over MCP: it resolves an address to a
commit, indexes the commit once, and serves what the index names, to everyone for a public
repository and to the people the git host vouches for where it is private. This directory holds
TLA+ models of the parts whose correctness depends on the order in which things happen, the TLC runs
that check them on small instances, and proofs about them that TLAPS checks for every instance.

Paths are relative to the root of the repository; `snapshot-service.ts` and the like are spelled out
in the inventory. `PROJECT.json` maps every definition to the lines it stands for.

## Inventory

A deployment is a PostgreSQL database and any number of processes: replicas of the **api** role,
which answer requests, and **workers**, which run queued jobs. Processes share nothing but the
database (ADR-0004) and meet each other only in its rows. Inside a process, JavaScript runs one
callback at a time, and everything else interleaves at each `await`.

| Part | State it keeps | Operations | Meets | What is hard | What makes it correct |
| --- | --- | --- | --- | --- | --- |
| Snapshot indexing: `apps/server/src/indexer/snapshot-service.ts`, `packages/db/src/queries/snapshots.ts` | a row per commit (status, attempts, claim token, lease, retry time, index version) and its entries; per process, the runs under way and a closing flag | ensure, claim, renew, write, fail, release, await, serve, close | mounts ask for commits; the indexer builds; operator purges; replicas of other builds | claims across processes, leases, crashes, lost answers, rollouts, shutdown | one holder per row, no late holder undoes a successor, a served pack stays served, every commit is settled |
| Mounts: `apps/server/src/mounts/*`, `packages/db/src/queries/repos.ts` | repositories, aliases, refs with the commit before, notes of missing names; per process, questions in flight | resolve a name, resolve a ref, note as missing, fall back while the host is down | git host, permissions, host events, snapshot indexing | times to live against events, an answer saved after the event that outdates it, two statements that belong together | no answer older than its time to live; an event ends what was remembered |
| Permissions: `apps/server/src/auth/permissions.ts` | remembered answers of who may read what; questions in flight | ask, remember, forget | credentials, host events | an answer remembered after the event that ended it | nobody reads longer than the staleness bound allows |
| User credentials and sign-in: `auth/credentials.ts`, `auth/login.ts`, `packages/db/src/queries/users.ts` | one sealed credential per person; sessions; per process, renewals in flight | read, renew, refuse, forget, sign in | git host, host events, everything that stands on a sign-in | refresh tokens good once, two processes renewing, refusals racing renewals, deletions in two statements | a credential is lost only for a reason, and everything that stands on it goes with it |
| Host events: `events/host-events.ts`, `http/webhooks.ts` | none of its own | apply a push, a change of a repository, of access, of an installation, of an authorization | mounts, permissions, credentials, snapshots | late, repeated, reordered deliveries | an event costs at most a question |
| OAuth server: `auth/oauth/*`, `packages/db/src/queries/oauth.ts` | clients, codes, grants, token pairs | authorize, decide, exchange, rotate, revoke, verify | credentials (loss ends grants), janitor | concurrent exchanges, reuse of rotated tokens, pruning | a code is good once; a stolen refresh token ends its grant |
| Connect and repository tokens: `auth/connections.ts`, `auth/repo-tokens.ts` | requests with a code and a secret; tokens | begin, approve, claim, make, remove | mounts, credentials | bounds counted before an insert, a claim that fails halfway | one token per approval; bounds hold |
| Jobs and embedding: `jobs/*`, `packages/db/src/jobs.ts`, `queries/embeddings.ts` | queue of jobs (pg-boss); vectors; per-snapshot progress; an account of what was spent | send, take a slice, record, sweep, reorder, drop a replaced model | snapshot indexing, inference, usage | retries, slices racing a rebuild, a chain of jobs, two models during a rollout | every pack is embedded in the end, and no search finds less in between |
| Inference client: `packages/inference/src/inference.ts` | per server, a gate (slots, queue) and a circuit breaker | run a call, wait for a slot, time out, open, try, close | embedding jobs, search | timers against hand-over of a slot, answers out of order, one trial at a time | no slot is lost, nobody waits beside a free one, a server that is back is asked again |
| Usage counting: `stats/usage-recorder.ts` | buffers per process; counters | record, flush, fold | everything served | a flush that fails halfway | counts are dropped, never doubled |
| GitHub adapter: `packages/github/src/*` | per process, installations and their tokens | look up, issue, share | mounts, indexing | shared promises, removed installations | a request never uses a token past its end |
| Search across packs: `search/*` | answers kept, searches under way | search, coalesce, refuse | index store, inference | a bound shared by callers | the bound holds and is given back |
| Janitor: `janitor.ts` | none | delete what time has ended | every table with an end | deletes under readers | deletes nothing that could still be used |
| Indexer: `packages/indexer/src/build-index.ts` | during a build: the tree, a budget, bodies, what manifests and skills declare | cut the tree, fetch an archive, read manifests, skills, documents, links, licenses and resources round by round | snapshot indexing, git host, blob store | a limit met or a body lost in one round, which a later round must not make up for by serving more | what is served is served by the whole repository; an index that is not partial is the whole |
| Index store and reader: `packages/reader`, `packages/db/src/queries/entries.ts` | an index, written once | read a file, an outline, bytes, a skill, a listing, a resource; page through them | snapshot indexing, mounts | every route decides anew under licenses and the mount; pages of an index that is built again | no route gives what another withholds; pages make up the text |
| Core rules: `packages/core` | none | parse addresses and manifests, decide what is served and under which license, cut pages, rank | everything | boundaries of pure functions; rules whose declarations were not all read | results equal a reference definition |
| Web pages: `apps/web/src` | what a page asked for and was answered; who is signed in | load, reload, answer, go elsewhere, load more | HTTP routes, connect requests | a page that stays while its URL changes; answers that arrive late | what is shown is of what the URL names |
| Command: `packages/cli/src` | a directory read into an index; a watcher; vectors of its bodies | read, watch, embed, serve | indexer, inference | changes during a read, passes of the embedding that end in any order | what is served becomes the directory, and its vectors follow |
| Operator content, owners, routes, social previews, serve, client | cached reads, single rows | read and format | | nothing that depends on an order | |

`PROJECT.json` lists the same parts under `components`, with what is and is not modelled of each, and
every place where this code is hard to test under `hazards`.

## What is modelled

### `SnapshotIndexing`: how a commit gets its index

One statement or transaction of the database is one step; between two of them anything else may
happen. `rows` is the `snapshots` table. `runs` are the `#index` runs of all processes with their
claim tokens; `tracked` is whether the map `#running` holds a run, which is what `close()` sees.
`req` is where each request is between `serving`, `#await` and `#start`: `starting` (before
`ensureSnapshot`'s insert), `reading`, `sending` and `rereading` (its three further statements),
`claiming` (before `claimSnapshot`), `waiting` (in the poll of `#await`), `answered`. `closing` is the
flag of `close()`.

- `Insert`, `ReadRow`, `SendBack` are `ensureSnapshot`; `Claim`, `ClaimRefused`, `ClaimLost` are
  `claimSnapshot` as it wins, loses, or wins without the answer arriving; `Decide` is every early
  return of `#start` between them.
- `Built`, `BuildFails`, `Write`, `WriteFails`, `Release`, `Fail`, `EndLost` are `#index`, with every
  write fenced by `Held` (`heldBy`); `Renew` is its timer.
- `Poll` and `BudgetEnds` are the loop of `#await`; `AskHeld` is `#held`, which answers without starting
  anything.
- `Close`, `Exit`, `Crash`, `Purge`, `Tick` are the shutdown, the end and the death of a process, an
  operator's purge, and time.

Time is a count of ticks in the rows: a lease of one tick may run out at any moment after it was
taken, which is all the order of events depends on. Claim tokens and row ids that nobody knows any
more may be used again, so finite sets stand for fresh UUIDs. What an index contains is its version.
Where an answer falls back to the commit before (`Served`), the look at that commit's row and the last
read of the request's own row are one step; in the code they follow each other (`snapshot-service.ts:144`,
`163`, `209`).

`CommitIndex` is the promise of the table without leases, retries and processes: attempts take a
commit, only the holder publishes, what was published stays until it is published over or purged.
`SnapshotIndexing` implements it (`ImplementsPromise`).

### `InferenceClient`: the gate and the breaker

`running`, `waiting` and `timers` are the closure of `createGate`, `breaker` that of `createBreaker`,
`calls` where each call is: `queued`, `granted` (its promise resolved, its continuation not run),
`calling`, `ending` (its `finally` not run). `probes` is history: the calls the breaker let through as
trials, `recent` how the last calls that were sent ended. The cooldown is over or not (`door`), at any
moment after the breaker opened.

### `UserCredentials`: what the git host issued one person

`host` is what the host thinks of every token, `stored` the row of `user_credentials`, `renewal` the
promise in `#renewing` of every process, `req` where each request is in `accessToken` and `refused`,
`login` a sign-in between its statements, `event` an authorization taken back, between the two statements
of `HostEvents.apply`, `wasted` (history) the tokens whose renewal nobody wrote down. The host is
external and modelled from how the adapter uses it: a refresh token works once, and a new access token
may end the one before it (`EndsReplaced`). Whether the code hands a token out depends on the end it has
stored, not on what the host thinks of it: one that the host took back before that end ("taken") is still
`Usable`, and the request learns of it by being refused. `Punctual` states what the constants of the code
are chosen for: requests are shorter than `EXPIRY_MARGIN_MS` and a renewal is written within
`RENEWAL_RACE_MS`.

### `OAuthGrants`: what a person allows a client

`codes`, `grants` and `tokens` are the tables of `queries/oauth.ts`; `work` is what each request at the
token endpoint is between its statements: `taken` (its code deleted, its grant not created),
`refresh` (the clock read, the row not locked), `locked` (`FOR UPDATE` held), `writing` (the pair
inserted and the doomed pairs chosen, not committed). `TakeCode` and `CreateGrant` are
`exchangeCode`; `PresentRefresh`, `RotateReads`, `RotateWrites` and `RotateCommits` are
`rotateOAuthRefresh` with its lock and what it cannot see of others. `TakeBack`, `ForgetUserAccess`
and the three sweeps end grants; `Deletable` and `Aborted` are what the database does when a deletion
meets a row that an exchange holds. A person's answer is two steps: `Consent` (the session is known and the
person was shown that they can see the repository, `deciding`) and `Decide`, which stores the code at any
time after it. `Verify` notes a use, or notes none yet: the touch is not awaited.

### `ConnectRequests`: a command that connects with a code

`rows` is `connect_requests` by command, `decisions` the route of a person who looks, opens, approves or
declines, `claims` the route of a claim (`found`, `opened`, `taken`, `counted`), `repoTokens` the tokens
made. Every await of those routes is a step, and between them the host shows or hides the
repository (`HostMoves`), everything of a person is forgotten (`Forget`), people sign in and requests
run out.

### `RepoNames`, `Refs`, `PrivateNames`: the three questions of a mount

`RepoNames` is how a public name leads to a repository: `alias` and `visibility` are the rows,
`lookup` a request at every replica, `host` what is so. The name may come to mean one repository after
another, closed, renamed or made anew under it, and saving the one takes the name from the other
(`Losing`), whose row stays as it was: `adrift` (history) has what is public and lost its name so. What else
a repository is called is left out. `Refs` is which commit a ref is at: `ref` with the
commit before it, `asking` a request, `pushes` the events, `indexed` the commits that have an index.
`PrivateNames` is a name that leads to a private repository, for one person: `nameRow`,
`permission` and the misses of each process. Each remembers for how long something has not been
so at the host (history), and its invariants compare that with what is answered.

### `EmbeddingJobs`, `InstallationTokens`, `SearchCache`, `UsageRecorder`: beside the answers

`EmbeddingJobs` is one snapshot under one key: `queue`, the `slice` of every worker from `taken` to
`sends`, the `vectors`, the `mark` of `snapshot_embeddings`, the `usage` counted; `BuildAgain` and
`WriteIndex` are what indexing does under it, `Sweep` the sweep that queues what is pending. A slice
passes over a body that is not stored (`PassOver`; `unstored` is history) and stops before one when it is
interrupted or comes to a bound (`Stop`). `standing` is what the deployment says of the repository by
now: a slice skips what is out of scope, of no rank or refused (`MayEmbed`), the sweep lists what is in
scope, of a rank and of some ref (`Listed`), and it changes at any moment (`StandingChanges`). Left out
are jobs that a search or a request sends, whatever the rank; entries that are not embedded at all and
bodies without a section; the end of a slice by its time, which falls between two bodies like the end by
its size; and the order and the limit of a sweep. `InstallationTokens` is `GitHubApp`'s three maps.
`SearchCache` is the closure of `search/cache.ts`. `UsageRecorder` is the buffers, their ordered writes
and the fold, in two processes.

### `RepoLayout`, `Indexer`, `PackReader`: what is served of a commit

A path is the sequence of its segments, and a body is what it says: whether it is text, whether it
reads as what its name promises, what it excludes, declares, includes and links to, and its license.

`RepoLayout` has the pure rules of `repo-layout.ts` and `license.ts`. `Indexer` is
`buildSnapshotIndex`, an action per round, between the awaits that end it: `ReadTree`, `ReadArchive`,
`ReadManifests` (once per depth), `ReadSkills`, `ReadDocuments`, `FollowLinks` (once per edge),
`ReadLicenses`, `ReadResources`. `files` is the tree as it was cut, `budget` what `admit` counts,
`bodies` the maps `texts` and `digests`, `scope` what decides whether a path is served, `reads` and
`follow` the documents and the frontier. Any body that is asked for may turn out unreadable, and
`BuildFails` ends a build at any await (a rate limit, a store that fails, a truncated tree). The archive
brings nothing, or all it is wanted for but a few bodies (`MaxMissed`).

`PackReader` is what `Reader` gives of the finished rows by each route: a file, its outline, its raw
bytes, what comes with a skill, and the extension's listing and resources. It keeps no state.

What the index is compared with is defined apart from the rounds: `WholeRepository` reads the whole
repository at once, without a limit and without a loss (`Withheld`, `WholeScope`, `WithLinks`,
`WholeLicense`). `NothingIsLoosened` says that the index never serves more, and serves the same when
nothing was left out; `ReadersKeepWithin` says it of every route, mount and license. Two things are
taken as the build leaves them, because they go by what is there and not by what was read: the overview
of a directory is the plainest that the listing has, so a tree that is cut may lose a `README.md` and
show the `README.markdown` beside it; and a manifest that could not be read is in the index to say so,
with the overviews of the directories above it, even if it would have excluded itself.

`BuildAssumption` says what a tree of Git is (`IsTree`: every path once, no file where there is a
directory), of what type a file, a body and a limit are; `NamesAssumption` that `SKILLCDN.md` and
`SKILL.md`, and they alone, are the names of manifests and skills, no overviews or licenses, and that
two names of overviews, or of licenses, differ in rank. The code compares two names of one rank by
their letters: a rank here is the place in that order.

The shortest of several identical copies is the one with the fewest segments, where the code
counts characters.

### `SkillPages`, `WebPages`, `LocalPack`: between an answer and its reader

`SkillPages` is a skill read page by page: `BoundedPage` shrinks a page until it fits, `Fragment` cuts a
text at a character, `Cursor` ties a page to the build of its index, which `BuildIndex` may replace, so
that the reader starts again (`wholeSkill`). What it has it adds up (`MountSkill`) or joins
(`JoinFragments`). What the code goes through one by one (`Filled`: the texts of a page; `JoinFragments`:
the fragments; `BoundedPage`: the halvings) is a function of the number of steps, which a proof can go
along.

`WebPages` is two pages as a browser holds them. `ConnectPage`: `url` is the code in the address, `asked`
what `useResource` shows of which code, `answering` the answers under way, `session` who
`SessionProvider` says is signed in, beside who the cookies say (`OtherTab`). `MountFile`: a file whose
pages arrive one by one while the address moves to another file. Who loads the next page, a person or the
section that the address names (`mount-file.tsx:138`), is not told apart.

`LocalPack` is the command that serves a directory. `watchDirectory`'s timer, its reads file by file and
its look at the directory's identity are one part; the passes of `createVectorSet`, each of which
takes bodies no other has begun and lets go of those it does not know, are the other. Whether a body is
there and the reading of the cache (`vectors.ts:306`) are one step, and a body that is embedded can be read.

## What the runs check

| Run | Instance | What it shows |
| --- | --- | --- |
| `rollout` | either 2 processes of different builds, 1 commit, a request each, 1 upset; or 1 process, 2 commits of a ref, 2 upsets, 2 attempts, a host that asks for a longer wait | claims stay fenced, an index is not undone, versions do not go down, a pack that was served stays served (falling back to the commit before takes none down), the promise is kept |
| `live` | 2 processes, 1 commit, leases of 2 ticks, timers in time, 1 upset, fairness | never two indexers of a commit; every commit is settled; failures are retried |
| `close` | 1 process that shuts down | where the code does less than it says, see below |
| `calls` | `inference`: 4 callers, 2 slots, breaker of 2 failures, 3 failures; `credentials`: 3 requests on 2 processes, 2 tokens, 1 upset and the event, and a third process that seals with another secret; fairness | slots, queue, a breaker that opens after failures in a row; tokens handed out work, nothing is lost without a cause; every call and request ends and a server is asked again |
| `refused` | `credentials` with 2 requests | where the code does less than it says |
| `oauth` | `grants`: 2 requests at the token endpoint, 2 codes, an answer at a time, 4 pairs, 3 units of time, 1 deletion of everything; `codes`: 2 people, 2 commands, 2 claims, bounds of 1 | a code and a claim are good once; used tokens end within the grace; what ends a grant ends all of it; bounds are passed only together |
| `mounts` | `names`: 1 repository, 2 replicas, a person and an event, 2 of them at once; `renamed`: 2 repositories under one name, 1 replica, a person and an event, 2 of them at once; `refs`: 2 replicas; `private`: 2 repositories, 2 processes; times to live of 1 or 2, grace of 1 | no answer is older than it may be; nothing listed without a name but what lost it to another repository; a pack stays; a person is shown what they may see |
| `pushes` | the instance of `mounts` | where the code does less than it says |
| `background` | `embedding`: 2 workers, 3 paths, an index and the one after it, 2 mishaps (a slice fails or stops, a body is not stored, a job is not sent, or, first and alone, the repository is not to be embedded); `tokens`: 3 readers, 2 installations; `search`: 3 askers, 3 questions, 2 places; `counting`: 2 processes, 2 clients, 2 days, 1 failure; fairness of the embedding | what is stored is embedded in the end and counted once; one token issued for all who wait; one search per question; counts neither doubled nor lost unaccounted |
| `overtaken` | the instance of `background` without mishaps | where the code does less than it says |
| `clients` | `connect` and `file`: 2 people, 2 codes, 2 files, 2 moves; `skill`: pages of 4 bytes, 1 build; `watch` and `meaning`: 2 files, 2 changes, 1 mishap; `pack`: 5 repositories under 6 limits, 2 bodies lost, 1 missed by an archive, links of 2 edges | a page shows what its URL names; pages make the skill; what is served becomes the directory; limits and losses only take away; no reader gives what is withheld |
| `listed` | the repository of nested skills, nothing lost | where the code does less than it says |

**Several parts in one run.** Modules that share no state are checked as a sum: `MCMounts`, `MCOAuthGrants`,
`MCBackground`, `MCCalls` and `MCClients` choose a `part` in the initial state and only that part takes
steps, so the states are added and not multiplied; `MCRollout` chooses one of two instances of
`SnapshotIndexing` the same way, by which processes and commits take part.

**Bounds.** The interesting cases of `SnapshotIndexing` need two holders of a row (one paused, one at
work), a third claim token to tell a successor's successor from the first, two row ids so that a purged
row comes back under another, and one upset, because each upset is one cause of a disorder; the instance
of two commits allows two, a crash during the index of the second after one of the first. `MaxAttempts`
counts failures up to where the backoff no longer changes. For the gate, four callers are the smallest
number that fills two slots and leaves a queue of two, so that a timer may fire at its head and at its
end. For credentials three requests are two that share a renewal and one that does not; with an upset,
two of them; and one request when the person signs in at a process that seals with another secret, so
that what is stored cannot be read where it is asked for (`UpsetsAreFew`). In `calls` no request lets a
credential go by itself before the person takes the access back, unless it cannot read it; in `refused`
it does. For grants four pairs are a first, one for each of two exchanges that overlap, and one that
pushes the oldest out of the two that are kept; the time runs past a lifetime of each kind. A sealed
request of OAuth is good for one tick, so it ends between a person's consent and their decision; none is
sealed once every code is issued. Two replicas are enough to overtake each other; two repositories are
one that has the name and one that takes it, which a person's request saves while a lookup is under way
(in `renamed` one process looks up at a time, and notes of missing names are left to `names`); a time to
live of two ticks tells fresh, old and past the grace, and one of a single tick, for refs and for what a
person may see, fresh and old; a private name is nothing for one reason at a time, the app or the
person's rights. Three paths with slices of two make a rest; the second index repeats a body and replaces
one. Three askers fill two places and leave one to refuse or to join. Two days and one client remembered
make a client come back after it was forgotten and after its day was folded. Two moves go elsewhere and
back. Pages of four bytes end inside a character of several bytes, inside a text and between two. The
repositories (`MCPacks`) are of eight to eleven files and hold what the rules disagree about: links over
two and three edges and into what is withheld, a skill in a skill with another license, a hidden include
and a shared page, manifests below the root that restrict, reopen, exclude themselves or are links, a
`SKILL.md` that is none, a copy, an include that a manifest takes away, and two overviews of one
directory; each limit is met by some of them and not by others, and two lost bodies are a declaration and
what it would have withheld.

**Symmetry** is declared over ids nothing compares (tokens, rows, workers, people, replicas, bodies,
repositories), in runs without liveness.

**Fairness.** Continuations of promises and database calls run in the end (weak fairness of a
request's and a run's own steps); timers fire; a process that is closing exits; the clock goes on. A
commit keeps being asked for (`SF` of `Ask`: a mount asks again and again, and the step is not enabled
while the request is under way); without anyone asking nothing retries a failed row, which is how
the code is meant to work. The host and the inference server answer or the call's own timeout ends
it. Workers go on with the slice they run, and the sweep runs, which is scheduled (`EmbeddingFairness`).
Nothing that goes wrong is fair, and all of it is finite (`MaxUpsets`, `MaxTroubles`, `MaxMishaps`): no
schedule of endless crashes settles anything. `CommitsAreSettled` also assumes timers in time: a run
that is always paused past its lease is always taken over.

`CHECK_DEADLOCK FALSE` is set for the runs whose bounded tokens, codes, time, days, moves or builds are used
up in the end: `calls`, `refused`, `oauth`, `background`, `overtaken`, `clients` and `listed`.

## What the runs refute

- `close` (`CloseHandsBack`): a claim in flight when `close()` looks at `#running` is won afterwards
  and starts a run nobody aborts or awaits; its row stays held until the lease is over.
- `refused` (`LostForCause`): a request that was refused a token forgets the credential
  it reads *then*, which may be a good one another request has just renewed.
- `pushes` (`PushIsSeen`): an answer the host gave before a push is saved after the event of the push
  was applied, and the old commit is served as fresh for a full time to live.
- `overtaken` (`OldIndexSaysNothing`): a slice that read the entries of one index ends after the
  snapshot was written anew and marks the new index embedded, of which it embedded nothing.
- `listed` (`ReadsAreAsListed`): the listing of a skill names the files of a skill inside it, with their
  digests, also when the inner one is under a restrictive license and no read of the mount gives them.

`RulesOnlyGetNewer` holds while two builds run at once, which is what a rollout is; with three the
oldest may claim a rebuild that the newest asked for, since `claimSnapshot` knows no version.

Found not to hold while modelling, without a run of their own, because a deployment can live with them:

- starts that overlap pass the bound on concurrent runs (`#start` counts itself only after its claim);
- a request that waits on a row answers whatever build wrote it (`snapshot-service.ts:191`);
- a call that was sent before the breaker opened lets a second trial beside the first;
- a credential may go although the host still accepts its access token: when a renewal that the host
  issued is not written down, the next attempt is refused, and the row is deleted for what is left of the
  margin before the end of the old token (`credentials.ts:122-138`); `permissions.md:114` grants this
  only "when the host refuses the token and it cannot be renewed". `LostForCause` names the case
  (`wasted`);
- a decision that passed its session and the look at the repository, and an exchange that took its code,
  create a code or a grant after everything of the person was forgotten (`http/auth.ts:910-946`,
  `authorization-server.ts:517`): the grant outlives it until it ends by itself. `OnlyLateGrantsOutlive`
  says that no other does;
- a name that comes to mean another repository leaves the row of the one before public, listed
  (`hub.ts:39-70`) and without a name, until an event or a lookup under another name closes it
  (`repos.ts:132-144`); and whoever deletes an alias for one repository may take the name of another that
  was saved meanwhile;
- a body that is not stored when its turn comes is warned of and never embedded, also when it is stored
  later: the snapshot is marked as embedded, and the sweep leaves it out (`embed-snapshot.ts:284-289`,
  `322`);
- a snapshot over the bound of its repository, or refused by the entitlements, is swept every hour and never
  done, and as a sweep takes at most `SWEEP_LIMIT`, highest rank first, such snapshots keep their places;
- clients of a day that a process writes after another has folded some of that day are counted twice, as
  happens around midnight with two processes (`usage.ts:136`); `ClientsAreCountedOnce` leaves such days out;
- a revocation between a sign-in's credential and its session leaves the session standing on nothing;
- the connect page keeps the outcome of one code and shows it under the address of another, when a
  person goes there in the history (`connect.tsx:133`), and an answer to `me` that is late shows a
  person who signed out as signed in (`session.tsx:85`);
- a file's pages may be of two commits when its ref moves between two loads (`mount-file.tsx`);
- `joinSkillPages` repeats the included files of a skill whose pages repeat them
  (`core/src/tools/pages.ts:31`);
- a body that one pass lets go of while another writes it to the cache stays without vectors until the
  directory is read again, although `vectors.ts:217` says otherwise;
- a change between the first read of a directory and the arming of its watcher, or a directory replaced
  between the arming and the first look at its identity, is not read before the next change (`local.ts`);
- `forEachConcurrently` says that it stops at the first failure; its other runners go on
  (`build-index.ts:168`);
- an include in the skill's directory that a manifest above excludes, and whose body the archive brought
  all the same, lets the skill be listed with a digest of a document the reader cannot assemble
  (`listed` finds it in the repository `copied` too);
- a page that a permissive skill includes travels with it whatever the license of the page itself;
- of identical copies the kept one may be unlistable for another reason, and then none is listed;
- a `SKILL.md` that is lost takes its directory's `LICENSE` with it, since the directory is no skill then:
  this is why the properties about licenses ask for `EveryDeclarationRead`.

## What is proved

For every value of the constants, under their named assumptions only (`CommitAssumption`,
`VersionAssumption`, `BoundAssumption`, `RowAssumption`, `ClientAssumption`, `CredentialAssumption`,
`OAuthAssumption`, `ConnectAssumption`, `RepoNamesAssumption`, `RefsAssumption`,
`PrivateNamesAssumption`, `EmbeddingAssumption`, `InstallationAssumption`, `SearchAssumption`,
`UsageAssumption`, `WebAssumption`, `LocalAssumption`, `PagesAssumption`, `NamesAssumption`,
`BuildAssumption`). Where a theorem needs more it says so with `ASSUME`, and the run states the same of
its instance: `TwoBuilds` (replicas of two builds at most), `Punctual` (requests end and renewals are
written in time; for `OneIndexerHolds`, that leases are renewed in time), `EndsReplaced = FALSE` (the
host lets an access token live on when it issues the next). A property of a theorem is the definition
the run checks; the invariants named below are inductive, and TLC
checked each (of `Packs_proofs`, the parts named there) before it was proved.

**`SnapshotIndexing_proofs`.**

- `TypesHold`, `ExclusiveClaims`. `ClaimsAreExclusive` is inductive with `TypeOK`. Every step but a
  claim only removes runs or holders (`OnlyRunsBefore`, `OnlyHoldersBefore`), which cannot break it
  (`NothingTaken`); a claim uses a token nobody knows.
- `NotUndoneHolds`, `PromiseKept`. The invariant on top of the first two is `RowsAtRest`: only a row
  being indexed has a lease, and only a failed one has a wait. It is what makes a tick leave a ready
  row alone, and a run that no longer holds its row unable to touch it. `PromiseKept` maps the initial
  state and every step to `CommitIndex`: a claim is `Take`, `Write` is `Publish`, `Fail` and `Release`
  are `HandBack`, crashes and lost runs are `Die`.
- `NewerRulesStay`, under `TwoBuilds`. That the version of an index never goes down is not a matter of
  the step that writes it alone: a row that has an index and is not ready was sent back because it
  is older than what some process builds (`IndexesAreNewest`), so that of two builds nobody can write
  one older still (`VersionsRise`).
- `NoPackDown`, under `TwoBuilds`. `PacksStayUp` follows a request by a moving ref from the moment it
  came in: at each point of `ensureSnapshot`, `claimSnapshot` and `#await` its own commit or the one
  before it can still be served, the row it remembers is still its commit's, which is the only one
  (`OneRowEach`), and what it read of that row tells it so.
- `OneIndexerHolds` assumes `Punctual`, and only it. `OneIndexerAtATime` is not inductive: that no
  second run starts follows from the first still holding its row with its lease running
  (`WorkersHold`), and the two are inductive together (`OneWorker`).

**`Calls_proofs`.**

- `SlotsHold`, `QueueHolds`, `NoIdleSlot`, `TrialIsReal`, `OpensWhenItShould` are five conjuncts of one
  invariant, `Sound`: a slot is handed to the head of the queue, so that its count is right needs the
    queue to hold exactly those that wait, each once. `OpensWhenItShould` compares the breaker with how the
  last calls ended, which is inductive with what its count says of them (`CountIsOfTheLast`).
- `TokensAreGood`, `CredentialsGoForCause`, both under `Punctual` and `EndsReplaced = FALSE`. Until the
  person takes the authorization back (`Issuing`), `Working` says of every token that anybody still has
  in hand (the row, a renewal, a request, a sign-in) what the host thinks of it: what is not the newest
  still works for as long as a request lasts, a refresh token that is used up has a successor that is
  about to be saved, and whoever is about to forget a credential has one that is of no more use to
  anyone, whose renewal was lost on its way into the database, or that the process cannot open.

**`OAuthGrants_proofs`.**

- `CodeIsGoodOnce`, `GoesOnWithinGrace`, `FirstUseAlwaysStands`, `NothingWithoutGrant`, `OnlyLateOutlive`
  come from one invariant, `Sound`. Ids are given out once (`Numbered`); a pair that is inserted and not
  committed is nobody else's (`Pending`); a token is exchanged by one worker at a time, who knows whether
  it was used before (`Locks`: this is the row lock, and the grace in the code); a code is in the table,
  or taken, or spent (`Codes`); what a forgotten person agreed to is gone, or was late when it was
  stored: a code in `Decide`, a grant in its exchange (`Vouched`). A new grant is not crowded out by its
  own creation because nobody used one later (`Timely`), for which its pair never stands without it.
- `GrantsHoldTheirs`, `PairsGoForACause`. `Tight` adds what exchanges that overlap do to the pairs of a
  grant: each drops all but the newest it sees and sees none that is not committed, so the pairs that
  stand, with those about to be added by who saw too few to drop one, are at most what a grant keeps
  and one for every other worker (`Bounded`), and nobody drops what another does (`Doomed`).
- `JanitorEndsNothingLive` (`Lasting`): a grant lasts as long as every access token under it, although an
  exchange that commits late may set the grant's end earlier than another did, by no more than an
  exchange takes.

- Of `ConnectRequests`, in the same module: `OneTokenPerRequest`, `TokenOfTheApprover`, `TokenWasOpen`,
  `OnlyLateTokens`, and `TokensEarned` of which the first three are parts: a claim that has taken a
  request is the only one that has, and its row is gone.
- `BoundsPassedTogether` (`Apart`): as long as no two transactions counted at once, whoever has counted
  finds room for what it inserts.

**`Mounts_proofs`.**

- `RefTypesHold`, `ServedIsRecentHolds`, `PackStaysHolds`: the invariant says of every commit that is on
  its way into the row how long ago it was the ref's.
- `NamesRecent`, `ListedNamed` (`NamedRight`): the same of a name, where the answer of a lookup may be
  borrowed from an alias, and a miss that is noted again must not begin anew (`KeptIsSo`, `HeldIsSo`).
  `ListedNamed` is for any number of repositories under the name, and leaves out those `adrift`.
- `ShownToThem` (`PrivatelyRight`): of the name's row, the permission and the misses of each process, how
  long ago each was so (`KeptWasSo`), and of a request what it has read so far (`AskedRight`).

**`Background_proofs`.**

- `OneSearch`, `PlacesGivenBack`, `SearchesShared`: the count of searches under way is the number of those
  that lead one, a question is pending when and only when somebody leads it, and what is kept is in
  kept once per question and as old as the time it has used up (`Cached`, `Told`).
- `InstallationAnswers` (`Answered`): what is remembered of a repository's installation is so or was
  within the time it may still be believed (`RememberedRight`), and whoever has one in hand has such a
  one.
- `DoneMeansEmbedded` (`Slicing`): unless an index overtook a slice of the one before, what comes before the
  place where a job or a slice starts is embedded, or was not stored at its turn, and a slice knows what is
  missing of the rest (`NothingLeftOut`).
- `BodiesCountedOnce` (`CountedSo`) and `CountsRight` (`Counting`) are sums over workers, over recorders
  and over clients; `CountsRight` also needs who of a day's clients was counted before (`SeenBefore`),
  and says nothing of the clients of a day that was written to again after a fold.

**`Clients_proofs`.**

- `NamedIsShown` (`AsNamed`): a load that was not aborted is of the code in the URL (`LoadsAreCurrent`), and
  the pages a file has begin at the first and go on one by one, also those a late answer is about to
  add to (`LaterFollowOn`).
- `FollowsDirectory`: `Watched` says that whatever differs from what is served was heard of, or waits in the
  timer, or is about to be read again; `Meant` says that a body that is searched has its vectors, or
  is on its way to them in a pass that has not failed, unless something went wrong (`Searched`); a body that
  a pass lets go of while another writes it down is in the cache and not searched.
- `PagesAreTheSkill`, for texts of any length, any number of files, pages of any size and every room: a
  text of a skill lies between two places of the whole run of texts, and a page has of it what lies
  between the place where the page begins and the one where it says that the next begins, whatever the
  size it was cut to (`FilledHas`, `PageIs`). The pages that a client has read are of one index, and each
  begins where the one before ended (`SkillInv`, with `ReadUpTo`); so each text, added up or joined, is
  what lies before the place that is reached (`OfWhole`, `JoinPage`), and a skill that is whole reaches
  the end of the last text. That a text cut off is joined with the right one, and not with one that
  follows, needs that a page cut within a text gives nothing of those after it.

**`Packs_proofs`.** `IndexLoosensNothing` and `ReadersGiveNoMore` are `NothingIsLoosened` and
`ReadersKeepWithin`, for any repositories, limits, names and bodies, links of any depth, and any number of
bodies lost. The two speak of a build that is done only, so they are not inductive; what the rounds keep
is `BuildInv` (`BuildIsSound`); TLC checked its first four parts over the instance of `clients` before they
were proved. A part speaks from the round on that first makes it true:

- `Listing`: however the tree was cut, every manifest of the repository is in it, because manifests come
  first and a listing without all of them is not published.
- `Policy`: each manifest that had its turn (`Settled`: by depth, from the root down) is in force with all
  that it excludes and declares (`Governs`), or nobody could read it and its directory is closed
  (`Closed`), or something above took it out together with its directory (`Shut`). The other way round,
  whatever is excluded is so by a manifest that says so, or is the directory of one that is itself taken
  out. Together with `Withheld` this gives both directions: what the whole repository withholds is
  excluded here (`WithheldIsExcluded`, but for a manifest that is there to say it was not read), and
  when nothing was left out nothing else is. That a manifest cannot lift what one above it set rests on
  the order of the depths: what a manifest takes out lies in its own directory, whose manifests come later.
- `SkillsAreRead`: the skills are files that were read, are skills and are not excluded; what is included
  and which overviews are shown follow from them.
- `LinksAreFollowed`: whatever is linked is reached, in the whole repository, over as many edges as the
  rounds have gone (`Reached`, by depth), from documents that are served; when nothing was left out, all
  links of what is served were followed, but for those of the frontier.
- `Indexed`: a row of a finished index says of its file what the rounds found (`RowOf`).

The semantic lemmas then go from a served path to the whole repository: a skill here is a skill there, the
nearest manifest is the same, the nearest skill there serves what the nearest here does
(`ServedIsVisible`), and a skill that is restricted there is restricted here, because a license file that
was lost counts as restrictive and a manifest that was lost closes what it governs (`SkillRowIs`). The
readers' theorem adds that each route decides by the nearest skill and by the manifests above a path
as the rows have them.

**`Sums`.** A fold is a recursive function over sets, and what it computes for every finite set is an
induction. The library's induction theorems take an operator that no prover here instantiates, so `Sums`
argues by the least counterexample: a set of finite sets that is not empty has one all of whose proper
subsets are outside it (`Smaller`), from the well-foundedness of `<` on the naturals. In the same way it
goes along functions over `0..n` (`Upwards`, `Chain`): this is induction over one set at a time, which is
all that the pages, the budgets and the links need. What joining a sequence of sequences gives
(`FlattensOnto`, `FlattenMore`) is proved the same way, for `Clients_proofs` and `Packs_proofs`.

**Checked by TLC only.**

- Everything temporal: TLAPS proves no liveness and no `ENABLED`.
- What the violation runs show, which is not so.

## What is not modelled

The parts marked `not_modelled` in `PROJECT.json`, for the reason given there, and of those marked
`partly` what their note names. Of the modelled parts: what a text says (the parsing of manifests, links
and license texts), what an author is told, search vectors, the HTTP of a call, the sealing of a token
and logs. Of smaller things: an operator's purge deletes the refs of a repository as well
(`operator.ts:101-117`), which `Refs` does not have; and that an index says it is partial for a
declaration over its limit (`build-index.ts:611`, `681`) is no part of `NothingIsLoosened`, which speaks
of what is served. The modules meet in the code at a few values only, which each takes as an input:
`SnapshotIndexing` a commit and the one before it (`Refs`), `EmbeddingJobs` the writing of an index
(`SnapshotIndexing`) and the failures of the inference server (`InferenceClient`), `ConnectRequests` what
opening a repository answers (`PrivateNames`), `OAuthGrants` and `ConnectRequests` the loss of a
credential (`UserCredentials`), and `SkillPages` an index that is built again. `PackReader` extends
`Indexer`, so that what readers give is checked over every index a build can end in.

## Plan

In the order of what they would add:

1. The reader's browsing, search and directories over the rows of `Indexer`, and `read-directory.ts`
   with `check.ts` as another source of a tree.
2. The change of a model's key in `EmbeddingJobs`: the vectors under two keys, and the sweep that drops
   the old ones (`jobs/sweep.ts:131`).
3. The registration of OAuth clients and the documents they are described by; the tokens a person makes
   in the account pages; the credentials the command keeps.
4. The HTTP routes as far as they decide: what a shared cache may keep of an answer, and for how long.
5. The directory host and the job that indexes a repository ahead of its readers.
