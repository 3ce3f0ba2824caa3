# Playhoot: a TLA+ verification project

Playhoot is a platform for multiplayer browser games. A creator opens a
*Session* of a published game; players reach its lobby with a join code; the
creator starts it; one server instance (the Session's *owner*) then runs the
game's script in a sandbox, boundary by boundary, feeds players their views and
keeps the Session recoverable; and it ends, durably, for one of eleven causes.
Creators author games through drafts that are built, previewed and published.

This directory holds TLA+ models of the parts that carry the platform's own
logic under concurrency and failure, the TLC configurations that check them,
and TLAPS proofs about them. Every definition is a translation of the Go code;
`PROJECT.json` maps each one to its lines. The modules:

| Module | Models | Checked by | Proved |
|---|---|---|---|
| `SessionStatus` | statuses, end causes and the endings table | through the others | |
| `SessionPromise` | abstract: what a durable Session promises its readers | as `PromiseKept` | `Refinement` |
| `SessionLifecycle` | the durable Session, its owners' transactions, reconciliation | `session_lifecycle`, `session_lifecycle_liveness` | `SessionLifecycleProofs` |
| `SessionCreation` | creating Sessions, idempotency, limits, join codes | `session_creation` | `SessionCreationProofs` |
| `LiveSession` | the live Session on its owner: lobby, start, presence, checkpoints, ends | `live_session`, `live_session_liveness`, `lost_disconnect` | `LiveSessionProofs` |
| `GameTimeline` | inputs, commands and boundaries of a running game | `runtime` | |
| `ViewFeeds` | what players, admins and previews are shown of it | `runtime` | |
| `ControllerResolver` | which controller a Session has on an instance; admins | `runtime` | `RuntimeProofs` |
| `Previews` (extends `ControllerResolver`) | previews of a draft, their rows and their controllers | `runtime` | `RuntimeProofs` |
| `Runtime` | composes the four above | `runtime` | |
| `SandboxHost`, `SandboxWorker` | the workers that run game scripts | `runtime_services` | `RuntimeServicesProofs` |
| `RateLimit`, `KeyedLimits` | a limiter's buckets; limiters by user or address | `runtime_services` | `RuntimeServicesProofs` |
| `LimitAudit` | counting the hits of those limits | `runtime_services` | `RuntimeServicesProofs` |
| `ReplayRecording` | chunks of a game's history and their storing | `runtime_services` | |
| `ConnectionRoom` | a handshake's way to a served connection | `runtime_services` | `RuntimeServicesProofs` |
| `RuntimeServices` | composes the six above | `runtime_services` | |
| `ServedConnection` | one live connection while it is served | `served_connection` | `ServedConnectionProofs` |
| `DraftSources` | what a draft's sources hold and how a change is decided | `publishing`, `frozen_revision` | |
| `VersionDrafting` | drafts: revisions, changes by key, uploads, freezing, cleanup | `publishing`, `frozen_revision` | `PublishingProofs` (`FrozenForGood`, `AppliedOnce`, `WhatIsUsedIsStored`) |
| `VersionBuilding` | the build queue and its workers | `publishing`, `frozen_revision` | `PublishingProofs` (`NewestIsBuilt`, `WhatIsUsedIsStored`) |
| `DraftReading` | what reading a draft answers | `publishing`, `frozen_revision` | `PublishingProofs` (`AppliedOnce`, `WhatIsUsedIsStored`) |
| `Publishing` | editions, releases and the orchestration; composes the four above | `publishing`, `frozen_revision` | `PublishingProofs` |
| `Credentials`, `AccountLogin` | refresh tokens, guests, sign-out; logins on top of them | `identity` | `IdentityProofs` |
| `AIAuthorization` | AI applications' authorization | `identity` | `IdentityProofs` |
| `UserRecords` | display names and resource links | `identity` | `IdentityProofs` |
| `Identity` | composes the four above | `identity` | |

To run: `tlc -workers 2 -config LiveSession.cfg MCLiveSession`, and
`tlapm SessionLifecycleProofs.tla`. The `MC*` modules extend a specification and
add what its instance needs: symmetry sets, functions for constants, and the
bound of a run where one is named.

## 1. Inventory

Each component with its state, its operations, what it talks to, what is hard
about it and what would make it correct. `PROJECT.json` lists the sources of
each.

### Durable Session (`play/session/workflows/sessionlifecycle`)

*State.* Postgres rows: `play_sessions` (status, end cause, lobby expiry,
lifetime, owner lease), participants, latest checkpoint, join codes, requests
by idempotency key. *Operations.* CreateSession, CommitStart, EndSession,
RecordOwnerHeartbeat, SaveCheckpoint; reads for eligibility and recovery.
*Interactions.* Called by the live controllers of every instance; each write is
one transaction on the locked row. *Hard.* Writers of several instances on one
row; clocks read before a commit; a start that writes five tables; retries with
the same key; code reuse. *Correct when* a Session starts and ends at most once
with the cause that applies, a running one is always recoverable, checkpoints
only advance, each request has one answer, each open lobby's code leads to it,
and a creator stays within the limit.

### Session reconciliation (`play/session/batches/reconcilesessions`)

*State.* None of its own; a pass reads pages of due Sessions and judges each
under its row lock. *Hard.* What was due when read may be renewed, started or
ended when judged; a failing Session must neither stop nor starve the rest;
whether the replay is finalized is read in a snapshot older than the lock.
*Correct when* only the overdue are ended, a finished game is not called lost,
and everything overdue eventually ends.

### Replay chunk storage, join code resolution, read use cases

Small transactions and reads around the same tables. Storing a final chunk
finalizes the replay manifest without touching the Session's row, which is what
makes it interesting to reconciliation.

### Live session controller (`play/runtime/workflows/liveconnection`)

*State.* Per Session: phase, lobby, players and admins with their connections,
the frozen participants, presence with grace deadlines, the timeline of
accepted operations, pending rejoins, command tokens, input streams, the game's
state and its context, the checkpoint waiting to be written. *Operations.*
Attach, reattach, rejoin, leave, disconnect; start, recover; accept commands
and samples; execute a boundary; offer and write checkpoints; heartbeat;
enforce limits; cancel, finish, abort. *Interactions.* Calls arrive on the
connections' goroutines and take the controller's lock; one main goroutine runs
starts, recoveries, boundaries and ends, releasing the lock around every call
to the sandbox and the database; the heartbeat and the checkpoint writer have
goroutines of their own. *Hard.* Everything that happens while the lock is
released: a Start whose answer is lost, a boundary that fails and is put back,
a connection replaced by a newer one, a Session ended elsewhere, a crash with a
checkpoint behind the live game. *Correct when* lobby, presence, game,
checkpoint and database stay in step, every call is answered, and the game is
told about everyone who leaves. `LiveSession` has who is there, `GameTimeline`
what they send (commands run once by token, samples are acknowledged once
confirmed), `ViewFeeds` what they are shown.

### Controller resolver, ownership, previews

The resolver gives each Session one controller per owner epoch, replaces a
retired one and bounds how many an instance runs. Ownership is a placeholder
that always answers the same instance and epoch. A preview is a controller
without lobby or checkpoints, with a row and an ending of its own. *Hard.* A
controller forgets itself while others already found it; a preview is replaced
while it starts. *Correct when* a Session never has two running controllers,
nobody stays connected to an ended one, and a preview's row follows its game.

### Boundary planning (`play/runtime/internal/business`)

Pure: which operations and samples a boundary takes, in what order, and when an
unfinished update ends; checkpoint encoding; JSON patches of views.

### Replay recording (`play/runtime/workflows/replayrecording`)

*State.* One recording per live game with an inbox, sealed chunks, and a
bounded store queue with retries. *Hard.* A final chunk sealed once, retried and
possibly dropped by a full queue or a drain deadline. *Correct when* a history
has no gap or overlap, and no chunk disappears unreported.

### Sandbox host and worker (`play/runtime/sandbox`)

*State.* Contexts and those being spawned, execution slots, budgets. *Hard.*
The limit counts what is being spawned; a killed worker is noticed by others'
calls. *Correct when* no worker is lost or runs beyond the limit, and a game
continues only from what its owner confirmed. The script checker beside it is a
static analysis.

### Drafting, building, publishing (`play/session/workflows/versiondrafting`, `versionbuilding`, `game`, `orchestrator/gameauthoring`)

*State.* Draft revisions under optimistic concurrency, uploaded objects, a
build queue with claims, game editions and releases. *Hard.* Builds interrupted
by a crash and superseded by newer revisions, or left running by a database that
failed to answer; unused objects, of every game at once, cleaned while an upload
or a first build stores the same content; a publication that crosses two domains and must
be resumable. *Correct when* changes are applied once, what is used is stored,
the newest revision is built, and the two domains agree on what is published.

### Identity (`identity`)

Guests, refresh tokens rotated with a grace for the previous one, login
attempts with one-time codes, AI authorizations with reuse detection, links.
*Hard.* Concurrent renewals, a renewal against a sign-out, two first sign-ins
of one account. *Correct when* a session is one chain with one holder, stays
ended once it ended, and an account is the account of one identity.

### API and process (`api`, `utils`, `logging`, `monitoring`, `main.go`)

Live connections with lanes, bounded queues and one writer, closed in an order
(everything produced, then the ending) that goroutines of four kinds keep
together; room for connections, given back once; HTTP handlers around the use
cases; a GCRA rate limiter; transactions
(`RunInDBTransaction`, modelled by its commit and rollback).

## 2. What is modelled, and how it corresponds

### `SessionLifecycle`

`row`, `roster`, `checkpoint`, `codeActive` and `finalized` are the tables,
abstracted to what the properties tell apart; `txn` is the transaction each
caller has open, `pass` the reconciliation pass each instance runs. Locking a
row (`OpenOwnerCall`, `OpenJudgement`) and committing (`CommitStart`,
`CommitEnd`, `CommitHeartbeat`, `CommitCheckpoint`, `CommitJudgement`) are two
steps, so that the clock (`Tick`), transactions on other Sessions and the
unlocked writers (`FinalizeReplay`, `ReuseCode`) interleave between them.
`CloseUnchanged` is every way a transaction ends without a write: the locked
row does not allow it, or it failed and rolled back. Owners are calls, not
instances: a crash is a call that never goes on, or one that rolls back, and
any owner may call anything about any Session, which covers instances that
wrongly believe they own it.

A pass reads a page of at most `Batch` Sessions, the longest overdue first
(`Pages`), and judges them one at a time. `AskForRow` and `OpenJudgement` are
separate because Postgres evaluates `EXISTS (... play_replays ...)` in the
snapshot its statement took before waiting for the row, and only rereads the
locked row. `JudgementFails`, `LockTimesOut` and `PassDies` are the failures the
code handles; `NextPage` and `FinishPass` are its loop condition.

`CreateSession` is atomic here; `SessionCreation` opens it up.

### `SessionPromise`

Create, Start, Advance (a newer checkpoint) and End for a cause that applies;
nothing else ever happens to a Session. `SessionLifecycle` implements it with
the status and cause of the row and the revision of the checkpoint.

### `SessionCreation`

The creation transaction at READ COMMITTED, step by step: claim the idempotency
key (waits for another transaction's uncommitted claim), lock the creator, read
the clock and count active Sessions, refuse or insert, draw candidate codes
(taking over that of an expired lobby), commit or roll back everything. Starts
are two steps, because what a start read of the clock may be old when it
commits. `answers` is a history variable with every answer ever given.
`ResolveJoinCode` is what a player's code resolves to at any moment.

### `LiveSession`

One action is one critical section of the controller's lock, or one call made
without it.

- *Players* (`Connect` ... `EndConnection`): where each connection's calls are is
  `conn[c].at`. Attaching checks eligibility in the database, joins the lobby or
  waits for the recovery of a running game, and reattaches or asks the game to
  be let back. `Leave` waits for a Start attempt to settle. `Disconnect` decides
  under the lock and ends the connection after it (`EndConnection`); a replaced
  connection's own Leave and Disconnect may still come.
- *The lane* (`lane`): the main goroutine's Start (`RequestStart`, `CheckStart`,
  `RunScript`, `CommitStart`, `CompleteStart` or `CancelStart`), recovery
  (`RequestRecovery`, `CheckLifetime`, `LoadRunning`), boundary (`TakeBoundary`,
  `CommitBoundary` or `FailBoundary`, `OfferCheckpoint`, `EndIfAbandoned`) and
  end (`EndDurably`, `TellEnd` or `EndFailed`).
- *Others*: the checkpoint writer, the heartbeat that learns the Session ended
  elsewhere, reconciliation, a retirement under a newer epoch, a crash, and the
  controller made for the next connection (`Renew`).

The timeline keeps disconnections and rejoins only. The game is a black box
that knows who is `gone`: it may accept or refuse any rejoin and may finish at
any operation. Commands, inputs and `update()` are in a boundary only in that it
may execute with no presence work. Failed calls, crashes and outside ends are
bounded by `MaxFaults`; a failed `CommitStart` or `EndDurably` may or may not
have committed. A checkpoint is `gone` (the game's state) with the participants
it lists as disconnected; recovering needs them to agree.

`slipped` and `stale` are history variables: connections that a Disconnect lost
during a Start attempt left behind, and users let back by a stale rejoin. The
invariants of `live_session` say "but for" them, so that they show everything
else holds in every behaviour, including those that go through the defects.
`PresenceAgrees` joins who is in the lobby, in the game and connected;
`GamesAgree` joins the live game, its checkpoint and the one the database runs.

### `GameTimeline`, `ViewFeeds`

The lane's boundary is two steps, as in `LiveSession`: `work` is taken under the
lock, runs in the sandbox, and is committed, put back (`Requeued`) or lost with
the instance. `ingress` is a participant's SAMPLE stream: how far samples were
accepted, consumed and acknowledged, and the snapshot pressed last; `commands`
the tokens pending and executed, of which the latest `Keep` are remembered.
`game` is the mirror the controller holds, `context` what the sandbox holds,
`saved` the checkpoint written; recovering starts from `saved`. The game's own
history, `game.log`, is what `CommandsRunOnce` compares the remembered tokens
with. A game that declares `update()` and one that does not, and previews,
which pause and act as each participant in turn, are initial choices.

`ViewFeeds` has a seat's current view (`cache`), what each connection was sent
last, what waits for it (`feeds`) and what its client makes of what it took
(`clients`). A view is a function of fields; the difference of two is a set of
them, so that a patch over the wrong view shows. Reaching `MaxPending` collapses
what waits into one FULL view; `resyncs`, a preview's change of participant and
an admin's change of perspective replace what waits.

### `ControllerResolver`, `Previews`

`table` is the resolver's map, `controllers` everything it created, numbered.
`AttachAdmin` (`asks`) finds a controller, is admitted on it, and asks again
when it was retired between the two. `Previews` extends it: `starts` and
`attaches` are calls between their steps in the database (`rows`) and on the
instance; ends are recorded by a call that may fail, and previews run out.

### `SandboxHost`, `SandboxWorker`, `RateLimit`, `KeyedLimits`, `LimitAudit`, `ReplayRecording`, `ConnectionRoom`

`SandboxWorker` is a function: what one request does to a worker, for authored
code that returns, throws or traps. `SandboxHost` has the map of contexts, the
ones being spawned, and one call per owner between asking and answering;
`Abandon` and `Close` may come at any time. `RateLimit` translates the bucket
arithmetic with clocks that go backwards; `KeyedLimits` forgets keys whose
buckets are full, beside what it would answer had it remembered them.
`LimitAudit` gathers, hands over and records counts; recording may fail.
`ReplayRecording` has the recording goroutines, the queue with its workers and
its one signal, and the shutdown past its deadline. `ConnectionRoom` follows
handshakes from the listener to `Serve`, refusals on an upgraded connection
included, across the instance's shutdown.

### `ServedConnection`

Loops with a program counter each (`pc`): the reader, a lane with a bounded
queue and a wake signal, the stream of the session, the roster, the closer that
waits for the Runtime's end, and `serve`, which takes the first end reported.
`out` is what a loop holds while the socket is another loop's. `sent` is what
reached the client, in order. The client may leave, stop reading or send beyond
the limits; the Runtime starts the game, produces and ends the connection; the
instance may shut down. Each kind of connection brings its own streams.

### `DraftSources`, `VersionDrafting`, `VersionBuilding`, `DraftReading`, `Publishing`

`versions` has each version's revisions (files by path, content by asset key),
`attempts` what each idempotency key decided, `builds` the queue, `objects` the
object store's contents, by content. A request reads the version's row, decides
(`Decide`, from `DraftSources`) and commits revision, build and attempt together
if the revision is still the one it read. An upload registers its object,
stores it and attaches it, in three transactions, around a cleanup that locks
the object, asks whether anything uses it and deletes it; content its
declaration refuses is only recorded as refused. The cleanup is one for all
games (`step_clean_unused_objects.go:59-61`, called from `publish.go:227`), so it
is enabled at any time, before this game published anything too; `cleaning` is a
set because several publications may clean at once. What other games refer to
only keeps content longer, and so is left out of `InUse`. `Settle` ages all
objects that nobody is storing at that moment, at any time: it stands for
`cleanupSettle`, the only thing that protects content not referred to yet.

A worker claims a build, stores its script and records the end in further steps.
The claim may commit and its answer be lost (`ClaimIsLost`), and the end may
fail to be recorded (`FinishIsLost`); a crash is `up = FALSE`. A start requeues
what was running, or fails to: `run.go:16-18` logs that failure and the workers
start all the same (`RequeueFails`). `lost` is what these failures left RUNNING
with no worker, until a later start requeues it. `Publishing` adds Game
Management's tables and the calls of the orchestration, which may stop after any
step and are resumed by the next operation.

### `Credentials`, `AccountLogin`, `AIAuthorization`, `UserRecords`

`Credentials` has `identity_sessions` rows as they are: a session is the chain
of rows its rotations made. A transaction is in `calls` between its locking read
and its commit; an update that counts rows waits for them and looks again
(READ COMMITTED). `AccountLogin` extends it with attempts, their callback and
code. `AIAuthorization` is the authorization request, the connection its code
opened, its refresh tokens and the access tokens that verify. `UserRecords` has
the writers between locking the User's row and committing.

### `Identity`, `Runtime`, `RuntimeServices`

Their components share no state (only `Previews` shares the controllers with its
resolver). A behaviour has a `part`, chosen at the start, and exercises it while
the others stay as they start: a sum and not a product of their state spaces,
which loses no interaction because there is none.

## 3. The runs

| Run | Shows |
|---|---|
| `session_lifecycle` | One Session, two owner calls and two passes: recoverable while running, held by its code while joinable, ended for a cause (`DurableStateIsSound`); `PromiseKept`; only the overdue are reconciled; a finished game is not lost |
| `session_lifecycle_liveness` | Two Sessions, pages of one, a failure: everything overdue eventually ends |
| `session_creation` | Two creations at once, two users with two keys, two Sessions, two codes: one answer and one Session per request (`CreatedOnce`), codes unambiguous and leading to their lobby, open lobbies within the limit, and every creation ends |
| `live_session` | Two users, three connections, one start, one fault: who is where (`PresenceAgrees`), which game (`GamesAgree`), ends told only once durable, abandoned only once the game was told |
| `live_session_liveness` | Two users, two connections, one fault: calls are answered, the game is told, an empty game ends |
| `publishing` | One game, in three parts. *editions*: two editions by two callers with two keys for changes and two for publishing, and one worker. *store*: a first edition by one caller, whose uploads may be refused, with one worker and one fault. *building*: a first edition by one caller with two workers and two faults among crashes, lost claims, lost ends and failed requeues. Cleanups come at any time in all three. Changes applied once (`AppliedOnce`), nothing in use deleted (`WhatIsUsedIsStored`), the newest revision built and running builds run (`NewestIsBuilt`), the domains agreeing wherever publishing stopped (`PublishedOnce`), executable versions immutable |
| `identity` | `SessionsHold` (one chain, one holder, ended for good), `LoginsHold` (one identity per account, sessions of guests end with them, a code signs in once), `ConnectionsHold` (a secret used twice revokes), `RecordsAgree` |
| `runtime` | `CommandsRunOnce`, `InputsAgree`, `ViewersCatchUp`, `ControllersAgree`, `PreviewsAreRecorded`, `EndsAreFinal` |
| `runtime_services` | `ContextsHold`, `LimitsHold`, `LimitsForgetNothing`, `ReplaysHold`, `RoomIsGivenBack` |
| `served_connection` | `SentInOrder`, `NothingIsCutShort`, `RecordedEndsAreReported`, `ServedToTheEnd` |
| `lost_disconnect`, `frozen_revision` | the findings below; TLC must find a violation |

Several of these are conjunctions of named parts (`DurableStateIsSound`,
`PresenceAgrees`, `GamesAgree`, `SessionsHold`, `LoginsHold`, `PublishedOnce`,
`ReplaysHold` and others): each part that a different bug would break has a
mutant of its own in `PROJECT.json`. The modules' `TypeOK` are proved
(`SessionLifecycle`, `LiveSession`), conjoined (`ConnectionsHold`, `RecordsAgree`) or kept as
documentation of the state.

### Bounds, and why they are enough

- *Lifecycle.* A property of one Session is disturbed by at most an owner, a
  second caller and two passes; the row lock serialises the rest, and `MaxTime`
  3 lets a lobby expire, a lease run out and be renewed, and the lifetime pass.
  Pages only matter with more Sessions than `Batch`: the liveness run has two
  with pages of one. The proofs remove all these bounds for safety.
- *Creation.* Two calls are what locks order; two users with two keys make
  retries, limits and races between creators; two codes, of which one try draws
  one, make collisions, exhausted attempts and the reuse of an expired lobby's
  code. `HasUnusedSession` keeps the two Sessions from running out under a call,
  which the code's fresh UUIDs never do.
- *Live.* Two connections of one user (replacement, a shared and a stale rejoin)
  against another user's, and one failure anywhere. `BoundaryOperations` is 1 in
  the safety run, so that a backlog is split over boundaries, and 2 in the others,
  so that a disconnection and a rejoin meet in one. `AskedCauses` is one
  cause: the requested ends differ only in their guards.
- *Publishing.* `MCPublishing` adds `part`, chosen at the start, which bounds a
  behaviour to one of three smaller instances. In each the sources declare a
  required asset (`logo`) and an optional one (`sound`), there is one content for
  both, and a call may be cut off at any step.
  *Editions*: two editions make a base to copy from and a slow publisher to overtake;
  two keys make a race, a repetition, or an upload and a change that withdraws what
  it bound. The second edition is changed at most once, by a rewrite or an unbinding;
  restores, whose races are those of changes, and the instance's faults are left to
  the other parts.
  *Store*: with one edition and one caller there is no other bound on uploads, so
  that one binds, a build stores its script and a cleanup comes before, between and
  after them, and content deleted is uploaded again. *Building*: without uploads, a
  claim beside a build in progress, a requeue that fails after a crash, and two
  builds left behind. What leaves workers and uploads apart is that they
  meet only in the store, where *store* has one of each; the proofs have any number.
- *Runtime.* `Effort` counts what a behaviour of the timeline did (connections,
  boundaries, time, failures, operations waiting, samples, a recovery) and
  `Bound` stops it at `MaxEffort`, one less with `update()`: enough for a token
  to be forgotten, recovered and sent again. `MaxViews`, `MaxResyncs`,
  `MaxControllers` cap what is produced; `MaxPending` 2 and `MaxLive` 2 are
  reached.
- *Services.* One context for two owners and one execution slot, so that the
  limits are always contended; two limits of which one refills fast and one
  slowly, up to time 6; a queue of one chunk for two recordings, one long enough
  (`MaxTicks` 5) for every way a chunk ends; three handshakes of two callers on
  room for two.
- *Served.* One lane with a queue of one message. `MaxProduced` gives each kind
  of connection its case: a player's answers among lobby and roster, an admin
  whose connection ends twice over (`MaxEnds` 2), a preview switched between two
  participants.
- *Identity.* Two calls, two users, three tokens: a rotation, its replay and a
  second session. Times are 0 to 1 or 2, with every duration 0, 1 or 2, so that
  everything expires, before and after its neighbour.
- `MaxConns`, `MaxStarts`, `MaxFaults`, `MaxTime`, `MaxSpawns`, `MaxHits`,
  `MaxChanges` and the like only cap counters. Deadlock is not checked where the
  counters run out in states in which the system rightly stops.
- Symmetry is used in safety runs only. Connections are numbered in order of
  arrival and are not symmetric.

### Fairness, and what justifies it

- *Lifecycle.* Transactions end (weak fairness of closing them, since nothing
  in them waits but for locks taken in a fixed order); every instance starts a
  pass at each interval and goes on with it; a judgement waiting for a row
  eventually gets it (strong: Postgres queues waiters). No owner has to commit
  anything.
- *Creation.* Calls go on by themselves; the creator lock and code inserts are
  strong for the same queueing reason; running out of attempts fails the call.
- *Live.* The lane is a loop over a ticker (weak); the boundary tick that finds
  expired graces is strong, since other requests share the lane; a goroutine
  waiting for the lock or for a Start attempt to settle gets it (strong, Go's
  mutex is not starving). Nobody has to play, leave, start or end, and no call
  has to succeed or fail.
- *Served connection.* Each goroutine that can go on does (weak: reader, lanes,
  streams, closer, `serve`, and each loop's write, which returns within its
  timeout whether the client reads or not). Neither the client nor the Runtime
  has to do anything.

## 4. Findings

1. **A Disconnect during a Start attempt can be lost** (`lost_disconnect`;
   `step_attach_player.go:262`). It finds the lobby frozen, releases the lock and
   only then marks the connection ended; the attempt may settle in between and
   keep a player whose Disconnect has come and gone. In a running game they count
   as attached, and no grace ever runs out.
2. **A change can be accepted into a version while it is frozen at an earlier
   revision** (`frozen_revision`; `versiondrafting/internal/repo/publishing.go:35`).
   The freeze checks the revision under the game's lock, which changes do not
   take, and its update asks for the status only. The version is then executable
   with a newest revision it does not run.

Statements of the repository that the models show not to hold, defined in the
modules but in no run:

- `OnlyFinishedGamesAreFinalized` (`SessionLifecycle`; DATA_MODEL.md:238): storing
  the final chunk neither locks nor reads the Session, so a pass that asked for
  the row before it ends as lost a Session whose replay is finalized.
- `ActiveSessionsWithinLimit` (`SessionCreation`; `manager.go:24`): a start that
  read the clock before its lobby expired commits after a creation that no longer
  counted that lobby. `OpenLobbiesWithinLimit` is what holds.
- `OnlyTheGameLetsThemBack` (`LiveSession`; SESSION-ADR-0032:42): `rejoin` does not
  look at the presence again under its lock, so one boundary may execute a stale
  rejoin before the disconnection that then is the last thing the game is told.
- `NobodyPressesForTheAbsent` (`GameTimeline`; `step_sample.go:109`): inputs
  recovered with the game stay pressed for a participant who never came back
  (known: CHECKLIST.md, O1).
- `NoBindingPointsToNothing` (`Publishing`; `step_upload_asset.go:136`): a draft
  created from a published version copies bindings the release did not deliver,
  whose content the cleanup may have deleted.
- `EndedAsPlayDecided` (`Publishing`; `gameauthoring/publish.go:198`): of two calls
  that finish one release, one asks Play before the revision's build succeeded
  and one after; the slow one abandons a release whose version the other has
  frozen, and the edition stays open on an executable version. (The release may
  name a revision of the next edition's version, not built yet, because the
  revision is checked before the edition is read again.)
- `OnePreviewPerGame` (`Previews`; FLOWS.md:331): a replaced preview may still run
  while its replacement starts, or when it began on this instance after its row
  was ended. `PreviewsAreRecorded` is what holds.

Smaller ones met while reading: a build left running need not be one that was
being run when the instance stopped (`step_requeue_interrupted.go:20`), and is
not always requeued at the next start, since a claim, an end or that requeue may
have failed: nobody builds its revision until a start whose requeue succeeds; an
end the Runtime decides is not recorded before the close, so the client's own
close may be logged instead (`RecordedEndsAreReported` is what holds); a
preview's change of participant restarts its SAMPLE numbers under the same
stream; an abandoned StartPreview holds its controller until its preview
expires; a limit lets through what it holds and what comes back, up to about
twice Count within one Per, where its comment says Count; a `rate_limited`
answer may overtake an earlier answer of its lane.

## 5. What is proved

`SessionLifecycleProofs` proves of `SessionLifecycle`, for any sets of Sessions,
owners, passes and revisions and any bounds that satisfy
`SessionLifecycleAssumption` (naturals, positive durations and batch, owners
distinct from passes, and no owner ends a Session as `OWNER_LOST`):

- `TypeCorrect`: `Spec => []TypeOK`;
- `AlwaysRecoverable`, `CodesAlwaysFollow`, `AlwaysEndedWithItsCause`, together
  `DurableStateIsAlwaysSound`, the state invariant of `session_lifecycle`, and
  `LocksAlwaysHold`;
- `OnlyTheOverdueAreReconciled`, `FinishedGamesAreNotLost`: its two action
  properties;
- `Refinement`: `Spec => PromiseKept`.

*The argument.* None of the row invariants is inductive alone: a commit writes
what its transaction read earlier, so whether ending a Session is allowed
depends on `txn[c].seen` still being the row. `LocksHold` says it is, and it is
inductive because `Open` needs the row unlocked and every commit writes only the
row its own transaction holds (`OthersSawOtherRows`, `OpenKeepsLocks`,
`CloseKeepsLocks`). `IInv` is the conjunction of the types, `LocksHold` and the
row invariants; `TypeStep`, `LocksStep` and `RowsStep` show that each action
keeps its part, with one step per action. `CodesFollowTheLobby` needs the clock:
a code is taken over only at or after the lobby's expiry, and time does not go
back. The refinement maps each commit to a step of the promise (`EndIsPromised`,
`SaveIsPromised`) and every other action to a stutter; it uses `LocksHold` to
know that an end applies to the row as it is now, and `RunningIsRecoverable`
to know that a start saves the first checkpoint.

The action properties follow from one step each. `JudgesTheOverdue` needs one
more invariant, `ReadInThePast`: the clock a transaction read is not ahead of
`now`, so a deadline that had passed when the row was locked has passed when the
judgement commits. `LeavesRunning` shows that only an owner's end and a
judgement take a Session out of RUNNING, and that a judgement whose statement
saw the final replay finishes it.

`RuntimeServicesProofs` proves `LimitsAlwaysHold`, `RateSpec => []LimitsHold`, for any
limits, amounts and clock that satisfy `RateAssumption` (each Interval positive
and at most its Per). `LimitsHold` is not inductive: it says nothing of what a
bucket owes. `RateInv` adds that a bucket never owes more than Per beyond the
latest time, and that what an observer saw let through since it began to count
is still owed: `since + taken * Interval <= fullAt`. `AllowStep` shows that what
fits keeps both, `RecordStep` that capping the debt does not forget what was let
through, since the cap is at least what was owed before.

It also proves `LimitsForgetNothingEver`: a key forgotten has buckets that would be
full by now (`KeptAsRemembered`), and full buckets answer as new ones do;
`RoomIsAlwaysGivenBack`: by counting, reservations are exactly the handshakes
between their reservation and its release, per caller; `ContextsAlwaysHold`: the
Host's map, the contexts being spawned and the executions are those of the owners
in each step, and a worker's state is the mirror of what its owner was answered.

`SessionCreationProofs` proves the three safety properties of `session_creation`
(`SessionsAreCreatedOnce`, `CodesAlwaysLeadToTheirLobby`,
`OpenLobbiesStayWithinLimit`), for any finite set of Sessions and any users, keys,
codes, calls and limits. Each is about what was committed and so not inductive: a
call commits what it read several statements earlier. `CreationInv` says what the
locks are for. `CallsAreApart`: no two transactions in flight have the same
request, both counted for one creator, placed the same Session or drew the same
code. `CallsAreCurrent`: a request in flight has no completed answer, a count is
still an upper bound (`active` of the creator; lobbies only expire meanwhile), a
drawn code's holders are the ones it will release. `CodesAreOrdered` is what makes
"the latest assignment" of a code one Session: its assignments are numbered as
they were made.

`IdentityProofs` proves `ConnectionsAreHeldOnce` and `UsersKeepTheirRecords`. `AIInv`
adds that a connection exists exactly when its code was used, and has exactly one
unspent refresh token even after it was revoked, which is what rotation keeps and
revocation does not touch. `RecordsInv` adds that the writer of a User's records
holds that User's row alone, and that what it read under the lock is what is there.

It also proves `SessionsStayEnded` and `CodesOpenOneSession`. `LoginInv`
has a record set for each kind of request in progress, what two of them never
share (a locked row, a token they will write, a User or identity they are making),
and what each read and still holds. The heart is `EndHolds`: an update that counts
no active row it does not hold has every one that there is, because rows appear in
a session only by a rotation that ends the row it holds.

`RuntimeProofs` proves `ControllersAlwaysAgree`, `PreviewsStayRecorded` and the action
property `EndsStayFinal`. `ResolverInv`: the table points to controllers of its
names and every running controller is in it, so that the one found in the table is
the only one that may run, and an ended one has no connections. `PreviewsInv` adds what each
start, attachment and end under way holds of its row and its controller.

`PublishingProofs` proves the four invariants of `publishing`
(`DomainsStayAgreed`, `EveryChangeAppliesOnce`, `NewestAlwaysBuilt`,
`UsedIsAlwaysStored`) and the action property `FrozenStaysFrozen`, for any sources,
versions, keys, callers, workers and number of faults. The properties of what is
published are not inductive: completing a release says that Play runs its version,
which Play said to the caller steps ago. `PublishingInv` adds that a call about to
complete has a release whose version is executable, that releases are of editions,
and that only the last edition is ever open: every earlier one is `PUBLISHED`, and
every `PUBLISHED` one is executable. A version that Play freezes is therefore the
last edition's, whatever release the slow publisher holds, so that pointing the game
at it (`currentVersion`) never turns it back. `QuietStep` disposes of everything
that changes no row of the game; the other steps have a lemma each.

The properties of the drafts need `DraftInv`, on top of it (`DraftInvariant`):

- *the rows* (`DraftsFit`): versions only gain revisions, builds keep their version and
  revision, and what succeeded does not change (`VersionsGrow`, `BuildsGrow`);
- *the keys* (`KeysHold`): a key is of one version's requests, of which one decides at a
  time, and none once one was answered;
- *the revisions* (`RevisionsAreMade`): each but the first was made by one attempt and
  differs from the one before. It is preserved because what a request decides differs
  from the revision it read (`DecidedRevision`, one lemma per kind of request), and it
  commits only if that one is still the newest;
- *the builds* (`RevisionsAreBuilt`): a revision has one build, and only an older
  revision's is superseded;
- *the workers* (`RunningBuildsAreRun`, `RunsHold`): while the instance is up, running
  builds and working workers match one to one, but for the `lost` builds. `RunsHold`
  carries this over a stop: no worker works while it is down, and what is `lost` is
  still running, so that no claim can take it (`WorkerAgrees`);
- *the store* (`StoreHolds`): what is in use is in the store with no cleanup about to take it
  (`Kept`), and what an upload or a build under way registered cannot be taken either
  (`Claimed`). An upload and a build go from the second to the first; the build reused
  by a worker, and the one a freeze checked, were kept before (`EndIsStored`,
  `Checked`). `Keeps` says that a step takes neither away; `StoreSettles` covers the
  steps that change only the store: a cleanup picks what `InUse` excludes, and time
  passes only for what nobody is storing.

`AppliedOnce` also compares what two reads show of a change, `RevisionChanges` and
`DiffRevisions`: one is empty exactly when the other is (`ChangesShow`). `Apply` enters
the proof only as some set of files that differs, or is refused.

`LiveSessionProofs` proves `LiveSessionTyped`, the three invariants of `live_session`
(`LiveSessionPresenceAgrees`, `LiveSessionGamesAgree`, `LiveSessionEndsAreDurable`) and
its action property (`LiveSessionAbandonedOnceTold`), for any finite set of users, any
number of connections and any size of boundary. What a lane step does depends on
what an earlier one read, with the lock released between them, so `LiveInv` is built
in layers, each inductive given the ones before:

1. the lane (`LaneInv`): what it holds at each place, and that an attempt works on a
   lobby it froze, or on a Session ended meanwhile;
2. the connections (`ConnectionsAreOwned`): a user's current connection is theirs and
   was admitted, and nobody admitted is forgotten;
3. the lobby (`LobbyIsConnected`): who is in it is who has a connection;
4. the database (`DurableIsCommitted`): whoever plays here, or is about to, plays with
   the committed roster; `EndsAreDurable`: the lane tells what the database says;
5. the game (`GameIsTold`): a participant counts as disconnected exactly when the game
   was told, or the disconnection waits in the work taken or behind it; of one user
   there wait at most a disconnection and then a rejoin, and a checkpoint, offered,
   written or loaded, is consistent with those it lists as disconnected. A boundary put
   back keeps this because the work goes back before what was accepted meanwhile;
6. presence (`AttachedIsConnected`): a participant counts as attached through an open
   connection;
7. abandonment (`AbandonedIsTold`): once the lane ends a Session as abandoned, its game
   was told of the whole roster, whatever happens until that end is written.

Layers 5 to 7 speak of the users outside `stale`, and 3 and 6 of connections outside
`slipped`, as the invariants do: what holds of the others is the finding below.

`ServedConnectionProofs` proves the three invariants of `served_connection`
(`ServedInOrder`, `ServedIsNotCutShort`, `ServedEndsAreReported`), for any lanes,
participants, queue capacity and amounts produced. `ServedInv` says what each loop
may hold at each place (`LoopsHold`); who may have closed the socket (`EndsAreKnown`);
that the start divides the lobby from the views (`StartDivides`); that of each queue
the numbers sent, held by its loop and waiting are in line and none is beyond what was
produced (`NumbersAgree`); that a preview's view is under the participant told last
(`ActsAsTold`); that past its waits the closer finds the streams done and no lane
writing (`EndComesLast`); and, while nothing cut the connection short, that views
sent, taken and waiting add up to those produced, that the newest lobby and roster are
somewhere on their way, and that a stream is done only once its feed is empty
(`AllDelivered`). `StepMoves` classifies every step by what it does to the streams
(`Calm`, `GivesUp`, `GameMoves`, `Sends`, `Takes`, `RunsDry`, `Starts`, `Follows`,
`CloserMoves`, `Produces`); the last three layers are proved once per class and not
once per loop and place.

*Assumptions.* Each module names its own (`SessionCreationAssumption`,
`CredentialsAssumption`, `TimesAssumption`, `LifetimesAssumption`,
`AIAuthorizationAssumption`, `UserRecordsAssumption`, `KeyedAssumption`,
`AuditAssumption`, `RoomAssumption`, `HostAssumption`, `ResolverAssumption`,
`VersionDraftingAssumption` and those it extends, `AttemptAssumption`, `LiveSessionAssumption`,
`ServedAssumption`, `NamesAssumption`): bounds are naturals, positive
where the code divides or waits by them; what stands for "no row" is not a row;
sets that are counted are finite; a lane is not named as a feed, another loop or an
end; there is a version to create a game with. TLC
evaluates all of them in the runs. TLC also checked every inductive invariant on
its run's instance before it was proved.

*What proving found.* No property failed. Several definitions had `CASE`
alternatives that overlap (`SandboxWorker`, `ControllerResolver`, `LiveSession`,
`SessionLifecycle`, `ServedConnection`): TLC takes the first, TLA+ any. They are
`IF`s now, in the order of the code's conditions, so that the specification says
what TLC checked. Some of the draft definitions took `Nothing` for the answer that
there is no new revision or no build, which a revision or a build could equal; they
test what the code tests, the outcome and whether the row was found.
`ListRevisions` counted revisions the version does not have towards its limit when
asked for those before a later one; the code's query does not.

*Only model-checked.*

- Liveness under fairness (`session_lifecycle_liveness`, `live_session_liveness`, the
  liveness of `session_creation` and `served_connection`): outside what TLAPS proves.
- `CommandsRunOnce`, `ViewersCatchUp`, `InputsAgree`, `ReplaysHold` fold over
  sequences and functions: what such a fold yields for every input needs induction over
  data, which the provers cannot instantiate.

## 6. Not modelled, and why

- *Data formats*: JSON patches, checkpoint encoding, manifests, declarations of
  inputs and commands, the script checker and the deterministic prelude. No
  state; tests reach them.
- *I/O*: object storage, HTTP decoding, OAuth providers, the compiler behind a
  build, logging, metrics, migrations.
- *Reads and single statements*: listings, permission checks, cards, fault
  records, simulations, the signed frontend access.
- *Placeholders*: ownership (one constant owner and epoch), discovery,
  community, profile, session history.
- *Vendored*: `third_party/qjs`.
- In `LiveSession`: device checks, frontend signing, evicted contexts and
  replay recording, which do not change who plays; wall-clock durations (a grace
  may run out at any tick); the heartbeat's lease (in `SessionLifecycle`). Losing
  the checkpoint interval to a newer checkpoint is modelled, its timing is not.
- In `GameTimeline`: who is present (in `LiveSession`) and the time between two
  updates, which is whether one is due.
- In `SandboxWorker`: the engine's memory and time budgets, which are the choice
  that the code traps.
- Postgres itself is taken as: row locks, unique keys and advisory locks
  serialise, a transaction is atomic, each statement sees what was committed
  when it began.

## 7. Plan

Done: the durable Session, its creation and its live controller; a running
game's timeline, views, controllers and previews; the sandbox, limits, audit,
replay and connections around them; drafting, building and publishing; identity.
What would add most next:

1. An abstract specification of a connection's outgoing messages that
   `ServedConnection` implements; one of a command's life for `GameTimeline`.
2. `LiveSession` composed with `GameTimeline`, where a participant's absence and
   their inputs meet (`NobodyPressesForTheAbsent`).
