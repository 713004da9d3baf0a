# mcp-runner in TLA+

mcp-runner is a NestJS service that runs MCP servers in Docker containers: it
creates *deployments* (a Linux user, a bridge network, a container and a row in
SQLite), starts and deletes them over HTTP and on timers, and proxies MCP
sessions (SSE, streamable HTTP) to the server in the container.  This directory
holds TLA+ models of it, TLC runs on small instances and TLAPS proofs.  All
sources named below are under `src/src/`.

## The system

| component | state | operations | hard part |
|---|---|---|---|
| Deployment lifecycle (`services/deployment.service.ts`, `controllers/deployment.controller.ts`) | `isShuttingDown`, two cron locks, two sets of failed ids, the rows a pass has read | `createDeployment`, `partialCleanup`, `cleanupDeployment`, `deleteDeployment`, `updateLastInteraction`, `deleteSchedule`, `pauseSchedule`, `gracefulShutdown` | every handler awaits Docker and child processes, nothing is locked per deployment, any call may fail |
| Container readiness (`services/base-mcp-server.service.ts`) | none of its own | `ensureContainerReady` | races with deletion and pausing; deletes a deployment itself |
| Containers, networks, users (`services/container.service.ts`, `network.service.ts`, `linux-user.service.ts`, `utils/`) | the Docker daemon and the user table | create, start, stop, kill, remove, inspect; create and clean up a network; useradd, id, userdel | which errors are thrown, logged, ignored or hidden |
| Deployment table (`db/`) | one row per deployment | insert, update, delete, find | `status`, `pause_at`, `delete_at` mirror Docker's state and the last interaction |
| Rate limiter (`services/rate-limiter.service.ts`, `guards/api-key.guard.ts`) | a record per client address | `isBlocked`, `recordFailedAttempt`, `clearSuccessfulAttempt`, `cleanup` | three ways a count or a block is reset |
| SSE sessions (`services/sse-mcp-server.service.ts`) | `transports`, `session_to_deployment_id` | `handleSSE`, `handleMessages`, `markSessionsAsActive` | a response closes while the container is being started |
| Streamable HTTP sessions (`services/streamable-http-mcp-server.service.ts`) | the same and `connected_sessions` | `handlePostRequest`, `handleTransportRequest`, `markSessionsAsActive` | several streams per session |
| Message proxies (`mcp-transports/*-proxy.ts`) | `originalIdMap`, handler lists | forward both ways, close | ids rewritten and restored |
| Stdio client (`mcp-transports/stdio-docker-client.ts`) | stream, `started` | start, demultiplex, send, close | frames cut by chunk boundaries |
| Event store (`utils/in-memory-event-store.ts`) | the events | `storeEvent`, `replayEventsAfter` | nothing constructs it |
| Bootstrap, health, types, packaging | none | none | none: left out |

How they interact: the HTTP handlers and the cron jobs call `DeploymentService`;
the MCP handlers first call `ensureContainerReady`, which may call
`deleteDeployment`; all of them share the table and the Docker daemon.  The
session services call `updateLastInteraction` on every message and, once a
second, for every session they believe connected, which is what keeps a
deployment from being paused or deleted.  `ApiKeyGuard` stands before the
deployment controller only and shares nothing with the rest.

What makes each part correct: a deployment is published only when it has all its
artifacts and never gains one afterwards; deletion leaves nothing, or says so;
rows do not come back; a shutdown ends; idle deployments are paused and deleted,
used ones are not; failures are rate-bounded and blocks last; a session in the
tables has a live transport, a closed one is not there, and open SSE streams
keep their deployment awake, within a second whatever the order of the jobs; an
answer reaches the session that asked, once and in the server's order, with an
id that prints like the request's, and over SSE is lost only where a frame is
too long or cut; the messages read from Docker are some of those written, whole.

## Modules

| module | models |
|---|---|
| `DockerHost` | the daemon's containers and networks and the Linux users, one operator per call of the three services, with its effects and answers |
| `DeploymentContract` | the abstract promise about a deployment's artifacts: `fresh`, `provisioning`, `failed`, `listed`, `deleted` |
| `DeploymentService` | `DeploymentService`, its callers, `ensureContainerReady`, the table, the process; extends `DockerHost` |
| `DeploymentServiceProofs`, `DeploymentContractProofs` | theorems about `DeploymentService`; that it implements the contract |
| `MCDeploymentService` | request bodies and symmetry for TLC |
| `Sessions`, `SessionsProofs` | both session services, the start, end and close of the proxies and the stdio client; their theorems |
| `Activity`, `ActivityProofs`, `MCActivity` | the rows' timers, the SSE sessions and the three jobs against a clock; their theorems, their instances |
| `MessageProxy`, `MessageProxyProofs` | both proxies between several sessions and one stdio server; their theorems |
| `AnswerContract` | the abstract promise of the proxies: `asked`, `underway`, `answers`, no ids and no frames |
| `StdioDemux`, `StdioDemuxProofs` | the loop of `processDockerStream` on the stream itself, extending `MessageProxy`; its theorem |
| `MCMessageProxy` | instances of `MessageProxy` and `StdioDemux` |
| `RateLimiter`, `RateLimiterProofs`, `MCRateLimiter` | the guard and the limiter, their theorems, their instances |
| `RecursionLemmas` | no part of the system: induction and recursion, for the proofs |

### DeploymentService

Node runs one callback at a time and better-sqlite3 is synchronous, so an async
function is atomic between two awaited Docker or child-process calls.  A *frame*
is one running invocation.  `pc[f]` names the call it waits on, `target[f]` its
deployment, `warned[f]` whether it has logged an error.  Frames are divided into
creators (`POST`), deleters (`DELETE`), connectors (MCP requests, up to the end
of `ensureContainerReady`), passes of the two cron jobs, and one sweep per
deployment for the shutdown.  A frame whose `pc` is `idle` may start over, so a
set of n frames means at most n of that kind at once, any number in sequence.

One action takes the answer of one call and runs on to the next call, so
`CleanupRemove` is lines 79-87 of `cleanupDeployment`, and `DropRow` for a cron
pass is the `DELETE`, the `catch`, the increment, the skip of failed ids and the
first step of the next `deleteDeployment`.  Exceptions:

- The row writes that follow an answer (`insert`, `markRunning`, `dropRow`,
  `pauseWrite`) have labels of their own, so that a crash can fall before them.
  The event loop allows fewer interleavings than that.
- `cleanupNetwork`'s listing and removal are one step; the second and third
  inspections of `ensureContainerReady` are one step without effects, since they
  decide only the answer.
- `start()` and the `attach()` that `startContainer` awaits next are one step:
  attaching changes nothing on the host, and its error comes after the start took
  effect.
- A failing query in `deleteSchedule` reads nothing and is the same as no tick.
  The query of the shutdown is taken to succeed.

Pulling an image keeps no state of ours and is left out.  Container statuses
`paused`, `restarting`, `removing` and `dead` are never reached by the calls made
here.  Ids, user names and container ids are random and used once, so the host's
tables are indexed by deployment; `minted` and `listed` are history variables.
Time is in the row: `TimeoutElapses` moves a configured timer to the past
(`due`), `updateLastInteraction` moves it back to the future.  `Faults` is the
set of calls that may fail, and of events (`crash`, `signal`, and `removeSocket`,
a removal whose error has no status code) that may occur.

`Restart` is the runner's own `--restart=always` (`README.md:84`): memory is lost, host and table stay.

### RateLimiter

`canActivate` is synchronous, so a request is one step: `Refuse`, `WrongKey` or
`RightKey`.  Each of the last two is the whole guard, `isBlocked` with its reset
(`Checked`) included.  `Cleanup` may run at any time, not only every five
minutes, which only adds behaviours.  `failures` and `block` are history.  The
clock stops at `MaxTime`; the theorems hold for every `MaxTime`.

### Sessions

`request[r]` is an HTTP request of an external client: `ready` while its handler
awaits `ensureContainerReady`, `start` while it awaits the client transport,
`open` while its response is.  `gone` says that the client left during a wait.
What notices that depends on which listeners the handler has registered by then,
which is where this code is delicate: `Leave` says it stage by stage.

`listing` stands for `transports` and `session_to_deployment_id` of both
services, which the code always writes together.  A session is also its
transport; a streamable transport gets its id, and enters the tables, only when
`handleRequest` accepts the initialize request.  `client[s]` is the MCP client
transport: `new`, `started`, `ended` with its container, `closed` by the proxy.
`told` is the set of ids an external client has received; ids are random, so
nobody else names them.  The SDK's part (ids, the one GET stream of a session,
what it refuses) is taken from how the services use it.

After its last await a handler runs to the end in one step: the SDK's
`handleRequest` awaits nothing but resolved promises when the body is parsed.
Messages are not told apart.  A send that rejects is handled by nobody, so
`Rejected` ends the process; with `SENTRY_DSN` set it survives, which is the
other branch.  `quiet` is the set of deployments whose timers run undisturbed;
`ensureContainerReady` and the timers themselves are `DeploymentService`'s.

### Activity

`DeploymentService` abstracts time to `due`; here it is measured.  `row[d]` is
the row's status, `pause_at` and `delete_at`, `stream[s]` an entry of
`session_to_deployment_id` of the SSE service, `nextRun[j]` the time at which a
job's expression `* * * * * *` matches next, `locked` and `fails` the fields of
the same purpose, `queue[p]` what a pass has still to visit of the rows it read.
A clock tick is a fraction of a second (`PerSecond` of them make one); a callback
runs at most `Lateness` ticks after its second begins, which assumes an event
loop that is not blocked for as long as a second.

`Touched` is `updateLastInteraction`; `Interact` calls it for a message over
either transport and for a streamable GET, `MarkSessionsAsActive` once a second
for every SSE session.  `Open` is `handleSSE`, which does not call it.  `Select`
is a pass up to its first row, `DeleteSelected` and `PauseSelected` the end of its
work on one: they take the row out whatever has happened to it since it was read,
as the code does.  Rows are created in `DeploymentService`: `Init` is any table
that earlier processes may have left, and ids do not come back.  `marked` and
`missed` are history.

### MessageProxy and StdioDemux

Every session of a deployment attaches to the same container, so all of their
messages go to one stdin and every attached client reads all of stdout.  A call
is one message of an external client: `Forward` is `onmessage`, which enters
`originalIdMap` and sends with the id `ProxyId`, a pair of session and text,
since the template string makes text of whatever the id was.  `Text` says how an
id prints; 1 and "1" print alike, and a notification's missing id prints as
"undefined".  The server may answer anything that reaches it with an id, which
includes notifications, in any order and two at a time.

`pipe[s]` holds the frames on their way to a session's `StdioDockerClient`; a
frame is the set of calls it answers in full.  `Receive` is `processDockerStream`
for one chunk: the frames it completes are passed on, the rest of it is dropped,
and a chunk that starts within a frame is dropped whole.  That last sentence is
`ChunksGiveWholeFrames`, which runs the loop of the code, `ProcessDockerStream`,
on every chunk of every reachable stream: a chunk that begins where a frame does
gives the frames that end in it, whole and in order, any other gives nothing.
`Iteration` is one turn of the `while`, `Iterations` the loop after each number of
them.  Bytes are grouped in units, a header or a line, because a cut within a unit
acts like one at its edge.  Text read as a header gives a size above 2^27, beyond
any chunk.

`Deliveries` is `client.onmessage` with the SDK's send: SSE sends what the map
knows on its one stream; the streamable transport sends an answer on the response
that waits for its id, once, and rejects it otherwise.  `responses` is the set of
ids it holds a response for.  A closed streamable session still listens, because
`close` of its proxy does not end the SDK's responses.

`AnswerContract` gives every session a server of its own, behind a channel that
may lose answers and does nothing else to them.  `ImplementsAnswerContract` maps
the one shared server to it: `Callers` reads a call's session off the call,
`Underway` are the answers in the pipe of the session that asked (what the same
frames are in the other pipes is invisible there), `Earlier` their order in it,
`SentOn` what has gone out.  What the contract lets a channel lose,
`LostOnlyByCuts` limits: an answer is lost because it is longer than a frame, or in
a chunk that begins within a frame, or, over a streamable transport, because no
response waits for its id or another call of the session has one that prints
alike.  Neither says anything of the order in which the answers of one chunk go
out, since `Receive` sends them as a set; that the loop yields them in the order
of their frames is `ChunksGiveWholeFrames`.

## Runs

| run | instance | shows |
|---|---|---|
| `races` | 1 deployment, 1 creator, deleter and connector, 2 passes of each cron job, all faults but `signal` and `removeSocket` | `TypeOK`, `SilentDeletionIsComplete`, `UnlistedNeverRan`, `OnePassAtATime`, `RowsNeverReturn` |
| `shutdown` | 2 deployments, 2 creators, sweeps, crashes, six faults | `CleanupNeverMeetsProvisioning`, `ImplementsContract`, `ShutdownCompletes` |
| `progress` | 2 deployments, creator, connector, delete pass, fairness | `DueDeploymentsDeleted`, `FailedCreateIsUndone` |
| `rate_limit` | 2 addresses, limit 3, window 2, blocks 2 to 5, 8 ticks | `TypeOK`, `FailureRateBounded`, `BlocksAreServed`, `BlocksDouble` |
| `sessions` | 1 SSE and 1 streamable session, 3 requests at a time, every fault, fairness | `TypeOK`, `SseSessionsFollowStream`, `NamedSessionsAttached`, `ConnectedAreListed`, `ClosedStaysClosed`, `SseStreamsKeepAwake` |
| `messages` | 1 SSE and 1 streamable session, 3 calls, ids 1 and "1" and none, 2 frames on their way | `TypeOK`, `AnswersReachTheirCaller`, `AnsweredAtMostOnce`, `IdsKeepTheirText`, `ChunksGiveWholeFrames`, `LostOnlyByCuts`, `ImplementsAnswerContract` |
| `activity` | 2 deployments, one with both timers of two seconds, one deleted after one second; 1 SSE session, every fault, 3 seconds of 2 ticks, 1 tick late | `TypeOK`, `MarkedNeverDue`, `OverdueAreSelected` |
| five runs below | as small as shows it | one property each, violated |

Why the bounds are enough.  Handlers meet only through a deployment, and those
races need one deployment and one handler of each kind; deletions by a deleter,
a connector and a pass already overlap three deep in `races`.  Two deployments
matter where a loop or a sweep goes from one to the other, and where a creation
runs beside a shutdown: `shutdown` and `progress`.  Two passes per job are what
a lock must keep apart.  Passes are interchangeable and `races` has no liveness,
so `PassSymmetry` is sound.  In `rate_limit` the clock runs long enough for a
base block, a doubled block that meets the cap, and a silence longer than the
window.  In `messages` two sessions meet through the server and two calls
through an id; the third call is a notification, or the answer that shares a
frame.  In `activity` the longer timers outlast a second and the lateness by one
tick, the shorter one does not; the clock runs past the latest second mark of a
session that was marked on time, and a job's tick may be late against any
other's.  Calls are interchangeable, so `CallSymmetry` is sound.  In `sessions`
a session meets its own requests, never another session's: one of each kind and
three requests are an open GET, a POST under way and a DELETE, all of one
session.  `CHECK_DEADLOCK FALSE` in the deployment, session, message and
activity runs: with every id or call used up, every row gone or the clock at its
bound nothing is left to do.

Fairness (`FairSpec`): weak fairness of each creator's, connector's, pass's and
cleanup's own steps, because Docker answers and the event loop runs callbacks;
of the start of each cron pass, because the scheduler ticks every second; of the
exit.  Requests, timeouts, interactions, signals, crashes and a container's own
exit are never promised.  `progress` has no failing `delete`, `query` or
`update`: after one of these the code deliberately gives a deployment up
(`deletionFails`) or leaves the pause lock set.  `Sessions` is fair to the two
jobs only; no external client is expected to do anything.

### Where documentation and code differ

Each of these runs is made so that the shortest behaviour is the one described: in
`deleted_leaves_artifacts` and `started_never_paused` deployments are created with
`autoStart` false, so that only a request can start them (the start that
`createDeployment` itself makes, `deployment.service.ts:236-243`, may fall between
stop and remove as well); in `frames_cut` at most one frame is on its way, so that
no answer is longer than a frame.

| run | statement | what happens |
|---|---|---|
| `deleted_leaves_artifacts` | `README.md:51` complete cleanup upon deletion | a request starts the container between stop and remove; the removal is refused, only logged, and the row goes |
| `started_never_paused` | `schema/deployment.ts:57` pauses after inactivity | a start by a request leaves `status` at `stopped`, which `pauseSchedule` filters out |
| `used_deployment_deleted` | `deployment.controller.types.ts:302` deletes after inactivity | opening an SSE session does not push the timers back, and a pass deletes what it has read however it is used since |
| `open_stream_unmarked` | `streamable-http-mcp-server.service.ts:213` marks deployments with active sessions | the end of any POST response takes the session out of `connected_sessions` while its GET stream is open |
| `frames_cut` | `sse-server-transport-proxy.ts:60` forwards what the server sends | a chunk that ends within a frame loses that frame and the chunk with the rest of it |

Others that the models show, without a run of their own: any error of `inspect`
deletes the deployment under the message "Container with ID ... not found"
(`base-mcp-server.service.ts:68`, action `Inspect`); a client that leaves before
its container is ready leaves its SSE session in the table, and its deployment
awake, for good (`sse-mcp-server.service.ts:93`, action `Leave`); the cleanup job
drops a block's count, which comments say is kept
(`rate-limiter.service.ts:30,54,85`, action `Cleanup`); of 1 and "1" in one
session `originalIdMap` keeps the later, although it "helps prevent number /
string confusion" (`sse-server-transport-proxy.ts:49`, action `Forward`; what it
does keep is `IdsKeepTheirText`); an answer longer than one of the daemon's frames
is parsed piece by piece and lost, however the chunks fall
(`stdio-docker-client.ts:55-65`, action `ServerWritesLong`).  One more is visible without a model: the
update of `stderr` in `container.service.ts:181` is built and never executed, so
the column, which "we wil update [...] as it comes in from the process"
(`schema/deployment.ts:48`), stays empty.

## Proofs

Every theorem is for all values of the constants that the named assumptions
allow: `ConstantsAssumption` of `DeploymentService` (`None` is no deployment, the
frame sets are disjoint, bodies are records) and of `Sessions` (the two kinds of
ids are disjoint, `None` is neither), of `MessageProxy` (likewise, and `Text` is a
function) and of `Activity` (timers are naturals, a second at least one tick, the
lateness less than a second), and `ConstantsAssumption` and `NoneAssumption` of
`RateLimiter` (limits are naturals, the limit at least 2, the base block positive
and at most the maximum).

`DeploymentServiceProofs`:

- `TypeCorrect`: `TypeOK` is inductive.
- `ProvisioningIsExclusive`: `CleanupNeverMeetsProvisioning` is not inductive,
  because it does not say why a deleter cannot be holding a deployment a creator
  is about to take.  The invariant `Ownership` says it: a frame in a provisioning
  step is a creator, owns a minted, unlisted id, and shares it with nobody; a
  frame in any other step has a listed one; every row is listed, every listed id
  minted.
- `DeletedStaysDeleted` and `NothingRunsUnrecorded` follow from `Ownership`, since
  only `InsertDeployment` makes a row and only frames on listed deployments start
  a container.
- `SilentDeletionsAreComplete`, for `Faults` without `removeSocket`: what a listed
  deployment has lost never comes back (`ListedNeverReborn`), so what one cleanup
  has seen gone stays gone while the others go on.
- `PassesNeverOverlap`: a pass under way holds its lock (`Locks`).

`RateLimiterProofs`:

- `TypeCorrect`, with `FullMeansBlocked`: a record is at the limit exactly when it
  has a block, so a running count is always below it.
- `BlocksHold`, with `BlocksKept`: the record still has the block last imposed, so
  the address is refused and the cleanup job leaves the record alone.
- `FailuresAreRateBounded`, with `Matches`: a record counts the last failures, and
  a quiet time (a window, or a base block) lies before the first it counts, or
  before the next failure when there is no record.
- `EachBlockDoubles`, with `BlocksCounted`: while a record counts blocks, the last
  one imposed has the length that its count gives.  That one more block is twice as
  long, up to the maximum, is a fact about `Pow2`, a recursive function, and
  rests on `RecursionLemmas`.

`SessionsProofs`:

- `TypeCorrect`: `TypeOK` ties kind, stage and session of a request together,
  without which it would not be inductive.
- `SseSessionsFollow`, `NamedAreAttached`, `ConnectedListed`, `ClosedForGood`: one
  invariant, `Inv`.  `SseSessionsFollowStream` alone does not say why a starting
  request may not revive a closed session, or why only one response serves one;
  `Attached` (a session being set up has a new transport, a named one does not),
  `Alone` (one request sets up or streams a session) and `Lives` (a session
  without a transport, or with a closed one, is in no table) do.

`DeploymentContractProofs`:

- `KeepsContract`: `DeploymentService` implements `DeploymentContract` under the
  refinement mapping of `ImplementsContract`.  Initial states map to initial
  states; of each action it says which step of the contract it is, or that it is
  a stutter.  It rests on `Ownership`: only there is it said that a frame that
  gives a deployment an artifact is the creator that provisions it.

`MessageProxyProofs`:

- `TypeCorrect`, then `OwnAnswersOnly` (an entry of a session's map has that
  session's prefix, so a session restores only its own calls), `NoSecondAnswer`
  (an unanswered call has never been delivered, and one that is on its way is in
  one frame of each pipe) and `SameText` (the entry of a proxy id is an id that
  prints as it does).
- `OnlyCutsLose`, with `MapsHold`: an `originalIdMap` gives for each call's proxy id
  the id of that call, or of another call of the session with the same text.  So an
  answer that comes out of the pipe is restored, and only the conditions that
  `LostOnlyByCuts` names keep it from going out.
- `KeepsAnswerContract`: `MessageProxy` implements `AnswerContract`, action by
  action.  A chunk for one session is a stutter to all others.  `OnePlace` is what
  the order needs: an answer under way has one place in each pipe, so that
  the prefix a chunk takes is a prefix for the session's own answers too.

`RecursionLemmas`: the library's induction theorems take an operator as a
parameter, which the installed provers cannot instantiate.  Its own lemmas take
sets and functions instead: a set of naturals with 0 and all successors is `Nat`
(from the well-foundedness of `<`), a function defined by its values at smaller
arguments exists and satisfies its equations, and so does `FlattenSeq`.

`StdioDemuxProofs`:

- `WholeFramesOnly`: `ChunksGiveWholeFrames` in every reachable state.  A stream
  has a header exactly at the borders of its frames, with the size up to the
  next (`Laid`); from a border, the loop stands at a border again after every
  iteration, having given the frames between, and has moved at least a unit each
  time unless the next frame does not fit (`LoopAt`); at any other unit it
  breaks at once.  That frames are finite sets of calls, which `SetToSeq` needs,
  is an invariant too (`PipesHoldFrames`).

`ActivityProofs`:

- `OpenSessionsKeepAlive` from `OnTime` (no job is early, or later than the
  lateness) and `MarkedSince` (the times of a marked session's row are at least
  its timers after the last run of the job).  `MarkedNeverDue` alone says nothing
  of how far away a time is, so a tick could break it.
- `NothingOverdueIsSkipped` from `OnTime` and `SelectedWhenDue` (what was due when
  its pass last ran was selected, or the pass missed it).

Model-checked only: the four liveness properties, `DueDeploymentsDeleted`,
`FailedCreateIsUndone`, `ShutdownCompletes` and `SseStreamsKeepAwake`, because the
prover reasons neither about fairness nor about `ENABLED`.  Every invariant, every
action property and both refinements that the passing runs check are proved.

## Not modelled

Image pulls, sandbox options, resource limits.  The capture of stderr, from
which no state follows (see above).  What requests are answered.  The shutdown's
own query failing.  `useradd` or `userdel` missing on the machine.  Client
transports of deployments that are not stdio: the SDK's.  Batches of messages
(the schema of an SSE body refuses them); requests and notifications of the
server itself, which the proxies drop; a chunk that begins within a header or
text and reads there, by chance, a size that fits: it is taken to yield
nothing.  `InMemoryEventStore`: nothing constructs it.  An update of the last
interaction that fails outside the cron jobs.  Bootstrap, health, Swagger types,
packaging.

## Plan

What is left that could be modelled: two requests that start one container at the
same time, with the answers they get; a GET stream taken by a client that has
left; the creation of rows in `Activity`, whose `pause_at` may have passed when
the container is up.

Checking: `tlc -workers 2 -config X.cfg M` and `tlapm M.tla` in this directory.
