# DockerLedger: TLA+ models and proofs

DockerLedger is a Go backend with a React frontend. The backend collects the logs of all Docker
containers into Postgres, streams live logs, summarises logs with a language model, and runs
WakeProxy, a reverse proxy that starts a container when a request for its host arrives and stops it
when it is idle. This directory holds TLA+ models of the parts of the backend that run
concurrently, TLC configurations that check them on small instances, and proofs that TLAPS checks
for every value of the constants.

Source paths below are relative to `src/`; `collector.go`, `service.go`, `handler.go`, `manager.go`
and `admin.go` are the files under `backend/internal/collector` and `backend/internal/wakeproxy`.

## 1. Inventory

| Component | Source | State | Operations | What is hard |
|---|---|---|---|---|
| Collector: following | `collector.go` 46-52, 135-243; `services/log_service.go`; `containers_repository.go` | `cancelFuncs`, the rows of `containers`, one follower goroutine per container | list, attach, watch events, follower exit | containers start and stop at any time; the list and the event stream are two calls; check and registration are two critical sections; every call may fail |
| Collector: writing | `collector.go` 55-132, 160-176, 277-297; `logs_repository.go` 25-47 | `batchCh`, `batch`, inserts in flight, `batchDone` | queue, cut a batch, tick, drain, shut down | background inserts nobody waits for; drain against live producers; the deadlines of the shutdown |
| Collector: retention | `collector.go` 245-275 | none | delete old rows on a timer | runs against inserts, searches and summaries |
| WakeProxy service | `service.go` | `state`, `active`, `containerID`, `targetURL`, `idleTimer`, `mu`, `cond`, `activeMu` | AwaitReady, startupSequence, resetIdleTimer, RecordActivity, SetActive | a condition variable, fields read and written without the lock, a timer callback that races requests, Docker calls in detached goroutines |
| WakeProxy request path | `handler.go` | `proxyMap` under an RWMutex | ServeHTTP, getProxy | lock order with the service's mutex; a cache that is never invalidated |
| WakeProxy registry and admin API | `manager.go`, `admin.go` | `services`, `hostIndex` under an RWMutex | NewManager, AddService, List, activate, deactivate | map reads without the lock; duplicate names and hosts |
| Process start and shutdown | `cmd/api/main.go` | the root context, two servers | signal, server shutdown, collector shutdown, exit | the order and the deadlines |
| Log stream decoding | `services/log_service.go` 24-70, 161-208 | one buffer per stream | decode frames, scan lines | frames cut by reads, lines longer than the scanner's buffer |
| WebSocket live logs | `internal/websocket` | one channel and one goroutine per container | fan-in, teardown, decodeLogChunk | teardown with blocked senders; frames cut by reads |
| Log store | `internal/storage`, `internal/database` | two tables | insert, search, stats, upsert, delete | rows joined by container; two containers of one name |
| AI summaries | `services/ai_service.go`, `handlers/ai_handler.go` | none | select, order and cut log lines; call the provider | limits and ordering of the prompt; two queries with writes between them; a provider that is silent |
| HTTP handlers, metrics, middleware | `cmd/api/main.go` 84-150, `internal/handlers`, `internal/middleware`, services behind them | none | find the handler, take the id from the path, translate requests to calls | paths told apart by prefixes and suffixes |
| Docker client, configuration, telemetry | `internal/docker`, `internal/config`, `internal/telemetry` | singletons | set-up | nothing stateful |
| Frontend log viewer | `frontend/src/components/LogViewer.jsx` | socket, reconnection timer, pause buffer, alert counters | connect, reconnect, pause, alert | events of an old socket after a switch |
| Frontend pages | `frontend/src/App.jsx`, `pages`, other components | fetched lists | fetch and render | late answers |

How they interact. `main` starts the collector, the API server and the WakeProxy server with one
context. The collector reads the Docker event stream and one log stream per container, and hands
lines to the writer through `batchCh`; the writer hands batches to Postgres. The API server reads
Postgres and Docker. The WakeProxy server looks a service up by host, waits on its condition
variable, and goroutines of the service call Docker. On a signal `main` cancels the context, shuts
both servers down and waits for the writer's `batchDone`.

What makes each part correct:

* Following: one follower per container; a key in `cancelFuncs` exactly as long as it is of use; a
  row before the first line; every running container followed; nothing left after cancellation.
* Writing: every queued line stored once, whatever the cut of the batches; what was buffered at
  the signal stored before the process ends; the process ends.
* WakeProxy: one start at a time; no request asleep while the service runs; a request passes only
  to a running container at its present address; no mutex held for good. A registered host leads to
  the service registered for it, also while services are created.
* Live logs: the text a container writes is what clients see, in order, wherever reads and payloads
  cut it; every goroutine ends with its stream or its client; no send on a closed channel.
* Searches and summaries: a summary is of the container asked for, its newest lines; limits hold; the
  prompt holds the worst lines.

The hazards, each at its line and with the properties that would catch it, are in `PROJECT.json`.

## 2. Plan

Modules, the most important behaviour first; all of these are done.

1. `ContainerFollow`, `ContainerFollowProofs`: following.
2. `LogDelivery` (abstract), `BatchWriter` (detailed), `BatchWriterProofs`: writing and shutdown.
3. `ServiceLifecycle` (abstract), `WakeService` (detailed), `WakeServiceProofs`: one WakeProxy
   service with its request path and Docker calls.
4. `WakeRegistry`, `WakeRegistryProofs`: names, hosts, creations and the unlocked reads.
5. `MultiLogStream`, `MultiLogStreamProofs`: the fan-in of all live logs and its teardown.
6. `ApiRoutes`, `LiveStream`, `LiveStreamProofs`: from a path to a handler, and from Docker's frames to
   text, for the three decoders.
7. `LogStore`, `AiSummary`, `AiSummaryProofs`: the tables, their queries and retention; searches and
   summaries over them.
8. `DataInduction`: facts about folds, recursive functions and sequences that the proofs share.

What could be added: the frontend's log viewer (socket, reconnection timer and pause buffer, with the
late close event of an old socket); `ContainerFollow` and `BatchWriter` composed, so that a stored
line has a row and not only a followed container.

## 3. The modules and the code

### ContainerFollow

One goroutine attaches: `Start` (46-52) lists the running containers, attaches to each and then
calls `watchEvents`, which attaches to what the events report. The two never overlap, so they share
one program counter `pc`. `attachToContainer` is three actions, because its critical section
(`Register`), the upsert and the opening of the stream interleave with followers and with Docker.

| Model | Code |
|---|---|
| `pc`, `todo`, `cur` | position of the attaching goroutine, the rest of the list, the container attached to |
| `cancelFuncs`, `rows` | the map's keys; the containers table |
| `live[c]`, `eof[c]` | followers of `c` on an open stream; followers whose `range logChan` is over |
| `events`, `subscribed` | start events on their way; the event stream is open |
| `ListRunning`, `AttachNext` | `GetAllRunningContainers`, the loop of `attachToAllRunning` |
| `Register`, `Upsert`, `Follow` | 138-140, 142-145, 147-183 of `attachToContainer` |
| `Subscribe`, `WatchEvent`, `WatchError`, `WatchStop` | `watchEvents` |
| `FollowerExit`, `FollowerQuit` | the two ends of a follower: stream over (key dropped), `ctx.Done` (key kept) |
| `DockerStart`, `DockerStop`, `StreamBreak`, `StreamCancelled` | Docker and the log streams |

Abstractions. Lines are not here (they are `BatchWriter`'s). Every call may fail; `failed` records which have.
A start event reaches only an open stream. A restart is a stop and a start: the container keeps its
id, as Docker's restart does. `Tail: "0"` means that a stream opened on a stopped container is at its
end. The per-container cancel functions stored in the map are never called by the code, so only keys
matter. The error returns of `watchEvents` before its loop need a Docker client that cannot be made,
in which case `main` has already ended.

### LogDelivery and BatchWriter

`LogDelivery` says what the write path promises: lines are accepted in order, batches are cut from those
that wait, the oldest of each follower first, each batch is answered once and as a whole, so that each
of its lines has one row of the table or none, and nothing changes after the process has ended.
`BatchWriter` is the code. The table of `LogDelivery` counts the rows of each line, and its batches are the
very batches in the hands of an insert of `BatchWriter` (`Inserting`): a batch inserted twice, or in part,
is no step of it.

| Model | Code |
|---|---|
| `batchCh`, `batch`, `syncInsert`, `inflight` | channel, the writer's slice, its own insert, the goroutines of `go insert` |
| `wpc` | select loop, drain loop, its two inserts, before and after `close(batchDone)` |
| `stored`, `dropped` | rows of `log_entries`; lines of refused batches, which the code only logs |
| `mpc`, `clean` | position of `main`; whether `Shutdown` returned nil |
| `promised` | history: what was buffered at the cancellation |
| `FollowerSend`, `FollowerQuit` | the select of 171-176 |
| `WriterRecv`, `WriterTick`, `WriterCancelled` | the select of 90-109 |
| `WriterDrain`, `WriterDrained`, `WriterInsert`, `SignalDone` | 109-132 |
| `AsyncInsert` | `go insert(entries)`, 87 |
| `CtxCancel`, `MainSignalled`, `ServersDown`, `Shutdown`, `Exit` | the end of `main` |

`FlushAsync` copies and clears in one action because only the writer touches `batch`. A batch in
`inflight` is identified by its lines, which are unique. `BatchInsertLogs` is one transaction: all or
nothing. The insert's ten-second timeout is a refused insert. `Exit` is the end of the process:
every action of a goroutine needs `alive`.

### ServiceLifecycle and WakeService

`ServiceLifecycle` is the promise: one start at a time from Stopped, ending in Running or Stopped;
requests pass only while Running. `WakeService` is one `ManagedService` with its requests.

| Model | Code |
|---|---|
| `state`, `active`, `hasID`, `target`, `armed` | the fields of `ManagedService` |
| `mu` | the goroutine that keeps `s.mu` across steps |
| `hMu`, `proxy` | `ProxyHandler.mu` held for writing; the cached reverse proxy |
| `pc[r]`, `cancelled` | a request in ServeHTTP, AwaitReady, getProxy, RecordActivity; its context |
| `gpc[g]` | a `startupSequence` goroutine |
| `fired`, `stops` | callbacks of the timer, goroutines that stop the container |
| `up`, `addr` | the container |
| `AwaitReady`, `Wake`, `LookupProxy`, `LockProxies`, `BuildProxy`, `RecordActivity`, `Forward` | a request, in order |
| `StartupBegin`, `Inspect`, `Start`, `GetTarget`, `MarkRunning`, `Revert`, `Cleanup`, `ResetIdleTimer` | a startup, in order |
| `TimerFires`, `IdleTimeout`, `StopService`, `SetActive`, `Outside` | timer, detached stops, admin, Docker behind WakeProxy's back |

Locks. A section under `s.mu` is one action guarded by `mu = NoOne`, except `RecordActivity`, which
calls `resetIdleTimer` with the mutex held: the request then keeps `mu` for good. `activeMu` guards
reads and writes of one boolean. `SetActive` reads `state` without `s.mu`, and the startup writes
`targetURL` and `containerID` without it; such an access reads or writes the whole word current at
that step (the Go memory model gives no torn words for these sizes; `targetURL` is a string, and a
request reads it only after `state` was set to Running under `s.mu`, in a later start only to find
a present or earlier value). The two seconds before `GetContainerTarget` are an interleaving point.
Docker failures and a container that stops by itself are in `Faults`.

### WakeRegistry

The maps of `Manager` with its RWMutex, and any number of requests to the admin API and the proxy.
`Init` is `NewManager` over any configuration of up to `MaxConfigured` services.

| Model | Code |
|---|---|
| `services`, `hostIndex`, `inactive` | the two maps; services whose `active` is false |
| `readers`, `writer` | who holds `Manager.mu`; `MayRead` lets a waiting writer go first, as Go does |
| `Validate`, `Lock`, `Check`, `Write` | `createService` and `AddService`, in order |
| `RLock`, `Read` | `GetServiceForHost` and `List` |
| `Toggle` | `activate` and `deactivate`: the map is read without the lock |
| `Abort` | the runtime's abort when a read meets a write of a map, which it may or may not notice |

`createService` stores the name as its default, the host, only after the check of the fields; container,
port and network are one flag. What `SetActive` does to the container is `WakeService`'s. A configured
service has a name and a host (the loader of the configuration checks neither).

### MultiLogStream

One client of `/logs/live` with all goroutines of its handler.

| Model | Code |
|---|---|
| `hpc`, `todo`, `sending` | `multi_log.go` 20-81; the line `WriteMessage` is writing |
| `connUp`, `stalled` | the client: `connUp = FALSE`: the next write fails; `stalled`: it is connected and its socket takes no more |
| `reader`, `read`, `output` | the goroutine of `FollowContainerLogs`, its position, its channel of 100 |
| `fan`, `hold`, `merged` | the fan-in goroutine per container, the line it holds, the shared channel of 200 |
| `closer` | the goroutine that waits for all fan-ins and closes `merged` |
| `List`, `FollowContainer`, `StartCloser`, `TakeMessage`, `WriteMessage`, `MergedEnds` | the handler |
| `ScanLine`, `PutLine`, `StreamEnds`, `ReaderCancelled` | the reader |
| `Receive`, `Merge`, `FanCancelled`, `OutputEnds`, `CloseMerged` | fan-in and closing goroutine |

The deferred cancels are `Cancelled`, a consequence of the handler's return. A client that goes changes
nothing by itself: the handler reads nothing from the connection. A client that stays and stops reading
blocks `WriteMessage`, which has no deadline (`main.go` 153-157), until it reads again or its connection
breaks (`ClientStalls`, `ClientGoes`).

### ApiRoutes and LiveStream

`ApiRoutes` has the paths as sequences of segments: `Route` is `http.ServeMux` with the patterns of
`main.go`, `ContainersRoute` the chain of tests below `/containers/`, `IdOf` and `Status` what the
handlers take from a path and answer. `IdsAssumption` says that no container has an empty id.
`LiveStream` has one stream of one container, as bytes with
headers, cut after any prefix and ending orderly or not, and one of three readers of it.

| Model | Code |
|---|---|
| `wire`, `intact`, `pos` | the response body, and how far it is read |
| `decodeDockerLogs`, `decodeLogChunk` | `log_service.go` 24-60 and `websocket/handler.go` 112-152, as recursive functions of the position |
| `Request`, `status`, `view` | a request, its status or close code, what the client was sent |
| `ReadChunk`, `ReadEnds`, `ClientGone` | the loop of `ServeHTTP`; a read may have any size |
| `sending`, `stalled`, `Sent`, `TakerStalls` | `WriteMessage` of the live view, or the send to the output channel: begun, returned; the client, or the receiver of the channel, takes nothing |
| `dbuf`, `sbuf`, `lines` | `multiplexedDecoder.buf`, the scanner's buffer, the lines it returned |
| `ScanLine`, `ServeLeftover`, `ReadFrame`, `ReadFails`, `TooLong` | `bufio.Scanner` over `multiplexedDecoder.Read` |

A byte is a natural number: only headers have 0 to 2, and text is at least 7, as it is in logs. A header
is `HeaderLen` bytes with the length in the last one. The scanner reads into its buffer in steps of any
size up to `MaxToken`, which covers its doubling; as `bufio.ScanLines` does, it drops one carriage return from
the end of a line (`DropCR`). `cutHeader` and `cutFrame` record how reads fell; the
decoders do not see them. A container with a terminal (`tty`) sends text without headers: only the live
view has a case for it, and what the other two decoders make of such a stream is not claimed.

### LogStore and AiSummary

`LogStore` has the two tables, their writers (`Upsert`, `InsertLog`, `Retention`, time) and the queries as
sets of possible answers, since SQL leaves the order of rows of one time open. A message is the words
the program looks for in it, at least one, and its length. `AiSummary` adds one request at a time:
`Arrive` has the handlers' checks and the beginning of the time range, which the code computes before its
queries, `Query`, `LookUp` and `Fetch` the statements (two for a container, so the store may change
between them; `namesakes` remembers who had the name at the first), `BuildPrompt` both prompts with
`Severity`, `GroupsOf`, `Ranked` and `Prepared` for `prepareLogsForPrompt`, `CallReturns` and `CallTimesOut` the provider. `sort.Slice` is not
stable and sorts the values of a map, so any order the comparison allows is a result. The store rests
once the last query of a request has been answered: nothing reads it afterwards.

## 4. Runs

| Run | Checks | Shows |
|---|---|---|
| `follow` | `TypeOK`, `OneFollower`, `FollowedHasRow`, `KeysMatchFollowers`, `LostOnlyInTwoWays`, `CancelStopsAll`, `AttachedGetsFollowed` | with every call failing at will: one follower per container, rows before lines and a key for exactly the followed containers until the call they depend on fails, exactly two ways to miss a container while nothing fails, attachments end with a follower, cancellation ends everything |
| `batch` | `TypeOK`, `ExactlyOnePlace`, `DrainKeepsPromise`, `DeliversLines`, `EventuallyStored`, `ShutdownEnds` | no line lost or doubled, the drain is complete, `LogDelivery` is implemented, lines arrive, a signal ends the process |
| `batch_exit` | `CleanExitStoresAll`, violated | a clean shutdown can lose lines held by a background insert |
| `multi_stream` | `TypeOK`, `NoSendOnClosed`, `LinesInOrder`, `ReturnEndsAll`, `HandlerReturns` | through two full channels every line arrives once and in order; no send on the closed channel; the teardown is complete, and starts when the streams end or a line finds the client gone, unless a connected client stops reading for good |
| `wake_lifecycle` | `TypeOK`, `StartsOnce`, `NoLostWakeup`, `TargetKnown`, `DeadlockStaysLocal`, `ImplementsLifecycle`, `StartEnds` | the life cycle under every failure, and where the deadlock below cannot spread to |
| `registry` | `TypeOK`, `HostsLeadToServices`, `CreatedIsServed`, `OnlyTogglesRace`, `EveryRequestAnswered` | hosts lead to services, simultaneous creations respect each other, and the two unlocked reads are the only ones to meet a write |
| `live_stream` | `TypeOK`, `DocumentedPathsWork`, `FetchIsExact`, `LiveViewKeepsText`, `LinesAreExact`, `ReadersEnd` | documented paths reach their handlers, except for a container called stats or by a name that begins with logs; the decoders return what the container wrote, lines without their carriage returns, the live view as long as no read cuts a header; readers end with their streams unless who takes the text stops for good |
| `summary` | `TypeOK`, `SummaryOfOneContainer`, `FetchIsBounded`, `PromptKeepsWorst` | whatever is renamed between its two queries, the summary of a container is of the newest lines of one container that had the name; a negative limit is the only way past the limits; the prompt holds the worst lines |
| `wake_deadlock` | `RecordActivityReturns`, violated | RecordActivity locks the mutex it holds |
| `wake_stranded` | `WaitersShareStartup`, violated | after a failed start requests wait with nothing to wait for |
| `wake_ready` | `AwaitReadyMeansUp`, violated | deactivation leaves the state Running over a stopped container |
| `wake_address` | `ProxiesToContainer`, violated | the cached proxy keeps the address of an earlier start |

The five violated properties state what a README line, a comment or a test of the repository says;
`PROJECT.json` quotes it. Every property of a passing run has a mutant, an operator beside the
definition it changes (commented "Mutant:"), that breaks it.

Bounds, and why they are enough.

* `follow`: two containers and three starts: one container can start, stop and start again twice
  over while the other is being attached. The goroutines of different containers share only
  `cancelFuncs` and the attaching goroutine. The safety invariants are also proved without bounds.
* `batch`: two followers of two lines; `BatchCap` is 2 for 1000 and `ChanCap` 1 for 10000, so the
  channel fills and blocks, a batch is cut at the cap, below it by a tick, and in the drain both at
  the cap and at the end, with several inserts in flight. `batch_exit` needs one line each. The safety
  properties and the refinement are also proved without bounds.
* WakeProxy service: two requests and two startups: one request waits while another starts the service,
  and a second start can overlap the clean-up of the first. `MaxAdmin` 2 allows deactivation and
  reactivation. A second address matters to `wake_address` only; the proofs have any number.
  `AwaitReady` needs a fresh startup goroutine, so the bound cuts behaviours after `Startups` starts.
* `registry`: two requests of every kind and all configurations of two services over three names, two of
  them hosts: two creations can share a name, a host, or the one's name with the other's host; a lock
  is contended by a reader and a writer. A race needs two.
* `multi_stream`: two containers of three lines and channels of one: every send of every goroutine can
  block, with a line in each place on the way.
* `live_stream`: up to two frames with texts of zero to three bytes and headers of three. A text of one or
  two bytes makes a length that looks like a stream type, a line of four bytes exceeds the scanner's
  `MaxToken` of 3, lines end inside payloads and begin and go on in the next, a carriage return comes alone,
  at the end of a line, at the end of the stream and inside a line, and reads of every size cut every byte of
  a header. Two frames suffice for what is carried over from one frame, or read, to the next. The four
  identifiers are an ordinary one and those the routes confuse. The safety properties are also proved
  without bounds.
* `summary`: three rows, two containers, two names, two messages and two ticks: a name can move from one
  container to the other or be in both, three rows exceed every limit, retention removes some rows, and
  four groups of lines compete for a budget one group alone can exceed.

Deadlock checking is off: the bounded models end (all lines sent, all starts used, the process gone,
the request answered), and the real deadlock is stated as a property, `RecordActivityReturns`.

Fairness, and why the code justifies it.

* A runnable goroutine runs (Go's scheduler): weak fairness of the attaching goroutine, followers,
  writer, requests, startups, callbacks, `main`, and the goroutines of a live stream.
* The ticker ticks, an insert ends within its ten-second context, `main`'s waits have deadlines,
  Docker calls return, an armed timer fires, and a cancelled context ends the streams under it.
* Nothing is assumed of containers, clients, administrators, failures, or of a follower
  whose container is silent: in `BatchWriter` followers have no fairness, in `MultiLogStream` scanning a
  line has none. A client that stalls, or a full output channel, blocks a write or a send for as long as
  it likes, also for good. `HandlerReturns` and `ReadersEnd` are therefore claimed under `<>[]~stalled`, that
  is of clients and receivers that do not stall for good; a connection that breaks ends a stall. Nothing
  in the code ends it otherwise, so such a client keeps its handler, goroutines and Docker streams.

## 5. Proofs

Eight modules are checked by tlapm to the last leaf, from the assumptions on constants in the modules
alone. Every safety property that a passing run checks, and both refinements, are proved for any values of
the constants. Each proof follows the same argument: type correctness is inductive by itself, and a
strengthening of the wanted invariants is inductive with it.

* `FollowInv` (theorem `FollowInvariant`): followed containers have keys and one follower each;
  listed containers not reached yet are followed by nobody; the container between `Register` and
  `Follow` is followed by nobody and has its key; the list is used up before the event stream is
  open. `OneFollower` alone is not inductive, because `Follow` adds a follower without looking: what
  makes that sound is that `watchEvents` looked before and that only this goroutine attaches. From
  it: `AtMostOneFollower`, `FollowersHaveKeys`.
* `RowInv` adds that, until an `Upsert` fails, the container about to be followed has its row already,
  unless the cancelled context keeps its stream from opening: `FollowedContainersHaveRows`.
  `KeysAreLive`, which speaks of the time until `FollowContainerLogs` fails, is inductive with the
  types: `KeysBelongToFollowers`. With `FollowersHaveKeys` it is `KeysAreExact`.
* `LossesAreOfTwoKinds` is about steps: only a container's start and the drop of an event lose sight of
  it, and the types with `KeysAreLive` leave each one way. A start is lost before the event stream is open,
  an event when the key is there of a follower whose stream is over (`TwoWays`, `QueuedEvents`).
* `DrainInv` (theorem `DrainInvariant`): only lines already queued are buffered or promised, so a line
  a follower queues during the drain is never one of the promised; the writer leaves its select loop
  only after the cancellation; nothing is in its hands between two inserts. From it:
  `DrainIsComplete`. The lemmas `AppendElements`, `HeadTail` and `Elements` say what the channel's
  operations do to the set of its lines.
* `PlaceInv` (theorem `PlaceInvariant`) is `ExactlyOnePlace` as a sum of natural numbers, with two facts it
  is not inductive without: the inserts in flight are finitely many, so starting or ending one counts
  once, and no insert is empty, so a new batch, whose lines are nowhere else, differs from every one in
  flight. The lemmas `OccurrencesAppend`, `OccurrencesTail`, `CarryingGrows`, `HandOver` and
  `InsertCounts` say what each kind of move does to the sum. From it: `NothingLostOrDoubled`.
* `DeliveryIsImplemented`: each step of `BatchWriter` is a step of `LogDelivery` or a stutter. Two kinds of
  step count. Handing a batch to an insert is a cut (`HandingOverIsCut`): by `PlaceInv` its lines are in no
  other place; batch and channel hold all lines that wait (`WaitingLines`), the channel a follower's lines in
  order and the batch only older ones (`OrderInv`, theorem `OrderInvariant`), so none overtakes an older
  line; and by `ElementsAreFew` they are at most `BatchCap`. The end of an insert is the answer to one batch
  (`InsertIsDelivery`): by `InsertsAreDisjoint` no other insert holds its lines, and none has a row yet.
* `StartInv` (theorem `StartInvariant`) is `StartsOnce` with `NoLostWakeup`, inductive together: a
  startup may only mark the service running, and wake its waiters, while it is the one whose outcome
  is to come. From it: `OneStartAtATime`, `WakeUpsAreNotLost`.
* `LockInv` (theorem `LockInvariant`): the holder of `ProxyHandler.mu` is the request at `target`, and
  no proxy is cached then; a lost `s.mu` implies a cached proxy and the state Running; the target is
  known from before the service is marked running. So the two mutexes are never lost together:
  `DeadlockIsConfined` and `StartsAreNotStuck`, together `DeadlockIsLocal`, and `TargetIsKnown`.
* `LifecycleIsImplemented`: initial states map to initial states and each action to a step of
  `ServiceLifecycle` or a stutter, by cases on the action.
* `ClosedMeansNoSender`: `NoSendOnClosed` with the types and `StartsOnce` (a container not reached yet
  has no goroutines, and none starts after the list is used up): the closing goroutine runs only after
  the last fan-in was started, so all of them being done stays true.
* `LockInvariant` of `WakeRegistryProofs`: a request is at `read` only as a reader of the lock and at
  `check` or `write` only as its one writer, and readers and writers exclude each other. From it
  `OnlyTogglesMeetWrites`; and with `StillFree` (at `write`, name and host are still free)
  `CreationsStand`.
* `OrderIsKept`: what was written and merged of a container, the line its fan-in holds, its channel and
  the line its reader holds are, one after the other, the lines from the first to the last read
  (`Ordered`). Each step moves a line from one place to the next. It needs `Settled`: a fan-in starts
  with its reader and, while the client is there, leaves its loop only after the reader has closed an
  empty channel. `OfContainerSteps` unfolds the selection of one container's lines from the shared channel.
* `HostsServed`: `services` and `hostIndex` are maps of which the second leads into the first (`Maps`), and
  inverse to each other while the configuration repeats nothing (`Inverses`). `ConfiguredMaps` shows it
  of the maps `NewManager` folds together from any configuration; `AddedToMaps` that a creation keeps it,
  by `Validated` and by what `StillFree` says of a request at `write`. `TypeCorrect` comes with it.
* `FetchesAreBounded`: from `AnswersLength`, for any answers the order of rows leaves open, and
  `LimitsAreBounds`.
* `SummariesAreOfOneContainer`: what the look-up found is one of those who had the name then (`LookUpInv`, by
  `FirstIsNamed`), whatever the store does until the fetch; what the fetch takes of that container's lines
  is their newest, each as often as it is there (`AnswerIsNewest`: an order of a finite set of rows is a
  bijection, so cutting it keeps the counts), and nothing later in the request changes it.
* `PromptsKeepWorst`: the loop of `prepareLogsForPrompt` takes a prefix of the ranked groups whose length
  is within the budget (`LoopInv`, `PreparedIsPrefix`), and `Ranked` puts no group before a worse one
  (`RankedParts`); together they are `PromptOfAll`. `TypeCorrect` of the same module follows.
* `PathsWork`: `Segments` and `ContainerRoutes` take a documented path through the patterns and the tests
  of suffixes and prefixes; `Ids` may be any set of non-empty ids.
* `StreamInv` (lemma `StreamInvariant`): the wire is a beginning of the layout of the frames. `LaidOut` says
  what a layout is, one frame behind the other with each byte marked by its place (`Framed`, `Marked`),
  and `TextSteps`, `DockerLogsSteps`, `ChunkSteps` and `LinesSteps` unfold what selects and decodes it,
  position by position. `TypeCorrect` of `LiveStream` rests on these: a decoder returns bytes.
* `FetchCorrect`: from the beginning of a frame, `decodeDockerLogs` goes to the beginning of the next one
  (`NextFrameEnd`) and takes its payload (`TextOfFrame`), so from the last whole frame backwards it
  returns the text from there on (`DecodedIsWhole`).
* `LinesCorrect`: the bytes of the lines already returned, of the scanner's buffer and of the decoder's are
  together the text of the frames read (`Joined`, `Progress`), where carriage returns are still part of them:
  `TrimmedAppend` and `TrimmedPrefix` take the trimming through to the lines returned. A line ends where
  `LinesGoOn` says the lines
  of the longer text go on, whatever comes behind, and a full buffer is a beginning of the line that
  stops the scanner.
* `LiveViewCorrect`: a read that begins and ends outside a header adds to the view the text of the part
  read, perhaps with headers in between, and exactly it if the read begins with a frame
  (`ChunkFromFrame`, `ChunkShowsText`). Subsequences join (`SubsequencesJoin`): the greedy search of
  `IsSubsequence` finds whatever can be embedded (`SubsequenceEmbeds`). `LiveInv` adds to the property that,
  while `cutFrame` is false, the last read ended with a frame.

Folds and recursive functions are unfolded by the lemmas of `DataInduction`. The library's induction theorems
take an operator as a parameter, which the installed provers cannot instantiate; here induction goes over a
set of numbers instead (`SetInduction`, from the least element of a set, `LeastElement`), and functions
take the place of operators. `FoldExists` gives the intermediate results of a fold as a function, and
`ForwardLooking` and `SameForward` say that a function which at each position looks ahead to a later one is
defined, and by its equations alone. `FlattenSteps` is the same for `FlattenSeq`.

Model-checked only: the liveness properties `CancelStopsAll`, `AttachedGetsFollowed`, `EventuallyStored`,
`ShutdownEnds`, `ReturnEndsAll`, `HandlerReturns`, `StartEnds`, `EveryRequestAnswered` and `ReadersEnd`. Proofs
under fairness need ENABLED, which this prover does not treat. The five violated properties are
refuted by TLC.

## 6. What is not modelled

* The frontend: its log viewer has state worth a model (see section 2), its pages fetch and render.
* The middleware, the arithmetic of the container statistics, the metrics endpoint, configuration,
  telemetry, the connection and migration of the database, the Docker client wrapper and deployment:
  stateless translation, set-up or configuration of other programs.
* Containers with a terminal beyond the live view: the collector and `GetContainerLogs` take their text for
  headers, and no property says what comes of it. The text of a header that claims up to 4 GiB.
* Which of two containers of one name, say the one before and the one after `docker compose up`, a summary
  is of: the first by its id, which may be the old one. A search by the name finds both.
* Searches and summaries at the same time as each other (they share nothing but the store), numbers of
  hours that are negative or overflow, and the contents of prompt and answer.
* Within the modelled parts: the contents of lines where no property is about them, logging and tracing;
  the duration of time-outs (only their order with other steps); the reverse proxy's transfer of data;
  TLS; two services configured on one container.
