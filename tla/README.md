# DataForeman: a TLA+ verification project

DataForeman collects values from industrial controllers, stores them, and runs
user-defined flows on them. This directory holds TLA+ models of the parts of
the system whose correctness depends on order, overlap and failure, the TLC
runs that check them, and TLAPS proofs about several of them.

Paths below are relative to the repository root. `jobs.js`, `flow-session.js`
etc. without a directory are in `core/src/services/`; the C# engine lives in
`src/DataForeman.Engine`.

## 1. The system

| Component | State | Operations | Hard behaviour |
|---|---|---|---|
| Job queue (`jobs.js`) | table `jobs`; `activeJobs` in memory | enqueue, requestCancel, remove, claim, complete, fail, sweeps, startup pass, onClose hook | handlers run concurrently and are never awaited; complete/fail read, then write; sweeps and handlers race; crash leaves running rows |
| Tag deletion (`jobs.js`, `routes/connectivity.js`) | `tag_metadata.status`, `tag_values`, the job's row and progress | remove requests, handler, four repair passes | five writers of the same rows; cancellation half-way; values that arrive during and after the deletion |
| Flow sessions (`flow-session.js`, `flow-executor.js`, `flow-bootstrap.js`, `routes/flows.js`, `server.js`) | `flows`, `flow_sessions`, jobs, `FlowSession.activeSessions` | deploy, undeploy, test mode, execute, start, delete, bootstrap | start and stop overlap; a session is known only after its first scan; crash and restart |
| Flow log buffer (`log-buffer.js`) | buffer, timer, `flushing` | add, flush, finalize | three callers of flush around an awaited INSERT |
| Scan executor (`flow-executor.js`), runtime state (`runtime-state-store.js`) | `nodeOutputs`, input state, trigger flags, jump values | executeScanCycle, node timeouts, clearFlow, trigger requests | stop during a cycle, nodes that hang, inputs that outlive their cycle |
| Telemetry ingest (`telemetry-ingest.js`) | batch, metadata cache, tag cache | subscribe, flush, interval, onClose | handlers interleave at a query; failed batches; cache order |
| Ingestor (`ingestor/src/index.mjs`) | `acc`, `pend`, JetStream's view of each message | pull loop, interval, COPY, INSERT fallback, ack, nak | overlapping flushes, redelivery, crash between COPY and ack |
| Connectivity service (`connectivity/src/index-multirate.mjs`, `drivers/s7.mjs`) | connection map, tag maps, poll groups, timers | configuration and tag-change messages, reconciliation | three loops apply rows they read earlier to drivers that change meanwhile |
| C# engine, polling (`PollEngine.cs`, `ConfigWatcher.cs`, `Worker.cs`) | pollers, their timers, the debounce timer | start, stop, reload, poll | overlapping reloads, callbacks in flight, half-written files |
| C# engine, flow deployment (`MqttFlowTriggerService.cs`, `FlowExecutionService.cs`, `MqttPublisher.cs`, `ConfigService.cs`) | flows of the configuration, subscriptions, compiled flows, deployment status | reload by file event, by command, at boot; connect, resubscribe | overlapping reloads over four shared tables, lost connections, restarts |
| C# engine, flow runs and state machines | messages of a run, machine states | evaluation, triggers, reload | reload during evaluation |
| HTTP CRUD, auth, front ends, retention | rows | single statements | little concurrency of their own |

The job queue is the hub of the core service. Removing a tag, deploying a flow
and deleting a flow all insert a job row and return; the dispatcher claims the
row later and launches a handler. Jobs of type `flow_execution` start a
`FlowSession`, which outlives its job. The scan loop of that session writes
logs through a `LogBuffer` and reads the tag cache. Values come from the
connectivity service over NATS: the core's telemetry worker caches and stores
the raw ones, the ingestor stores the batches of the JetStream stream. What the
connectivity service polls follows from rows the core writes and from two
subjects on which it announces them. The C# engine is a second implementation
of polling and flows, driven by files instead of rows: the application writes
`connections.json` and `flows.json`, and for flows also sends a reload command
over MQTT; a file watcher reloads what changed.

Node's event loop gives each stretch of code between two awaits for free, and
nothing more: every await on the database is a point where any other actor
may run. That is the step size of all models of the JavaScript services. The
C# engine has threads; there a step is one access to a shared object that other
threads can observe.

What makes each component correct:

- Job queue: retries are bounded; a row is executed by one handler at a time
  unless it had to be recovered; a final status stays but for one known race;
  every row ends. `JobLifecycle` states this as an automaton of a row.
- Tag deletion: a tag called deleted has no values; a completed job deleted
  all its tags; a cancelled one spares what it had not begun, but for the last
  0.5 %; no tag is left "deleting" without reason.
- Flow sessions: row, registry and scanning session agree; what scans can be
  stopped; a restart restores what is deployed.
- Log buffer: logs are stored in order, none disappears.
- Scan executor: nodes run after their sources and on this cycle's values;
  every cycle ends whatever a node does; a stopped executor does not disturb its
  successor unnoticed; a trigger press is seen.
- Telemetry: the newest accepted value is stored; a row is lost only with its
  whole batch; the cache shows the newest value.
- Ingestor: acknowledged means stored; duplicates come from faults only; good
  messages get through.
- Connectivity service: in the end it polls what is subscribed on an enabled
  connection, in the poll groups it knows, and nothing else.
- Polling engine: what polls can be stopped, what was stopped is quiet, and the
  pollers converge to the configuration file.
- Flow deployment: an enabled flow that compiles is started by its topic, and one
  that is disabled, does not compile or has no mqtt-in node by none; every subscription is tracked; the published status says what
  is compiled; the engine converges to the file.

## 2. Modules

| Module | Models | Run directly or by |
|---|---|---|
| `JobQueue` | `jobs.js` 20-514, 737-862, for any number of job rows and executions | `MCJobQueue` gives `MaxAttempts` values and states the refinement |
| `JobLifecycle` | what the queue promises about a row: the abstract specification `JobQueue` implements | through `MCJobQueue` |
| `TagDelete` | one removal of up to `NumTags` tags | `MCTagDelete` gives `Rows` values |
| `FlowSessions` | one continuous flow, its jobs, sessions, rows, the registry, requests and the process | directly |
| `LogBuffer` | one buffer and its owner (a manual execution or a scanning session) | directly |
| `ScanCycle` | the executors of one deployed flow, its store entry, deploy, undeploy, trigger | `MCScanCycle` gives the flows |
| `Telemetry` | the telemetry worker: handlers, batch, flush, tag cache | directly |
| `Ingestor` | the ingestor process and its JetStream consumer | directly |
| `TagSync` | one S7 connection in the core's rows, on NATS and in the connectivity service | `MCTagSync` orders the tags at the start |
| `PollEngine` | worker, reloads, timers and pollers of the C# engine | directly |
| `FlowDeploy` | flows.json, reloads, subscriptions, compiled flows and their status in the C# engine | `MCFlowDeploy` gives the contents of the file |
| `*Proofs` | theorems about the module of that name (`PollProofs`: PollEngine and TagSync, `ScanProofs`: ScanCycle and LogBuffer), see section 4 | - |

The mapping from each definition to its lines is in `PROJECT.json`.

### JobQueue

`status`, `attempt`, `cancelReq` are columns. `due` abstracts `run_at <= now()`,
`beat` the age of `last_heartbeat_at` (under 10 s, between, over 120 s),
`overdue` the age of `started_at`. `pc[j][n]` is where the n-th execution of
row j is: it is started by the n-th claim, so `attempt` numbers it. `complete()`
and `fail()` are two steps (`CheckComplete`/`WriteComplete`,
`CheckFail`/`WriteFail`) because the code reads the row, awaits, and updates
`WHERE id=$1`. A sweep selects its rows in one step (`BeginSweep`) and updates
them one at a time (`SweepRow`), re-checking `status='running'` as the code
does. `active` is the key set of `activeJobs`; an execution's `finally` removes
the job's key even when a newer execution holds it (`Leave`). `recovered`
records the rows requeued by the stale pass or the onClose hook, the two places
that requeue a row whose execution may be alive.

Abstractions: rows are claimed in the order of their ids, which stands for
`created_at`; one dispatcher, so `skip locked` never skips; the sweeps' row
limits (20, 25) are not reached; progress and results are left out; a job type
without a handler is left out (`fail()` is called at once). The handlers of the
model poll, complete, throw or honour a cancellation at any time, which covers
`demo_sleep`, `demo_flaky` and the others. The onClose hook is modelled as the
hook that `jobs.js` registers; the repository's own entry point closes the
server nowhere, so in that deployment `MaxCloses = 0` applies and its bounds
are the sharper ones. The hook's call of stopAllActiveSessions is left out
here.

`JobLifecycle` is the abstract specification: a row is inserted, claimed,
requeued, ended and deleted; it may be claimed at most `Tries` times, and a
final status changes only while some execution is in `doubt`, that is, between
its check and its write. `Lifecycle` in JobQueue is its specification under the
mapping `state <- status`, `claims <- attempt`, `doubt <- InDoubt` and
`Tries <- 2 * MaxAttempts - 1 + MaxCloses`.

### FlowSessions

Request handlers are processes with a program counter `req[r]`, and so are the
job handlers with `pc[s]`. Session s belongs to job s. `ses[s]` is the session
object, "live" from the moment its timer is armed; `row[s]` its `flow_sessions`
row; `registry` the entry of the flow in `activeSessions`. `Register` comes
after the awaited first scan. `StopSession` is the synchronous head of
`stop()`; `Unregister` the part after its awaited UPDATE, which deletes the
entry by flow id. `Boot`, `StopOrphans`, `BootRead`, `BootQuery`, `BootInsert`
follow server.js and flow-bootstrap.js: the dispatcher runs during "boot",
requests only once the server listens. `raced` records that a session began to
start while another was starting, live or being stopped.

`POST sessions/:sessionId/stop` has no action: its UPDATE returns a column
`scan_count` that no migration gives `flow_sessions`, so the statement is
rejected and the handler answers 500 with nothing changed.

The job of a flow never retries, so the queue shrinks to claim, end and sweep
(`SweepJob` may fail a running job at any time: flows send no heartbeats). A
row removed by cascade is "gone". Ownership, parameter validation, the tag
dependency tables and the runtime store are left out.

### TagDelete

`rows[t]` counts stored values; the handler deletes `Batch` of them at a time,
the stalled pass 500. `h` is where
`_runTagsDelete` is, `pass` where the dispatcher is in a maintenance pass; the
passes exclude each other (the loop awaits them) but not the handler. `full`
stands for a progress of at least 99.5 %, which the stalled pass looks for and
the handler computes (`Nearly`) from the values deleted or, when its first count
failed, from the tags completed. A job can be that far with small tags not yet
begun; the pass then deletes of them as well, cancelled or not, and CancelSpares
says how small they are.
`EndJob` makes `complete()` and `fail()` one step; their own races are
JobQueue's subject. Most statements may fail: those the code catches go on
(`Writes`, `CountRows`), the others end the handler (`Throw`) or the pass
(`PassFails`). The failing count of the stalled pass is a step of its own
(`StalledCountFails`), recorded in `blind`. `came[t]` counts values that
arrived after the removal, `spared` the tags not begun when the cancellation
was accepted, `late` that the request's second UPDATE of the tags came after
the handler had begun.

### LogBuffer

Logs are the numbers 1, 2, ...; `flights` holds the batches whose INSERT is
awaited (more than one only in a mutant); `timer` is "fired" when the
timeout has run without clearing `this.timer`, which is what happens when it
fires during a flush. `Finalize` and `LogLast` are the two finalize() calls of
executeFlow with the last log between them; `CycleEnds` and
`StopScan` are the scan executor's.

### ScanCycle

The executors of one deployed flow; usually one, but an undeployed executor may
be in a cycle while its successor scans. A flow is a graph over `1 .. N` with
node kinds (plain, trigger, jump-out, jump-in, comment) and required inputs; each
drawn edge goes to a handle of its target. `inp` is kept per port as in the code, so
edges can share one: drawn edges that go to the same handle, and all virtual edges
of a Jump In, whose handle is "input" (flow-executor.js:183). Hence `Ready`
(916-922) lets a node run when one edge of a shared port has delivered, though the
source of another was passed over.
`TopologicalSort` is the algorithm of the code over drawn and virtual jump
edges (`ExecutionEdges`). A value is the cycle it comes from, so that "fresh"
means "from this cycle". `VisitNext` is the stretch of executeScanCycle up to
the next await: it passes over, skips or begins a node; `Return` and `TimeOut`
end an awaited one. `Clear` is clearFlow, which undeploy calls and which meets
cycles in progress. Left out: the `trigger` input port of nodes, two edges
between the same nodes, edges to missing nodes, the default value of a Jump In, what a node writes after its timeout, the
state nodes such as gate or delay keep for themselves, one-shot executions.

### Telemetry

Message m is the m-th to arrive and carries the value m. `Arrive` is a handler
up to its end or to the metadata query, `Answer` the rest after the query;
`flights` are the batches whose INSERT is awaited. `unsure` holds the tags with
a message that arrived while an earlier one waited for the metadata, until a
later one arrives undisturbed: their cache may be behind. The filter of deleted tags is in TagDelete.

### Ingestor

`<<m, k>>` is the k-th delivery of message m. `flights` holds the flushes under
way, each with its deliveries and where it is; the loop awaits its own, the
interval does not. `srv` is what the JetStream server knows of a message.
Kinds of messages: good, invalid (fails the schema, terminated), garbled (not
JSON, given back), poison (passes the schema, a row of it is refused by the
database). A poison row makes COPY and INSERT fail, the whole flush is given
back, and the messages come back together with it: hence GoodIsAcked is stated
for histories without one. Only JetStream mode is modelled; without it the
ingestor acknowledges nothing. `Publish` is publishTelemetryBatch
(index-multirate.mjs:241-250), the publisher of the subject in this repository, which
nothing calls: the drivers publish single values on `df.telemetry.raw.*`, while
spec/connectivity/README.md:25 names the batch as the way from the connectivity
service to the ingestor. Left out: an ack that throws at once instead of failing
later (ingestor index.mjs:126), which after a successful COPY would run the INSERT
as well.

### TagSync

Three activities of the connectivity service interleave at their awaits: the
configuration loop, the tag-change loop and the reconciliation. `db` is what is
subscribed in the core's rows, `driver` the entry of the connection in the map,
and each driver keeps its tags, its poll groups and whether its timers run.
"Polls" means that a timer runs for the tag; a driver revived after its
disconnect reconnects at its first poll (s7.mjs:331) and reads the device again.
`cached` are the subscribed tags whose poll group is in `pollGroupsCache`, which
holds what was active when the service started. Rows are read with it: a driver
puts all of them into its tag map and the cached ones into its poll groups.
Histories: `revived` (drivers the tag loop had in hand when they were dropped),
`late` (the last message says "on" of a connection that is off, or the reverse),
`behind` (a publication was skipped because NATS was away or came before the
service had subscribed, or the reconciliation removed a tag subscribed after its
query). `failures` counts the connects and the queries (of the boot, of either
loop) that failed: each is logged and what it was to do is not done again.
`MCTagSync` looks at one initial state of those that differ in the names of the
tags only. Not modelled: the bulk save (routes/connectivity.js
1968, 2208, 2720) publishes a message that is JSON-encoded twice and that the
service ignores; browse and read requests that start a connection and publish
its earlier `enabled` afterwards (421-430, 494-529); `is_subscribed` of a tag
being removed stays set until its job ends; a connect that failed is not
retried; the EIP and OPC UA drivers.

### PollEngine

`op["main"]` is Worker.ExecuteAsync, `op[r]` a reload. A poller is created,
started, halted (its timers disposed of) and then stopped (callbacks awaited,
driver disconnected); `flight[p]` says that a callback is inside a read. The file is
truncated (`EditBegins`) and written (`EditEnds`), each an event for the
debounce timer. Histories: `overlap` (two of boot, reloads and shutdown ran at
once) and `missed` (no reload will follow the last change: it came before
the watcher existed, or a change of another file followed within the debounce
time). The simulator is the only driver of the engine. A reload of everything,
which other `*.json` files cause, is left out.

### FlowDeploy

The content of an enabled flow is a record: whether it compiles ("sound" or
"broken"), and the topic of its mqtt-in node, which may be `Blank`, or `NoNode`;
any other flow is `Off` or `Gone`. The two are independent, as in the code: a flow
that does not compile is subscribed like any other and left out of
`_compiledFlows`, and a node without a topic is tracked and not subscribed.
`Internal` are the topics with the prefix HandleMqttMessage passes over. A thread goes through a reload one
access to a shared table at a time: `Read`, `Load`, `Refresh`, per flow
`SubscribeNext` and `Track` or `Untrack` and `Unsubscribe`, `Wipe`, per flow
`CompileNext`, `Report`, per flow `PublishNext`. The boot is such a thread, and
`Begin` starts one for the watcher or for the command. `link` is the MQTT connection, `broker` what the
broker has for the engine; a session is clean, so a lost connection empties it.
`StartedBy(topic)` is what a message on a topic starts: it takes the broker,
the subscriptions and the table of compiled flows, and no topic of the system's
own. `Responds` asks for every flow that compiles and for no flow that is
disabled, broken or without node; it leaves open whether an old topic still
starts a flow that has a new one or a blank one, which the code lets happen. Histories: `mixed` (the last
reloads overlapped), `missed` as above, `heard` (the last reload was connected
at each status). Left out: QoS, wildcards, several mqtt-in nodes of a flow,
a reload of everything, and the execution of the flow.

## 3. Runs

Passing runs:

| Run | Bounds | Shows |
|---|---|---|
| `job_queue` | 1 row with 2 attempts, 2 slots, 1 onClose, 1 crash, 1 failing query; 5 executions, one more than the budget of RetryBudget allows, so the cap cuts nothing | types, retry budget, no orphaned running row, exclusion, slots of activeJobs, the refinement of JobLifecycle, every row settles |
| `flow_sessions` | 2 requests, 2 jobs, 1 crash, 1 failing query | rows, registry and sessions agree |
| `tag_delete` | 1 to 3 tags of 4000, 1000 and 10 values, batches of 1000: the first outlasts three verification rounds, the third is still untouched at 99.5 %; 1 late value, 1 crash, 1 failing statement | nothing deleted over values, cancellation spares all but the last 0.5 %, handler leaves no tag behind |
| `log_buffer` | batch size 3, 6 logs, 1 failing INSERT | order, nothing lost, scans drain |
| `scan_cycle` | all 64 graphs of 3 plain nodes, and 12 flows of up to 5 nodes with required inputs, comments, triggers, jumps (also two Jump Outs of one label, one of them passed over or skipped) and ports that edges share; 2 executors, 2 cycles each, 1 press | the order is topological or there is none, inputs are of this cycle, jump values are of this executor, cycles end, a press is seen |
| `telemetry` | 2 tags, 1 timestamp, batches of 2, 4 messages, 1 rejected batch | the newest accepted value is stored, nothing vanishes, the cache follows |
| `ingestor` | 2 messages of any kind, 4 deliveries each, batches of 2, 1 error, 1 crash, 1 late ack | acknowledged is stored, duplicates have a fault each, good messages arrive |
| `tag_sync` | 2 tags, 2 drivers, 1 request, 1 removal, 2 switches of the connection, 1 lost message or failing connect or query | what is dropped is quiet, what is unsubscribed ends, what is subscribed starts |
| `poll_engine` | 1 connection, 4 pollers (never used up), 2 reloads at once, 2 changes of the file, 1 of another file | what polls is registered, what was stopped is quiet, convergence |
| `flow_deploy` | 2 flows sharing a topic, one of them edited once (two file events) among 7 contents: 3 topics, one of them internal, blank, no node, not compiling, disabled; 1 of: command, change of another file, lost connection, restart | flows answer their topics, subscriptions are tracked, the status is true, convergence |

One row is enough for `job_queue`: rows meet only in `active` and in the order
of claims, and the theorems cover any number of rows. Two requests and two jobs
let a start overlap a stop, a second start or a deletion; one crash separates
the two lives of the process that the startup code tells apart. In TagDelete a
third tag gives a cancelled job a tag that is done, one in work and one not
begun. In LogBuffer six logs fill the buffer twice during one INSERT. Three
nodes give ScanCycle every shape of cycle, diamond-free join and chain that the
in-degree count distinguishes, five a Jump In with two Jump Outs and a source for
each. Four messages on two tags fill two batches and
let both tags be in the metadata query. Four deliveries leave the ingestor one more
than the faults of the run can cause. Two drivers are an old and a new
connection. Two threads of FlowDeploy are a reload during another or during
the boot.

The TypeOK of every module holds under the same configurations; only JobQueue's
is listed, because a theorem states it.

Deadlock is not checked: the systems may come to rest (no requests left, all
rows final, bounds used up).

Two runs end in a counterexample. Each states what a comment of the repository
says:

| Run | Statement | What happens |
|---|---|---|
| `job_cancel` | jobs.js:257 "finalize it as cancelled" | fail() requeues a row with its cancellation: never claimed, never finalized |
| `flow_restart` | flow-bootstrap.js:5 "all flows marked as 'deployed' are running after a system restart" | an orphaned running job makes the bootstrap skip the flow |

### Behaviours met while modelling

The properties are stated so that they hold of the code as it is. Where that
needed an exception, this is the behaviour behind it:

- jobs.js:123 reads "do not overwrite cancelled/failed statuses", but the
  UPDATE after the check is unconditional. `Lifecycle` allows a final status to
  change exactly while an execution is in doubt.
- An undeploy during a start finds no session and is lost on it; two deploys of
  a flow can lead to two scanning sessions. `LiveIsRegistered` is conditioned
  on no such race (`raced`).
- The stalled pass takes a failed count for 0 (jobs.js:378-384). `DeletedIsEmpty` holds
  but for that one count (`blind`).
- The stalled pass takes every running job from 99.5 % on, also one whose
  cancellation was accepted or whose last tags are not begun, and deletes up to 500
  values of each tag (jobs.js:369, 406-417). `CancelSpares` holds but for tags that
  are that `Few`: without the exception TLC shows a cancelled tag of 10 values next
  to two of 4000 and 1000 losing its values.
- finalize() during a flush returns at once, although log-buffer.js:153 says
  "Ensure all buffered logs are written". `ScanDrains` says that a scanned
  flow's logs do leave the buffer.
- A row that the database refuses keeps the messages of its flush in
  redelivery (Ingestor).
- The tag cache may keep an older value of a tag whose first handlers overlap
  (Telemetry).
- The tag loop may start the timers of a dropped driver again, which then
  reconnects and polls, and the reconciliation may remove a tag subscribed after
  its query (TagSync).
- A Jump In runs behind one of several Jump Outs of its label, others may have been
  passed over (flow-executor.js 183, 916-922). If none of them stored a value in
  this cycle, because all were skipped on null, it returns the value of an earlier
  cycle: the store keeps it. `JumpCurrent` asks for a current value only if some Jump
  Out has produced one.
- `pollGroupsCache` is filled once (index-multirate.mjs:131-136), while groups are
  created, changed and deactivated at run time (routes/connectivity.js 133-304). A
  tag of a group created since the service started is in the tag map and never
  polled (s7.mjs:196-201). PATCH /tags/poll-groups and the reassignment of a
  deleted group's tags publish nothing. A tag change whose query fails is lost.
  `SubscribedStarts` asks only for tags of cached groups, without such failures.
- Overlapping reloads may leave a poller that polls and is in no table. One
  debounce timer serves all files, so a change of flows.json within 500 ms of
  one of connections.json cancels the reload of the latter. A half-written
  file stops all pollers, or all flows, until the next event (PollEngine,
  FlowDeploy).
- RefreshSubscriptionsAsync never removes an old topic of a flow that has a new
  one (MqttFlowTriggerService.cs 68-106); the flow can be started by both until it
  is disabled or loses its mqtt-in node. A flow whose topic was blanked keeps the
  old one in the same way and is still started by it. A flow that does not compile
  is subscribed (76-106) but not in `_compiledFlows` (FlowExecutionService.cs
  372-376), so its topic starts nothing; nor does a topic with the prefix of the
  system's own (144), which is subscribed all the same. The status of a
  flow carries the hash of the configuration at the time of publication, while
  Messages.cs:112 calls it that of the flow as compiled; with overlapping reloads they differ. A status
  published while there is no connection is dropped, which is the usual case at
  boot. The reload command reloads flows whatever the application changed.
- Not modelled: HistoryStore.FlushBufferAsync tests `TryDequeue(...) && Count <
  Max` in this order, so each full batch drops the record that ends it.

### Fairness

- JobQueue: weak fairness of claims, sweep updates, the clock, the steps of
  each execution and the restart, because the event loop turns, the database
  answers and the process is supervised. Strong fairness of the stale and the
  cancellation pass: the loop runs them periodically between claims, so a pass
  that is needed again and again is run. No fairness of requests, crashes,
  errors, heartbeats and the runtime limit.
- FlowSessions: weak fairness of every response, handler step, claim, job
  sweep, startup step and bootstrap step. No request has to come.
- LogBuffer: the timer fires, the database answers, a running scan goes round.
- TagDelete: safety only.
- ScanCycle: an executor ticks, visits its next node or times out; a node never
  has to return.
- Telemetry: the interval fires, an INSERT is answered one way or the other.
- Ingestor: the server delivers and redelivers, the interval fires, database
  calls return with whatever result, a dead process is restarted.
- TagSync: the three loops go on and a request that has begun ends.
- PollEngine, FlowDeploy: threads run, the debounce timer fires, a writer of
  the file finishes, callbacks return, the MQTT client connects and
  resubscribes. Nobody has to edit, to send a command or to stop the engine.

## 4. Proofs

Every safety property of the runs is a theorem for all values of the
constants; liveness is not (see the end of the section). Eight modules hold the
proofs. Each starts from the assumption of the module it is about, which asks
for natural bounds and, beyond that, for

- `JobQueueAssumption`: positive attempts and slots;
- `FlowDeployAssumption`: 0 is no flow, thread 1 exists, the marks of an mqtt-in
  node without a topic and of no node are no topics;
- `PollEngineAssumption`, `TagSyncAssumption`: 0 is no poller and no driver,
  "main" is no reload;
- `ScanCycleAssumption`: the edges of a flow join its nodes and go to handles, executors are
  numbered.

`TelemetryProofs` and the log buffer part of `ScanProofs` need nothing of their
constants.

`PollProofs` is about PollEngine and TagSync, `ScanProofs` about ScanCycle and
LogBuffer. Each EXTENDS both, so TagSync and LogBuffer have names of their own
for what every module has: `SyncSpec` and `LogSpec`, `SyncInit` and `LogInit`.
The two modules of a pair share no state, and nothing is claimed of them
together.

| Theorem | Property |
|---|---|
| `TypeCorrect` | TypeOK of JobQueue |
| `RetriesAreBounded` | RetryBudget |
| `RunningIsExecuted` | RunningHasExecution |
| `ExecutionsExclude` | ExclusiveExecution |
| `ActiveIsCounted` | ActiveMatchesLive |
| `SettledIsFinal` | SettledStays (implied by Lifecycle, so no run lists it) |
| `Implements` | Lifecycle: JobQueue refines JobLifecycle |
| `DeletedTagsAreEmpty` | DeletedIsEmpty |
| `CompletedJobsDelete` | CompletedDeletes |
| `HandlersSettle` | HandlerSettles |
| `CancelledTagsAreSpared` | CancelSpares |
| `DroppedDriversAreQuiet` | DroppedIsQuiet of TagSync |
| `ActiveRowsAreBacked` | ActiveRowBacked |
| `RegisteredIsLive` | RegistryLive |
| `LiveIsStoppable` | LiveIsRegistered |
| `OrdersAreTopological` | OrderCorrect |
| `InputsAreFresh` | InputsFresh |
| `JumpsAreCurrent` | JumpCurrent |
| `LogsAreInOrder` | InOrder of LogBuffer |
| `NoLogIsLost` | Accounted of LogBuffer |
| `NoRowIsLost` | Accounted of Telemetry |
| `NewestRowStored` | StoredNewest |
| `NewestValueCached` | CacheNewest |
| `AcknowledgedIsStored` | AckedStored |
| `DuplicatesAreFaults` | DuplicatesNeedFaults |
| `PollersAreRegistered` | PollingIsRegistered |
| `StoppedPollersAreQuiet` | StoppedIsQuiet |
| `SubscriptionsAreTracked` | SubsTracked |
| `ReloadedFlowsRespond` | Responds |
| `StatusIsTruthful` | StatusTruthful |

Before an invariant was proved inductive, TLC checked it on the instance of the
component's run.

### The job queue

The inductive invariant `IInv` joins

- `Shape`: TypeOK; an execution exists only once its row has been claimed that
  often (`PcBound`); a row never inserted was never claimed (`Unborn`); there
  are victims only while a pass runs (`SweepBusy`); nothing is alive in a dead
  process nor during the startup pass (`StartupAlone`);
- `BudgetInv`: `attempt + (1 if queued) + (executions about to requeue)` is at
  most `2 * max_attempts - 1 + closes`;
- RunningHasExecution, ExclusiveExecution and ActiveMatchesLive themselves.

`BudgetInv` is what makes the retry bound inductive. A claim turns a queued
row into an attempt and keeps the sum. `CheckFail` adds a pending requeue only
while `attempt < max_attempts`, and `RequeueingBound` bounds the number of such
executions by the number of attempts, hence by `max_attempts - 1` before the
step. A stale sweep requeues under the same guard. The onClose hook adds one
to both sides. The bound is tight: with `- 2` the proof fails, and TLC reaches
it. `StartupAlone` is needed because the startup pass requeues rows without
recording them as recovered: no execution can be alive then.

Each action has one step per invariant it can disturb; `GotoFacts`,
`MoveFacts`, `ClaimFacts` and `StillFacts` collect how an action changes `pc`
and `status`, and `NextKinds` sorts the actions of Next into those kinds.

Implements maps each action, row by row, to one step of JobLifecycle or to
none: `RowMove` lists the moves of a row in the variables of the queue,
`StillMove` and its companions show that each action makes one of them for
each row.

### The tag deletion

The handler, the passes of the dispatcher, telemetry and crashes interleave
freely, so every theorem needs `Shape`: which of them can be where at the same
time (before a handler begins, the job is at most queued and no pass but the
startup one runs; a handler at work is at a tag of the removal; and so on). On
top of it:

- `EmptyInv` for DeletedIsEmpty: who is about to write 'deleted', the handler
  for `cur` or the forcing pass for all tags, has found no rows but late ones
  (unless the count of the pass failed, `blind`), and nothing adds other rows
  (`EmptyStays`);
- `SettleInv` for HandlerSettles: without failing statements the tags before
  `cur` are settled while the handler works; once it has ended, a tag still in
  deletion has one before it that the handler gave up (`Behind`);
- `OrderlyInv` and `CompleteInv` for CompletedDeletes: a handler that is not
  cancelled and meets no late value never takes the branches that give a tag
  up, so the tags behind it are deleted, not merely settled, and a job that
  completes has all of them deleted;
- `SpareInv` for CancelSpares. The difficult case is the pass that takes a job
  whose progress says 99.5 %: it drains all tags of the job, those a
  cancellation has spared among them. So the claim depends on how much can be
  untouched then. `deleted + Sum(rows) <= total`: what the handler has counted
  as deleted and what is still stored never exceed what was counted at first,
  so untouched tags hold at most what is missing to 100 % (`FewByValues`). If
  the first count failed, the progress counts tags, and at most 0.5 % of them are
  ahead of the handler (`FewByTags`). Hence a removal of fewer than 200 tags, each
  of which holds more than 0.5 % of the values, is spared in full.

`Sum` adds the rows up along a recursive function. Its lemmas (`SumDiffers`: if
one value differs, the total does by as much; `SumGrows`: smaller values have no
greater total; `PartOfSum`: no value exceeds the total) are inductions over the
tags; see "Induction" below.

### The sessions of a flow

ActiveRowBacked needs the types only. RegistryLive is inductive with
`RegisteredStarted`: the session in the registry is past its start, so the
handler that started it cannot take it down again. LiveIsRegistered needs that
a stop() that returns clears the registry when nothing else is alive. `Alone`
derives that from `raced`: as long as no start overlapped another session or a
stop, one session is busy at a time, and none while a stop() awaits its UPDATE.

### The scan loop

OrderCorrect is the correctness of topologicalSort on every graph. `SortInv`
says of every turn of the loop that the sorted and the queued nodes are
distinct, that a sorted node comes after all its sources, and that a node is
sorted or queued exactly when all its sources are sorted (`StepKeeps`). Hence
an empty queue leaves each remaining node with a remaining source, which is a
cycle; and if all are sorted there is no cycle, since in a set of nodes that
wait for each other none can be the first one sorted.

InputsFresh is about inputs that persist from cycle to cycle: a node is also
ready when a port was set in an earlier cycle, or by another edge of the port. It
reads fresh values all the same, by a chain of three facts about one executor
(`CycleInv`), in which a node is `Served` if all its ports were ever set:

- `Fed`: a port is set only if one of the nodes it has an edge from was served;
- `Visited`: a node that had its turn and was served has an output;
- `Handed`: an output of the cycle has reached all ports behind it.

Sources come first in the order, so each source of the node at hand had its turn:
for each port some source has an output of this cycle, and it has reached the port
(`ReadyIsFresh`).

JumpCurrent needs the same lemma, for the port that all Jump Outs of a label share,
and `Succession`: before the running executor all others are stopped, after it
none has started, so only an earlier one still in its last cycle can
replace the jump value (`Jumped`).

### The log buffer

InOrder speaks of the table only and is not inductive. `OrderInv` orders all
places a log passes: what is stored comes before the batch under way, that
before the buffer (`Behind`), and the flag `flushing` stands for exactly one
batch (`OneFlight`). Without the last, two INSERTs could land in either order.
`FlushOrder` covers every caller of flush(), because all hand it a buffer that
is behind the rest: the present one, or the one add() has pushed to
(`PushedBehind`). Accounted is inductive together with `OneFlight`, which says
that the batch that lands is the only one.

### The flow deployment

SubsTracked says nothing while a reload is under way, so it is not inductive.
`HeldInv` says of every state that a subscribed flow is tracked or `InHand`: a
thread stands between `SubscribeNext` and `Track`, or between `Untrack` and
`Unsubscribe`, with this flow as its current one. When no thread is busy,
nothing is in hand. The argument does not need the reload lock the code lacks:
of two threads that handle the same flow, each finishes what it has in hand.

Responds and StatusTruthful are claims about the end of a reload that nothing
overlapped. `Phase` follows that reload (`Stage`): while it subscribes, each
flow is subscribed as configured unless it is still to be handled (`Subscribed`:
to its topic, and to none if it has no mqtt-in node); then each is
compiled if it compiles (`Target`) unless it is still in `todo`; then each status that was
published says what is compiled; and an idle engine has all three. `Alone` is
where `mixed` enters: until two reloads overlap, one thread is in its stage and
the others are idle. `BrokerInv` adds that a resubscribed connection has all
topics at the broker, and `LocalInv` that a thread's list, loop and current flow
belong together.

### The ingestor

Four conjuncts besides AckedStored:

- `AcksFollowStores`: a flush that has reached its acks has stored its points;
- `OnePlace`: a delivery is in `acc` or in one flush, not in two, and is
  unstored until that flush's COPY or INSERT (after a COPY whose reply is lost
  the INSERT on the same client fails as well, `CutOff`, so the fallback repeats
  nothing that was stored);
- `StoredOnce`: no delivery is stored twice, and none that is still to come;
- `TypeOK`, of which one part carries weight: a flush acknowledges the messages
  whose points it holds and no others (`pend = acc`, `f.msgs = f.rows`).

Duplicates in the table are therefore different deliveries of a message.
DuplicatesNeedFaults bounds their number by one and the faults so far. It is not
inductive: a redelivery happens long after the fault that allows it. `CountInv`
counts everything that is or can still become a stored delivery of a message:
its deliveries that are stored or held unstored (`Stays`), the flushes that will
give it back (`Naks`), and the server's own right to deliver it (`Due`). Each
step without a fault moves one unit between the three or drops it; a failing
call, a crash or a late ack adds at most one, and one to the faults.

### The telemetry worker

Accounted is inductive but for the type of `key`. `FlushKeepsRows` covers every
caller of flush(): the rows it is handed are afterwards in the batch or in the
INSERT under way. The other steps move one set between the places a row can
be, by `UnionWith` and `UnionWithout`.

StoredNewest says that the database holds the last accepted row of each key. An
INSERT overwrites, so it must not be overtaken: `OneFlight` (one
INSERT is awaited at a time) and `InOrder` (accepted rows are older than the
batch under way, and that is older than the buffer) exclude it.

CacheNewest concerns handlers that wait for the metadata of a tag and write the
cache afterwards. `WaitingIsLast`: unless the tag is `unsure` (a message arrived
while another waited), one that waits is the last message of its tag, so the
value it writes is the newest.

### The connectivity service

DroppedIsQuiet is about timers that run; what starts them is an Apply of one of
the two loops to a driver it took from the map earlier. `QuietInv` therefore
says whom the loops hold: the configuration loop only the driver of the map
(`CfgHolds`: it handles one message at a time, and only it changes the map), the
tag loop that one or a driver recorded in `revived` (`TagHolds`).

### The polling engine

`Life` holds whatever overlaps: a callback in flight has timers, because
Dispose waits for it; a stopped poller has none and is started by nobody,
because only the thread that made a poller starts it, and a poller halted
before that is "torn" and never "stopped". From this follows the first half of
StoppedIsQuiet.

PollingIsRegistered and the second half need that one thread at a time works on
the pollers. `Alone` derives it from `overlap`: without it reloads run one after
the other and only while the worker service is "serving". Under it
`Registration` says that a running poller with timers is in the table, that one
whose timers outlive its `_isRunning` is being disposed of, that the table entry
is empty when a poller is about to be created (otherwise it would push a
running one out), and that what still runs during a shutdown is ahead of the
loop.

### Induction

Three proofs need induction over numbers: the sums of rows in `TagDeleteProofs`, the
turns of the sort in `ScanProofs` and the least flow of a set in
`FlowDeployProofs`. The induction theorems of the library take an operator as a
parameter, which the provers cannot instantiate, but `WFMin` does not: every
non-empty subset of a well-founded set has a least element. `AllNumbers` derives
from it that a set which contains 0 and every successor contains all numbers.
The value of a recursive function comes from `CHOOSE`, so the proofs first show
that a function with its equation exists (`CountsExist`), which is an induction
as well.

### What is only model-checked

The liveness properties: RowsSettle, OrphanRowEnds, ScanDrains, CyclesEnd,
PressSeen, BatchDrains, GoodIsAcked, UnwantedEnds, SubscribedStarts and both
Converges. Liveness under fairness is outside the prover's reach. The two
findings are single behaviours, which TLC exhibits.

## 5. Not modelled, and the plan

Not modelled: the message loop of a C# flow run (`FlowExecutor.cs`) and the
state machines (`StateMachineExecutionService.cs`); `HistoryStore` and
`InternalTagStore` (whose InitializeAsync nothing calls); one-shot executions
(`executeFlow` with its own node loop); the EIP and OPC UA drivers and the
devices; front ends, CRUD handlers and permissions, retention policies (see
`PROJECT.json` for the reason of each). A claim whose query fails ends the
dispatcher of the core service; in a model every liveness property would fail
with it, so JobQueue leaves it out. Most of the repository by lines is of the
kinds named last, where a handler is one statement and state is not shared.

Order of the further work:

1. Proofs: the history-free half of the liveness arguments, as invariants that
   name the step each waiting state depends on (a settling row of the job queue
   has a pass or an execution that moves it; a press has a cycle ahead); the
   action properties these suggest.
2. The C# flow run with its message limit and the state machines with reload
   and triggers.
