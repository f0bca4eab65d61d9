# TLA+ models of Kato

Kato is a platform that builds, deploys and operates applications on
Kubernetes. It is a set of Go servers that talk to each other through a message
queue on etcd, gRPC, a database and a stream of log messages. This directory
holds TLA+ models of the parts in which processes and goroutines really
interact, TLC configurations that check them on small instances, and proofs,
checked by TLAPS, that hold for instances of any size.

`PROJECT.json` lists the components, the runs, the source lines behind every
definition, the hazards, the findings and the theorems.

## 1. Inventory

| Component (source) | State | Operations | What is hard |
|---|---|---|---|
| **mq** (`mq`, `util/etcd`) | etcd keys `<prefix>/<topic>/<nanoseconds>`, registered topics | `Enqueue`, `Dequeue` (get, claim by transaction, watch), gRPC and HTTP servers | many servers and consumers on the same keys, stale reads, key names used twice, calls that fail half way |
| **eventlog: operation logs** (`eventlog/store/handle_message_store.go`) | a barrel per event, command channel, garbage list, database | `InsertMessage`, persistence and callback commands, garbage file, collector, stop | receivers, two handlers, collector and stop on the same barrels; a bounded channel; two nested locks |
| **eventlog: container logs** (`eventlog/store/docker_log_store.go`) | pooled barrels, map service to barrel, subscribed channels, log files | `InsertMessage`, `SubChan`, `RealseSubChan`, persistence, collector, stop | objects reused through a pool while goroutines still refer to them, three locks, closing channels |
| **eventlog: live operation logs and monitoring** (`read_message_store.go`, `new_monitor_message_store.go`) | barrels with subscribers, cached monitoring lists | `InsertMessage`, `SubChan`, `Gc` | the collector of the read store takes no lock; a blocking send under a lock |
| **eventlog: web sockets** (`eventlog/exit/web`) | a `PubContext` per client: subscribed channels, send queue | subscribe and cancel requests, `SendMessage`, `Close` | goroutines per channel, a bounded send queue, closing in two directions |
| **eventlog: entry, cluster, db** | sockets, instances, files | receive, publish to and subscribe from other instances | mostly input and output |
| **event** (client of eventlog, `event`) | log handles per server, loggers by reference count | `GetLogger`, `ReleaseLogger`, reconnect, choice of a server | reconnects while loggers send, reference counts |
| **worker** (`worker/discover`, `worker/handle`, `worker/appm`) | running controllers, application store fed by Kubernetes informers | one task type per operation (start, stop, restart, scale, upgrade, apply rules, garbage collection) | tasks put back into the queue when too many run, controllers that run on, stale caches |
| **builder** (`builder/discover`, `builder/exector`, `builder/job`) | running tasks, build jobs | build from source, image, market; share, import, export, backup | a bounded number of concurrent tasks, callbacks of jobs |
| **api** (`api`) | database rows, events | REST handlers that write the database, record an event and send a task | only one operation at a time per service, several writes of which one can fail |
| **gateway** (`gateway`) | the running nginx configuration | informers, queue, sync loop, Lua update | events out of order, partial updates |
| **node** (`node`) | nodes and their conditions, tasks, DNS, services on the host | health checks, joins, mirrored services | leases, masters that change, restarts of services |
| **discover, discover.v2** | endpoints in etcd | register with a lease, watch | lost leases, missed events |
| **monitor** (`monitor`) | targets, rules, a Prometheus process | callbacks from discovery, reload | callbacks from many goroutines |
| **db** (`db`) | models and data access objects | CRUD | transactions, left to the database |
| **util** (`util`) | locks on etcd, leaders, ip pools, worker pools | | mutual exclusion, leases |
| **grctl, webcli, cmd, pkg, hack** | | command line, web terminal, flags, generated Kubernetes clients | no state of their own |

Properties that make the modelled components correct:

* **mq**: a message goes to at most one consumer, once; none disappears unless
  the answer of a call is lost; topics do not mix; first in, first out; a stored
  message is delivered in the end.
* **operation logs**: every message is in exactly one of barrel, database and
  garbage; the database has them in the order of reception; nothing stays in
  memory forever or at stop; the final status of an operation is recorded.
* **container logs**: no closed channel is used; a barrel belongs to one
  service; files and sessions get logs of their own service only; logs leave
  memory only into the file; stop returns.
* **live operation logs and their sessions**: no message is sent to a closed
  channel; a subscriber gets the cached and the new messages in order and without
  a gap; one subscriber does not stop the store for all.
* **event client**: no logger is given a channel nobody reads or will switch it away
  from, and a logger whose server fails is given another where there is one.
* **worker**: what an operation reports is what the cluster has; no task is
  forgotten or carried out twice; the object of a service is there while a
  controller uses it.
* **builder**: builds are bounded; a task is built by one builder; a stopping
  builder returns its tasks.
* **batch start**: a service of a mesh boots after what it depends on, memory is
  granted no more than there is, and nobody waits for a service that waits for it.

## 2. Modules

| Module | Models | |
|---|---|---|
| `FifoQueue` | what the queue promises | abstract specification |
| `EtcdQueue` | `mq/api/mq`, `mq/api/grpc/server`, `util/etcd` (`queue.go`, `etcd.go`, `client.go`, `watch.go`) | implements `FifoQueue` |
| `RWMutex` | Go's `sync.RWMutex` (external) | extended by the stores |
| `HandleStore` | `handleMessageStore`, `EventBarrel`, `handleReceiveMessage` | |
| `DockerLogStore` | `dockerLogStore`, `dockerLogEventBarrel`, `handleDockerLog`, `filePlugin.SaveMessage` | |
| `LiveLogs` | `readMessageStore`, `readEventBarrel`, `PubContext` and `Chan` of `eventlog/exit/web/pusher.go`, `pushEventMessage` | store and sessions composed |
| `EventClient` | `event/manager.go` | |
| `BuilderTasks` | `TaskManager` of `builder/discover`, `AddTask`, `runTask` and `Stop` of the `exectorManager` | on top of what `FifoQueue` promises |
| `AppRuntime` | `worker/discover`, `worker/handle`, `worker/appm/controller` (start, stop, restart, upgrade), `worker/appm/store` | task loop, controllers, informers and cluster composed |
| `BatchStart` | `api/handler/service_batch_operation.go`, the dependency check of `cmd/init-probe`, and where the worker decides on its container (`worker/appm/conversion`: `plugin.go`, `version.go`) | |
| `EtcdQueueProofs`, `BuilderTasksProofs`, `EventClientProofs`, `AppRuntimeProofs`, `LiveLogsProofs`, `DockerLogStoreProofs`, `HandleStoreProofs`, `BatchStartProofs` | | theorems about the modules they name |
| `MCEtcdQueue`, `MCHandleStore`, `MCDockerLogStore`, `MCBuilderTasks`, `MCBatchStart` | | instances for TLC |

Definitions named `X_Something` next to a definition `X` are faults: `X` with a
plausible mistake. Nothing uses them but the runs that show that a property
notices the mistake (`mutants` in `PROJECT.json`).

### EtcdQueue

`store` is the set of etcd keys with their ModRevision and value, `revision` the
revision of etcd, `puts` the events a watch can replay. A consumer is a caller
of `Dequeue` in a loop; `pc` is its place in `Queue.Dequeue`. One action is one
call of etcd: `Get` (`WithFirstRev`), the transaction of `deleteRevKey` (`Claim`,
`ClaimMissed`), the watch (`WatchEvent`, `WatchTimeout`). `Reply` is the answer
of the gRPC server. `CallFails`, `ClaimAnswerLost` and `ReplyLost` are calls
that fail before or after they had their effect. `Stamps` are the values of the
clock a key is named after: small on purpose, so that a key that was deleted is
created again with the same name while another consumer still holds what it
read. `Covers[t]` are the topics whose keys have the prefix of topic `t`: more
than `t` itself when the name of one topic starts with that of another, because
`queueKey` ends without a separator.

etcd itself is external: one revision counter, linearizable reads and
transactions, watches that replay every PUT from a given revision on.

### HandleStore

`barrels` maps an event to its barrel: `buf` (the cache), `pbuf` (the
persistence queue), `need`, `size`. Receivers go through `Receive`, `Lookup`,
`Ask`, `NewBarrel`, `InsertBegin`, `InsertAppend`, `AnalysisFlush`,
`AnalysisSend`, `CacheCheck`, `Return`: one step per lock, channel operation or
unprotected access. Appending is two steps, because the goroutines that hold the
store's lock for reading append without mutual exclusion. Handlers take commands
(`TakeEvent`), save (`PersistLookup`, `PersistLock`, `PersistSave`) and record
final statuses (`Callback`). A persistence command is dropped when the channel is
full (`OfferPersistence`), the other two commands wait for room with the lock held
(`AnalysisSend`). `raced` is a history variable: the events two receivers had
messages of at the same time. Such receivers may both create the barrel of the
event, or append to one slice, and no promise is made of what then happens to it
(`HandleStoreTwin.cfg`). The collector waits for the write lock (`GcTick`,
`GcRun`), `Stop`, `StopSave` and `Exit` are `storeManager.Stop`. Database and
garbage file can refuse what they are given.

Time is left out: which barrels are older than 30 seconds when the ticker fires
is a free choice (`S` in `GcRun`).

### DockerLogStore

Here barrel objects have an identity, because they go through the pool while
others still refer to them: `bar[b]` is the object, `barrels[e]` the object the
map names, `pool` the objects that can be handed out. `AddSubChan` gives a session
that is registered already the channel it has. A tick of the collector may still be
taken after stop has cancelled it, because Go's select chooses freely. A session is
one web socket: `SubChan`, `SubAsk`, `SubNewBarrel` make its channel, `Register` is the
goroutine `pushCashMessage`, `RealseSubChan` the end of the session. The handler
writes (`HSave`) and truncates (`HReset`) without the persistencelock. The
collector visits every barrel under the read lock (`GcTick`, `GcIdle`,
`GcPersist`, `GcSkip`, `SaveClear`, `GcVisited`) and removes under the write
lock (`GcRemove`). `saveBeforeGc`, which the collector and stop share, is
`SaveCopy` and `SaveClear`: `gcPersistence` reads and drops the cache without
subLock, so an insertion can fall between. A send to a channel either succeeds
or is dropped because the session reads too slowly. A file is the set of logs
written to it.

### BuilderTasks

`queue` is what `FifoQueue` promises, per topic; `Submit` is the api. `pc` and
`task` are the loop `TaskManager.Do` of a builder (`Dequeue`, `AddTask`,
`AddTaskFull`, `AddTaskWait`), `tasks` is the length of the channel `e.tasks`,
`run[b][t]` the place of the goroutine of task `t` in `runTask`: stored in
`runningTask` (`RunTask`), room given back before the build unless the type of
the task has concurrencyControl (`BuildStart`), the build (`BuildEnd`), deleted
from `runningTask` (`DeleteRunning`), room given back at last (`DeferredLeave`).
`Stop`, `Recycle`, `RangeEnd` and `Exit` are `TaskManager.Stop` and
`exectorManager.Stop`. `sync.Map.Range` is modelled with what it guarantees: it
meets each key at most once, every key that is there all the time, and perhaps
keys stored meanwhile. A call of the queue can fail, with or without effect;
`DequeueTimeout` is one that ends without effect and is made again.

### LiveLogs

The store of the messages that are watched while an operation runs, together
with the sessions that watch. `lock` is the lock of `readMessageStore`, which an
insertion, a subscription and a release hold while they wait for the `subLock` of
a barrel; `busy` is what the holder works on. `InsertMessage` puts a message into
the barrel and `insertMessage` offers it to the subscriptions. `SubChan` and
`addSubChan` subscribe; `pushBegin`, `pushOne` and `pushEnd` are the goroutine
that sends the cached messages, with blocking sends and `subLock` held, and enters
the subscription last. `GcScan`, `GcEmpty`, `GcPut` and `GcDelete` are the
collector, which takes no lock of the store: a barrel is in the pool while the map
still names it, and can be handed out before it leaves the map. A connection is a
`Chan` of `pusher.go`; it ends by itself (`handleChanEnds`, `RealseSubChan`,
`delSubChan`), by a cancel message (`closeChan`) or with its session (`Stop`).

The unprotected access to the map is a data race that Go may answer by stopping
the process; the model has the executions in which it does not.

### EventClient

A handle is a goroutine with a channel that sends to one eventlog server; `core`
is its place in `HandleLog`, `handles` the map of the manager. `UpdateEndpoints`
is called by service discovery. `getLBChan` goes round a list in the order of a
Go map, so any server that is not marked may be next. When a stream fails,
`DiscardedLoggerChan` marks the server and gives its loggers other channels; the
goroutine then ends (`RemoveHandle`) or opens the stream again (`Retry`). What is
written to a channel is left out; who reads it is what the properties are about.
`excused` is a history variable: the handles that may end with loggers on their
channel, because an update cleared the mark of their server while they were ending,
because `NewEventClient` failed or because the manager was closed.

### AppRuntime

One service, its operations, its object in the cache and the cluster. `Submit` is
the API: in mode `free` operations overlap as the API lets them, in the others a
user waits for the last answer. `Exec` is `AnalystToExec`, `Requeue` the answer
`ErrCallback` when too many controllers run. A controller is a goroutine `job[t]`
that goes step by step through `startOne`, `stopOne`, `restartOne` or
`upgradeOne`; every step is one group of calls to Kubernetes.

The resources of a service are told apart by what removes them: the workload and its
pods; config maps (`config`); services, secrets and ingresses (`svc`); autoscalers
(`hpa`); `monitors`; `claims` and the secrets of the environment variables (`env`).
`startOne` makes all of them (`CreateConfig`, `CreateDeploy`, `CreateSvc`,
`CreateHpa`), `stopOne` removes all but the claims and the secrets of the environment
variables (`DeleteSvc`, `DeleteConfig`, `DeleteDeploy`, `DeletePods`, `DeleteHpa`),
and `upgradeOne` makes no autoscalers (`UpgradeConfig`, `Patch`, `UpgradeSvc`). A call
that fails ends the operation (`CreateError`, after part of the step: `Halfway`;
`DeleteError`; `UpgradeError`) or is only logged (`LoggedError`: a monitor, and in an
upgrade a config map, service, secret or ingress). `PatchFails` is the error of
`SetUpgradePatch` in `rollingUpgradeExec`, which has cleared the cached status of the
workload, a deployment or a stateful set, by then. Its other answer, that there is
nothing to upgrade, never comes: the patch of two equal specifications is encoded as
`null` and is not empty.

`result` keeps apart how a task ended; `Status` is what a user is told. A task that
was refused ends its event with the status success, and a task that was lost has no
answer at all.

A wait polls the cached object (`PollDone`,
`PollRefresh`) until it times out (`PollTimeout`); the clock is left out, so it
may time out at any moment. `EarlyCallback` is the consequence of `wait.Add` being
called inside the goroutine it counts. `OnDeploy` and `OnPod` are the informers'
handlers: what they deliver is late, and deployments and pods are not ordered with
respect to each other. `Crash` loses the worker's memory, the task it has just taken
from the queue and not given to a controller included; `Sync` is the start of
the next worker. In the modes `serial` and `settled` no task waits in the queue across
a crash: a user who waits for the service to be quiet sends the next request to a
worker that has a filled cache. The other case, a task that waits for the next
worker, is in the mode `free`, and `AppRuntimeEarly.cfg` shows what it does.

Assumed of Kubernetes: a workload makes a pod of its version and removes pods it
does not want, and the listers have caught up with the cluster when a wait reads
them after its first polls, seconds later (`Refreshed`).

### BatchStart

`pc` is the place of the handler. `NewServiceDependency` reads the relations and
begins a list for every service of `headNodes`; `buildLinkListByHead` is the
recursive search for what a service has to wait for, one level of all its lists in
a step (`lists` are the calls still to be made, `ended` what came back; a call
changes nothing else, so the order of the calls has no influence);
`serviceStartupSequence` reads the result off the lists. `NewAllocMemory`, `Check`
and `check` grant the memory request by request, `createEvents` ends the
preparation, `Fail` are the three places where the request fails, and `Send` and
`SendFails` are the loop that sends the tasks. `startExec` is what the worker does with
one: a service that is not closed is not started again, so a request that names a
service twice starts it once (and is charged its memory twice). `check` may refuse a
request although there is memory, when the database has no such component. What is
allocatable may be negative: the limit of a tenant can be lowered below what it uses.

Which services wait is the worker's choice. `NeedProxy` is set for a service with
dependencies in the mode `BUILD_IN_SERVICE_MESH` only, and only then do its pods have
the init container (`initContainer`); without it `Boot` waits for nothing.
`startupSequenceDependencies` is what the worker writes into the environment of the
container and `checkEDS` what it looks at (`CheckPasses`). `CheckPassesEarly` is the
return at the beginning of the check: it counts the clusters the discovery server
knows and takes a server that knows none yet for one with nothing to wait for; the
services that started so are recorded in `early`, a history variable. `Running` are the
services that may run when the request comes, `Domains` third-party services without
endpoints of their own.

## 3. Runs

| Run | Configuration | Expected | Shows |
|---|---|---|---|
| `queue` | `EtcdQueue.cfg` | pass | two consumers race for one topic, a third works on another, key names used again, one failing call: `AtMostOnce`, `NothingVanishes`, `ImplementsFifo`, `EventuallyDelivered` |
| `events` | `HandleStore.cfg` | pass | two receivers, two handlers, collector, stop, a command channel that fills: `TypeOK`, `StoredOnce`, `SavedInOrder`, `StopSavesAll` |
| `events_live` | `HandleStoreLive.cfg` | pass | one receiver, one handler, a channel of capacity one, so that commands are dropped and sends wait: `EventuallyKept`, `EventuallyCalledBack` |
| `logs` | `DockerLogStore.cfg` | pass | receiver, session, handler, collector, stop, two services, three barrels: `TypeOK`, `RegisteredIsOpen`, `BarrelHasOneOwner`, `FileIsPure` |
| `logs_live` | `DockerLogLive.cfg` | pass | two receivers, handler, collector, stop: `StopReturns`, `EveryLogInserted` |
| `live` | `LiveLogs.cfg` | pass | one session that subscribes twice, collector, two barrels: `SendsAreOpen`, `InOrder`, `NoGap`, `StoreGoesOn` |
| `client` | `EventClient.cfg` | pass | two servers, two loggers, a failure and two updates: `OfferedAreServed`, `OnlyNamedServers`, `OrphanIsExcused` |
| `builder` | `BuilderTasks.cfg` | pass | two builders, one of which may stop, three tasks, one failing call: `BoundedBuilds`, `BuiltByOne`, `NoTaskVanishes`, `StopRecycles`, `EventuallyBuilt` |
| `worker` | `AppRuntime.cfg` | pass | up to three operations, a failure or crash: `ObjectStays`, `StopMeansGone`, `StartMeansOwn`, `FailedStartMeansGone`, `UpgradeMeansNew`, `NoTaskForgotten` |
| `boot` | `BatchStart.cfg` | pass | every dependency graph of a batch with a service outside it, services that run already, too little memory: `BootOrder`, `NoMutualWait`, `MemoryFits`, `SentBoots` |
| `boot_cycle` | `BatchStartCycle.cfg` | violation | `NoBootCycle` fails |
| `logs_gc` | `DockerLogGc.cfg` | violation | `GcPersistsFirst` fails |

### Bounds

* **Queue.** Two messages and two key names: a topic holds an older and a newer
  message, and a name that was deleted is used again; three consumers for a race
  within a topic next to another topic. `MaxFaults` bounds failing calls: one is
  enough to lose a message; the proofs need no bound.
* **HandleStore.** In `events` four messages of two events: a final one, a code
  version that stays in the cache, a progress message and one that cannot be parsed;
  `CacheNumber` 2 and `MaxNumber` 3 so that barrels are flushed by number and by
  the final message; two receivers, the default of the server, which may or may not
  meet at an event. In `events_live` three messages of one event with `MaxNumber` and
  `CacheNumber` 1. `ChanCap` is 2 and 1 and is reached; the code has 100.
* **DockerLogStore.** One log of each of two services and one session are enough
  to reuse a barrel; three barrels are as many as these three can ask for, so the
  pool never runs dry. `CacheSize` is 2 in the safety run, where the collector
  persists, and 1 in the others, where receivers do. `ChanCap` is 1 or 2: commands
  are dropped.

* **BuilderTasks.** Room for one build, so that the second task is returned; two
  tasks with concurrencyControl and one without; a second builder that never stops
  and takes what the first one returns. One failing call (`MaxFaults`).
* **LiveLogs.** One event and one session, because barrels, channels and locks of
  different events meet only in the pool; two barrels, so that one is handed out
  while the other is being recycled; two connections, the second while the first
  ends. A channel holds one message and the cache two, so that sending the cache
  can block.
* **EventClient.** Two servers, so that there is another to switch to or none; three
  handles of a server, so that a goroutine can remove a later handle; two updates,
  one that takes a server away and one that brings it back.
* **AppRuntime.** `N` = 3 operations when the service settles between them (make,
  change, look at what is left), `HastyTasks` = 2 when they overlap or follow each
  other at once; `MaxTasks` = 0, so that the second controller is put back; one
  failure or crash. `MaxLag` = 1: when operations overlap, the cluster makes, readies
  and removes pods by itself only while the informers are less than one event behind
  in that respect; when they do not overlap, which is what the properties about answers
  are about, there is no such bound. The service exists at the beginning or not, and has claims
  (`HasClaims`).
* **BatchStart.** Four services. A request names three of them, so that a dependency
  can lie outside the batch, or one twice; nothing runs before, a service of the batch
  does, or the one outside, which is reached by a domain name; memory for all, for
  some, or less than nothing; each service is in a mesh or not. `BatchStartFour.cfg`
  checks `BootOrder` and `NoMutualWait` for every graph of a batch of all four, without
  liveness and without domain names; `boot_cycle` needs the fourth service in the batch
  too, as a head outside a ring of three.

Deadlock is not checked where the modelled work may be over: in `boot`, `worker`,
`client` and `live` all requests of the bounded instance may have been made.
In `events` and `events_live` it is not checked because receivers and handlers can
really wait for each other forever, which is what `HandleStoreStuck.cfg` shows.

### Fairness

* `EtcdQueue`: weak fairness of each consumer. The consumers (`TaskManager.Do` of
  the worker, the executor of the builder) call `Dequeue` in an endless loop, the
  watch ends after 30 seconds, and etcd answers but for the bounded failures.
* The stores: strong fairness of each goroutine, because whether one that waits
  for the RWMutex can take it changes with the others, and Go's RWMutex serves
  waiters in turn. In `HandleStore` also of the collector: a barrel nobody writes
  to is old at some tick. Nothing forces messages to arrive, sessions to start or
  end, or the server to stop. `EventuallyKept` and `EventuallyCalledBack` are about the
  behaviours in which no receiver hangs in its send forever (`NoHang`).

* `BuilderTasks`: weak fairness of each builder's loop, of each task's goroutine
  (builds have a timeout) and of a stop that has begun. Nothing forces a builder to
  stop.
* `BatchStart`: weak fairness of the handler, which runs to its end, and for each
  service of `Boot` and `CheckPasses`: an init container checks again every five
  seconds. Nothing makes the discovery server be late (`CheckPassesEarly`).
* `LiveLogs`: weak fairness of the holder of the lock, of the goroutine that sends
  the cache and of the sessions that read. Nothing forces messages, subscriptions,
  releases or the collector to come.
* `AppRuntime` and `EventClient` state safety only.

## 4. What the violations show

* `logs_gc`: a container log that arrives after the collector has saved an idle
  barrel and before it holds the write lock is dropped.
* `boot_cycle`: `buildLinkListByHead` cuts a cycle once per list and
  `serviceStartupSequence` joins the lists. When a fourth service depends on
  several services of a ring of three, every list cuts another edge and the
  union has them all: the ring's init containers wait for each other. Two
  services that depend on each other are never kept so (`NoMutualWait`).

Further configurations state a property that TLC finds violated; they document
behaviour of the code next to the runs:

* `BatchStartEarly.cfg` (`EveryNamedIsReady`): the init container is to wait
  until every service it names has a ready instance. `checkEDS` returns at once
  when as many clusters are known as there are domain names among them, which is
  also so when the discovery server knows none yet.
* `HandleStoreTwin.cfg` (`BarrelAlone`): the comment on `EventBarrel` says that
  no coroutines can be started on it; receivers hold the store's lock for
  reading only, and the default are two. They look for a barrel under the read
  lock and create one under the write lock without looking again, so the barrel
  of an event can also be created twice.
* `HandleStoreStuck.cfg` (`SendsGoOn`): the comment in `store.go` asks for a
  non-blocking insert into the command channel to avoid a deadlock; persistence
  commands are sent that way, callback and code-version commands are not. A
  receiver that waits for room holds the lock a handler needs to make room.
* `AppRuntimeLimit.cfg` (`TasksBounded`): `MaxTasks` is described as the maximum
  of tasks per node, but the number of controllers is compared with `>` before
  the next one starts; besides, a controller can leave the list before its work
  begins (`EarlyCallback`).
* `AppRuntimeEarly.cfg` (`ReadyMeansKnown`): after a restart the store is ready
  when the informers have listed the cluster, although their handlers have not
  filled the cache yet. A stop taken then works on an object without a workload,
  reports success and leaves the workload.
* `DockerLogQueue.cfg` (`QueueIsWritten`): the handler truncates the queue
  without the lock under which receivers append to it.
* `DockerLogSub.cfg` (`SubscriberIsPure`): a session registered late is
  registered at a barrel that belongs to another service by then.
* `EventClientSwitch.cfg` (`LoggersAreSwitched`): with one server getLBChan
  gives the loggers back the channel they are to leave.
* `AppRuntimeCleanup.cfg` (`CleanupIsOwn`): of two overlapping starts the second
  finds the workload of the first, fails, and its cleanup deletes that workload
  by name.

## 5. Proofs

`EtcdQueueProofs` proves for every set of topics, consumers, messages and key
names, every prefix relation and any number of failures:

* `TypeCorrect`, `DeliversAtMostOnce`, `NoMessageVanishes`, `TopicsAreSeparate`:
  the invariants of the run `queue`;
* `Refinement`: `EtcdQueue` implements `FifoQueue`.

They rest on the named assumptions of `EtcdQueue` (`CoversAssumption`: a topic
has its own prefix; `TopicOfAssumption`; `MaxFaultsAssumption`).

The argument is the inductive invariant `IInv`. None of the properties is
inductive: that a message is delivered once needs to know that a key-value a
consumer holds, however old, is one of the puts; that puts have pairwise
different revisions and messages; that a stored key-value was neither taken nor
delivered; and that two consumers do not answer with the same key-value. A claim
then compares the revision it read and so deletes exactly the key-value it read
(`ClaimDeletesCandidate`). First in, first out needs two facts more: a key-value
that is being claimed is the oldest of its prefix as long as it is stored
(`FirstOK`), and, for the watch, every key a waiting consumer can still meet was
put at or after the revision it watches from (`WaitOK`). The proof that a step
preserves `IInv` has one lemma per action or group of actions that change the
same variables; `Refinement` maps the stored keys, ordered by revision, to the
waiting messages.

`BuilderTasksProofs` proves for any number of builders, tasks and failures, any
room, any topics and any set of builders that may stop: `BuildsAreBounded`,
`OneBuilderPerTask`, `TasksDoNotVanish` and `StopReturnsRunningTasks`, the
invariants of the run `builder`, and type correctness (`TypeCorrect`). The
assumptions are those of `BuilderTasks` (`TasksAssumption`, `BoundsAssumption`,
`NoneAssumption`).

Here the inductive invariant `IInv` says that a task has one owner: it waits once
(`Distinct`), and then no loop has it and no goroutine but those of builders
that returned it (`QueueOK`); the same holds of a task in a loop's hands
(`HandOK`); of two goroutines for a task one belongs to a builder that returned
it (`RunOK`). Without it a builder could start a second goroutine for a task it
already runs, and the length of `e.tasks` would not be the number of goroutines
that still owe it an element (`RoomOK`), which is what bounds the builds.
`StopOK` says where a task of the snapshot can be while its builder stops. The
lemmas `PutTask`, `TakeTask` and `CallbackQueue` are all that is needed about
sequences.

`EventClientProofs` proves for any servers, events, loggers and bounds
`TypeCorrect`, `OffersAreServed`, `HandlesAreNamed` and `OrphansAreExcused`, from
`EventClientAssumption`. That a logger is never left on a dead channel
without excuse is not inductive: `OrphanOK` says it already of a goroutine that is
about to end; `LeaveMarked` says that `getLBChan` cannot choose such a goroutine's
handle, because its server is marked or an update has cleared the mark;
`EndExcused` covers those that end without switching loggers; `RegisteredRuns`, that a
registered handle's goroutine has not ended, together with the two gives
`OfferedAreServed`; `Numbered` makes a
new handle's goroutine different from every earlier one.

`AppRuntimeProofs` proves for any number of tasks, any limit and any number of
failures `TypeCorrect`, `ObjectIsThere` and `TasksAreNotForgotten`, from
`RuntimeAssumption`. The invariant `IInv` follows a task from the queue
(`Distinct`) to a controller to an answer (`TasksOK`: a task that waits has no
controller and no answer, one at work has no answer unless it cleans up, and none
is in neither place without an answer), and the object of the service (`ObjectOK`:
an object exists from the moment a controller that needs it starts, also for the
start half of a restart). `FinitePods` is needed because the events of a set of
pods are made into a sequence. `TasksAreNotForgotten` also says when a task is
lost, which `LostOK` adds: only after a call failed or the worker crashed, and a
controller that cleans up has reported its failure, so nobody works on a lost
task.

Its second part proves what an answer says about the cluster when a user waits
for it before the next request (the modes `serial` and `settled`; in the mode
`free` the four properties say nothing): `StopIsTrue` (`StopMeansGone`),
`StartIsTrue` (`StartMeansOwn`), `FailedStartIsTrue` (`FailedStartMeansGone`) and
`UpgradeIsTrue` (`UpgradeMeansNew`), for any number of tasks, failures and crashes,
again from `RuntimeAssumption` alone. The invariant is `SInv`, on top of `IInv`:

* only the last task is without an answer or at work (`SerialOK`), so a step has
  one controller to consider and every other task is idle (`OnlyOne`);
* the informers' last word is the truth: the last event about the workload is what
  the workload is, and without events the cached object has it (`CacheOK`); every
  pod of the workload is cached or an event that adds it is still to come
  (`PodsOK`). While a request waits, the cached object therefore tells whether there
  is a workload (`QueuedOK`): a start is let through only when there is none, and
  the copy a stop works on has the workload if there is one. Conversely a cached pod
  that the cluster no longer has is followed by the event that removes it
  (`GhostsOK`), so a settled service without workload is not refused a start;
* a task that has created nothing owns nothing (`OwnOK`), which makes the workload
  a start finds in the end its own;
* per controller (`JobOK`): what its steps so far have deleted or created, that a
  start polls its own object and that no event still to come calls a workload
  ready that is not (`ReadySeen`), and that in an upgrade of a settled service the
  cached object has every pod of another version, with no event about it pending
  (`Patched`). The last is what `UpgradeComlete`, which looks at cached pods only,
  rests on, and it is why `UpgradeMeansNew` needs a settled service;
* `FreshOK`, which holds in every mode: an object is named after a task only once
  the task was taken, no controller works before the informers have listed the
  cluster, and a service without object has neither a controller at work nor a resource
  the informers would make one for. So a stop or restart that is refused, with status
  success, is refused because there is nothing.

What is proved of a stop and of the cleanup of a failed start is proved of what
`stopOne` removes: claims and the secrets of environment variables stay, and a monitor
stays when the call that removes it fails.

The proof corrected a property. `FailedStartMeansGone` used to say that nothing is
left after any failed start, which is true only as long as one call fails: a second
failure inside `errorCallback` ends the cleanup half-way. It now says that nothing is
left when the cleanup gets to waiting for the pods, however many failures there
were, and nothing when it is over with one failure in all.

`LiveLogsProofs` proves for any number of events, sessions, barrels, connections,
messages and collections and any capacity of the channels `TypeCorrect`,
`NoSendOnClosed` (`SendsAreOpen`), `ReadInOrder` (`InOrder`) and
`NothingSlipsThrough` (`NoGap`), from `LiveLogsAssumption`. None of the last three
is inductive. A channel that is offered messages is open because of `SubsOK`: it
is registered once, at the barrel and for the session it was made for, so
whoever closes it takes it out of the one place that sends to it, even when the
collector has given that barrel to another event meanwhile. The order and the
absence of a gap depend on `subLock`: the channel that is being filled holds it
(`FillOK`), what is still to be sent to it comes after what was (`OrderOK`), and
together they are the messages of the barrel, but for the one message that waits
for the lock (`GapOK`). `ConnOK`, `BusyOK` and `GcOK` say what the goroutines
remember between two locks.

`DockerLogStoreProofs` proves for any number of services, receivers, sessions and
barrels and any sizes `TypeCorrect`, `NoSendOnClosed` (`RegisteredIsOpen`),
`OneOwner` (`BarrelHasOneOwner`) and `FilesArePure` (`FileIsPure`), from
`LogsAssumption`, `SizesAssumption` and `NamesAssumption`; the last says only that
the goroutines have different names, which the model of the lock needs to tell
its holders apart. The heart of the argument is `WorkersOK`: whoever works on a
barrel object holds the store's lock, for reading or for writing, so the map
names that barrel for the same service until the work is done. With it a barrel in
the map has logs of its service only and one in the pool has none (`PureOK`),
although handler, receivers, collector and stop append, write and truncate without
a common lock; and a file can only get logs of its service. `SubsOK` gives a
channel one place in one barrel, as in `LiveLogs`.

`HandleStoreProofs` proves for any number of receivers, handlers, events and messages
and any sizes, from `MessagesAssumption`, `BoundsAssumption` and `NamesAssumption`:

* `TypeCorrect` and `StopLosesNothing`
  (`StopSavesAll`). The inductive invariant `IInv` has the same lock protocol
  (`WorkersOK`); a message that is being inserted belongs to one receiver and has
  not returned (`FlightOK`); and once stop has saved, neither a barrel nor the copy
  of the cache that a receiver is about to write back has a message from before
  (`StopOK`). The copy is why `StopSavesAll` alone is not inductive: a receiver
  that read the cache before stop and wrote it after would bring messages back;
* `SavesInOrder` (`SavedInOrder`) and `StoresOnce` (`StoredOnce`), of the events that
  are not in `raced`. `OInv` says that such an event has one receiver at work, that its
  barrel is not there when that receiver creates it and that nobody changes the cache
  while it appends (`OneOK`); that the database, the queue and the cache of the event
  follow each other in the order of the inbox (`OrderOK`); and that a message has one
  place, or none as long as it is on its way (`CountOK`). Whoever races for another
  event leaves this one alone, because a barrel has messages of its event only
  (`HomeOK`, which holds of all events).

`BatchStartProofs` proves for any set of services, any relations, any request (one
that names a service twice included), any services that run already and any amount of
memory, a negative one too, `TypeCorrect`,
`BootInOrder` (`BootOrder`), `NeverMutualWait` (`NoMutualWait`), `MemoryIsShared`
(`MemoryFits`) and `CircleNeedsCycle` (a batch waits in a circle, as `boot_cycle`
shows, only when the dependencies have a cycle), from `BatchAssumption`. The first
two say something about the whole search; the inductive invariant says it of the
search half-way:

* every list follows the dependencies, and no service on it depends on the one
  just before it (`EdgesOK`), which `childInLinkedList` sees to. What two services
  wait for is read off such pairs, in whichever lists they are, so they cannot wait
  for each other (`WaitOK`);
* without a cycle nothing ends a list but a service without dependencies: a
  dependency that is on the list, or has a dependency on it, would close a circle
  with the rest of the list (`NothingBlocks`). So a list is only replaced by longer
  ones, no head gets lost (`HeadsOK`), and every dependency of a service that a list
  has passed comes right after it on some list (`ClosedOK`). When the search is over,
  the services of the batch that are on no list would have one that none of them
  depends on; it is a head, or a dependency of one that is on a list, and in both
  cases on a list itself (`AllOnLists`);
* what was started in a mesh is to wait for all it depends on (`SentOK`), and
  `BootOrder`, which is about the services in `needProxy` that are not in `early`,
  follows from the check of the init container, because a ready service stays ready.

For the proof the recursion of the search became steps and a cycle a property of
sets: a relation has none when every set of services has one that no other of the
set leads to, which for the finitely many services of a tenant is the same as that
no path returns. `MemoryFits` adds up a sequence, and what a recursive function
returns cannot be proved by induction here; but the requests are granted one at a
time, so the induction is over the steps: `TotalOK` says that there is a running
total of the granted requests and that every one of them makes up with `allcm` what
was allocatable, and one more grant makes it longer (`TotalAppended`,
`TotalRestricted`).

Every safety property of a passing run is proved. Only model-checked is liveness:
the prover does not treat fairness.

## 6. What is not modelled

The components of section 1 without a module, because their work is input and
output, generated code, or the database's and the Kubernetes client library's:
gateway, node, monitor, discover, db, grctl and the generated clients, together
most of the lines of the repository. Of the modelled ones:

* reads that change nothing (`GetHistoryMessage`, monitoring getters), log rotation
  and cleaning, the connection of the etcd client, parsing of messages (a message
  can be parsed or not), the cluster mode of eventlog that forwards received
  messages to other instances before they are stored;
* the worker's scaling, rules, plugin configuration, garbage collection, deletion of
  tenants, third-party and custom components, volumes;
* of the API everything but the start of a batch (and the overlap of operations it
  allows, `Submit` of `AppRuntime`);
* what a build does.

## 7. Plan

1. Scaling and the application of rules in `AppRuntime`, whose controllers work on
   the same object.
2. `EtcdLock`: the lock of `util/etcd` and registration with leases.
3. Builders of two topics: a task a `windows_builder` returns goes to the topic
   `builder` (`Callback` has it).
4. Proofs: the reaction of the controllers to overlapping operations, the mode
   `free` of `AppRuntime`, beyond what `AppRuntimeProofs` says about it.
