# ACME oneM2M CSE: TLA+ specifications

ACME is a Common Service Entity: a server that keeps a tree of resources (applications, containers,
content instances, subscriptions, ...) for devices and applications, as oneM2M specifies it. It is one
Python process with many threads and a set of JSON files. This directory holds TLA+ modules of the parts
of it where threads meet, the TLC configurations that check them, and TLAPS proofs about them.
`PROJECT.json` is the index: components, runs, mutants, the map from every definition to its source
lines, findings, hazards, theorems.

Source paths below are relative to `acme/`.

## 1. Inventory

Requests come in over HTTP, MQTT and WebSocket, each in a thread of its own. `RequestManager` turns them
into calls of `Dispatcher`, which works on `Resource` objects; an object is a private copy of what
`Storage` has in the database, and `dbUpdate()` writes all of it back. Everything that is periodic or
delayed runs in job threads of `BackgroundWorkerPool`. Managers talk to each other by direct calls, and
by events of `EventManager` that call handlers in the thread of the caller or in a job.

| Component | State | Operations | What is hard | What makes it correct |
|---|---|---|---|---|
| Scheduler, `helpers/BackgroundWorker.py` | heap of (time, worker), one timer, worker flags, pool, job threads | newWorker, newActor, start, stop, restart, pause, unpause, workNow, stopWorkers, removeWorkers | the timer is replaced around every change; the flags of a worker are not locked | due workers run; one schedule per worker; none is lost; maxCount |
| Storage, `runtime/Storage.py`, `databases/TinyDBBinding.py` | tables resources, identifiers, structuredIDs, childResources, subscriptions, batchNotifications, ... | create, update, delete, search per table | one lock per table, none across tables | the tables tell the same tree |
| Dispatcher, `services/Dispatcher.py` | none of its own | CREATE, RETRIEVE, UPDATE, DELETE, NOTIFY, discovery | long sequences of database steps with other requests in between, failures in the middle | unique names, no orphans, failed requests leave nothing |
| Containers, `resources/CNT.py`, `ContainerResource.py`, `CIN.py` | cni, cbs, st, mni, mbs, instances | add, remove and evict instances, update | read-modify-write of whole objects; lists that are out of date | exact counters, limits, the newest instances are kept |
| Subscriptions, `services/NotificationManager.py`, `resources/SUB.py` | internal subscriptions, batches, guard actors | verification, notification, batch, flush, deletion, expiration counter | an actor and requests send the same batch; counters | nothing lost, in order, sent in the end |
| Cross resource subscriptions, `resources/CRS.py` | time windows (periodic worker, sliding actor), list of received notifications | start/stop window, receive, check | a deletion reaches itself through its own subscriptions; data replaced during a check | one notification per window, one deletion |
| Requests, `services/RequestManager.py`, `resources/PCH_PCU.py`, `REQ.py` | queue of polled requests, rqi to originator, received responses, `<request>` resources | queue, poll, answer, expire, non-blocking execution | timeout against late answer; two pollers | an answer for every request at most once |
| Registration, `services/RegistrationManager.py` | AEs and CSRs in the tree, expiration worker | register, deregister, expire | check and creation are separate; one bad resource stops the loop | one AE per originator; expired resources go |
| Time series, `services/TimeSeriesManager.py` | running series, missing data of subscriptions, monitor actor | start, stop, pause, monitor | monitor and requests share dictionaries | each missing point is reported once |
| Remote CSEs, `services/RemoteCSEManager.py` | own and registrar CSR, connection monitor | connect, check, disconnect | several remote steps that fail alone | both ends agree on the registration |
| Announcements, groups, actions, locations | attributes of resources | announce, fan out, trigger, geofence | remote steps, members that fail | |
| Critical sections, `helpers/ResourceSemaphore.py` | semaphores by (ID, state) | enter, leave, ask | created and removed without a lock | mutual exclusion, nobody waits for ever |
| Database files, `helpers/TinyDBBufferedStorage.py` | data, changed, event, flags | write, close, file writer | an event that is lost; close() waits | everything gets to the file |
| WebSockets, `protocols/WebSocketServer.py` | connections, connection of each originator, uses of each connection | accept, receive, send a request, close | receive loops, jobs and requests change the tables; jobs share a variable with their loop | the tables lead to open connections; each message is handled once |
| MQTT, `protocols/MQTTClient.py`, `helpers/MQTTConnection.py` | connected or not, topics and what they wait for | connect, subscribe, unsubscribe, shut down | the library calls back in its own thread; connections are lost | a shutdown ends |
| Life cycle, `runtime/CSE.py`, `runtime/Console.py`, `helpers/KeyHandler.py` | status of the CSE, flag of the keyboard loop | start, run, shut down, reset | several threads write the status | the process ends when it is told to, and closes its databases |
| Validation, access control, scripts, semantics, HTTP, console, text and web interface, configuration, import, onboarding | | | | no shared state worth a model, or input and output |

The hazards of all of these, each with its line, are in `PROJECT.json`; section 7 says which are left.

## 2. Modules

| Module | What it is |
|---|---|
| `BackgroundWorker` | the scheduler |
| `BackgroundWorkerInv` | its inductive invariant for workers that are started once |
| `JobPool` | the job threads, and how they are used again |
| `ResourceTree`, `ResourceTreeProofs` | creation and deletion over the four tables |
| `NameTree` | what `ResourceTree` promises: a tree of names |
| `Container` | a container, its limits and its instances |
| `BatchNotification` | the batch of one subscription and target |
| `Subscription` | notifications with their statistics and the expiration counter |
| `CrossSubscription` | cross resource subscriptions and the subscriptions they create and enter |
| `CrossWindow` | their time windows |
| `RequestManager`, `RequestManagerProofs` | forwarded and non-blocking requests |
| `RequestResponse` | what `RequestManager` promises: a request, and one answer |
| `TimeSeriesManager` | missing data detection |
| `ActionManager`, `ActionManagerProofs` | actions, their dependencies and executions |
| `AnnouncementManager` | resources that are announced to other CSEs |
| `GroupManager` | members of groups, and fan-out |
| `RegistrationManager` | AEs and their nodes, and the expiration monitor |
| `RemoteCSEManager`, `RemoteCSEManagerProofs` | the registration of CSEs at each other |
| `BufferedStorage` | a database file and its writer thread |
| `WebSocketServer` | connections of WebSockets, and requests over them |
| `MQTTConnection` | the connection to an MQTT broker |
| `CSE` | the life of the process |
| `MCCore`, `MCServices`, `MCLiveness`, `MCEnds` | several of these that share no state, for one run of TLC |
| `CoreProofs` | theorems about the scheduler, and about `MCCore` |
| `ConnectedServices`, `ConnectedServicesProofs` | `Subscription` with `AnnouncementManager`, `GroupManager` and `WebSocketServer`, which `MCServices` has with others; theorems about these four |
| `ServicesProofs` | theorems about `CrossWindow`, `Container` and `TimeSeriesManager`, and about `MCServices` |
| `LivenessProofs` | theorems about `RegistrationManager`, and about the file and the batch of `MCLiveness` |
| other `MC...` | the values of the constants for TLC |

Definitions have the names of the functions they model. A definition whose comment begins with "Mutant"
is a plausible bug that is part of no specification; `PROJECT.json` says which definition it replaces and
which property then fails.

These four do not compose: the components in one of them neither call each other nor share a
variable, and a product of their state spaces would show nothing. A variable that never changes (`service`,
`component`) says which one a behaviour is about, and the others stay in one state. Their properties are
those of the modules. What does interact is in one module: requests and jobs, monitors, timers and
actors, a deletion that comes back to itself, CSEs that send requests to each other.

In several modules a variable that never changes (`overlap`, `reliable`, `undisturbed`) is
chosen at the beginning. It separates the behaviours in which threads overlap or something fails from
those in which they do not, so that one run has both: all of them are explored, and a property says in
its antecedent for which of them it holds. Section 6 has what happens in the others.

### 2.1 BackgroundWorker

*State.* `queue[w][d]` is the number of heap entries of worker w that are due in d ticks; `timer` and
`fired` are the `Timer` thread, armed or fired, and how many fired ones still wait for `queueLock`;
`running`, `executing` and `runs` (numberOfRuns) are the attributes of the workers; `pooled` is
`backgroundWorkers`; `jobs[w][p]` counts the job threads of a worker that stand at phase p of `_work()`;
`client` says where each calling thread stands in a public method.

*Steps.* What is done under `queueLock` is one step. Outside it every read or write of a shared attribute
is a step of its own: `start()` is "stop, if running", "set running", "queue"; `stop()` is "reset running",
"unqueue", "leave the pool"; `_work()` is "begin", "callback over", then "stop, unqueue, postCall" or
"requeue"; `restart()` and `workNow()` are "wait for executing", "unqueue", "read running", "queue".
`TimerFires` models that `Timer.cancel()` has no effect on a timer thread that already waits for the lock.

*Abstractions.* Time is relative and in ticks; an entry that is overdue stays at 0. A worker that runs on
time (`runOnTime`) is requeued for any tick of its next interval, which also covers drift. The callback may
return TRUE or FALSE or raise an exception (ignoreException repeats it, without a change of state). The
`finished` callback is never given to a worker by `newWorker`. Job threads start at once; their reuse
is left out. A client leaves a worker alone that has `MaxInFlight` entries and jobs.

### 2.2 ResourceTree and NameTree

*State.* The four tables (`stored` with `info`, `identifiers`, `structured`, `linked` with `ch`) and for
each thread the step it is at and a stack: the resource being deleted on top, its ancestors that wait for
it below, each with the children still to be deleted.

*Steps.* One per critical section of a table lock, in the order of `Storage.createResource` and
`deleteResource`. `processCreateRequest` merges the retrieval of the parent with the check of the name,
which is as late as the code makes it (in `Storage.createResource`): the window between the check and
the insertion is what matters. A creation that fails in `activate()` or finds its resource gone is undone by `dbDelete`.
A missing record of the parent in childResources is a `None` that is subscripted: the request ends there.
A child that is listed and not stored is an `IndexError`: the same. `NOT_FOUND` ends `dbDelete` after
the first table.

*Abstractions.* A resource ID is a model value, a structured name an element of a fixed tree of paths.
Virtual children (latest, oldest, fan-out points), notifications and access control are left out.

### 2.3 Container

*State.* `cnt` is the container in the database, `stored` and `listed` are the instances in the resources
table and in the list of children, and every thread has an object `obj` with ALL attributes as they were
when it read the container. `Write` puts all of them back: TinyDB updates attribute by attribute, but the
object has them all.

*Steps.* The creation of an instance in the order of `createLocalResource`: insert, list, activate,
reload the container and write its stateTag, store the instance again, reload, `instanceAdded`,
`_validateChildren` (list the IDs, fetch the instances, remove the oldest one by one, write). Update of
maxNrOfInstances and removal of an instance likewise; the writes the code repeats are steps (`dbUpdate`).

*Abstractions.* Creation times are distinct and ordered like the numbers of the instances. Left out:
maxInstanceAge, disableRetrieval, deletionCnt, the virtual latest and oldest, containers as children.

### 2.4 BatchNotification

*State.* The notifications in the table, those a thread or actor has collected, those that were sent;
whether the subscription exists; the actors that are in the pool; where each thread and actor stands.

*Steps.* `_storeBatchNotification`: add, count, then stop the actor and send, or look for an actor and
start one. `_sendSubscriptionAggregatedBatchNotification` under `lockBatchNotification`: collect, remove,
send. `removeSubscription`: flush like a full batch, then remove. An actor is created and started in one
step, and leaves the pool in its `_postCall`. `stopWorkers` keeps a waiting actor from running and takes
the others out of the pool without interrupting them.

*Abstractions.* One subscription and one target. A batch that cannot be delivered is gone as in the code,
and counts as sent; with latestNotify the one that leaves stands for all.

### 2.5 BufferedStorage

*State.* One variable per attribute of the class, the content of the file, and the positions of `write()` for each
table, of `close()` and of the file writer. The data is the number of changes in it: the tables of a file are parts of
one object. Each table has a lock of its own (`TinyDBBinding.py`), so that there is one `write()` per table at a time. The
identifiers file has three tables; `closeDB()` holds the lock of one (`Locked`), and the other two may be written while
the file is closed and afterwards. The file writer takes no such lock. `write()` is three steps (the data, `changed`, the
event), `super().write` two: the data is serialised, then it is in the file. `due` is the data that was announced by
`changed` before `close()` gave up waiting: that much `close()` has to save.

### 2.6 JobPool

*State.* `pausedJobs` (a list, its head is used next) and `runningJobs`; the two events of each job; what
its thread does; the call of `runJob()` for each task.

*Steps.* `getJob` takes a paused job or creates one; `resume` puts it among the running ones and checks the
balance, which stops some of the paused jobs; the thread runs the task, and enters the list again. A task
may raise an exception, which ends the thread: its job stays in `runningJobs` for ever.

*Abstractions.* One task never ends, as the receive loop of a web socket; `resident` says whether it runs from
the beginning. Without it there may be no running job when the balance is computed (section 6).

### 2.7 Subscription

*State.* The `<sub>` with its counter `exc`, its targets and its statistics, its entry in the table of
subscriptions, and for each thread, and each notification sent in the background, the step it is at with its
copy of either. `lock` is `lockNotificationEventStats`.

*Steps.* An event is handled with a copy of the entry: for each target "count the request", "send", "count
the response"; then "count the event" and the expiration counter: retrieve the `<sub>`, write it, or delete
it, write the entry. Counting is reading and writing under the lock. UPDATE replaces targets, counter and
statistics in the order of `SUB.update`. Sending may be asynchronous (`asyncSubscriptionNotifications`).

*Abstractions.* What makes an event one of this `<sub>` is left out. Notifications to a CRS are in `CrossWindow`,
those that are collected in `BatchNotification`.

### 2.8 CrossSubscription

*State.* The `<sub>`s with the `<crs>`s in their `nu` and `acrs`, the `<crs>`s, `window` for those that have a
worker, the semaphores of the critical section of each `<crs>`, and a stack of method calls for each thread: a
deletion notifies, is notified, and calls other deletions, up to a deletion it is in itself.

*Steps.* CREATE: the entries in the `<sub>`s of srat and the `<sub>`s of rrat one by one, then the window, and the
`<crs>` is stored again; what was done is undone after a failure. Deletion of a `<sub>`: notify its `<crs>`s, each of which
deletes itself unless it is in its section. Deletion of a `<crs>`: enter the section (get or create the
semaphore, wait, note it), delete rrats, leave srats, leave the section, in the steps of `ResourceSemaphore`.

*Abstractions.* nu and acrs are one set. Verification is part of "a creation may fail". An update of a `<sub>`
during a deletion is never refused. A creation overlaps with nothing. TinyDB hands out the lists it
stores, so that a change of a copy's list is one of the database: `shared` models this.

### 2.9 CrossWindow

*State.* Time; one `<crs>`; the workers of its windows, later ones with higher identifiers, with the data they have
collected; the check and the notification that are being handled; the resource `object` of the check, which the actor that
sends its notification (`notifier`) uses and reloads as well; an UPDATE or DELETE with its own copy. `object` has what was read
and what it is now. `stale` notes that a copy was written over a newer `<crs>`, or that a change of `object` was lost because it was
reloaded before it was written.

*Steps.* A notification is noted in the window of the `<crs>`, and starts a sliding one if there is none. The
check tests the data; reads the `<crs>`, starts the actor that sends; counts the event (reload, write, under the lock of the statistics);
reduces `exc` in the object, writes all of it, and deletes the `<crs>` with the last one in two steps; then the data
is emptied, and a sliding window ends. The actor counts what it sends and receives, by the same two steps each. A check that finds the
`<crs>` gone ends with an exception and does not empty its window. UPDATE reads the `<crs>`, stops and starts windows in the order of
`CRS.update`, validates, and writes its whole copy twice; DELETE stops the window, then removes.

*Abstractions.* A worker runs on time or late. The `<sub>`s are sources of notifications here, and the notification has one target. What
is counted as sent is given to an actor. One check, one received notification, and one request at a time (but all three together), at most
`MaxWorkers` windows. An update is one of twt, tws or eem.

### 2.10 RequestManager and RequestResponse

*State.* The queues of polled requests, the originator of each request identifier, answers that came as a
message, the actors that take entries out of a queue, `<request>` resources, and where each sender, poller
and answering thread stands. A request is of one of the four response types of the code that it distinguishes.

*Steps.* Forwarding: enter the queue and start the actor of the entry, or send a message; wait; take the
answer, or time out. A poller takes one or all of its requests; an answer finds the originator of its identifier
and is queued or noted. An actor removes its entry. `restart` (a reset of the CSE) forgets all queues. A non-blocking request is executed
in an actor and writes its result into its `<request>`, which may expire. A flexBlocking one is executed as a blocking one, or,
when non-blocking is the preferred way, refused after its `<request>` was created (section 6).

*Abstractions.* A request is a name with an identifier, an originator and a target. A time-out may come whenever somebody waits: expiration times and polling intervals are not counted.

### 2.11 TimeSeriesManager

*State.* Time; the data generation times of the instances; `mdlt`; the `LastTSInstance` object of the series with
its expected time; the scheduled monitor runs; a run with its place and its copy of the `<timeSeries>`; the instance that is being
created, with its place and its copy; the window of the subscription. `disturbed` notes what the detection does not allow for: "late" and
"stale" writes, instances that are "unexpected" or come "during" a run, and a run that is "early".

*Steps.* An instance is stored; the `<timeSeries>` is reloaded; `instanceAdded` and `validate` each write that copy back as a whole; then the
instance starts the detection (the actor first, then the object it needs), is entered into the copy's `mdlt` if it is too old, and
its time is handed over. A monitor run compares, reads the `<timeSeries>` once, enters a missing time
in its copy of `mdlt` and writes it, enters it in the window, which is emptied by a notification, goes on with the next period and schedules
the next run. All steps of an instance and of a run interleave. Detection is switched on and off between them, and the series deleted, also
during a run.

*Abstractions.* One subscription, one instance and one run at a time, updates and subscriptions not during either. A copy is one: resources
are copied when they are read (`Resource.__init__`), and the attribute lists that TinyDB shares with the last writer until the next write
lose nothing that the model keeps. `SeriesAssumption` is what `TS.validate` demands of period, tolerance and
detection time, and that a window has a duration. `MissingExact` says in three steps what is left: without "late" and
"early" nothing is listed twice, out of order, or before its time, however stale a write is; undisturbed, the list is exact; and the points
of a window lie within its duration unless an instance came during a run.

### 2.12 ActionManager

*State.* The `<action>`s, the table of scheduled actions, the semaphore stored for each action and the value of each semaphore, the
jobs that handle an event of the subject, with the actions they still have to look at, sorted by priority. `raced` notes that two jobs have
stored a semaphore for one section, or that a semaphore was removed while a job was about to acquire it.

*Steps.* CREATE, UPDATE and DELETE schedule and unschedule. A job enters the section of an action as `ResourceSemaphore` has it: look for the
semaphore, and create and store a new one or acquire the one that was found, or wait for it, each a step of its own. It looks the action up
again, evaluates period, criterion and dependencies, retrieves the `<action>`, sends the request, stores the response, reschedules or
counts, leaves the section in two steps (remove the semaphore if nobody waits; release it, which wakes one that waits and
has to try again), and goes on. `dependency` is the loop over the dependencies as a function; it is compared with what it means
for all lists of three.

*Abstractions.* Whether a criterion is met is chosen per action and event. An exception ends the job, and leaves the section.

### 2.13 AnnouncementManager

*State.* Three local resources (CSEBase, one below it, one below that) with `at` and `__announcedTo__`; what
is announced on the remote CSEs; which CSEs answer.

*Steps.* Each request is one step: CREATE with `at`, UPDATE of `at`, DELETE; and on the remote side the loss
of announced resources. A step computes what the loops over the targets do, one target after the other
with those that do not answer, including the list that is changed while it is gone through.

*Abstractions.* Announced attributes are left out. Nothing overlaps.

### 2.14 GroupManager

*State.* Which resources exist, `mid` and `cnm` of each group, a job for each deletion with its copies of the groups it
found, an UPDATE with its copy, and a fan-out with the members it has yet to visit.

*Steps.* "Search the groups", "write the next"; "check the members", "write"; "visit the next member", which may be a
sub-group.

*Abstractions.* Members are a set. The member types, the consistency strategy and remote members are left out.

### 2.15 RegistrationManager

*State.* The resources that exist, the `nl` and `__node__` of AEs, the `hael` of nodes, who
has expired, and the resources a run of the monitor has found, as they were then.

*Steps.* Creation, update and deletion of AEs and nodes as the code does them, with what is left behind by one
that is refused; `expirationDBMonitor` searches, and `ExpireNext` deletes.

*Abstractions.* The search returns its resources in any order: that of creation in TinyDB, none in particular in PostgreSQL.
`undisturbed` and `together` say whether requests may fail half-way or come during a run of
the monitor, and whether several resources may expire at once. `astray` notes the AEs for which a link has gone wrong: an update of theirs
that failed half-way, a node that the monitor had found before they were entered, or a link again to a node that was deleted. An UPDATE that
removes nl always fails half-way: `AE.validate` looks for the node `None` after it has taken the AE out of the list.

### 2.16 RemoteCSEManager

*State.* For each CSE of a chain: the `<csr>`s it stores, the descendants it knows and the way to them, whether it
has its registrar, the events that wait for a job, the lists it is about to send, and its monitor.

*Steps.* The monitor retrieves, compares, updates, disconnects, deletes, creates, registers, checks its registrees,
step by step as in `_checkConnectionToRegistrar` and below, and any remote request may fail. Events are
handled by jobs in any order. A CSE may stop or crash, and is started again with the `<csr>`s in its database.

*Abstractions.* A CSE stops between two runs of its monitor only. A change of the CSEBase is an "incident", a request that is lost
another one; but the update that such a change calls for may be lost without counting again.
`overlap` names the CSEs whose jobs, monitor and requests overlap.

### 2.17 WebSocketServer

*State.* The three tables of the server (`wsConnections`, `associatedConnections`, `connectionUsedCounter`); the sockets
that are open and who is at their other end; the receive loop of each connection with its variable `message`
and the jobs that have not read it yet; where each request of the CSE stands.

*Steps.* A peer connects, with or without a header that names it: "add", "close the connection it had", "associate";
its messages are received and handled by jobs; the loop ends when the socket is closed, and removes connection and
association. A request of the CSE uses the connection of its target, or opens a temporary one, tries again once when
it was closed, waits for the response, and closes what it has opened unless others use it.

*Abstractions.* A socket is used once. A message is a number; the first one of a peer without a header registers
its AE. Pausing and configuration are left out.

### 2.18 MQTTConnection

*State.* Whether the client is connected; for each of the three topics whether it waits for the broker, and for what; the
count of subscriptions; the position of the main thread and that of the loop of the library.

*Steps.* The library connects and calls `onConnect`, which subscribes topic by topic; an answer of the broker
changes topic and count; a loss clears the topics, and the library connects again. The main thread waits for all
topics, or fails; `shutdown` unsubscribes topic by topic, looks until none is left, and disconnects.

*Abstractions.* One broker. A request of a topic that could not be sent is not distinguished from one that is not answered.
With `overlap` the library may connect while the client is shut down.

### 2.19 CSE

*State.* `cseStatus`, the position of the main thread, `_stopLoop`, the start-up actor, whether services are up, and other threads in
`shutdown()` and `resetCSE()`.

*Steps.* Start in the order of `startup`, with its failures; `run` waits for the status; the loop ends by its flag or by
Ctrl-C, a command may take for ever or exit. `shutdown` in another thread checks, sets the status and stops
the loop, each a step. At exit `_shutdown` looks at the status, and closes the services or does not. A reset sets
the status, imports, and sets it again.

*Abstractions.* The services are up or down together. Waiting for the start may not time out before the actor has run.

## 3. Runs

"Fails" are the runs that reproduce a disagreement between the code and its documentation (section 6).

| Run | Question | Bounds, and why they are enough |
|---|---|---|
| `core` | `OneSchedule`, `NeverLost`, `MaxCountRespected`, and `StartedRuns` under fairness, for workers that are started once; `TablesAgree`, `ListingWorks`, `DeleteSucceeds`, and that the tables implement `NameTree`, for requests on unrelated paths | scheduler: a periodic worker and an actor (maxCount 1), both disposable, two clients, delays to 2, two fired timers: every pair of threads of a kind, and a delay that is neither now nor the last. Tree: four paths in two branches, one two deep, three IDs, two threads: a recursive deletion next to a creation, an ID used again; no symmetry, because of the liveness |
| `scheduler` | `TimerCoversQueue` with all six calls | a periodic worker and an actor; one client, because a restart already races with jobs and timers; at most 2 entries and jobs per worker |
| `pool_lost` | fails: a worker that is started again and `NeverLost` | as `scheduler`, with two of the calls |
| `tree_race` | fails: `UniqueSrn` for requests on related paths | as the tree of `core`, with symmetry |
| `services` | six services, containers and the web sockets, each alone, and all that they keep in two places or count | below |
| `ends` | `AllOrNothing` and `RequestsEnd` of cross resource subscriptions; `TasksRun`; `StopEnds`; `ShutdownEnds` unless the client connects while it is shut down | cross resource subscriptions: three `<crs>`s, each of which enters a `<sub>` of another one, and one `<sub>` that two enter: deletions that come back to where they began; two threads, with a single `<crs>` if they overlap. Jobs: three jobs, four tasks, one endless, the balance after every second: a job that is stopped while it is resumed. Process: two other threads that shut down, one reset. Broker: the three topics of the code, two losses of the connection |
| `requests` | `ExchangeSpec` (`RequestResponse` is implemented), `AnswerAccepted`, `EntryExpires`, `StatusUpdated` under fairness | a non-blocking and a flexBlocking request (a blocking one, or refused) for one entity, two pollers, one answering thread: two pollers see one request, an answer meets an expiration and a reset |
| `remote` | `DescendantsMatch`; `Registered` and `DescendantsKnown` under fairness | a chain of three CSEs, the one in the middle with a registrar and a registree; one incident (crash, shutdown, lost request, change); without overlapping threads, and with them for two CSEs |
| `liveness` | three components whose threads must not wait for ever, each alone | below |
| `store_hangs` | fails: `CloseEnds` with a write while the file is written | two writes |
| `handled_once` | fails: `HandledOnce` | two messages on one connection |
| `cleans_up` | fails: `CleansUp` | the main thread alone |

`services` (about three minutes, with `SYMMETRY` of threads and of remote CSEs, none of which a property or a choice
distinguishes):

| Service | Properties | Bounds |
|---|---|---|
| `TimeSeriesManager` | `MissingExact`, which has `OneMonitor` | 13 ticks, period 3, three instances, mdlt of two, windows of two periods: the list is cut, a window ends and begins, detection stops and starts again, an instance is created while the monitor runs |
| `CrossWindow` | `WindowExact`, which has `ExpiresExactly` of the module | two sources, all five evaluation modes, counters to 2, windows of 2 ticks, four points of time, one update: a window that ends, one that is replaced, and one after it; a check, its sender, a notification and a request in every order within the first window |
| `ActionManager` | `CountsAgree`, `OnceInPeriod`, `DependenciesDecide` | two actions, two jobs, four semaphores (as many as can be in use), two events and changes, periods of 2 and 3 ticks; lists of up to three dependencies |
| `AnnouncementManager` | `AnnouncementsMatch` | two remote CSEs, four identifiers: what was announced, removed and is announced again |
| `GroupManager` | `MembersExist`, which has `AllAnswer` | two groups, one of them a member of the other, two resources; all four may be deleted, with overlapping jobs |
| `Container` | `CountsExact` where requests come one after the other, `NewestKept` | four instances, one twice as large, mni in {0, 1, 2, none} and changed by updates, mbs 3: one creation can evict two; creations that overlap in two threads for `NewestKept` |
| `Subscription` | `StatsExact`, `ExpiresExactly` | two threads, two targets, two events, a counter of 2, one update |
| `WebSocketServer` | `ConnectionsMatch` where peers reconnect and requests come one after the other | one peer, three connections, two requests at a time, two messages: a connection that is closed by its peer and followed by another one, a temporary one |

`TypesFit` there is the type invariant of the service, with who holds the lock of `Subscription` and the sections of `ActionManager`. The
constraint `Explored` bounds the interleavings, since the product of all of them is too large; its comment has the list, and each bound
leaves the interleaving itself in: behaviours of
`Subscription` in which the expiration counter or an update races an event (section 6 says what happens then) are not followed;
those of `ActionManager` with changes during an execution, or after the last change, to the second tick, and two actions together
to the second execution; an update of a `<crs>` keeps the eem or asks for one that only a periodic window may have;
overlapping threads of `CrossWindow` to the end of the first window, with one mode and one source, and until a copy was written over a
newer one; a disturbed, updated or deleted time series, or one whose instances take longer than a tick, to tick 6 (9 with two instances
and neither update nor subscription); where requests to a peer
meet, two connections, no messages, and two uses of a connection. Connections are used in their order.

`liveness` (about three minutes):

| Component | Properties | Bounds |
|---|---|---|
| `BufferedStorage` | `CloseSavesAll`; `EventuallyWritten` if no write meets the file writer | a file with two tables, one of them locked by `closeDB()`; four writes, before, while and after the file is written and closed |
| `BatchNotification` | `InOrder` in every interleaving; `EventuallySent` if one event is handled at a time | two threads, two actors, four notifications, batches of two: two batches in a row, an actor for each, a flush |
| `RegistrationManager` | `LinksMatch`, `Expires` | one AE, two nodes it may move between |

Other bounds: `MaxFired`, `MaxInFlight` (scheduler), `MaxSt` (stateTag, stops only new updates), `Cin`, `MaxNote`,
`MaxWrite`, `MaxSeriesTime`, `MaxInstance`, `MaxExc`, `MaxWindowTime`, `MaxActionTime`, `MaxChange`, `MaxId`, `MaxEvent`,
`MaxUpdate`, `MaxIncident` (numbers of what their names say). Deadlock is checked for the scheduler, the tree and the
requests. `CHECK_DEADLOCK FALSE` is set where such a bound, sockets that are used once, or
the end of a file or process ends a behaviour for good.

Types of the other modules are checked by adding their `TypeOK` to the configuration; those of the scheduler, the tree,
the batch, notifications, actions, groups, registrations and requests are proved.

## 4. Fairness

* Scheduler: time passes, a timer fires, a thread that can go on goes on, callbacks return. The pop of a
  given worker is strongly fair, since the heap is ordered by time: an entry that is due is overtaken only
  by entries that were due earlier, and these are finitely many. Clients need not call anything.
* Tree: a request that was accepted goes on (weak fairness for each thread).
* Batch: a thread or actor that has begun goes on, a due actor is run by the scheduler (what `StartedRuns`
  says), and `lockBatchNotification`, which is released after each batch, is given to everyone who waits
  (strong fairness). New events are not required.
* File: both threads go on. A client need not write or close; a `write()` or `close()` that was begun goes on.
* Cross resource subscriptions: each thread that has begun a request goes on (weak fairness). A semaphore that
  is free for good is given to whoever waits for it.
* Jobs: calls of `runJob()` that have begun and the threads of jobs go on. No new task is required, and the endless one
  does not end.
* Registration: the monitor is a periodic worker. It is scheduled again after an exception
  (`BackgroundWorker.py`, `ignoreException`), so that its runs, and the steps of a run, are weakly fair. That requests
  come or resources expire is not required.
* WebSockets: none; only safety is checked.
* MQTT: the main thread goes on, the library subscribes what it has begun to subscribe, and a broker that is connected answers. That
  the client is ever connected again is not required.
* Process: the main thread goes on, except in a command of the user, and the scheduler runs the start-up actor. Other
  threads need not shut down or reset, and may stop on the way.
* Requests: whoever has begun to forward a request goes on, and its actor is run. Nobody need poll, answer, or send.
* CSEs: the steps of the monitor, which is periodic, and the start of a CSE are strongly fair: with overlapping threads the
  monitor may be disabled and enabled again by requests it has no part in. Event jobs get a thread (weak). Passing a
  list of descendants upwards is strongly fair for the same reason as the monitor. Nothing is assumed about the network
  but that incidents are finitely many.

## 5. Proofs

`tlapm` checks every proof from nothing. What is proved holds for every value of the constants.

**CoreProofs** (assumption: `ParameterAssumption`). `TypeCorrect`, and `TimerAlwaysCovers`:
there is a timer, and in time, for each entry. The latter is inductive together with the type: every critical
section ends with `_startTimer`, which re-arms for the head of the new queue (`StartTimerCovers`), `Tick`
brings timer and entries nearer together (`TickCovers`), and firing needs a timer at 0.

With `StartOnce` (clients only create, start and stop) `OneSchedule`, `NeverLost` and `MaxCountRespected`. They
are not inductive. What carries them is ownership: the right to put a worker into the queue is a token that
is in one place, with the client that starts the worker, in the queue, or with one job. `ScheduleInv` says so,
and who must not hold it: nobody knows a new worker (`FreshUnknown`), a client in `start()` is alone with its
worker (`StarterOwns`), a worker that is being stopped is not running (`StopperStops`), before a run there is
one left (`RunLeft`). It is kept per worker: each lemma `...Keeps` takes one group of actions and the worker it
is about, `Frame` covers all the others.

**ResourceTreeProofs** (assumption: `TreeAssumption`, what paths are; the safety theorems also `Isolated`: requests
that overlap are about unrelated paths). `TypeCorrect`, `TablesAlwaysAgree`, `ListingAlwaysWorks`, `NamesUnique`
and `ImplementsTree`. The invariant `TreeInv` gives every resource an owner: a resource no request is at work on is
whole, in all four tables or in none, and one that is not is in the hands of one thread, which has it on its
stack or creates it. It says of each thread what its stack is, a path in the tree whose elements wait for the
children still listed with them, of each step of a creation or deletion which tables are written already, and of
the lists of children that they tell where resources are. Requests on unrelated paths then have
disjoint branches, and what one does half-way no other one meets. `ImplementsTree` maps the tables to the set
of names of the stored resources: `insertResource` is the growth, the first step of `dbDelete` the shrinking, and
that only leaves shrink is the stack discipline of the recursive deletion.

**ActionManagerProofs** (assumption: `ActionAssumption`). `TypeCorrect`, which includes that jobs are not in one critical section
together, and none stays locked, as long as they have not undone it (`raced`); and `CountsAlwaysAgree`. `SectionInv` is what a section made of
a semaphore that comes and goes rests on: two jobs are not inside (`Exclusive`), whoever has found a semaphore has found the stored one
(`Found`), which is not that of another action (`Distinct`) and lets one job in, or none while a job is inside or has still to release
it (`Locked`), and of these there is one (`Held`, `Leaving`). Each `raced` step is one that would break it. `ActionInv`
adds that what a job has read within the section is still what the table and the `<action>` have (`UpToDate`), that table and `<action>` exist
together, with the same parameters, and that the count of the table is that of the executions,
less the one a job has made and not written yet (`CountsTold`).

`EveryListDecides` says what the loop over the dependencies decides for a list of any length; the run evaluates it for lists of up
to three (`DependenciesDecided`). The fold is replaced by a closed form over the sets of indexes (`Outcome`): `TurnOutcome` shows that
it satisfies the equation of the fold, so that there is such a function (`FoldExists`), and the least index at which another one
would differ shows that there is no other (`FoldOutcome`).

`OncePeriodAlways`: no periodic action is executed twice within a period, whatever the periods and however many jobs wait for each other, unless
two of them have undone the section or the action is changed while it is executed. `PeriodInv` gives the reason: the entry of an action holds the beginning of a period, which is later than the period of the last execution
unless a job has just made it and has still to write the next beginning, and a job that executes an action has found that this beginning
has come. That the beginning that is computed next is in a later period is arithmetic of products of variables, which the solver does not
do by itself: `Multiples`, `DivMonotone` and `NextPeriod` name each product.

**ConnectedServicesProofs**. The module is one of its own, without the services it does not need, because the prover takes
longer for each step the more definitions there are. Notifications of a subscription (assumption: `SubscriptionAssumption`): `TypeCorrect`, which includes that the lock is held by the
one that has read the statistics and will write them; `StatsAlwaysExact` and `ExpiresAlwaysExactly`. `SubInv`
says what each thread and each notification in the background has read (`Reads`), that nothing is sent
in the background to a target that is still to come (`NotSent`), that the statistics are those that were
counted, but for one that holds the lock, whose copy has them (`CountsTold`), that the entry of the
table is that of the `<sub>` or of the one thread between the two writes (`TableTold`), and, where events come one after the
other, that the counter and the number of events of which all targets were notified are together the counter at the start (`SerialTold`).

Groups (assumption: `GroupAssumption`): `GroupTypeCorrect`, `GroupMembersExist`: a member that is gone is
listed only in groups that the job of its deletion has still to find or to write, unless that job has failed
(`Covered`); the job that writes has the groups as they are (`CopiesTrue`); `cnm` is the number of members, in
groups and in all copies (`GroupCounts`). `AllMembersAnswer`: for every
level of a fan-out, results and members left are the members of the group.

`ConnectionsAlwaysMatch` (assumption: `SocketAssumption`: `None` is no peer and no connection). `ConnectionsMatch` speaks of peers at
rest only; `SocketInv` says, where peers reconnect and requests come one after the other, what holds while something is
being done: a peer has one connection in use (`OneConnection`) and one request at a time (`OneRequest`); for each stage of
the receive loop what the tables have of the connection (`Connection`); an association is with the peer's own connection or with
that of the one request, and a connection without a header has it since its first message (`Association`); and a
request that has opened a connection has the only one in use, which nobody else uses, so that it is closed in the end
(`Request`).

`AnnouncementsAlwaysMatch` (assumption: `AnnouncementAssumption`: the remote CSEs are a finite set, the bound of the identifiers is a number).
A handler announces or removes for one CSE after the other, which the module has as folds over sets and lists. The prover
knows nothing of folds: `AllTurns`, `GoneTurns` and `WithoutTurns` show that what one turn keeps the fold keeps, by the smallest number of turns
for which it would not be so, and then there is a lemma for each thing a turn can do. `AnnouncementInv` is for any number of CSEs that answer or not:
what is announced has identifiers of its own that were given, a CSE has one CSEBase, and an instance its container (`Remotes`), the CSEBase
knows all that is announced of it (`Told`), a resource knows a CSE once, and an entry leads to an announcement of this
resource, if there is still one (`Known`, `Used`), and
a resource that is not there has no entries (`Unset`). That a CSE does not get a second CSEBase follows from `Told`, with CSEs that
do not answer, too. `AgreeInv` is for the one CSE that answers always: `at` and `__announcedTo__` of a resource have one of three
forms (`Form`), and what is announced there is in `__announcedTo__` of its original (`Holds`).

**ServicesProofs**. `WindowAlwaysExact` (assumption: `WindowAssumption`: no limit of the run reaches the time `Never`) is proved of the composition. `WindowExact` is
not inductive: it says of a window at rest what it has collected. `WindowInv` has two parts. With all threads overlapping, as long as nothing
was written back stale (`RunsOut`): the notifications sent and what is left of the counter are together the counter at the start, where what is
left is that of the `<crs>` or, between reducing and writing, that of the check's object, and the check knows whether it was the last
(`Remains`, `Reduced`). Where threads do not overlap (`WindowSerial`): there is one window at most and it is of the kind the `<crs>` asks for, or the request that is
replacing it (`OneWindow`, `WindowTwt`), without a window nothing
is remembered (`NothingSeen`), a check which has not yet emptied is that of the one window, and
of one that has ended (`MonitorHolds`), its object and the copy of a request have the twt of the `<crs>` (`ObjectHolds`, `RequestHolds`), who handles a
notification has the `<crs>` as it is and starts a window only where there is none (`HandlerRead`), and a periodic window goes on unless a
refused update has stopped it (`PeriodicThere`). One lemma `...Keeps` for each action.

`CountsAlwaysExact` and `NewestAlwaysKept` (assumption: `ContainerAssumption`: the instances are the numbers from 1 to some
number, and sizes and limits are natural numbers). Between requests the counters are right; during one they are those of
another set of instances, and which one depends on the step: without the new instance until it is counted, with the
removed one until it is subtracted (`AtHand`, for the one request there is, `ByItself`). `ContainerInv` also says what holds with overlapping requests: what a
thread has, or has listed, are instances that were created (`Fits`), so that those it may evict are not newer than the last one; from this
`NewestAlwaysKept`. The size of a set of instances is a fold, about which the prover knows nothing: `BytesUnits` shows that it is the
cardinality of a set (`Units`: one element for each byte), by the smallest subset for which it would not be (`Least`), and then
the library's facts about cardinalities give what one instance more or less adds (`BytesFacts`).

`MissingAlwaysExact` (assumption: `SeriesAssumption`), for any period, tolerance, detection time, duration and length of the
list, with an instance and a run that interleave in any order. That there is one monitor is inductive in this form: the scheduled run is the one the `<timeSeries>` knows of, a run that is
at work has nothing scheduled, who does not detect has neither, and an actor whose object is still to be filled is the only one (`Monitored`).
`Current` says of period K two things. The list, the copy of the instance and that of the run each name only expected times that have been
looked at, in order (`Copied`): this is kept whichever copy is written over whichever other one, and needs only that no instance was too old. And,
undisturbed, the list names exactly those times for which no instance has been handed over (`Accurate`, `Lists`, of `Absent`), before and after the run compares,
and the monitor has the instance of this period at hand if, and only if, it has come (`SeriesAtHand`); an instance that comes too late
for its period, or too early for it, is a disturbance ("unexpected") and not an assumption about the source. Of a window it says that it is
open while it has points, and that they were missing since it was opened (`WindowTold`).

*Compositions.* A run of `MCCore`, `MCServices` or `MCLiveness` is one of a single component: `CoreProofs` and `ServicesProofs`
show that the steps of the composition are steps of the component, or leave it alone, and carry
the theorems over (`TablesAlwaysAgree`, `ListingAlwaysWorks`, `ImplementsTree`; `CountsAlwaysAgree`,
`DependenciesAlwaysDecide`, `OncePeriodAlways`, `MembersAlwaysExist`, `ConnectionsAlwaysMatch`, `AnnouncementsAlwaysMatch`), so that what the
runs check and what is proved is one definition. The MC modules make an instance of `ResourceTreeProofs` and of `ActionManagerProofs` for this;
`ServicesProofs` extends `ConnectedServicesProofs`.

**LivenessProofs** (assumptions: `RegistrationAssumption`: AEs, nodes and `None` are different; `StorageAssumption`;
`BatchAssumption`). `LinksAlwaysMatch`: `LinksMatch` is not inductive, since a deletion of a node that fails half-way takes `nl` away from AEs
that stay in its list, and that may be linked with it again: who is in the list is said of the
internal `__node__` (`EnteredListed`, `LinkEntered`), of all AEs that are not `astray`, also while requests fail half-way and come during a run. That a new node is in no `__node__` needs that
identifiers are not used again (`NodesUsed`), and that a node found by the monitor still has all its AEs in
the copy that is deleted needs that lists only shrink during a run (`FoundListed`). With `together` FALSE the monitor
deletes what is there as it is (`OneAtATime`), so that its deletions do not fail (`OneDeletionStep`).
`CloseSaves` and `FileAdvancesHolds`: a change
that was announced before `close()` gave up waiting, and not any more by `changed`, is in the file or in the hands of the writer (`OnItsWay`), what is being
written is never older than the file (`Newer`), and `close()` passes only with `changed` reset, whatever table is written meanwhile.
`InOrderHolds`: no notification of a batch leaves twice or after a later one. The invariant `BatchInv` says what the
lock is for: one sender at a time (`OneSender`), batches only with senders (`BatchInUse`), and sent before collected
before stored (`SentFirst`).

**RemoteCSEManagerProofs** (assumption: `RegistrarAssumption`: the registrars are a forest, so that no CSE is below itself).
`TypeCorrect`, and `DescendantsMatching`. `DescendantsMatch` speaks of CSEs at rest only. While a CSE is at work its list of
descendants is behind its `<csr>`s, and not by one step: a request has changed a `<csr>`, its job waits, and others
wait behind it. `Inv` says, where jobs and monitor do not overlap, that there is a state of the `<csr>`s which the list agrees
with (`Agrees`), and that the events that wait, one after the other, lead from it to the stored `<csr>`s (`Explained`); a
check that is at work has seen what is stored (`Checks`). The rest of `Inv` holds with
overlapping threads, too: whatever is stored, waits in a job, is listed or is on its way to a registrar names CSEs that are below the one it is
about, which is where the forest is needed (`Right`, `Queue`, `Listed`, `Sent`). One lemma `...Keeps` for each action of the module.

**RequestManagerProofs** (assumptions: `RequestAssumption`, which also says that the constants are of their types, and
`Different`: requests that are forwarded have different identifiers, as an originator chooses them). From one
inductive invariant, `RequestInv`: an answer that is queued or noted under an identifier belongs to the request with this
identifier, an identifier whose request was seen has the right originator until it is answered, and an
entry of a queue has its actor or a thread about to start it. From it `AnswersAreOwn` (nobody gets the answer to a
request of somebody else, however late answers are), `AnswersAreAccepted`, `EntriesExpire`, and
`ForwardingImplementsExchange`: the initial states of `RequestManager` are initial states of `RequestResponse`, and each
step is a step of it or none, for any number of requests, pollers and answering threads.

*Model-checked only.* `AllOrNothing` of the semaphores, and of `TypesFit` the types of web sockets whose requests meet and of
windows whose threads meet: proofs of these are possible and not yet made.
The prover has no liveness under fairness and no ENABLED, so that all liveness properties stay with TLC, and no
induction over data, unless it can be replaced by a set with a least element, as for containers, dependencies and the turns
of an announcement, or the list is said to be sorted and to have the right elements, as for time series.

## 6. Where code and documentation disagree, or a property needs its antecedent

The third column is how TLC shows it: a run of section 3, whose finding in `PROJECT.json` quotes the
line it contradicts, or the configuration to start from and what to change in it (or, for a property that is not
in the module, what to check). In each case TLC ends with a counterexample. What is marked "code" was read in the code while it was modelled;
the model has it, and the antecedents of the properties leave it out.

| | What happens | Shown by | Property |
|---|---|---|---|
| 1 | `start()` of a running disposable worker drops it from the pool, and it never runs again | run `pool_lost` | `NeverLost` |
| 2 | Two creations of one name succeed | run `tree_race` | `UniqueSrn` |
| 3 | `close()` of a database file never returns after a write while the file was being written | run `store_hangs` | `CloseEnds` |
| 4 | A run of the expiration monitor can leave a `<node>` that no later run can delete, nor what expires behind it | `RegistrationManager` itself under `FairSpec`, with two AEs and one node | `AlwaysExpires` |
| 5 | The write of 3 stays in memory until the next one | `StoreHangs.cfg` | `EventuallyWritten` without `~overlap` |
| 6 | A timer thread pops the head of the queue without looking at its time: a worker can run early | `PoolLost.cfg`, Api {"start"}, nothing disposable | action property `NotEarly` |
| 7 | `restart()` and `workNow()` during a run can schedule a worker twice; two threads execute it | `PoolLost.cfg`, Api {"start", "restart"} | `NoOverlap` |
| 8 | A creation during the deletion of its parent makes the listing of the children fail for good | `TreeRace.cfg` | `ListingWorks` |
| 9 | A creation during the eviction of another one fails half-way and leaves the container over its limit; increments of currentNrOfInstances and currentByteSize are lost | `Services.cfg` | `CountsExact` of `Container` without `~overlap` |
| 10 | A creation undoes an update of the container that it overlaps | `Services.cfg`, OverlapOp {"create", "update"} | `NoStaleWrite` of `Container` without `~overlap` |
| 11 | A notification that is stored while a batch is sent can be removed unsent | `Liveness.cfg` | `NothingLost` without `~overlap` |
| 12 | A notification that is stored while the guard of the batch is finishing gets no guard | `Liveness.cfg`, Nse FALSE | `EventuallySent` without `~overlap` |
| 13 | A periodic action without ecp raises a TypeError after its first execution (the default of the configuration is not used), and is executed at every event | `Services.cfg` | `OnceInDefaultPeriod` of `ActionManager` |
| 14 | At the very beginning of a period an action may be executed any number of times | `Services.cfg` | `OnceInPeriod` without `Inside` |
| 15 | An update of an action while it is executed is overwritten in the table | `Services.cfg` | `CountsAgree` without `~overlap` |
| 16 | An AE keeps `__node__` when its `<node>` is deleted, and every later update of its node link fails | `Liveness.cfg` | `NodeForgotten` |
| 17 | A refused creation or update of an AE leaves it in the `hael` of a node, or takes it out of the one it is still linked with | `Liveness.cfg` | `LinksMatch` without `undisturbed`, without `astray` |
| 18 | deAnnounceResource skips every second target; a failing second target leaves the first without an entry; a removed CSE in `at` is not told | `Services.cfg` | `AnnouncementsMatch` with two targets |
| 19 | Deletions at the same time, or an update next to one, write a group back with a member that is gone; later updates and fan-outs of it fail | `Services.cfg` | `MembersExist` without `~overlap` |
| 20 | With asynchronous notifications every sending counts as a success: exc is decremented, although notifications fail ("in case of a successful notification", `services/NotificationManager.py:1212`) | `Services.cfg` | `ExpiresExactly` of `Subscription` without `Serial` |
| 21 | exc is written without the lock of the statistics: an event that overlaps loses counts, or does not count | `Services.cfg` without `Explored` | `StatsExact`, `ExpiresExactly` of `Subscription` without `Undisturbed` |
| 22 | The entry of a `<sub>` that is deleted while it expires is created again | the same | `ExpiresExactly` of `Subscription` without `Undisturbed` |
| 23 | Two threads that enter a section nobody is in are both inside; two deletions of a `<crs>` overlap | `Ends.cfg` | `AllOrNothing` without `~overlap` |
| 24 | With overlapping threads notifications between the check of a window and its emptying are lost, and two sliding windows may start | `Services.cfg` | `WindowExact` without `~overlap` |
| 25 | A refused update of twt or eem has stopped the window before it is refused: a periodic `<crs>` has none | `Services.cfg` | `WindowExact` without `~rejected` |
| 26 | With identifiers that two originators have in common, an answer reaches the wrong one | `Requests.cfg`, r1 for both requests | `OwnAnswer` |
| 27 | Two messages of a WebSocket that come quickly: one is handled twice, the other never | run `handled_once` | `HandledOnce` |
| 28 | A CSE without a console that is ended by Ctrl-C, or by a binding that calls `shutdown()`, closes neither services nor databases | run `cleans_up` | `CleansUp` |
| 29 | A registree that is lost in an update upwards is never passed on again | `Remote.cfg` | `DescendantsKnown` without `disturbed` |
| 30 | An instance that comes before the monitor has looked at the one of the period before takes its place, which is then named as missing | `Services.cfg` | `MissingExact` of `TimeSeriesManager`, with "unexpected" allowed in the second part |
| 31 | Two jobs can be in one critical section of an action: both find no semaphore, or one leaves and removes it while the other is about to acquire it. A "once" action is executed twice, a periodic one twice in a period, although "the section is locked for a particular action" (`services/ActionManager.py:116`) | `Services.cfg` | `CountsAgree`, `OnceInPeriod` of `ActionManager` without `~raced` |
| 32 | An update of a `<crs>`, which writes all attributes of what it has read, undoes the decrement of exc by a check: it sends more notifications than exc allows | `Services.cfg` | `ExpiresExactly` of `CrossWindow` without `~stale` |
| 33 | The same without any request: the actor that sends the notification of a check counts with the check's resource object and reloads it between the reduction of exc and its storage, which is lost | `Services.cfg` | `ExpiresExactly` of `CrossWindow` with `~overlap` for `~stale` |
| 34 | A new instance writes the whole `<timeSeries>` back, with the mdlt from before a run of the monitor that overlaps: a missing point is lost from mdlt; or the run's copy undoes what the instance has entered | `Services.cfg` | `MissingExact` of `TimeSeriesManager` with "stale" allowed in the second part |
| 35 | The first instance starts the monitor's actor before it fills the object: if mdt is so short or the instance so late that the run comes first, the run schedules a next one of its own, and there are two monitors, or points that are not missing | `Services.cfg` | `OneMonitor`, and `MissingExact` of `TimeSeriesManager`, without "early" |
| 36 | An instance that is handed over during a run is compared at once with the next period; the run moves expectedDgt by two periods and its own time by one, so that windows of subscriptions hold points further apart than their duration | `Services.cfg` | `MissingExact` of `TimeSeriesManager`, third part without "during" |
| 37 | A change of childResources or of structured names whose `write()` comes while `closeDB()` closes the identifiers file, or afterwards, is not in the file: `closeDB()` holds the lock of identifiers only | `Liveness.cfg` | `file >= data` for `file >= due` in `CloseSavesAll` |
| 38 | A flexBlocking request is refused with BAD_REQUEST when nonBlocking is the preference (`services/RequestManager.py:498`), after its `<request>` was created (480), which stays PENDING until it expires | `Requests.cfg` | `StatusUpdated` without `refused` in `Abandoned` |
| 39 | An UPDATE of an AE that removes nl always fails: `AE.validate` retrieves the node `None`. The AE keeps its link and is not in the list of its node any more (`resources/AE.py:122`) | `Liveness.cfg` | `LinksMatch` without `astray`; code |

Read in the code, and in the model where it has that part:

* `JobPool`: the balance divides by the number of running jobs, which is zero when every job has paused: the caller
  gets a ZeroDivisionError and the task is lost with its job (`resident` in `TasksRun`). A task that raises an exception
  stays in `runningJobs`. `Job.stop()` of a paused job removes it from the running ones, an error in `killJobs`, which
  nothing calls.
* `ActionManager`: NOT_FOUND or a KeyError ends the job with all actions behind it. The meaning of dependencies depends
  on their order (`DependenciesDecide` says how). ecp without evm is accepted for modes that have none. An update with
  evc calls `_checkOperator` (`resources/ACTR.py:181`), which does not exist.
* `AnnouncementManager`: `_announcedFilter` looks for an entry of the registering CSE with a path and a non-empty
  `__announcedTo__`, so that resources are not announced when a CSE registers later (documented as the purpose of
  `cse.announcements`). The de-announcement of a parent leaves the entries of its children. A stale entry of
  the CSEBase is used when the CSE does not answer.
* `GroupManager`: a fan-out ends at a member that is missing, although "Response Status Code is OK regardless of the
  requested fanout operation" (`services/GroupManager.py:315`); `/fopt` members stay when their group is deleted; a cycle of groups makes the fan-out endless; a member and
  its `/fopt`, or a member with itself in another notation, are not duplicates.
* `CrossSubscription`: an exception in `CRS.deactivate` leaves the section taken for good, since the decorator does not leave
  it; a deletion between the retrieval and the update of a `<sub>` of srat leaves a `<crs>` with a dead one.
* `CrossWindow`: an update starts a periodic window without its eem; an update of eem alone leaves that of the running window. A check that
  finds the `<crs>` deleted ends with an exception, and a periodic window keeps its data and runs again.
* `RemoteCSEManager`: jobs of events run in any order (`EventManager.py` says "This might lead to some race conditions");
  `deregistered` is raised twice by a DELETE; what registers during the own registration is not passed upwards; the
  liveliness check may remove a `<csr>` that was created again meanwhile; after CONFLICT `csr` has no value (457 to 459), unless the own `<csr>` was found and
only its update has failed: then the CSE goes on and counts as registered with the `<csr>` it had.
* `TimeSeriesManager`: a first instance that is too old leaves `running` set and no monitor; of several instances
  between two runs only the last is compared; a run that goes on after detection was
  switched off and on leads to two monitors (updates do not overlap with runs in the model); a subscription that is stored before it is linked is a KeyError that ends the actor.
* `RequestManager`: after REQUEST_TIMEOUT before its execution a `<request>` stays pending (`operationResult` has no
  value, the actor ends with UnboundLocalError).
* `WebSocketServer`: a peer that reconnects loses the association of its new connection when the loop of the old one ends and calls
  `removeConnection` (`overlap` in `ConnectionsMatch`). An AE that is registered without a header leaves its association when the
  connection ends, since the loop does not know it: the next request to it fails in `incrementConnection(None)`. A temporary connection that another
  request replaces or uses while the AE is deleted is never closed.
* `MQTTConnection`: `subscribedCount` is not reset after a loss of the connection. A shutdown waits for ever if `onConnect` subscribes while it
  unsubscribes. `connectToMqttBroker` makes a connection for another broker and does not call its `run()`.
* `CSE`: an import that fails in `resetCSE` ends its thread, not the process as "what else can we do?" (`runtime/CSE.py:460`)
  has it, and the status remains RESETTING.
* dcnt of an instance is decremented on a copy (`resources/CIN.py:121`); a batch is removed before it is sent, and lost
  if its `<sub>` cannot be retrieved; two registrations of one AE at a time both pass their check.

## 7. Plan

Done, in this order: `BackgroundWorker` and its proofs, `ResourceTree` with `NameTree`, `Container`,
`BatchNotification` and its proofs, `BufferedStorage` and its proofs; then `RequestManager` with its proofs,
`CrossSubscription`, `CrossWindow`, `JobPool`, `Subscription`, `TimeSeriesManager`, `ActionManager`,
`AnnouncementManager`, `GroupManager`, `RegistrationManager`, `RemoteCSEManager`; `WebSocketServer`, `MQTTConnection` and `CSE`;
the proofs about `ResourceTree`, `ActionManager`, `GroupManager`, `Container`, `Subscription`, `CrossWindow`,
`WebSocketServer` and `TimeSeriesManager`, and about their compositions; those about `RegistrationManager` and `RemoteCSEManager`. Next:

1. Proofs: `AllOrNothing`; the remaining types.
2. Discovery and result contents of `Dispatcher` as operators over a tree, compared with their definition.
3. Access control (`SecurityManager.hasAccess`) as an operator, with the privileges of groups and the loops of acpi.
4. Blocking notifications and their time limits, with `Subscription`.
5. `CrashRestart`: one buffered file per table under `ResourceTree`, a crash, what the next start finds. No code
   handles such a crash, so that there is nothing to hold yet (`TinyDBBufferedStorage.py:101` in the hazards).

### Not modelled

* Validation, scripts (an interpreter for tests), semantics (queries by a library), console, text and
  web interface, configuration, import and onboarding: pure functions, input and output, or one thread at the start.
* HTTP: it brings requests in threads of its own, which is what the modules assume. Of the other bindings the content of messages.
* The PostgreSQL binding: the atomicity is the server's.
* Location: geometry; its periodic worker is one of the scheduler. Time synchronisation: beacon workers without a
  state that others read. Statistics: counters that nothing depends on.
* The transit of requests to other CSEs, attributes of resources other than those named, and the content of requests.

Most of the source lines are of these kinds: types and attribute policies, the interpreter, the console and the text
interface, configuration, serialisation. The modules are about the other part, where threads, timers, failures
and other CSEs meet.
