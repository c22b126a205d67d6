-------------------------- MODULE BackgroundWorker --------------------------
(***************************************************************************)
(* The scheduler of acme/helpers/BackgroundWorker.py.  Every periodic task *)
(* and every delayed call of the CSE goes through it: one priority queue   *)
(* of (timestamp, worker) entries, ONE timer thread armed for the head of  *)
(* the queue, and a job thread per due worker.                             *)
(*                                                                         *)
(* The threads are: the timer threads that have fired and wait for         *)
(* queueLock in _execQueue (only their number matters), the job threads    *)
(* that run BackgroundWorker._work, and the client threads that call the   *)
(* public methods.  What happens under queueLock is one step; everything   *)
(* else interleaves at the reads and writes of the shared attributes.      *)
(*                                                                         *)
(* Timestamps are kept relative to the clock, in ticks: 0 is "due or       *)
(* overdue".  Lateness is therefore not recorded; a worker that runs on    *)
(* time is requeued for any tick of its next interval.                     *)
(***************************************************************************)
EXTENDS Naturals

LOCAL INSTANCE Functions

CONSTANTS
  Worker,      \* the worker objects that may exist at the same time
  Client,      \* the threads that call the public methods
  MaxDelay,    \* no interval is longer than this number of ticks
  Interval,    \* [Worker -> 1..MaxDelay]    BackgroundWorker.interval
  MaxCount,    \* [Worker -> Nat]            BackgroundWorker.maxCount, 0 for None
  Dispose,     \* SUBSET Worker              BackgroundWorker.dispose
  Api,         \* the calls the clients make, a subset of Call
  MaxFired,    \* bound: timer threads waiting for queueLock at once
  MaxInFlight  \* bound: a client leaves a worker alone that has this many
               \* queue entries and jobs in all

Call == {"start", "startAgain", "stop", "remove", "restart", "workNow"}

ASSUME ParameterAssumption ==
  /\ MaxDelay \in Nat \ {0}
  /\ Interval \in [Worker -> 1..MaxDelay]
  /\ MaxCount \in [Worker -> Nat]
  /\ Dispose \subseteq Worker
  /\ Api \subseteq Call
  /\ MaxFired \in Nat \ {0}
  /\ MaxInFlight \in Nat \ {0}

Delay == 0..MaxDelay

(***************************************************************************)
(* Where a job thread stands in _work(): started by runJob, in the         *)
(* callback, past `executing = False` and bound to stop or to requeue, and *)
(* inside the stop() it calls.                                             *)
(***************************************************************************)
JobPhase == {"started", "working", "ending", "unqueueing", "postCall", "requeueing"}

(***************************************************************************)
(* Where a client thread stands: at rest, or in the named part of the      *)
(* method it called.                                                       *)
(***************************************************************************)
ClientPhase == {"idle", "unqueue", "postCall", "set", "queue",
                "pauseWait", "pauseUnqueue", "unpause", "unpauseQueue"}

VARIABLES
  queue,      \* workerQueue: queue[w][d] entries of worker w that are due in d ticks
  timer,      \* workerTimer: none, armed for .at, or fired and not replaced yet
  fired,      \* timer threads that fired and have not yet taken queueLock
  running,    \* BackgroundWorker.running
  executing,  \* BackgroundWorker.executing
  runs,       \* BackgroundWorker.numberOfRuns, counted up to one past maxCount
  pooled,     \* keys of BackgroundWorkerPool.backgroundWorkers
  fresh,      \* workers that were created and never started
  jobs,       \* jobs[w][p] job threads of worker w in phase p of _work()
  client      \* what each client thread is doing, and to which worker

Idle == [phase |-> "idle"]

vars == <<queue, timer, fired, running, executing, runs, pooled, fresh, jobs, client>>

TypeOK ==
  /\ queue \in [Worker -> [Delay -> Nat]]
  /\ timer \in [state : {"none", "armed", "fired"}, at : Delay]
  /\ fired \in Nat
  /\ running \in [Worker -> BOOLEAN]
  /\ executing \in [Worker -> BOOLEAN]
  /\ runs \in [Worker -> Nat]
  /\ pooled \in SUBSET Worker
  /\ fresh \in SUBSET Worker
  /\ jobs \in [Worker -> [JobPhase -> Nat]]
  /\ client \in [Client -> [call : Call, phase : ClientPhase, w : Worker] \union {Idle}]
-----------------------------------------------------------------------------
(***************************************************************************)
(* The queue and its timer.  Every critical section of queueLock stops the *)
(* timer, changes the queue and starts the timer for the new head.         *)
(***************************************************************************)
NoTimer == [state |-> "none", at |-> 0]

IsHead(q, w, d) ==
  /\ q[w][d] > 0
  /\ \A v \in Worker : \A e \in Delay : q[v][e] > 0 => d <= e

\* Mutant: a timer that is there is not replaced.
_startTimerIfNone ==
  IF timer.state = "none"
  THEN \E w \in Worker : \E d \in Delay :
         IsHead(queue', w, d) /\ timer' = [state |-> "armed", at |-> d]
  ELSE timer' = timer

\* _stopTimer(), the change of the queue, then _startTimer().
_startTimer ==
  IF \E w \in Worker : \E d \in Delay : queue'[w][d] > 0
  THEN \E w \in Worker : \E d \in Delay :
         IsHead(queue', w, d) /\ timer' = [state |-> "armed", at |-> d]
  ELSE timer' = NoTimer

_queueWorker(w, d) ==
  /\ queue' = [queue EXCEPT ![w][d] = @ + 1]
  /\ _startTimer

\* Mutant: the timer is stopped, and not started again if nothing was removed.
_unqueueWorkerNoRestart(w) ==
  IF \E d \in Delay : queue[w][d] > 0
  THEN /\ \E d \in Delay : queue[w][d] > 0 /\ queue' = [queue EXCEPT ![w][d] = @ - 1]
       /\ _startTimer
  ELSE queue' = queue /\ timer' = NoTimer

\* Only the first entry found is removed ("Only 1 worker").
_unqueueWorker(w) ==
  /\ IF \E d \in Delay : queue[w][d] > 0
     THEN \E d \in Delay : queue[w][d] > 0 /\ queue' = [queue EXCEPT ![w][d] = @ - 1]
     ELSE queue' = queue
  /\ _startTimer

\* Timer.run: a timer that is cancelled after this step still calls _execQueue.
TimerFires ==
  /\ timer.state = "armed" /\ timer.at = 0
  /\ fired < MaxFired
  /\ timer' = [timer EXCEPT !.state = "fired"]
  /\ fired' = fired + 1
  /\ UNCHANGED <<queue, running, executing, runs, pooled, fresh, jobs, client>>

\* Mutant: the head of the queue is read and not popped.
_execQueuePeek(w) ==
  /\ fired > 0
  /\ \E d \in Delay : IsHead(queue, w, d)
  /\ queue' = queue
  /\ jobs' = IF w \in pooled THEN [jobs EXCEPT ![w]["started"] = @ + 1] ELSE jobs
  /\ _startTimer
  /\ fired' = fired - 1
  /\ UNCHANGED <<running, executing, runs, pooled, fresh, client>>

\* _execQueue when the head of the queue belongs to worker w.
_execQueue(w) ==
  /\ fired > 0
  /\ \E d \in Delay :
       /\ IsHead(queue, w, d)
       /\ queue' = [queue EXCEPT ![w][d] = @ - 1]
  /\ jobs' = IF w \in pooled THEN [jobs EXCEPT ![w]["started"] = @ + 1] ELSE jobs
  /\ _startTimer
  /\ fired' = fired - 1
  /\ UNCHANGED <<running, executing, runs, pooled, fresh, client>>

\* _execQueue when other threads emptied the queue first.
_execQueueEmpty ==
  /\ fired > 0
  /\ \A w \in Worker : \A d \in Delay : queue[w][d] = 0
  /\ timer' = NoTimer
  /\ fired' = fired - 1
  /\ UNCHANGED <<queue, running, executing, runs, pooled, fresh, jobs, client>>

\* The clock: every entry and the timer get one tick closer.
Tick ==
  /\ queue' = [w \in Worker |-> [d \in Delay |->
                 (IF d = 0 THEN queue[w][0] ELSE 0)
                 + (IF d < MaxDelay THEN queue[w][d + 1] ELSE 0)]]
  /\ timer' = [timer EXCEPT !.at = IF @ > 0 THEN @ - 1 ELSE 0]
  /\ UNCHANGED <<fired, running, executing, runs, pooled, fresh, jobs, client>>
-----------------------------------------------------------------------------

(***************************************************************************)
(* A job thread in _work().                                                *)
(***************************************************************************)
JobStep(w, from, to) ==
  /\ jobs[w][from] > 0
  /\ jobs' = [jobs EXCEPT ![w][from] = @ - 1, ![w][to] = @ + 1]

JobLeaves(w, from) ==
  /\ jobs[w][from] > 0
  /\ jobs' = [jobs EXCEPT ![w][from] = @ - 1]

\* A stopped worker's job returns at once, any other job enters the callback.
_workBegin(w) ==
  /\ IF running[w]
     THEN /\ JobStep(w, "started", "working")
          /\ runs' = [runs EXCEPT ![w] = IF @ <= MaxCount[w] THEN @ + 1 ELSE @]
          /\ executing' = [executing EXCEPT ![w] = TRUE]
     ELSE /\ JobLeaves(w, "started")
          /\ UNCHANGED <<runs, executing>>
  /\ UNCHANGED <<queue, timer, fired, running, pooled, fresh, client>>

\* Mutant: one run too many.
LastRunLate(w) == MaxCount[w] > 0 /\ runs[w] > MaxCount[w]

LastRun(w) == MaxCount[w] > 0 /\ runs[w] >= MaxCount[w]

\* The callback is over; its result, or that of the exception handler, is a
\* free choice.
_workEnd(w) ==
  /\ \E result \in BOOLEAN :
       JobStep(w, "working", IF ~result \/ LastRun(w) THEN "ending" ELSE "requeueing")
  /\ executing' = [executing EXCEPT ![w] = FALSE]
  /\ UNCHANGED <<queue, timer, fired, running, runs, pooled, fresh, client>>

\* nextRunTime is moved to the next multiple of the interval in the future,
\* or to the end of a full interval if the worker does not run on time.
_workRequeue(w) ==
  /\ JobLeaves(w, "requeueing")
  /\ \E d \in 1..Interval[w] : _queueWorker(w, d)
  /\ UNCHANGED <<fired, running, executing, runs, pooled, fresh, client>>

\* Mutant: stop() does not reset running.
_workStopRunning(w) ==
  /\ IF running[w] THEN JobStep(w, "ending", "unqueueing") ELSE JobLeaves(w, "ending")
  /\ UNCHANGED <<queue, timer, fired, running, executing, runs, pooled, fresh, client>>

\* The three parts of stop(), called at the end of _work().
_workStop(w) ==
  /\ IF running[w] THEN JobStep(w, "ending", "unqueueing") ELSE JobLeaves(w, "ending")
  /\ running' = [running EXCEPT ![w] = FALSE]
  /\ UNCHANGED <<queue, timer, fired, executing, runs, pooled, fresh, client>>

_workStopUnqueue(w) ==
  /\ JobStep(w, "unqueueing", "postCall")
  /\ _unqueueWorker(w)
  /\ UNCHANGED <<fired, running, executing, runs, pooled, fresh, client>>

_workPostCall(w) ==
  /\ JobLeaves(w, "postCall")
  /\ pooled' = IF w \in Dispose THEN pooled \ {w} ELSE pooled
  /\ UNCHANGED <<queue, timer, fired, running, executing, runs, fresh, client>>

JobNext(w) ==
  \/ _workBegin(w) \/ _workEnd(w) \/ _workRequeue(w)
  \/ _workStop(w) \/ _workStopUnqueue(w) \/ _workPostCall(w)
-----------------------------------------------------------------------------
(***************************************************************************)
(* The client threads.                                                     *)
(***************************************************************************)
At(c, w, phase) == client[c].phase = phase /\ client[c].w = w

InUse(w) == \E c \in Client : client[c].phase # "idle" /\ client[c].w = w

Queued(w) == \E d \in Delay : queue[w][d] > 0

HasJob(w) == \E p \in JobPhase : jobs[w][p] > 0

InFlight(w) == FoldFunction(+, 0, queue[w]) + FoldFunction(+, 0, jobs[w])

Calls(c, w, call) ==
  /\ call \in Api
  /\ client[c].phase = "idle"
  /\ InFlight(w) < MaxInFlight

Enters(c, w, call, phase) ==
  client' = [client EXCEPT ![c] = [call |-> call, phase |-> phase, w |-> w]]

Moves(c, w, from, to) ==
  /\ At(c, w, from)
  /\ client' = [client EXCEPT ![c] = [@ EXCEPT !.phase = to]]

Returns(c, w, from) ==
  /\ At(c, w, from)
  /\ client' = [client EXCEPT ![c] = Idle]

\* newWorker() or newActor(), in the place of an object nobody refers to.
newWorker(w) ==
  /\ w \notin pooled
  /\ ~Queued(w) /\ ~HasJob(w) /\ ~InUse(w)
  /\ pooled' = pooled \union {w}
  /\ fresh' = fresh \union {w}
  /\ running' = [running EXCEPT ![w] = FALSE]
  /\ executing' = [executing EXCEPT ![w] = FALSE]
  /\ runs' = [runs EXCEPT ![w] = 0]
  /\ UNCHANGED <<queue, timer, fired, jobs, client>>

\* start() of a new worker, or of a worker that ran before.
start(c, w) ==
  \/ /\ Calls(c, w, "start")
     /\ w \in fresh
     /\ fresh' = fresh \ {w}
     /\ Enters(c, w, "start", "set")
     /\ UNCHANGED <<queue, timer, fired, running, executing, runs, pooled, jobs>>
  \/ /\ Calls(c, w, "startAgain")
     /\ w \in pooled \ fresh
     /\ Enters(c, w, "startAgain", IF running[w] THEN "unqueue" ELSE "set")
     /\ running' = [running EXCEPT ![w] = FALSE]
     /\ UNCHANGED <<queue, timer, fired, executing, runs, pooled, fresh, jobs>>

startSet(c, w) ==
  /\ Moves(c, w, "set", "queue")
  /\ runs' = [runs EXCEPT ![w] = 0]
  /\ running' = [running EXCEPT ![w] = TRUE]
  /\ UNCHANGED <<queue, timer, fired, executing, pooled, fresh, jobs>>

\* startWithDelay decides whether the first interval is 0.
startQueue(c, w) ==
  /\ Returns(c, w, "queue")
  /\ \E d \in {0, Interval[w]} : _queueWorker(w, d)
  /\ UNCHANGED <<fired, running, executing, runs, pooled, fresh, jobs>>

\* stopWorkers(), and removeWorkers() that also drops a worker stop() left.
stop(c, w) ==
  /\ w \in pooled
  /\ \/ Calls(c, w, "stop") /\ running[w] /\ Enters(c, w, "stop", "unqueue")
     \/ Calls(c, w, "remove")
        /\ Enters(c, w, "remove", IF running[w] THEN "unqueue" ELSE "postCall")
  /\ running' = [running EXCEPT ![w] = FALSE]
  /\ UNCHANGED <<queue, timer, fired, executing, runs, pooled, fresh, jobs>>

stopUnqueue(c, w) ==
  /\ Moves(c, w, "unqueue", "postCall")
  /\ _unqueueWorker(w)
  /\ UNCHANGED <<fired, running, executing, runs, pooled, fresh, jobs>>

_postCall(c, w) ==
  /\ At(c, w, "postCall")
  /\ IF client[c].call = "startAgain"
     THEN Moves(c, w, "postCall", "set")
     ELSE Returns(c, w, "postCall")
  /\ pooled' = IF w \in Dispose \/ client[c].call = "remove" THEN pooled \ {w} ELSE pooled
  /\ fresh' = IF client[c].call = "remove" THEN fresh \ {w} ELSE fresh
  /\ UNCHANGED <<queue, timer, fired, running, executing, runs, jobs>>

\* restart() and workNow() are pause() followed by unpause().
restart(c, w) ==
  /\ w \in pooled /\ running[w]
  /\ \/ Calls(c, w, "restart") /\ Enters(c, w, "restart", "pauseWait")
     \/ Calls(c, w, "workNow") /\ ~executing[w] /\ Enters(c, w, "workNow", "pauseWait")
  /\ UNCHANGED <<queue, timer, fired, running, executing, runs, pooled, fresh, jobs>>

pause(c, w) ==
  /\ ~executing[w]
  /\ Moves(c, w, "pauseWait", "pauseUnqueue")
  /\ UNCHANGED <<queue, timer, fired, running, executing, runs, pooled, fresh, jobs>>

pauseUnqueue(c, w) ==
  /\ Moves(c, w, "pauseUnqueue", "unpause")
  /\ _unqueueWorker(w)
  /\ UNCHANGED <<fired, running, executing, runs, pooled, fresh, jobs>>

unpause(c, w) ==
  /\ IF running[w] THEN Moves(c, w, "unpause", "unpauseQueue") ELSE Returns(c, w, "unpause")
  /\ UNCHANGED <<queue, timer, fired, running, executing, runs, pooled, fresh, jobs>>

unpauseQueue(c, w) ==
  /\ At(c, w, "unpauseQueue")
  /\ _queueWorker(w, IF client[c].call = "workNow" THEN 0 ELSE Interval[w])
  /\ Returns(c, w, "unpauseQueue")
  /\ UNCHANGED <<fired, running, executing, runs, pooled, fresh, jobs>>

ClientCall(c, w) == start(c, w) \/ stop(c, w) \/ restart(c, w)

ClientStep(c, w) ==
  \/ startSet(c, w) \/ startQueue(c, w)
  \/ stopUnqueue(c, w) \/ _postCall(c, w)
  \/ pause(c, w) \/ pauseUnqueue(c, w) \/ unpause(c, w) \/ unpauseQueue(c, w)
-----------------------------------------------------------------------------
Init ==
  /\ queue = [w \in Worker |-> [d \in Delay |-> 0]]
  /\ timer = NoTimer
  /\ fired = 0
  /\ running = [w \in Worker |-> FALSE]
  /\ executing = [w \in Worker |-> FALSE]
  /\ runs = [w \in Worker |-> 0]
  /\ pooled = {}
  /\ fresh = {}
  /\ jobs = [w \in Worker |-> [p \in JobPhase |-> 0]]
  /\ client = [c \in Client |-> Idle]

Next ==
  \/ TimerFires \/ _execQueueEmpty \/ Tick
  \/ \E w \in Worker : _execQueue(w) \/ JobNext(w) \/ newWorker(w)
  \/ \E c \in Client, w \in Worker : ClientCall(c, w) \/ ClientStep(c, w)

Spec == Init /\ [][Next]_vars

(***************************************************************************)
(* Time passes, threads that can run do run, callbacks return.  Among the  *)
(* entries that are due the heap is ordered by timestamp, so no entry is   *)
(* overtaken for ever: the pop of a worker is strongly fair.  Clients need *)
(* not call anything, but finish what they began.                          *)
(***************************************************************************)
Fairness ==
  /\ WF_vars(Tick) /\ WF_vars(TimerFires) /\ WF_vars(_execQueueEmpty)
  /\ \A w \in Worker : SF_vars(_execQueue(w)) /\ WF_vars(JobNext(w))
  /\ \A c \in Client : WF_vars(\E w \in Worker : ClientStep(c, w))

FairSpec == Spec /\ Fairness
-----------------------------------------------------------------------------
\* The scheduler is never without a timer while workers are queued, and never
\* armed for later than the next worker: no worker is left behind by the
\* stop/start of the timer around every change of the queue (_startTimer,
\* _stopTimer), whatever the clients do.
TimerCoversQueue ==
  /\ \A w \in Worker : \A d \in Delay :
       queue[w][d] > 0 => timer.state # "none" /\ timer.at <= d
  /\ timer.state = "fired" => fired > 0

HasEntryOrJob(w) == Queued(w) \/ HasJob(w)

\* A worker has at most one queue entry or one job at a time, so it is never
\* run by two threads at once ("Only 1 worker" in _unqueueWorker; executing
\* and numberOfRuns are not locked).
OneSchedule ==
  \A w \in Worker :
    /\ \A d \in Delay : queue[w][d] <= 1
    /\ \A p \in JobPhase : jobs[w][p] <= 1
    /\ \A d, e \in Delay : queue[w][d] > 0 /\ queue[w][e] > 0 => d = e
    /\ \A p, r \in JobPhase : jobs[w][p] > 0 /\ jobs[w][r] > 0 => p = r
    /\ ~(Queued(w) /\ HasJob(w))

\* A started worker is in the pool, and queued, about to be queued or being
\* run: start(), the end of a run and stop() never lose it between them.
NeverLost ==
  \A w \in Worker : running[w] =>
    /\ w \in pooled
    /\ HasEntryOrJob(w) \/ \E c \in Client : At(c, w, "queue") \/ At(c, w, "unpauseQueue")

\* An actor (maxCount 1) runs once, a worker never more than maxCount times
\* per start(), even when other threads stop it while it runs.
MaxCountRespected ==
  \A w \in Worker : MaxCount[w] > 0 => runs[w] <= MaxCount[w]

\* The callback of a worker is not run by two job threads at the same time.
NoOverlap == \A w \in Worker : jobs[w]["working"] <= 1

\* A worker is handed to a job only when its timestamp is reached.
NotEarly ==
  [][\A w \in Worker : jobs'[w]["started"] > jobs[w]["started"] => queue[w][0] > 0]_vars

\* A started worker is run, unless it is stopped first.
StartedRuns ==
  \A w \in Worker : running[w] ~> (executing[w] \/ ~running[w])
=============================================================================
