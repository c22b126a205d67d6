----------------------------- MODULE CoreProofs -----------------------------
(***************************************************************************)
(* Proofs about the scheduler: type correctness, and what everything in    *)
(* the CSE that is periodic or delayed relies on. The timer covers the     *)
(* queue whatever the clients call. The other theorems are about clients   *)
(* that start each worker once and only stop it afterwards (StartOnce): a  *)
(* worker is never run by two threads, never lost, and runs at most        *)
(* maxCount times. What ResourceTreeProofs says of the tree holds where    *)
(* the two are composed.                                                   *)
(***************************************************************************)
EXTENDS MCCore, TLAPS

USE ParameterAssumption

\* The delays are numbers of ticks, and every interval is one.
LEMMA DelayIsNat ==
  /\ Delay \subseteq Nat /\ 0 \in Delay
  /\ \A w \in Worker : Interval[w] \in Delay /\ 1..Interval[w] \subseteq Delay
  BY DEF Delay

QueueType == queue \in [Worker -> [Delay -> Nat]]
TimerType == timer \in [state : {"none", "armed", "fired"}, at : Delay]

\* The timer armed for the head of a queue is of its type.
LEMMA StartTimerType ==
  ASSUME _startTimer  PROVE  TimerType'
  BY DelayIsNat DEF TimerType, _startTimer, NoTimer

\* The queue keeps its type when an entry is pushed.
LEMMA PushType ==
  ASSUME QueueType, NEW w \in Worker, NEW d \in Delay, _queueWorker(w, d)
  PROVE  QueueType' /\ _startTimer
  BY DelayIsNat DEF QueueType, _queueWorker

\* The queue keeps its type when the entry of a worker is removed.
LEMMA PopType ==
  ASSUME QueueType, NEW w \in Worker, NEW d \in Delay, queue[w][d] > 0,
         queue' = [queue EXCEPT ![w][d] = @ - 1]
  PROVE  QueueType'
<1>1. queue[w][d] - 1 \in Nat  BY DEF QueueType
<1>2. [queue[w] EXCEPT ![d] = @ - 1] \in [Delay -> Nat]  BY <1>1 DEF QueueType
<1>3. QED  BY <1>2 DEF QueueType

\* The queue keeps its type when the first entry of a worker is removed.
LEMMA UnqueueType ==
  ASSUME QueueType, NEW w \in Worker, _unqueueWorker(w)
  PROVE  QueueType' /\ _startTimer
  BY PopType DEF _unqueueWorker, QueueType

\* Every critical section of queueLock leaves a timer that covers the queue.
LEMMA StartTimerCovers ==
  ASSUME _startTimer, fired' \in Nat
  PROVE  TimerCoversQueue'
  BY DEF _startTimer, TimerCoversQueue, IsHead, NoTimer
-----------------------------------------------------------------------------
(***************************************************************************)
(* Type correctness.  The parts of the state that an action changes are    *)
(* typed one by one, the queue and its timer by the lemmas above.          *)
(***************************************************************************)
JobsType == jobs \in [Worker -> [JobPhase -> Nat]]
ClientType == client \in [Client -> [call : Call, phase : ClientPhase, w : Worker] \union {Idle}]

\* A job thread that moves on or leaves keeps the counts natural.
LEMMA JobStepType ==
  ASSUME JobsType, NEW w \in Worker, NEW from \in JobPhase, NEW to \in JobPhase,
         JobStep(w, from, to)
  PROVE  JobsType'
<1>1. jobs[w][from] - 1 \in Nat  BY DEF JobStep, JobsType
<1>2. [jobs[w] EXCEPT ![from] = @ - 1, ![to] = @ + 1] \in [JobPhase -> Nat]
  BY <1>1 DEF JobsType
<1>3. QED  BY <1>2 DEF JobStep, JobsType

\* The jobs keep their type when a job ends.
LEMMA JobLeavesType ==
  ASSUME JobsType, NEW w \in Worker, NEW from \in JobPhase, JobLeaves(w, from)
  PROVE  JobsType'
<1>1. jobs[w][from] - 1 \in Nat  BY DEF JobLeaves, JobsType
<1>2. [jobs[w] EXCEPT ![from] = @ - 1] \in [JobPhase -> Nat]  BY <1>1 DEF JobsType
<1>3. QED  BY <1>2 DEF JobLeaves, JobsType

\* A client that enters, moves within or returns from a method stays typed.
LEMMA EntersType ==
  ASSUME ClientType, NEW c \in Client, NEW w \in Worker, NEW call \in Call,
         NEW phase \in ClientPhase, Enters(c, w, call, phase)
  PROVE  ClientType'
  BY DEF ClientType, Enters

\* The clients keep their type when one of them moves on.
LEMMA MovesType ==
  ASSUME ClientType, NEW c \in Client, NEW w \in Worker,
         NEW from \in ClientPhase \ {"idle"}, NEW to \in ClientPhase, Moves(c, w, from, to)
  PROVE  ClientType'
<1>1. client[c] \in [call : Call, phase : ClientPhase, w : Worker]
  BY DEF ClientType, Moves, At, Idle
<1>2. [client[c] EXCEPT !.phase = to] \in [call : Call, phase : ClientPhase, w : Worker]
  BY <1>1
<1>3. QED  BY <1>2 DEF ClientType, Moves

\* The clients keep their type when one of them returns.
LEMMA ReturnsType ==
  ASSUME ClientType, NEW c \in Client, NEW w \in Worker, NEW from, Returns(c, w, from)
  PROVE  ClientType'
  BY DEF ClientType, Returns

\* Every action of the scheduler keeps the types.
LEMMA TypeStep ==
  ASSUME TypeOK, [Next]_vars  PROVE  TypeOK'
<1> USE DEF TypeOK, QueueType, TimerType, JobsType, ClientType
<1>1. CASE UNCHANGED vars  BY <1>1 DEF vars
<1>2. CASE TimerFires  BY <1>2 DEF TimerFires
<1>3. CASE _execQueueEmpty  BY <1>3, DelayIsNat DEF _execQueueEmpty, NoTimer
<1>4. CASE Tick
  <2>1. queue' \in [Worker -> [Delay -> Nat]]
    <3>1. ASSUME NEW w \in Worker, NEW d \in Delay
          PROVE  (IF d = 0 THEN queue[w][0] ELSE 0)
                 + (IF d < MaxDelay THEN queue[w][d + 1] ELSE 0) \in Nat
      BY SMTT(30), DelayIsNat DEF Delay
    <3>2. QED  BY <3>1, <1>4 DEF Tick
  <2>2. timer' \in [state : {"none", "armed", "fired"}, at : Delay]
    <3>1. (IF timer.at > 0 THEN timer.at - 1 ELSE 0) \in Delay  BY DelayIsNat DEF Delay
    <3>2. QED  BY <1>4, <3>1 DEF Tick
  <2>3. QED  BY <1>4, <2>1, <2>2 DEF Tick
<1>5. ASSUME NEW w \in Worker, _execQueue(w)  PROVE TypeOK'
  <2>1. PICK d \in Delay : IsHead(queue, w, d) /\ queue' = [queue EXCEPT ![w][d] = @ - 1]
    BY <1>5 DEF _execQueue
  <2>2. QueueType'  BY <2>1, PopType DEF IsHead
  <2>3. TimerType'  BY <1>5, StartTimerType DEF _execQueue
  <2>4. JobsType'  BY <1>5 DEF _execQueue, JobPhase
  <2>5. QED  BY <1>5, <2>2, <2>3, <2>4 DEF _execQueue
<1>6. ASSUME NEW w \in Worker, JobNext(w)  PROVE TypeOK'
  <2>1. CASE _workBegin(w)
    <3>1. JobsType'  BY <2>1, JobStepType, JobLeavesType DEF _workBegin, JobPhase
    <3>2. executing' \in [Worker -> BOOLEAN]  BY <2>1 DEF _workBegin
    <3>3. runs' \in [Worker -> Nat]
      <4>1. (IF runs[w] <= MaxCount[w] THEN runs[w] + 1 ELSE runs[w]) \in Nat  OBVIOUS
      <4>2. QED  BY <2>1, <4>1 DEF _workBegin
    <3>4. QED  BY <2>1, <3>1, <3>2, <3>3 DEF _workBegin
  <2>2. CASE _workEnd(w)
    <3>1. JobsType'  BY <2>2, JobStepType DEF _workEnd, JobPhase
    <3>2. QED  BY <2>2, <3>1 DEF _workEnd
  <2>3. CASE _workRequeue(w)
    <3>1. QueueType' /\ _startTimer  BY <2>3, PushType, DelayIsNat DEF _workRequeue
    <3>2. JobsType'  BY <2>3, JobLeavesType DEF _workRequeue, JobPhase
    <3>3. QED  BY <2>3, <3>1, <3>2, StartTimerType DEF _workRequeue
  <2>4. CASE _workStop(w)
    <3>1. JobsType'  BY <2>4, JobStepType, JobLeavesType DEF _workStop, JobPhase
    <3>2. QED  BY <2>4, <3>1 DEF _workStop
  <2>5. CASE _workStopUnqueue(w)
    <3>1. QueueType' /\ _startTimer  BY <2>5, UnqueueType DEF _workStopUnqueue
    <3>2. JobsType'  BY <2>5, JobStepType DEF _workStopUnqueue, JobPhase
    <3>3. QED  BY <2>5, <3>1, <3>2, StartTimerType DEF _workStopUnqueue
  <2>6. CASE _workPostCall(w)
    <3>1. JobsType'  BY <2>6, JobLeavesType DEF _workPostCall, JobPhase
    <3>2. QED  BY <2>6, <3>1 DEF _workPostCall
  <2>7. QED  BY <1>6, <2>1, <2>2, <2>3, <2>4, <2>5, <2>6 DEF JobNext
<1>7. ASSUME NEW w \in Worker, newWorker(w)  PROVE TypeOK'
  BY <1>7 DEF newWorker
<1>8. ASSUME NEW c \in Client, NEW w \in Worker, ClientCall(c, w)  PROVE TypeOK'
  <2>1. CASE start(c, w)
    <3>1. ClientType'  BY <2>1, EntersType DEF start, ClientPhase, Call
    <3>2. QED  BY <2>1, <3>1 DEF start
  <2>2. CASE stop(c, w)
    <3>1. ClientType'  BY <2>2, EntersType DEF stop, ClientPhase, Call
    <3>2. QED  BY <2>2, <3>1 DEF stop
  <2>3. CASE restart(c, w)
    <3>1. ClientType'  BY <2>3, EntersType DEF restart, ClientPhase, Call
    <3>2. QED  BY <2>3, <3>1 DEF restart
  <2>4. QED  BY <1>8, <2>1, <2>2, <2>3 DEF ClientCall
<1>9. ASSUME NEW c \in Client, NEW w \in Worker, ClientStep(c, w)  PROVE TypeOK'
  <2>1. CASE startSet(c, w)
    <3>1. ClientType'  BY <2>1, MovesType DEF startSet, ClientPhase
    <3>2. QED  BY <2>1, <3>1 DEF startSet
  <2>2. CASE startQueue(c, w)
    <3>1. ClientType'  BY <2>2, ReturnsType DEF startQueue
    <3>2. QueueType' /\ _startTimer  BY <2>2, PushType, DelayIsNat DEF startQueue
    <3>3. QED  BY <2>2, <3>1, <3>2, StartTimerType DEF startQueue
  <2>3. CASE stopUnqueue(c, w)
    <3>1. ClientType'  BY <2>3, MovesType DEF stopUnqueue, ClientPhase
    <3>2. QueueType' /\ _startTimer  BY <2>3, UnqueueType DEF stopUnqueue
    <3>3. QED  BY <2>3, <3>1, <3>2, StartTimerType DEF stopUnqueue
  <2>4. CASE _postCall(c, w)
    <3>1. ClientType'  BY <2>4, MovesType, ReturnsType DEF _postCall, ClientPhase
    <3>2. QED  BY <2>4, <3>1 DEF _postCall
  <2>5. CASE pause(c, w)
    <3>1. ClientType'  BY <2>5, MovesType DEF pause, ClientPhase
    <3>2. QED  BY <2>5, <3>1 DEF pause
  <2>6. CASE pauseUnqueue(c, w)
    <3>1. ClientType'  BY <2>6, MovesType DEF pauseUnqueue, ClientPhase
    <3>2. QueueType' /\ _startTimer  BY <2>6, UnqueueType DEF pauseUnqueue
    <3>3. QED  BY <2>6, <3>1, <3>2, StartTimerType DEF pauseUnqueue
  <2>7. CASE unpause(c, w)
    <3>1. ClientType'  BY <2>7, MovesType, ReturnsType DEF unpause, ClientPhase
    <3>2. QED  BY <2>7, <3>1 DEF unpause
  <2>8. CASE unpauseQueue(c, w)
    <3>1. ClientType'  BY <2>8, ReturnsType DEF unpauseQueue
    <3>2. QueueType' /\ _startTimer  BY <2>8, PushType, DelayIsNat DEF unpauseQueue
    <3>3. QED  BY <2>8, <3>1, <3>2, StartTimerType DEF unpauseQueue
  <2>9. QED
    BY <1>9, <2>1, <2>2, <2>3, <2>4, <2>5, <2>6, <2>7, <2>8 DEF ClientStep
<1>10. QED  BY <1>1, <1>2, <1>3, <1>4, <1>5, <1>6, <1>7, <1>8, <1>9 DEF Next

\* The scheduler is type-correct for any workers, clients and bounds.
THEOREM TypeCorrect == Spec => []TypeOK
<1>1. Init => TypeOK  BY DelayIsNat DEF Init, TypeOK, NoTimer
<1>2. QED  BY <1>1, TypeStep, PTL DEF Spec
-----------------------------------------------------------------------------
\* Time passing keeps the timer ahead of the queue.
LEMMA TickCovers ==
  ASSUME TypeOK, TimerCoversQueue, Tick  PROVE  TimerCoversQueue'
<1>1. ASSUME NEW w \in Worker, NEW d \in Delay, queue'[w][d] > 0
      PROVE  timer'.state # "none" /\ timer'.at <= d
  <2>1. (d = 0 /\ queue[w][0] > 0) \/ (d + 1 \in Delay /\ queue[w][d + 1] > 0)
    <3>1. /\ queue'[w][d] = (IF d = 0 THEN queue[w][0] ELSE 0)
                           + (IF d < MaxDelay THEN queue[w][d + 1] ELSE 0)
      BY DEF Tick
    <3>2. CASE d = 0
      <4>1. queue[w][0] \in Nat  BY DelayIsNat DEF TypeOK
      <4>2. 1 \in Delay /\ queue[w][0 + 1] \in Nat  BY DelayIsNat DEF TypeOK, Delay
      <4>3. QED  BY <1>1, <3>1, <3>2, <4>1, <4>2
    <3>3. CASE d # 0
      <4>1. d \in 0..MaxDelay  BY DEF Delay
      <4>2. d < MaxDelay  BY <1>1, <3>1, <3>3
      <4>3. d + 1 \in Delay  BY <4>1, <4>2 DEF Delay
      <4>4. queue[w][d + 1] \in Nat  BY <4>3 DEF TypeOK
      <4>5. QED  BY <1>1, <3>1, <3>3, <4>2, <4>3, <4>4
    <3>4. QED  BY <3>2, <3>3
  <2>2. timer.state # "none" /\ timer.at <= d + 1
    BY <2>1, DelayIsNat DEF TypeOK, TimerCoversQueue, Delay
  <2>3. CASE d = 0 /\ queue[w][0] > 0
    BY <2>2, <2>3, DelayIsNat DEF TypeOK, Tick, Delay
  <2>4. CASE d + 1 \in Delay /\ queue[w][d + 1] > 0
    BY <2>2, <2>4, DelayIsNat DEF TypeOK, Tick, Delay
  <2>5. QED  BY <2>1, <2>3, <2>4
<1>2. timer'.state = "fired" => fired' > 0
  BY DEF TypeOK, TimerCoversQueue, Tick
<1>3. QED  BY <1>1, <1>2 DEF TimerCoversQueue

\* Every action keeps the timer ahead of the queue: the critical sections by
\* StartTimerCovers, TimerFires because the thread it starts is counted, and
\* everything else because it touches neither the queue nor the timer.
LEMMA TimerStep ==
  ASSUME TypeOK, TypeOK', TimerCoversQueue, [Next]_vars  PROVE  TimerCoversQueue'
<1>0. fired' \in Nat  BY DEF TypeOK
<1>1. CASE UNCHANGED <<queue, timer, fired>>  BY <1>1 DEF TimerCoversQueue
<1>2. CASE _startTimer  BY <1>0, <1>2, StartTimerCovers
<1>3. CASE TimerFires  BY <1>3 DEF TimerFires, TypeOK, TimerCoversQueue
<1>4. CASE _execQueueEmpty
  BY <1>4 DEF _execQueueEmpty, TypeOK, TimerCoversQueue, NoTimer
<1>5. CASE Tick  BY <1>5, TickCovers
<1>6. ASSUME NEW w \in Worker, _execQueue(w) \/ JobNext(w) \/ newWorker(w)
      PROVE  _startTimer \/ UNCHANGED <<queue, timer, fired>>
  BY <1>6 DEF _execQueue, newWorker, JobNext, _workBegin, _workEnd, _workRequeue, _workStop,
              _workStopUnqueue, _workPostCall, _queueWorker, _unqueueWorker
<1>7. ASSUME NEW c \in Client, NEW w \in Worker, ClientCall(c, w)
      PROVE  UNCHANGED <<queue, timer, fired>>
  BY <1>7 DEF ClientCall, start, stop, restart
<1>8. ASSUME NEW c \in Client, NEW w \in Worker, ClientStep(c, w)
      PROVE  _startTimer \/ UNCHANGED <<queue, timer, fired>>
  BY <1>8 DEF ClientStep, startSet, startQueue, stopUnqueue, _postCall, pause, pauseUnqueue,
              unpause, unpauseQueue, _queueWorker, _unqueueWorker
<1>9. QED
  BY <1>1, <1>2, <1>3, <1>4, <1>5, <1>6, <1>7, <1>8 DEF Next, vars

\* While workers are queued the scheduler has a timer that is armed for no
\* later than the first of them, whatever methods the clients call.
THEOREM TimerAlwaysCovers == Spec => []TimerCoversQueue
<1>1. Init => TimerCoversQueue  BY DEF Init, TimerCoversQueue, NoTimer
<1>2. TypeOK /\ TypeOK' /\ TimerCoversQueue /\ [Next]_vars => TimerCoversQueue'
  BY TimerStep
<1>3. QED  BY <1>1, <1>2, TypeCorrect, PTL DEF Spec

-----------------------------------------------------------------------------
(***************************************************************************)
(* Workers that are started once. The invariant is ScheduleInv; it is kept *)
(* per worker, so every action is looked at once, for the worker it is     *)
(* about, and Frame covers the others.                                     *)
(***************************************************************************)
Phases == {"set", "queue", "unqueue", "postCall"}

\* What WorkerInv(v) is about does not change.
Untouched(v) ==
  /\ queue'[v] = queue[v] /\ jobs'[v] = jobs[v]
  /\ running'[v] = running[v] /\ runs'[v] = runs[v]
  /\ (v \in pooled') <=> (v \in pooled)
  /\ (v \in fresh') <=> (v \in fresh)
  /\ \A c \in Client : \A p \in Phases : At(c, v, p)' <=> At(c, v, p)

\* An action that does not touch a worker keeps its invariant.
LEMMA Frame ==
  ASSUME NEW v \in Worker, WorkerInv(v), Untouched(v)  PROVE  WorkerInv(v)'
<1> USE DEF Untouched, Phases
<1>1. Queued(v)' <=> Queued(v)  BY DEF Queued
<1>2. HasJob(v)' <=> HasJob(v)  BY DEF HasJob
<1>3. \A c \in Client : (Starter(c, v)' <=> Starter(c, v)) /\ (Stopper(c, v)' <=> Stopper(c, v))
  BY DEF Starter, Stopper
<1>4. OneToken(v)'  BY <1>1, <1>2 DEF WorkerInv, OneToken
<1>5. StarterOwns(v)'  BY <1>1, <1>2, <1>3 DEF WorkerInv, StarterOwns
<1>6. FreshUnknown(v)'  BY <1>1, <1>2, <1>3 DEF WorkerInv, FreshUnknown
<1>7. StopperStops(v)'  BY <1>3 DEF WorkerInv, StopperStops
<1>8. RunningKept(v)'  BY <1>1, <1>2 DEF WorkerInv, RunningKept, HasEntryOrJob
<1>9. RunLeft(v)'  BY DEF WorkerInv, RunLeft
<1>10. QED  BY <1>4, <1>5, <1>6, <1>7, <1>8, <1>9 DEF WorkerInv

\* Where the clients stand does not change for a worker.
SameClients(v) == \A c \in Client : \A p \in Phases : At(c, v, p)' <=> At(c, v, p)

\* A step that leaves the clients alone leaves the place of every client alone.
LEMMA StillClients ==
  ASSUME client' = client, NEW v \in Worker  PROVE  SameClients(v)
  BY DEF SameClients, At

\* A client that calls, moves or returns is at the same place for the workers
\* it is not about.
LEMMA EntersOther ==
  ASSUME ClientType, NEW c \in Client, NEW w \in Worker, NEW call, NEW phase,
         client[c].phase = "idle", Enters(c, w, call, phase), NEW v \in Worker \ {w}
  PROVE  SameClients(v)
  BY DEF ClientType, Enters, At, SameClients, Phases

\* A client that moves on does not touch the workers it is not about.
LEMMA MovesOther ==
  ASSUME ClientType, NEW c \in Client, NEW w \in Worker,
         NEW from \in ClientPhase \ {"idle"}, NEW to \in ClientPhase,
         Moves(c, w, from, to), NEW v \in Worker \ {w}
  PROVE  SameClients(v)
<1>1. client[c] \in [call : Call, phase : ClientPhase, w : Worker]
  BY DEF ClientType, Moves, At, Idle
<1>2. client'[c].w = w  BY <1>1 DEF Moves, At, ClientType
<1>3. QED  BY <1>1, <1>2 DEF Moves, At, SameClients, ClientType

\* A client that returns does not touch the workers it is not about.
LEMMA ReturnsOther ==
  ASSUME ClientType, NEW c \in Client, NEW w \in Worker, NEW from,
         Returns(c, w, from), NEW v \in Worker \ {w}
  PROVE  SameClients(v)
<1>1. client'[c].phase = "idle"  BY DEF Returns, ClientType, Idle
<1>2. QED  BY <1>1 DEF Returns, At, SameClients, ClientType, Phases, Idle

\* What the two changes of the queue do to the entries of a worker.
LEMMA PushEntries ==
  ASSUME QueueType, NEW w \in Worker, NEW d \in Delay, _queueWorker(w, d)
  PROVE  /\ queue'[w][d] = queue[w][d] + 1
         /\ \A e \in Delay \ {d} : queue'[w][e] = queue[w][e]
         /\ \A v \in Worker \ {w} : queue'[v] = queue[v]
  BY DEF QueueType, _queueWorker

\* What is queued after an entry has been taken off the queue.
LEMMA PopEntries ==
  ASSUME QueueType, NEW w \in Worker, NEW d \in Delay,
         queue' = [queue EXCEPT ![w][d] = @ - 1]
  PROVE  /\ queue'[w][d] = queue[w][d] - 1
         /\ \A e \in Delay \ {d} : queue'[w][e] = queue[w][e]
         /\ \A v \in Worker \ {w} : queue'[v] = queue[v]
  BY DEF QueueType

\* What is queued after _unqueueWorker.
LEMMA UnqueueEntries ==
  ASSUME QueueType, NEW w \in Worker, _unqueueWorker(w)
  PROVE  /\ \A e \in Delay : queue'[w][e] <= queue[w][e]
         /\ \A v \in Worker \ {w} : queue'[v] = queue[v]
<1>1. CASE queue' = queue  BY <1>1 DEF QueueType
<1>2. ASSUME NEW d \in Delay, queue' = [queue EXCEPT ![w][d] = @ - 1]
      PROVE  \A e \in Delay : queue'[w][e] <= queue[w][e]
  BY <1>2, PopEntries DEF QueueType
<1>3. QED  BY <1>1, <1>2, PopEntries DEF _unqueueWorker
-----------------------------------------------------------------------------
\* The one token of a worker, when it is a job that moves on.
LEMMA JobStepToken ==
  ASSUME JobsType, NEW w \in Worker, OneToken(w),
         NEW from \in JobPhase, NEW to \in JobPhase \ {from}, JobStep(w, from, to)
  PROVE  /\ HasJob(w) /\ HasJob(w)' /\ ~Queued(w)
         /\ \A p \in JobPhase : jobs[w][p] = IF p = from THEN 1 ELSE 0
         /\ \A p \in JobPhase : jobs'[w][p] = IF p = to THEN 1 ELSE 0
         /\ \A v \in Worker \ {w} : jobs'[v] = jobs[v]
<1>1. \A p \in JobPhase : jobs[w][p] = IF p = from THEN 1 ELSE 0
  BY DEF JobsType, OneToken, JobStep
<1>2. /\ jobs'[w][from] = jobs[w][from] - 1
      /\ jobs'[w][to] = jobs[w][to] + 1
      /\ \A p \in JobPhase \ {from, to} : jobs'[w][p] = jobs[w][p]
  BY DEF JobsType, JobStep
<1>3. \A p \in JobPhase : jobs'[w][p] = IF p = to THEN 1 ELSE 0
  BY <1>1, <1>2
<1>4. HasJob(w) /\ HasJob(w)'  BY <1>1, <1>3 DEF HasJob
<1>5. QED  BY <1>1, <1>3, <1>4 DEF OneToken, JobStep, JobsType

\* The same when the job leaves _work().
LEMMA JobLeavesToken ==
  ASSUME JobsType, NEW w \in Worker, OneToken(w), NEW from \in JobPhase, JobLeaves(w, from)
  PROVE  /\ HasJob(w) /\ ~HasJob(w)' /\ ~Queued(w)
         /\ \A p \in JobPhase : jobs[w][p] = IF p = from THEN 1 ELSE 0
         /\ \A p \in JobPhase : jobs'[w][p] = 0
         /\ \A v \in Worker \ {w} : jobs'[v] = jobs[v]
<1>1. \A p \in JobPhase : jobs[w][p] = IF p = from THEN 1 ELSE 0
  BY DEF JobsType, OneToken, JobLeaves
<1>2. /\ jobs'[w][from] = jobs[w][from] - 1
      /\ \A p \in JobPhase \ {from} : jobs'[w][p] = jobs[w][p]
  BY DEF JobsType, JobLeaves
<1>3. \A p \in JobPhase : jobs'[w][p] = 0
  BY <1>1, <1>2
<1>4. HasJob(w) /\ ~HasJob(w)'  BY <1>1, <1>3 DEF HasJob
<1>5. QED  BY <1>1, <1>3, <1>4 DEF OneToken, JobLeaves, JobsType

\* A worker whose token is a job has one token as long as it is not queued.
LEMMA TokenIsJob ==
  ASSUME NEW w \in Worker, queue' = queue, QueueType, ~Queued(w), NEW to \in JobPhase,
         \A p \in JobPhase : jobs'[w][p] = IF p = to THEN 1 ELSE 0
  PROVE  OneToken(w)'
  BY DEF OneToken, Queued, HasJob, QueueType

\* After the only job of a worker has left, the worker has no token.
LEMMA TokenIsGone ==
  ASSUME NEW w \in Worker, queue' = queue, QueueType, ~Queued(w),
         \A p \in JobPhase : jobs'[w][p] = 0
  PROVE  OneToken(w)' /\ ~Queued(w)'
  BY DEF OneToken, Queued, HasJob, QueueType

\* A worker without a token that is queued has one token, its new entry.
LEMMA TokenIsEntry ==
  ASSUME NEW w \in Worker, NEW d \in Delay, QueueType, ~Queued(w), _queueWorker(w, d),
         \A p \in JobPhase : jobs'[w][p] = 0
  PROVE  OneToken(w)' /\ Queued(w)'
<1>1. \A e \in Delay : queue'[w][e] = IF e = d THEN 1 ELSE 0
  BY PushEntries DEF Queued, QueueType
<1>2. QED  BY <1>1 DEF OneToken, Queued, HasJob

\* A worker with a token has no starter and is not new.
LEMMA TokenExcludes ==
  ASSUME NEW w \in Worker, WorkerInv(w), HasEntryOrJob(w)
  PROVE  (\A c \in Client : ~Starter(c, w)) /\ w \notin fresh
  BY DEF WorkerInv, StarterOwns, FreshUnknown, HasEntryOrJob
-----------------------------------------------------------------------------
\* An action about worker w leaves the other workers alone.
Others(w) == \A v \in Worker \ {w} : Untouched(v)

\* Each action keeps the invariant of the worker it is about.  First the jobs.
LEMMA JobKeeps ==
  ASSUME TypeOK, NEW w \in Worker, WorkerInv(w), JobNext(w)
  PROVE  WorkerInv(w)' /\ Others(w) /\ client' = client
<1> USE DEF TypeOK, QueueType, JobsType, JobPhase
<1>0. client' = client /\ fresh' = fresh
  BY DEF JobNext, _workBegin, _workEnd, _workRequeue, _workStop, _workStopUnqueue, _workPostCall
<1>1. HasEntryOrJob(w)
  BY DEF JobNext, _workBegin, _workEnd, _workRequeue, _workStop, _workStopUnqueue, _workPostCall,
         JobStep, JobLeaves, HasJob, HasEntryOrJob
<1>2. \A v \in Worker : SameClients(v)  BY <1>0, StillClients
<1>3. \A c \in Client : (Starter(c, w)' <=> Starter(c, w)) /\ (Stopper(c, w)' <=> Stopper(c, w))
  BY <1>0 DEF Starter, Stopper, At
<1>4. StarterOwns(w)' /\ FreshUnknown(w)'
  BY <1>0, <1>1, <1>3, TokenExcludes DEF StarterOwns, FreshUnknown
<1>5. OneToken(w)  BY DEF WorkerInv
<1>6. CASE _workBegin(w) /\ running[w]
  <2>1. JobStep(w, "started", "working")  BY <1>6 DEF _workBegin
  <2>2. OneToken(w)'
    BY <1>5, <1>6, <2>1, JobStepToken, TokenIsJob DEF _workBegin
  <2>3. RunLeft(w)'
    BY <1>5, <1>6, <2>1, JobStepToken DEF _workBegin, WorkerInv, RunLeft
  <2>4. StopperStops(w)' /\ RunningKept(w)'
    BY <1>3, <1>5, <1>6, <2>1, JobStepToken
       DEF _workBegin, WorkerInv, StopperStops, RunningKept, HasEntryOrJob
  <2>5. Others(w)
    BY <1>2, <1>5, <1>6, <2>1, JobStepToken DEF _workBegin, Others, Untouched, SameClients
  <2>6. QED  BY <1>0, <1>4, <2>2, <2>3, <2>4, <2>5 DEF WorkerInv
<1>7. CASE _workBegin(w) /\ ~running[w]
  <2>1. JobLeaves(w, "started")  BY <1>7 DEF _workBegin
  <2>2. OneToken(w)'
    BY <1>5, <1>7, <2>1, JobLeavesToken, TokenIsGone DEF _workBegin
  <2>3. RunLeft(w)' /\ StopperStops(w)' /\ RunningKept(w)'
    BY <1>3, <1>7 DEF _workBegin, WorkerInv, RunLeft, StopperStops, RunningKept
  <2>4. Others(w)
    BY <1>2, <1>5, <1>7, <2>1, JobLeavesToken DEF _workBegin, Others, Untouched, SameClients
  <2>5. QED  BY <1>0, <1>4, <2>2, <2>3, <2>4 DEF WorkerInv
<1>8. CASE _workEnd(w)
  <2>1. PICK to \in {"ending", "requeueing"} :
          /\ JobStep(w, "working", to)
          /\ to = "requeueing" => ~LastRun(w)
    BY <1>8 DEF _workEnd
  <2>2. OneToken(w)'
    BY <1>5, <1>8, <2>1, JobStepToken, TokenIsJob DEF _workEnd
  <2>3. RunLeft(w)'
    BY <1>5, <1>8, <2>1, JobStepToken DEF _workEnd, WorkerInv, RunLeft, LastRun
  <2>4. StopperStops(w)' /\ RunningKept(w)'
    BY <1>3, <1>5, <1>8, <2>1, JobStepToken
       DEF _workEnd, WorkerInv, StopperStops, RunningKept, HasEntryOrJob
  <2>5. Others(w)
    BY <1>2, <1>5, <1>8, <2>1, JobStepToken DEF _workEnd, Others, Untouched, SameClients
  <2>6. QED  BY <1>0, <1>4, <2>2, <2>3, <2>4, <2>5 DEF WorkerInv
<1>9. CASE _workRequeue(w)
  <2>1. JobLeaves(w, "requeueing")  BY <1>9 DEF _workRequeue
  <2>2. PICK d \in 1..Interval[w] : _queueWorker(w, d)  BY <1>9 DEF _workRequeue
  <2>3. d \in Delay  BY DelayIsNat
  <2>4. OneToken(w)' /\ Queued(w)'
    BY <1>5, <2>1, <2>2, <2>3, JobLeavesToken, TokenIsEntry
  <2>5. RunLeft(w)'
    BY <1>5, <1>9, <2>1, JobLeavesToken DEF _workRequeue, WorkerInv, RunLeft
  <2>6. StopperStops(w)' /\ RunningKept(w)'
    BY <1>3, <1>5, <1>9, <2>1, <2>4, JobLeavesToken
       DEF _workRequeue, WorkerInv, StopperStops, RunningKept, HasEntryOrJob
  <2>7. Others(w)
    BY <1>2, <1>5, <1>9, <2>1, <2>2, <2>3, JobLeavesToken, PushEntries
       DEF _workRequeue, Others, Untouched, SameClients
  <2>8. QED  BY <1>0, <1>4, <2>4, <2>5, <2>6, <2>7 DEF WorkerInv
<1>10. CASE _workStop(w)
  <2>1. OneToken(w)' /\ \A v \in Worker \ {w} : jobs'[v] = jobs[v]
    <3>1. CASE running[w]
      BY <1>5, <1>10, <3>1, JobStepToken, TokenIsJob DEF _workStop
    <3>2. CASE ~running[w]
      BY <1>5, <1>10, <3>2, JobLeavesToken, TokenIsGone DEF _workStop
    <3>3. QED  BY <3>1, <3>2
  <2>2. RunLeft(w)' /\ StopperStops(w)' /\ RunningKept(w)'
    BY <1>3, <1>10 DEF _workStop, WorkerInv, RunLeft, StopperStops, RunningKept
  <2>3. Others(w)
    BY <1>2, <1>10, <2>1 DEF _workStop, Others, Untouched, SameClients
  <2>4. QED  BY <1>0, <1>4, <2>1, <2>2, <2>3 DEF WorkerInv
<1>11. CASE _workStopUnqueue(w)
  <2>1. JobStep(w, "unqueueing", "postCall") /\ _unqueueWorker(w)
    BY <1>11 DEF _workStopUnqueue
  <2>2. ~running[w]
    BY <2>1 DEF JobStep, WorkerInv, StopperStops
  <2>3. \A d \in Delay : queue[w][d] = 0 /\ queue'[w][d] = 0
    <3>1. \A d \in Delay : queue[w][d] = 0
      BY <1>5, <2>1, JobStepToken DEF Queued
    <3>2. \A d \in Delay : queue'[w][d] <= 0 /\ queue'[w][d] \in Nat
      BY <2>1, <3>1, UnqueueEntries, UnqueueType
    <3>3. QED  BY <3>1, <3>2
  <2>4. OneToken(w)'
    <3>1. \A p \in JobPhase : jobs'[w][p] = IF p = "postCall" THEN 1 ELSE 0
      BY <1>5, <2>1, JobStepToken
    <3>2. ~Queued(w)'  BY <2>3 DEF Queued
    <3>3. QED  BY <2>3, <3>1, <3>2 DEF OneToken
  <2>5. RunLeft(w)' /\ StopperStops(w)' /\ RunningKept(w)'
    BY <1>3, <1>11, <2>2 DEF _workStopUnqueue, WorkerInv, RunLeft, StopperStops, RunningKept
  <2>6. Others(w)
    BY <1>2, <1>5, <1>11, <2>1, JobStepToken, UnqueueEntries
       DEF _workStopUnqueue, Others, Untouched, SameClients
  <2>7. QED  BY <1>0, <1>4, <2>4, <2>5, <2>6 DEF WorkerInv
<1>12. CASE _workPostCall(w)
  <2>1. JobLeaves(w, "postCall")  BY <1>12 DEF _workPostCall
  <2>2. ~running[w]  BY <2>1 DEF JobLeaves, WorkerInv, StopperStops
  <2>3. OneToken(w)'
    BY <1>5, <1>12, <2>1, JobLeavesToken, TokenIsGone DEF _workPostCall
  <2>4. RunLeft(w)' /\ StopperStops(w)' /\ RunningKept(w)'
    BY <1>3, <1>12, <2>2 DEF _workPostCall, WorkerInv, RunLeft, StopperStops, RunningKept
  <2>5. Others(w)
    <3>1. \A v \in Worker \ {w} : (v \in pooled') <=> (v \in pooled)
      BY <1>12 DEF _workPostCall
    <3>2. QED
      BY <1>2, <1>5, <1>12, <2>1, <3>1, JobLeavesToken
         DEF _workPostCall, Others, Untouched, SameClients
  <2>6. QED  BY <1>0, <1>4, <2>3, <2>4, <2>5 DEF WorkerInv
<1>13. QED
  BY <1>6, <1>7, <1>8, <1>9, <1>10, <1>11, <1>12 DEF JobNext

\* The pop of an entry, and the creation of a worker.
LEMMA ExecKeeps ==
  ASSUME TypeOK, NEW w \in Worker, WorkerInv(w), _execQueue(w)
  PROVE  WorkerInv(w)' /\ Others(w) /\ client' = client
<1> USE DEF TypeOK, QueueType, JobsType, JobPhase
<1>1. PICK d \in Delay : queue[w][d] > 0 /\ queue' = [queue EXCEPT ![w][d] = @ - 1]
  BY DEF _execQueue, IsHead
<1>2. Queued(w) /\ HasEntryOrJob(w)  BY <1>1 DEF Queued, HasEntryOrJob
<1>3. /\ \A e \in Delay : queue[w][e] = IF e = d THEN 1 ELSE 0
      /\ \A p \in JobPhase : jobs[w][p] = 0
  BY <1>1, <1>2 DEF WorkerInv, OneToken, HasJob
<1>4. \A e \in Delay : queue'[w][e] = 0  BY <1>1, <1>3, PopEntries
<1>5. ~Queued(w)'  BY <1>4 DEF Queued
<1>6. \A p \in JobPhase : jobs'[w][p] = IF w \in pooled /\ p = "started" THEN 1 ELSE 0
  <2>1. jobs'[w]["started"] = jobs[w]["started"] + IF w \in pooled THEN 1 ELSE 0
    BY DEF _execQueue
  <2>2. \A p \in JobPhase \ {"started"} : jobs'[w][p] = jobs[w][p]
    BY DEF _execQueue
  <2>3. QED  BY <1>3, <2>1, <2>2
<1>7. OneToken(w)'
  BY <1>4, <1>5, <1>6 DEF OneToken
<1>8. w \in pooled => HasJob(w)'  BY <1>3, <1>6 DEF HasJob
<1>9. StarterOwns(w)' /\ FreshUnknown(w)' /\ StopperStops(w)'
  <2>1. client' = client /\ fresh' = fresh /\ running' = running  BY DEF _execQueue
  <2>2. \A c \in Client : ~Starter(c, w)' /\ (Stopper(c, w)' <=> Stopper(c, w))
    BY <1>2, <2>1, TokenExcludes DEF Starter, Stopper, At
  <2>3. StopperStops(w)'
    BY <1>3, <1>6, <2>1, <2>2 DEF WorkerInv, StopperStops
  <2>4. QED  BY <1>2, <2>1, <2>2, <2>3, TokenExcludes DEF StarterOwns, FreshUnknown
<1>10. RunningKept(w)'
  BY <1>8 DEF _execQueue, WorkerInv, RunningKept, HasEntryOrJob
<1>11. RunLeft(w)'
  BY <1>3, <1>6 DEF _execQueue, WorkerInv, RunLeft
<1>12. Others(w)
  BY <1>1, PopEntries, StillClients DEF _execQueue, Others, Untouched, SameClients
<1>13. QED  BY <1>7, <1>9, <1>10, <1>11, <1>12 DEF WorkerInv, _execQueue

\* newWorker keeps the invariant of every worker.
LEMMA NewKeeps ==
  ASSUME TypeOK, NEW w \in Worker, newWorker(w)
  PROVE  WorkerInv(w)' /\ Others(w) /\ client' = client
<1> USE DEF TypeOK, QueueType, JobsType
<1>1. /\ \A d \in Delay : queue'[w][d] = 0
      /\ \A p \in JobPhase : jobs'[w][p] = 0
      /\ \A c \in Client : ~Starter(c, w)' /\ ~Stopper(c, w)'
  BY DEF newWorker, Queued, HasJob, InUse, Starter, Stopper, At
<1>2. ~Queued(w)' /\ ~HasJob(w)'  BY <1>1 DEF Queued, HasJob
<1>3. w \in pooled' /\ ~running'[w] /\ runs'[w] = 0  BY DEF newWorker
<1>4. OneToken(w)'  BY <1>1, <1>2 DEF OneToken
<1>5. StarterOwns(w)' /\ FreshUnknown(w)' /\ StopperStops(w)' /\ RunningKept(w)' /\ RunLeft(w)'
  BY <1>1, <1>2, <1>3, DelayIsNat
     DEF StarterOwns, FreshUnknown, StopperStops, RunningKept, RunLeft, JobPhase
<1>6. Others(w)
  BY StillClients DEF newWorker, Others, Untouched, SameClients
<1>7. QED  BY <1>4, <1>5, <1>6 DEF WorkerInv, newWorker

\* Time passing keeps every worker's invariant.
LEMMA TickKeeps ==
  ASSUME TypeOK, NEW w \in Worker, WorkerInv(w), Tick
  PROVE  WorkerInv(w)'
<1> USE DEF TypeOK, QueueType
<1>0. /\ UNCHANGED <<running, runs, pooled, fresh, jobs, client>>
      /\ HasJob(w)' <=> HasJob(w)
      /\ \A c \in Client : (Starter(c, w)' <=> Starter(c, w)) /\ (Stopper(c, w)' <=> Stopper(c, w))
  BY DEF Tick, HasJob, Starter, Stopper, At
<1>1. /\ \A d \in Delay : queue[w][d] \in Nat /\ queue[w][d] <= 1
      /\ \A d, e \in Delay : queue[w][d] > 0 /\ queue[w][e] > 0 => d = e
  BY DEF WorkerInv, OneToken
<1>2. \A d \in Delay : (d < MaxDelay => d + 1 \in Delay) /\ d \in Nat
  BY DelayIsNat DEF Delay
<1>3. ASSUME NEW d \in Delay
      PROVE  queue'[w][d] = (IF d = 0 THEN queue[w][0] ELSE 0)
                            + (IF d < MaxDelay THEN queue[w][d + 1] ELSE 0)
  BY <1>3 DEF Tick
<1>4. ASSUME NEW d \in Delay
      PROVE  /\ queue'[w][d] \in Nat /\ queue'[w][d] <= 1
             /\ queue'[w][d] > 0 => \E e \in Delay : queue[w][e] > 0 /\ d = IF e = 0 THEN 0 ELSE e - 1
  <2>1. CASE d = 0
    <3>1. 0 \in Delay /\ 1 \in Delay  BY DelayIsNat DEF Delay
    <3>2. queue'[w][0] = queue[w][0] + queue[w][1]
      BY <1>3, <3>1
    <3>3. QED  BY <1>1, <2>1, <3>1, <3>2
  <2>2. CASE d # 0 /\ d < MaxDelay
    <3>1. d + 1 \in Delay /\ queue'[w][d] = queue[w][d + 1]
      BY <1>1, <1>2, <1>3, <2>2
    <3>2. d + 1 # 0 /\ (d + 1) - 1 = d  BY <1>2
    <3>3. QED  BY <1>1, <3>1, <3>2
  <2>3. CASE d # 0 /\ ~(d < MaxDelay)  BY <1>3, <2>3
  <2>4. QED  BY <2>1, <2>2, <2>3
<1>5. \A d, e \in Delay : queue'[w][d] > 0 /\ queue'[w][e] > 0 => d = e
  BY <1>1, <1>4
<1>6. Queued(w)' <=> Queued(w)
  <2>1. Queued(w)' => Queued(w)  BY <1>4 DEF Queued
  <2>2. ASSUME NEW d \in Delay, queue[w][d] > 0  PROVE Queued(w)'
    <3>1. CASE d = 0
      <4>1. 0 \in Delay /\ 1 \in Delay  BY DelayIsNat DEF Delay
      <4>2. queue'[w][0] > 0  BY <1>1, <1>3, <2>2, <3>1, <4>1
      <4>3. QED  BY <4>1, <4>2 DEF Queued
    <3>2. CASE d # 0
      <4>1. d - 1 \in Delay /\ d - 1 < MaxDelay /\ (d - 1) + 1 = d
        BY <3>2 DEF Delay
      <4>2. queue'[w][d - 1] = (IF d - 1 = 0 THEN queue[w][0] ELSE 0) + queue[w][d]
        BY <1>3, <4>1
      <4>3. 0 \in Delay  BY DelayIsNat
      <4>4. queue'[w][d - 1] > 0  BY <1>1, <2>2, <4>2, <4>3
      <4>5. QED  BY <4>1, <4>4 DEF Queued
    <3>3. QED  BY <3>1, <3>2
  <2>3. QED  BY <2>1, <2>2 DEF Queued
<1>7. OneToken(w)'
  BY <1>0, <1>4, <1>5, <1>6 DEF WorkerInv, OneToken
<1>8. StarterOwns(w)' /\ FreshUnknown(w)'
  BY <1>0, <1>6 DEF WorkerInv, StarterOwns, FreshUnknown, At
<1>9. StopperStops(w)' /\ RunningKept(w)' /\ RunLeft(w)'
  BY <1>0, <1>6 DEF WorkerInv, StopperStops, RunningKept, RunLeft, HasEntryOrJob, At
<1>10. QED  BY <1>7, <1>8, <1>9 DEF WorkerInv
-----------------------------------------------------------------------------
\* The clients.  A client that is in a method is where ClientDiscipline says.
LEMMA CallKeeps ==
  ASSUME StartOnce, TypeOK, ClientDiscipline, NEW c \in Client, NEW w \in Worker,
         WorkerInv(w), ClientCall(c, w)
  PROVE  ClientDiscipline' /\ WorkerInv(w)' /\ Others(w)
<1> USE DEF TypeOK, QueueType, JobsType, ClientType
<1>1. client[c].phase = "idle" /\ ~Starter(c, w) /\ ~Stopper(c, w)
  BY DEF ClientCall, start, stop, restart, Calls, Starter, Stopper, At
<1>2. queue' = queue /\ jobs' = jobs /\ (Queued(w)' <=> Queued(w)) /\ (HasJob(w)' <=> HasJob(w))
  BY DEF ClientCall, start, stop, restart, Queued, HasJob
<1>3. OneToken(w)'  BY <1>2 DEF WorkerInv, OneToken
<1>4. CASE start(c, w)
  <2>1. /\ w \in fresh /\ fresh' = fresh \ {w} /\ Enters(c, w, "start", "set")
        /\ UNCHANGED <<running, runs, pooled>>
    BY <1>4 DEF start, Calls, StartOnce
  <2>2. client' = [client EXCEPT ![c] = [call |-> "start", phase |-> "set", w |-> w]]
    BY <2>1 DEF Enters
  <2>3. ClientDiscipline'  BY <2>2 DEF ClientDiscipline
  <2>4. /\ At(c, w, "set")' /\ ~At(c, w, "queue")' /\ ~Stopper(c, w)'
        /\ \A e \in Client \ {c} : ~Starter(e, w)' /\ ~Stopper(e, w)'
    BY <2>1, <2>2 DEF At, Starter, Stopper, WorkerInv, FreshUnknown
  <2>5. StarterOwns(w)' /\ FreshUnknown(w)' /\ StopperStops(w)' /\ RunningKept(w)' /\ RunLeft(w)'
    BY <1>2, <2>1, <2>4
       DEF WorkerInv, FreshUnknown, StarterOwns, StopperStops, RunningKept, RunLeft, Starter
  <2>6. Others(w)
    BY <1>1, <1>2, <2>1, EntersOther DEF Others, Untouched, SameClients
  <2>7. QED  BY <1>3, <2>3, <2>5, <2>6 DEF WorkerInv
<1>5. CASE stop(c, w)
  <2>1. /\ running[w] /\ w \in pooled /\ Enters(c, w, "stop", "unqueue")
        /\ running' = [running EXCEPT ![w] = FALSE] /\ UNCHANGED <<runs, pooled, fresh>>
    BY <1>5 DEF stop, Calls, StartOnce
  <2>2. client' = [client EXCEPT ![c] = [call |-> "stop", phase |-> "unqueue", w |-> w]]
    BY <2>1 DEF Enters
  <2>3. ClientDiscipline'  BY <2>2 DEF ClientDiscipline
  <2>4. ~running'[w]  BY <2>1
  <2>5. /\ ~Starter(c, w)'
        /\ \A e \in Client \ {c} : \A p \in Phases : At(e, w, p)' <=> At(e, w, p)
    BY <2>2 DEF At, Starter
  <2>6. \A e \in Client : ~At(e, w, "set")'
    BY <2>1, <2>5 DEF WorkerInv, StarterOwns, Starter, Phases
  <2>7. StarterOwns(w)'
    <3>1. \A e \in Client : Starter(e, w)' <=> Starter(e, w)
      BY <1>1, <2>5 DEF Starter, Phases
    <3>2. QED  BY <1>2, <2>1, <2>6, <3>1 DEF WorkerInv, StarterOwns
  <2>8. FreshUnknown(w)' /\ StopperStops(w)' /\ RunningKept(w)' /\ RunLeft(w)'
    BY <1>2, <2>1, <2>4 DEF WorkerInv, FreshUnknown, StopperStops, RunningKept, RunLeft
  <2>9. Others(w)
    BY <1>1, <1>2, <2>1, EntersOther DEF Others, Untouched, SameClients
  <2>10. QED  BY <1>3, <2>3, <2>7, <2>8, <2>9 DEF WorkerInv
<1>6. QED
  BY <1>4, <1>5 DEF ClientCall, restart, Calls, StartOnce

\* The rest of start() keeps it: only here a worker gets its token.
LEMMA StartKeeps ==
  ASSUME TypeOK, ClientDiscipline, NEW c \in Client, NEW w \in Worker, WorkerInv(w),
         startSet(c, w) \/ startQueue(c, w)
  PROVE  ClientDiscipline' /\ WorkerInv(w)' /\ Others(w)
<1> USE DEF TypeOK, QueueType, JobsType, ClientType
<1>1. CASE startSet(c, w)
  <2>1. At(c, w, "set")  BY <1>1 DEF startSet, Moves
  <2>2. client' = [client EXCEPT ![c] = [client[c] EXCEPT !.phase = "queue"]]
    BY <1>1 DEF startSet, Moves
  <2>3. client[c] # Idle /\ client[c].call = "start"
    <3>1. client[c].phase = "set" /\ Idle.phase = "idle"  BY <2>1 DEF At, Idle
    <3>2. QED  BY <3>1 DEF ClientDiscipline
  <2>4. client'[c].phase = "queue" /\ client'[c].call = "start" /\ client'[c].w = w
    BY <2>1, <2>2, <2>3 DEF At
  <2>5. ClientDiscipline'  BY <2>2, <2>4 DEF ClientDiscipline
  <2>6. /\ At(c, w, "queue")' /\ ~At(c, w, "set")' /\ ~Stopper(c, w)'
        /\ \A e \in Client \ {c} : (Starter(e, w)' <=> Starter(e, w)) /\ (Stopper(e, w)' <=> Stopper(e, w))
    BY <2>2, <2>4 DEF At, Starter, Stopper
  <2>7. /\ queue' = queue /\ jobs' = jobs /\ pooled' = pooled /\ fresh' = fresh
        /\ (Queued(w)' <=> Queued(w)) /\ (HasJob(w)' <=> HasJob(w))
        /\ running'[w] /\ runs'[w] = 0
        /\ \A v \in Worker \ {w} : running'[v] = running[v] /\ runs'[v] = runs[v]
    BY <1>1 DEF startSet, Queued, HasJob
  <2>8. /\ w \in pooled /\ w \notin fresh /\ ~Queued(w) /\ ~HasJob(w)
        /\ \A e \in Client \ {c} : ~Starter(e, w)
        /\ \A e \in Client : ~Stopper(e, w)
    BY <2>1 DEF WorkerInv, StarterOwns, Starter
  <2>9. OneToken(w)'  BY <2>7 DEF WorkerInv, OneToken
  <2>10. StarterOwns(w)'
    BY <2>6, <2>7, <2>8 DEF StarterOwns, Starter
  <2>11. jobs'[w]["unqueueing"] = 0 /\ jobs'[w]["postCall"] = 0
    BY <2>7, <2>8 DEF HasJob, JobPhase
  <2>12. FreshUnknown(w)' /\ StopperStops(w)'
    BY <2>6, <2>7, <2>8, <2>11 DEF FreshUnknown, StopperStops
  <2>13. RunningKept(w)' /\ RunLeft(w)'
    BY <2>6, <2>7, <2>8 DEF RunningKept, RunLeft
  <2>14. Others(w)
    BY <1>1, <2>7, MovesOther DEF startSet, Others, Untouched, SameClients, ClientPhase
  <2>15. QED  BY <2>5, <2>9, <2>10, <2>12, <2>13, <2>14 DEF WorkerInv
<1>2. CASE startQueue(c, w)
  <2>1. At(c, w, "queue") /\ Returns(c, w, "queue") /\ client' = [client EXCEPT ![c] = Idle]
    BY <1>2 DEF startQueue, Returns
  <2>2. PICK d \in {0, Interval[w]} : _queueWorker(w, d)  BY <1>2 DEF startQueue
  <2>3. d \in Delay  BY DelayIsNat
  <2>4. ClientDiscipline'  BY <2>1 DEF ClientDiscipline
  <2>5. /\ ~Starter(c, w)' /\ ~Stopper(c, w)' /\ Starter(c, w)
        /\ \A e \in Client \ {c} : (Starter(e, w)' <=> Starter(e, w)) /\ (Stopper(e, w)' <=> Stopper(e, w))
    BY <2>1 DEF At, Starter, Stopper, Idle
  <2>6. /\ w \notin fresh /\ ~Queued(w) /\ ~HasJob(w)
        /\ \A e \in Client \ {c} : ~Starter(e, w)
    BY <2>5 DEF WorkerInv, StarterOwns
  <2>7. UNCHANGED <<running, runs, pooled, fresh, jobs>>  BY <1>2 DEF startQueue
  <2>8. OneToken(w)' /\ Queued(w)'
    BY <2>2, <2>3, <2>6, <2>7, TokenIsEntry DEF HasJob
  <2>9. StarterOwns(w)' /\ FreshUnknown(w)' /\ StopperStops(w)'
    BY <2>5, <2>6, <2>7 DEF WorkerInv, StarterOwns, FreshUnknown, StopperStops
  <2>10. RunningKept(w)' /\ RunLeft(w)'
    BY <2>7, <2>8 DEF WorkerInv, RunningKept, RunLeft, HasEntryOrJob
  <2>11. Others(w)
    BY <2>1, <2>2, <2>3, <2>7, PushEntries, ReturnsOther DEF Others, Untouched, SameClients
  <2>12. QED  BY <2>4, <2>8, <2>9, <2>10, <2>11 DEF WorkerInv
<1>3. QED  BY <1>1, <1>2

\* The rest of stop() keeps it: only a token is taken away.
LEMMA StopKeeps ==
  ASSUME TypeOK, ClientDiscipline, NEW c \in Client, NEW w \in Worker, WorkerInv(w),
         stopUnqueue(c, w) \/ _postCall(c, w)
  PROVE  ClientDiscipline' /\ WorkerInv(w)' /\ Others(w)
<1> USE DEF TypeOK, QueueType, JobsType, ClientType
<1>1. /\ Stopper(c, w) /\ ~Starter(c, w)
      /\ client[c] # Idle /\ client[c].call = "stop" /\ client[c].w = w
  <2>1. client[c].phase \in {"unqueue", "postCall"} /\ client[c].w = w /\ Idle.phase = "idle"
    BY DEF stopUnqueue, _postCall, Moves, At, Idle
  <2>2. client[c] # Idle /\ client[c].call = "stop"  BY <2>1 DEF ClientDiscipline
  <2>3. QED  BY <2>1, <2>2 DEF Stopper, Starter, At
<1>2. ~running[w] /\ w \notin fresh
  BY <1>1 DEF WorkerInv, StopperStops, FreshUnknown
<1>3. CASE stopUnqueue(c, w)
  <2>1. /\ client' = [client EXCEPT ![c] = [client[c] EXCEPT !.phase = "postCall"]]
        /\ _unqueueWorker(w) /\ UNCHANGED <<running, runs, pooled, fresh, jobs>>
    BY <1>3 DEF stopUnqueue, Moves
  <2>2. client'[c].phase = "postCall" /\ client'[c].call = "stop" /\ client'[c].w = w
    BY <1>1, <2>1
  <2>3. ClientDiscipline'  BY <2>1, <2>2 DEF ClientDiscipline
  <2>4. /\ Stopper(c, w)' /\ ~Starter(c, w)'
        /\ \A e \in Client \ {c} : \A p \in Phases : At(e, w, p)' <=> At(e, w, p)
    BY <2>1, <2>2 DEF Stopper, Starter, At
  <2>5. /\ \A d \in Delay : queue'[w][d] \in Nat /\ queue'[w][d] <= queue[w][d]
        /\ \A v \in Worker \ {w} : queue'[v] = queue[v]
    BY <2>1, UnqueueEntries, UnqueueType
  <2>6. (Queued(w)' => Queued(w)) /\ (HasJob(w)' <=> HasJob(w))
    BY <2>1, <2>5 DEF Queued, HasJob
  <2>7. OneToken(w)'
    <3>1. \A d \in Delay : queue'[w][d] <= 1 /\ (queue'[w][d] > 0 => queue[w][d] > 0)
      BY <2>5 DEF WorkerInv, OneToken
    <3>2. QED  BY <2>1, <2>6, <3>1 DEF WorkerInv, OneToken
  <2>8. StarterOwns(w)'
    <3>1. \A e \in Client : Starter(e, w)' <=> Starter(e, w)
      BY <1>1, <2>4 DEF Starter, Phases
    <3>2. \A e \in Client : ~At(e, w, "set")'
      BY <1>1, <2>4 DEF WorkerInv, StarterOwns, Starter, Phases
    <3>3. QED  BY <2>1, <2>6, <3>1, <3>2 DEF WorkerInv, StarterOwns
  <2>9. FreshUnknown(w)' /\ StopperStops(w)' /\ RunningKept(w)' /\ RunLeft(w)'
    BY <1>2, <2>1 DEF WorkerInv, FreshUnknown, StopperStops, RunningKept, RunLeft
  <2>10. Others(w)
    BY <1>3, <2>1, <2>5, MovesOther DEF stopUnqueue, Others, Untouched, SameClients, ClientPhase
  <2>11. QED  BY <2>3, <2>7, <2>8, <2>9, <2>10 DEF WorkerInv
<1>4. CASE _postCall(c, w)
  <2>1. /\ Returns(c, w, "postCall") /\ client' = [client EXCEPT ![c] = Idle]
        /\ fresh' = fresh /\ UNCHANGED <<queue, jobs, running, runs>>
        /\ \A v \in Worker \ {w} : (v \in pooled') <=> (v \in pooled)
    BY <1>1, <1>4 DEF _postCall, Returns
  <2>2. ClientDiscipline'  BY <2>1 DEF ClientDiscipline
  <2>3. /\ ~Stopper(c, w)' /\ ~Starter(c, w)'
        /\ \A e \in Client \ {c} : \A p \in Phases : At(e, w, p)' <=> At(e, w, p)
    BY <2>1 DEF Stopper, Starter, At, Idle
  <2>4. (Queued(w)' <=> Queued(w)) /\ (HasJob(w)' <=> HasJob(w))
    BY <2>1 DEF Queued, HasJob
  <2>5. OneToken(w)'  BY <2>1, <2>4 DEF WorkerInv, OneToken
  <2>6. StarterOwns(w)'
    <3>1. \A e \in Client : Starter(e, w)' <=> Starter(e, w)
      BY <1>1, <2>3 DEF Starter, Phases
    <3>2. \A e \in Client : ~At(e, w, "set")'
      BY <1>1, <2>3 DEF WorkerInv, StarterOwns, Starter, Phases
    <3>3. QED  BY <2>1, <2>4, <3>1, <3>2 DEF WorkerInv, StarterOwns
  <2>7. StopperStops(w)' /\ FreshUnknown(w)' /\ RunningKept(w)' /\ RunLeft(w)'
    BY <1>2, <2>1 DEF WorkerInv, FreshUnknown, StopperStops, RunningKept, RunLeft
  <2>8. Others(w)
    BY <2>1, ReturnsOther DEF Others, Untouched, SameClients
  <2>9. QED  BY <2>2, <2>5, <2>6, <2>7, <2>8 DEF WorkerInv
<1>5. QED  BY <1>3, <1>4

\* No client is in restart() or workNow().
LEMMA NoPause ==
  ASSUME ClientDiscipline, NEW c \in Client, NEW w \in Worker
  PROVE  ~(pause(c, w) \/ pauseUnqueue(c, w) \/ unpause(c, w) \/ unpauseQueue(c, w))
<1>1. Idle.phase = "idle"  BY DEF Idle
<1>2. QED
  BY <1>1 DEF ClientDiscipline, pause, pauseUnqueue, unpause, unpauseQueue, Moves, Returns, At
-----------------------------------------------------------------------------
\* ScheduleInv is inductive.
LEMMA ScheduleStep ==
  ASSUME StartOnce, TypeOK, ScheduleInv, [Next]_vars  PROVE  ScheduleInv'
<1> USE DEF ScheduleInv
<1>1. ASSUME NEW w \in Worker, WorkerInv(w)', Others(w)
      PROVE  \A v \in Worker : WorkerInv(v)'
  BY <1>1, Frame DEF Others
<1>2. ClientDiscipline' \/ client' # client  BY DEF ClientDiscipline
<1>3. CASE UNCHANGED <<queue, jobs, running, runs, pooled, fresh, client>>
  BY <1>2, <1>3, Frame DEF Untouched, At
<1>4. CASE Tick
  BY <1>2, <1>4, TickKeeps DEF Tick
<1>5. ASSUME NEW w \in Worker, _execQueue(w) \/ JobNext(w) \/ newWorker(w)
      PROVE  ScheduleInv'
  BY <1>1, <1>2, <1>5, ExecKeeps, JobKeeps, NewKeeps
<1>6. ASSUME NEW c \in Client, NEW w \in Worker, ClientCall(c, w) \/ ClientStep(c, w)
      PROVE  ScheduleInv'
  BY <1>1, <1>6, CallKeeps, StartKeeps, StopKeeps, NoPause DEF ClientStep
<1>7. CASE TimerFires \/ _execQueueEmpty \/ UNCHANGED vars
  BY <1>3, <1>7 DEF TimerFires, _execQueueEmpty, vars
<1>8. QED  BY <1>4, <1>5, <1>6, <1>7 DEF Next

\* The invariant holds when nothing has been created yet.
LEMMA ScheduleInit == Init => ScheduleInv
<1> SUFFICES ASSUME Init  PROVE ScheduleInv
  OBVIOUS
<1>1. ClientDiscipline  BY DEF Init, ClientDiscipline
<1>2. ASSUME NEW w \in Worker  PROVE WorkerInv(w)
  <2>1. ~Queued(w) /\ ~HasJob(w)  BY DEF Init, Queued, HasJob
  <2>2. \A c \in Client : ~Starter(c, w) /\ ~Stopper(c, w)
    BY DEF Init, Starter, Stopper, At, Idle
  <2>3. OneToken(w)  BY <2>1 DEF Init, OneToken
  <2>4. QED
    BY <2>1, <2>2, <2>3
       DEF Init, WorkerInv, StarterOwns, FreshUnknown, StopperStops, RunningKept, RunLeft, JobPhase
<1>3. QED  BY <1>1, <1>2 DEF ScheduleInv

\* The invariant implies the three properties.
LEMMA ScheduleImplies ==
  ASSUME ScheduleInv  PROVE  OneSchedule /\ NeverLost /\ MaxCountRespected
  BY DEF ScheduleInv, WorkerInv, OneToken, RunningKept, RunLeft,
         OneSchedule, NeverLost, MaxCountRespected

\* ScheduleInv holds for clients that start a worker once.
THEOREM ScheduleHolds == ASSUME StartOnce  PROVE  Spec => []ScheduleInv
<1>1. TypeOK /\ ScheduleInv /\ [Next]_vars => ScheduleInv'  BY ScheduleStep
<1>2. QED  BY <1>1, ScheduleInit, TypeCorrect, PTL DEF Spec

\* A worker is never queued twice, or queued while it is being run, or run by
\* two job threads: executing, numberOfRuns and nextRunTime need no lock.
THEOREM OneScheduleHolds == ASSUME StartOnce  PROVE  Spec => []OneSchedule
<1>1. ScheduleInv => OneSchedule  BY ScheduleImplies
<1>2. QED  BY <1>1, ScheduleHolds, PTL

\* A started worker stays in the pool, and queued or in a job, until it is stopped.
THEOREM NeverLostHolds == ASSUME StartOnce  PROVE  Spec => []NeverLost
<1>1. ScheduleInv => NeverLost  BY ScheduleImplies
<1>2. QED  BY <1>1, ScheduleHolds, PTL

\* No worker runs more than maxCount times, and no actor runs twice.
THEOREM MaxCountHolds == ASSUME StartOnce  PROVE  Spec => []MaxCountRespected
<1>1. ScheduleInv => MaxCountRespected  BY ScheduleImplies
<1>2. QED  BY <1>1, ScheduleHolds, PTL

------------------------------------------------------------------------------
(* The composition: the tree takes the steps of ResourceTree, or none.     *)

LEMMA IsTree == SpecOne => Resources!Spec
<1>1. InitOne => Resources!Init
  BY DEF InitOne
<1>2. [NextOne]_<<component, vars, treeVars>> => [Resources!Next]_Resources!vars
  BY DEF NextOne, treeVars, Resources!vars
<1>. QED
  BY <1>1, <1>2, PTL DEF SpecOne, Resources!Spec

\* Where no request is working, the four tables of the composition tell the same tree.
THEOREM TablesAlwaysAgree ==
  ASSUME Isolated
  PROVE  SpecOne => []TablesAgree
<1>1. Resources!Spec => []Resources!TablesAgree
  BY CoreAssumption, Resources!TablesAlwaysAgree
<1>2. Resources!TablesAgree => TablesAgree
  BY DEF TablesAgree
<1>. QED
  BY <1>1, <1>2, IsTree, PTL

\* What is listed below a resource of the composition is there.
THEOREM ListingAlwaysWorks ==
  ASSUME Isolated
  PROVE  SpecOne => []ListingWorks
<1>1. Resources!Spec => []Resources!ListingWorks
  BY CoreAssumption, Resources!ListingAlwaysWorks
<1>2. Resources!ListingWorks => ListingWorks
  BY DEF ListingWorks
<1>. QED
  BY <1>1, <1>2, IsTree, PTL

\* The composition implements the tree of names.
THEOREM ImplementsTree ==
  ASSUME Isolated
  PROVE  SpecOne => TreeSpec
BY CoreAssumption, Resources!ImplementsTree, IsTree, PTL DEF TreeSpec
=============================================================================
