------------------------------- MODULE JobPool -------------------------------
(***************************************************************************)
(* Jobs: the threads that run the callbacks of workers, events and         *)
(* received messages. A job that has run its task waits in a list to be    *)
(* used again. When there are too many of them, some are stopped.          *)
(***************************************************************************)
EXTENDS Integers, Sequences, FiniteSets

CONSTANTS
  Job, Task,
  Endless,              \* tasks that never end, as the receive loop of a web socket
  _balanceTarget,       \* highest number of paused jobs for a running one
  _balanceLatency,      \* number of requests between two checks of that
  _balanceReduceFactor, \* one in so many of the paused jobs is stopped
  None

VARIABLES
  pausedJobs, runningJobs,
  flags,         \* pauseFlag (set to run) and activeFlag of each job
  thread,        \* what its thread does
  task,          \* its task
  _balanceCount,
  request,       \* the call of runJob() for each task: the job it has got
  done,          \* tasks that have ended
  resident       \* whether an endless task runs from the beginning, never changes

jobVars == <<pausedJobs, runningJobs, flags, thread, task, _balanceCount, request, done, resident>>

TypeOK ==
  /\ \A i \in DOMAIN pausedJobs : pausedJobs[i] \in Job
  /\ Len(pausedJobs) <= Cardinality(Job) /\ runningJobs \subseteq Job
  /\ flags \in [Job -> [pause : BOOLEAN, active : BOOLEAN]]
  /\ thread \in [Job -> {"none", "waiting", "running", "finished", "died", "ended"}]
  /\ task \in [Job -> Task \cup {None}]
  /\ _balanceCount \in Nat
  /\ request \in [Task -> [pc : {"none", "resume", "failed", "returned"}, job : Job \cup {None}]]
  /\ done \subseteq Task /\ resident \in BOOLEAN

Started == {j \in Job : thread[j] # "none"}
NoRequest == [pc |-> "none", job |-> None]

Init ==
  /\ resident \in BOOLEAN
  /\ LET first == CHOOSE j \in Job : TRUE
         task1 == CHOOSE t \in Endless : TRUE
     IN /\ runningJobs = IF resident THEN {first} ELSE {}
        /\ thread = [j \in Job |-> IF resident /\ j = first THEN "running" ELSE "none"]
        /\ task = [j \in Job |-> IF resident /\ j = first THEN task1 ELSE None]
        /\ request = [t \in Task |-> IF resident /\ t = task1 THEN [pc |-> "returned", job |-> first]
                                                             ELSE NoRequest]
  /\ flags = [j \in Job |-> [pause |-> TRUE, active |-> TRUE]]
  /\ pausedJobs = <<>> /\ _balanceCount = 0 /\ done = {}

-----------------------------------------------------------------------------
(* runJob() for task t: get a job, then resume it.                         *)

\* How many paused jobs are stopped, the first ones of the list.
_balanceJobs(paused) ==
  IF Len(paused) > _balanceTarget * Cardinality(runningJobs) THEN Len(paused) \div _balanceReduceFactor ELSE 0

\* With no job running the balance is a division by zero: the call fails, and its job is lost.
getJob(t) ==
  /\ request[t].pc = "none"
  /\ \E j \in Job :
       LET new == pausedJobs = <<>>
           paused == IF new THEN <<>> ELSE Tail(pausedJobs)
           due == _balanceCount + 1 >= _balanceLatency
           n == IF due THEN _balanceJobs(paused) ELSE 0
           fails == due /\ runningJobs = {}
       IN /\ IF new THEN j \notin Started ELSE j = Head(pausedJobs)
          /\ task' = [task EXCEPT ![j] = t]
          /\ thread' = IF new THEN [thread EXCEPT ![j] = "waiting"] ELSE thread
          /\ request' = [request EXCEPT ![t] = [pc |-> IF fails THEN "failed" ELSE "resume", job |-> j]]
          /\ _balanceCount' = IF due /\ ~fails THEN 0 ELSE _balanceCount + 1
          /\ pausedJobs' = IF fails THEN paused ELSE SubSeq(paused, n + 1, Len(paused))
          /\ flags' = [x \in Job |->
                         CASE x = j -> [flags[x] EXCEPT !.pause = FALSE]
                           [] ~fails /\ \E i \in 1..n : paused[i] = x -> [pause |-> TRUE, active |-> FALSE]
                           [] OTHER -> flags[x]]
  /\ UNCHANGED <<runningJobs, done, resident>>

\* Mutant: the thread is not released.
resumeBlocked(t) ==
  /\ request[t].pc = "resume"
  /\ runningJobs' = runningJobs \cup {request[t].job}
  /\ pausedJobs' = SelectSeq(pausedJobs, LAMBDA x : x # request[t].job)
  /\ request' = [request EXCEPT ![t].pc = "returned"]
  /\ UNCHANGED <<flags, thread, task, _balanceCount, done, resident>>

resume(t) ==
  /\ request[t].pc = "resume"
  /\ LET j == request[t].job IN
     /\ pausedJobs' = SelectSeq(pausedJobs, LAMBDA x : x # j)
     /\ runningJobs' = runningJobs \cup {j}
     /\ flags' = [flags EXCEPT ![j].pause = TRUE]
  /\ request' = [request EXCEPT ![t].pc = "returned"]
  /\ UNCHANGED <<thread, task, _balanceCount, done, resident>>

-----------------------------------------------------------------------------
(* The thread of job j.                                                    *)

run(j) ==
  /\ thread[j] = "waiting" /\ flags[j].pause
  /\ thread' = [thread EXCEPT ![j] = IF flags[j].active THEN "running" ELSE "ended"]
  /\ UNCHANGED <<pausedJobs, runningJobs, flags, task, _balanceCount, request, done, resident>>

finish(j) ==
  /\ thread[j] = "running" /\ task[j] \notin Endless
  /\ done' = done \cup {task[j]}
  /\ task' = [task EXCEPT ![j] = None]
  /\ thread' = [thread EXCEPT ![j] = "finished"]
  /\ UNCHANGED <<pausedJobs, runningJobs, flags, _balanceCount, request, resident>>

\* An exception ends the thread. The job stays in the list of running jobs.
die(j) ==
  /\ thread[j] = "running" /\ task[j] \notin Endless
  /\ done' = done \cup {task[j]}
  /\ thread' = [thread EXCEPT ![j] = "died"]
  /\ UNCHANGED <<pausedJobs, runningJobs, flags, task, _balanceCount, request, resident>>

pause(j) ==
  /\ thread[j] = "finished"
  /\ runningJobs' = runningJobs \ {j}
  /\ pausedJobs' = Append(pausedJobs, j)
  /\ flags' = [flags EXCEPT ![j].pause = FALSE]
  /\ thread' = [thread EXCEPT ![j] = "waiting"]
  /\ UNCHANGED <<task, _balanceCount, request, done, resident>>

Request == \E t \in Task : getJob(t)
Step == \E t \in Task : resume(t)
ThreadStep(j) == run(j) \/ finish(j) \/ die(j) \/ pause(j)

Next == Request \/ Step \/ \E j \in Job : ThreadStep(j)

Spec == Init /\ [][Next]_jobVars

\* The call that has got a job resumes it, and the threads of jobs are scheduled. A task may block.
Fairness == /\ WF_jobVars(Step)
            /\ \A j \in Job : WF_jobVars(ThreadStep(j))

FairSpec == Spec /\ Fairness

-----------------------------------------------------------------------------
(* Properties.                                                             *)

\* As long as there is always a job running, each task that is requested runs.
TasksRun ==
  \A t \in Task \ Endless : resident /\ request[t].pc # "none" ~> t \in done
=============================================================================
