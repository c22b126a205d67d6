------------------------ MODULE BackgroundWorkerInv -------------------------
(***************************************************************************)
(* Why a worker that is started once is run by one thread at a time and is *)
(* never lost: the inductive invariant of the scheduler for clients that   *)
(* start a worker right after creating it and only stop it afterwards, as  *)
(* newWorker(...).start() and stopWorkers() do everywhere in the CSE but   *)
(* in the callers of restart() and workNow().                              *)
(***************************************************************************)
EXTENDS BackgroundWorker

StartOnce == Api \subseteq {"start", "stop"}

\* A client in start() that will queue the worker.
Starter(c, w) == At(c, w, "set") \/ At(c, w, "queue")

\* A client in stop() that will unqueue the worker and take it out of the pool.
Stopper(c, w) == At(c, w, "unqueue") \/ At(c, w, "postCall")

\* The clients are in start() or in stop().
ClientDiscipline ==
  \A c \in Client :
    \/ client[c] = Idle
    \/ client[c].call = "start" /\ client[c].phase \in {"set", "queue"}
    \/ client[c].call = "stop" /\ client[c].phase \in {"unqueue", "postCall"}

\* OneSchedule for one worker.
OneToken(w) ==
  /\ \A d \in Delay : queue[w][d] <= 1
  /\ \A p \in JobPhase : jobs[w][p] <= 1
  /\ \A d, e \in Delay : queue[w][d] > 0 /\ queue[w][e] > 0 => d = e
  /\ \A p, r \in JobPhase : jobs[w][p] > 0 /\ jobs[w][r] > 0 => p = r
  /\ ~(Queued(w) /\ HasJob(w))

\* The client that starts a worker owns it until it has queued it.
StarterOwns(w) ==
  \A c \in Client : Starter(c, w) =>
    /\ ~Queued(w) /\ ~HasJob(w) /\ w \notin fresh
    /\ \A e \in Client \ {c} : ~Starter(e, w)
    /\ At(c, w, "set") =>
         /\ w \in pooled /\ ~running[w]
         /\ \A e \in Client : ~Stopper(e, w)

\* Nobody knows a new worker yet.
FreshUnknown(w) ==
  w \in fresh =>
    /\ w \in pooled /\ ~running[w]
    /\ ~Queued(w) /\ ~HasJob(w)
    /\ \A c \in Client : ~Starter(c, w) /\ ~Stopper(c, w)

\* A worker that is being stopped is not running, and not started again.
StopperStops(w) ==
  /\ \A c \in Client : Stopper(c, w) => ~running[w]
  /\ jobs[w]["unqueueing"] > 0 \/ jobs[w]["postCall"] > 0 => ~running[w]

\* A running worker is in the pool and has its token.
RunningKept(w) ==
  running[w] =>
    /\ w \in pooled
    /\ HasEntryOrJob(w) \/ \E c \in Client : At(c, w, "queue")

\* Before a run there is a run left.
RunLeft(w) ==
  MaxCount[w] > 0 =>
    /\ runs[w] <= MaxCount[w]
    /\ running[w] /\ jobs[w]["working"] = 0 /\ jobs[w]["ending"] = 0 => runs[w] < MaxCount[w]

WorkerInv(w) ==
  /\ OneToken(w) /\ StarterOwns(w) /\ FreshUnknown(w)
  /\ StopperStops(w) /\ RunningKept(w) /\ RunLeft(w)

\* The inductive invariant of Spec under StartOnce: every queue entry, job and
\* starting client is the only one that can put its worker back into the queue.
ScheduleInv == ClientDiscipline /\ \A w \in Worker : WorkerInv(w)
=============================================================================
