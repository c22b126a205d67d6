------------------------- MODULE BatchNotification --------------------------
(***************************************************************************)
(* Batch notifications of one subscription to one target:                  *)
(* _storeBatchNotification, _sendSubscriptionAggregatedBatchNotification   *)
(* and _flushBatchNotifications of NotificationManager.  Notifications are *)
(* collected in a table and sent together, when there are Num of them or   *)
(* when an actor that guards the duration of the batch runs.               *)
(*                                                                         *)
(* The table has a lock for each of its operations; lockBatchNotification  *)
(* is held while a batch is sent, and only then.  Notifications are        *)
(* numbered in the order in which they are stored.  A batch of which only  *)
(* the latest notification is sent (ln) stands for all of them; a batch    *)
(* the target refuses is gone like one that is delivered.                  *)
(***************************************************************************)
EXTENDS Naturals, FiniteSets

CONSTANTS
  Thread,    \* threads that process requests
  Actor,     \* bound: actors that exist at the same time
  Num,       \* bn/num
  Nse,       \* nse: the subscription is retrieved to count the notifications
  Overlap,   \* the values of overlap
  MaxNote    \* bound on the number of notifications

BatchAssumption ==
  /\ Num \in Nat \ {0} /\ MaxNote \in Nat
  /\ Nse \in BOOLEAN /\ Overlap \subseteq BOOLEAN
  /\ Thread \intersect Actor = {}

Process == Thread \union Actor
Note == 1..MaxNote

VARIABLES
  table,       \* the notifications in the batchNotifications table
  last,        \* the notification stored last
  batch,       \* the notifications a process has collected
  sent,        \* the notifications that left in a batch
  subscribed,  \* whether the <sub> still exists
  flushing,    \* the threads that delete the <sub>
  pooled,      \* the actors findWorkers finds
  pc,          \* where each thread and actor is
  overlap      \* whether two of the threads and actors may be at work at once; never changes

batchVars == <<table, last, batch, sent, subscribed, flushing, pooled, pc>>
vars == <<batchVars, overlap>>

Sending == {"collect", "remove", "send"}      \* with lockBatchNotification held

ThreadPc == {"idle", "store", "count", "stop", "lock", "check", "start", "unsubscribe"}
ActorPc == {"none", "queued", "lock", "ended"}

TypeOK ==
  /\ last \in Nat
  /\ table \subseteq 1..last /\ sent \subseteq 1..last
  /\ batch \in [Process -> SUBSET (1..last)]
  /\ subscribed \in BOOLEAN
  /\ flushing \subseteq Thread /\ pooled \subseteq Actor
  /\ pc \in [Process -> ThreadPc \union ActorPc \union Sending]
  /\ \A t \in Thread : pc[t] \in ThreadPc \union Sending
  /\ \A a \in Actor : pc[a] \in ActorPc \union Sending
-----------------------------------------------------------------------------
Goto(p, from, to) == pc[p] = from /\ pc' = [pc EXCEPT ![p] = to]

AtWork(p) == pc[p] \notin {"idle", "none", "queued"}

MayStart == overlap \/ \A p \in Process : ~AtWork(p)

\* An event that matches the subscription, as it was read for the event.
_handleSubscriptionNotification(t) ==
  /\ subscribed /\ MayStart
  /\ last + Cardinality({u \in Thread : pc[u] = "store"}) < MaxNote
  /\ Goto(t, "idle", "store")
  /\ UNCHANGED <<table, last, batch, sent, subscribed, flushing, pooled>>

addBatchNotification(t) ==
  /\ Goto(t, "store", "count")
  /\ last' = last + 1
  /\ table' = table \union {last + 1}
  /\ UNCHANGED <<batch, sent, subscribed, flushing, pooled>>

countBatchNotifications(t) ==
  /\ Goto(t, "count", IF Cardinality(table) >= Num THEN "stop" ELSE "check")
  /\ UNCHANGED <<table, last, batch, sent, subscribed, flushing, pooled>>

\* Mutant: the actors stay in the pool.
_stopWorkerOnly(t) ==
  /\ pc[t] = "stop"
  /\ pc' = [p \in Process |-> IF p = t THEN "lock"
                              ELSE IF p \in pooled /\ pc[p] = "queued" THEN "none"
                              ELSE pc[p]]
  /\ UNCHANGED <<table, last, batch, sent, subscribed, flushing, pooled>>

\* stopWorkers: an actor that waits does not run any more, one that runs is not
\* interrupted.
_stopNotificationBatchWorker(t) ==
  /\ pc[t] = "stop"
  /\ pc' = [p \in Process |-> IF p = t THEN "lock"
                              ELSE IF p \in pooled /\ pc[p] = "queued" THEN "none"
                              ELSE pc[p]]
  /\ pooled' = {}
  /\ UNCHANGED <<table, last, batch, sent, subscribed, flushing>>

\* No actor is started if there is one in the pool.
_startNewBatchNotificationWorker(t) ==
  \/ /\ Goto(t, "check", IF pooled = {} THEN "start" ELSE "idle")
     /\ UNCHANGED <<table, last, batch, sent, subscribed, flushing, pooled>>
  \/ /\ pc[t] = "start"
     /\ \E a \in Actor :
          /\ pc[a] = "none"
          /\ pooled' = pooled \union {a}
          /\ pc' = [pc EXCEPT ![t] = "idle", ![a] = "queued"]
     /\ UNCHANGED <<table, last, batch, sent, subscribed, flushing>>

\* The <sub> is deleted: removeSubscription flushes its batch first.
_flushBatchNotifications(t) ==
  /\ subscribed /\ MayStart
  /\ Goto(t, "idle", "stop")
  /\ flushing' = flushing \union {t}
  /\ UNCHANGED <<table, last, batch, sent, subscribed, pooled>>

removeSubscription(t) ==
  /\ Goto(t, "unsubscribe", "idle")
  /\ subscribed' = FALSE
  /\ flushing' = flushing \ {t}
  /\ UNCHANGED <<table, last, batch, sent, pooled>>
-----------------------------------------------------------------------------
\* The duration of the batch is over: the scheduler runs the actor.
ActorRuns(a) ==
  /\ MayStart
  /\ Goto(a, "queued", "lock")
  /\ UNCHANGED <<table, last, batch, sent, subscribed, flushing, pooled>>

ActorEnds(a) ==
  /\ Goto(a, "ended", "none")
  /\ pooled' = pooled \ {a}
  /\ UNCHANGED <<table, last, batch, sent, subscribed, flushing>>

(***************************************************************************)
(* _sendSubscriptionAggregatedBatchNotification, by a thread or an actor.  *)
(***************************************************************************)
\* Mutant: no lock.
noLockBatchNotification(p) ==
  /\ Goto(p, "lock", "collect")
  /\ UNCHANGED <<table, last, batch, sent, subscribed, flushing, pooled>>

lockBatchNotification(p) ==
  /\ \A q \in Process : pc[q] \notin Sending
  /\ Goto(p, "lock", "collect")
  /\ UNCHANGED <<table, last, batch, sent, subscribed, flushing, pooled>>

\* Where a process goes when it has sent, or not sent, and released the lock.
AfterSending(p) ==
  IF p \in Actor THEN "ended" ELSE IF p \in flushing THEN "unsubscribe" ELSE "idle"

getBatchNotifications(p) ==
  /\ Goto(p, "collect", IF table = {} THEN AfterSending(p) ELSE "remove")
  /\ batch' = [batch EXCEPT ![p] = table]
  /\ UNCHANGED <<table, last, sent, subscribed, flushing, pooled>>

removeBatchNotifications(p) ==
  /\ Goto(p, "remove", "send")
  /\ table' = {}
  /\ UNCHANGED <<last, batch, sent, subscribed, flushing, pooled>>

\* To count the notifications the <sub> is needed; without it nothing is sent.
handleSendRequest(p) ==
  /\ Goto(p, "send", AfterSending(p))
  /\ sent' = IF Nse /\ ~subscribed THEN sent ELSE sent \union batch[p]
  /\ batch' = [batch EXCEPT ![p] = {}]
  /\ UNCHANGED <<table, last, subscribed, flushing, pooled>>
-----------------------------------------------------------------------------
Init ==
  /\ table = {} /\ last = 0 /\ sent = {}
  /\ batch = [p \in Process |-> {}]
  /\ subscribed = TRUE
  /\ flushing = {} /\ pooled = {}
  /\ pc = [p \in Process |-> IF p \in Thread THEN "idle" ELSE "none"]
  /\ overlap \in Overlap

\* What a thread does once it has begun, and what the scheduler does for an actor.
Step(p) ==
  \/ lockBatchNotification(p) \/ getBatchNotifications(p)
  \/ removeBatchNotifications(p) \/ handleSendRequest(p)
  \/ /\ p \in Thread
     /\ \/ addBatchNotification(p) \/ countBatchNotifications(p)
        \/ _stopNotificationBatchWorker(p) \/ _startNewBatchNotificationWorker(p)
        \/ removeSubscription(p)
  \/ p \in Actor /\ (ActorRuns(p) \/ ActorEnds(p))

Next ==
  /\ \/ \E p \in Process : Step(p)
     \/ \E t \in Thread : _handleSubscriptionNotification(t) \/ _flushBatchNotifications(t)
  /\ UNCHANGED overlap

Spec == Init /\ [][Next]_vars

\* Threads that began do not stop, the scheduler runs actors that are due, and
\* a lock that is released again and again is taken by everybody who waits.
FairSpec ==
  Spec /\ \A p \in Process : WF_batchVars(Step(p)) /\ SF_batchVars(lockBatchNotification(p))
-----------------------------------------------------------------------------
\* Batches leave one after the other: no notification leaves twice, and none
\* after a notification that was stored later.
InOrder ==
  [][\A p \in Process : pc[p] = "send" /\ sent' # sent =>
       \A m \in batch[p], n \in sent : n < m]_vars

\* A notification that was stored waits in the table, is in a batch that is
\* being sent, or was sent: removing a batch from the table removes nothing else,
\* when nothing is stored at the same time.
NothingLost ==
  ~overlap => 1..last \subseteq table \union sent \union UNION {batch[p] : p \in Process}

\* A notification that was stored is sent, by the thread that completes the
\* batch, by the actor that guards its duration or when the <sub> is deleted.
EventuallySent == \A n \in Note : (n \in table /\ ~overlap) ~> n \in sent
=============================================================================
