----------------------------- MODULE CrossWindow -----------------------------
(***************************************************************************)
(* The time window of a <crs>. Its subscriptions notify it; the window     *)
(* collects who has, and when it ends it is checked whether the <crs>      *)
(* sends a notification of its own. A periodic window is a worker that     *)
(* runs again and again, a sliding window is an actor that is started by   *)
(* the first notification.                                                 *)
(***************************************************************************)
EXTENDS Naturals, FiniteSets, FiniteSetsExt

CONSTANTS
  Source,    \* the <sub>s of the <crs>
  Tws,       \* size of the window
  Eem,       \* event evaluation modes
  MaxExc,    \* the highest expiration counter
  MaxTime, MaxUpdate

Never == 100

WindowAssumption == Tws \in Nat \ {0} /\ MaxExc \in Nat /\ MaxTime \in Nat /\ MaxTime < Never

VARIABLES
  now,
  crs,       \* whether the <crs> is there, and its twt, eem, exc and nse. An exc of 0 is none
  workers,   \* the windows; those that began later have higher identifiers
  monitor,   \* the check that is being made
  object,    \* the resource object of the check: the <crs> as it was read, and its attributes now
  notifier,  \* the actor that sends the notification of the check, and counts with the same object
  handler,   \* the notification by a subscription that is being handled
  request,   \* the UPDATE or DELETE request that is being handled, and its copy of the <crs>
  updates,
  sent,      \* notifications given to actors
  lastEvent, \* when a source has notified the window that is open, history
  rejected,  \* whether an update has been refused half-way, history
  stale,     \* whether a copy was written over a newer <crs>, or a change of it was lost, history
  start,     \* the <crs> as created, never changes
  overlap    \* whether requests and notifications overlap with each other and with checks, never changes

windowVars == <<now, crs, workers, monitor, object, notifier, handler, request, updates, sent, lastEvent,
                rejected, stale, start, overlap>>
\* What a step of a check leaves alone, and one of a request.
checkLeaves == <<now, handler, request, updates, rejected, start, overlap>>
requestLeaves == <<now, monitor, object, notifier, handler, sent, start, overlap>>

Time == 0..MaxTime
Twt == {"periodic", "sliding"}
Attributes == [there : BOOLEAN, twt : Twt, eem : Eem, exc : 0..MaxExc, nse : BOOLEAN]
Worker == [id : Nat \ {0}, twt : Twt, at : Nat, data : SUBSET Source, eem : Eem]
MaxWorkers == 4

Checking == {"idle", "retrieve", "count", "counted", "expire", "store", "deactivate", "remove", "clear"}
Requesting == {"idle", "stop", "start", "store", "storeAgain", "deactivate", "remove"}

TypeOK ==
  /\ now \in Time /\ crs \in Attributes /\ start \in Attributes
  /\ workers \subseteq Worker /\ \A v, w \in workers : v.id = w.id => v = w
  /\ monitor \in [pc : Checking, id : Nat, last : BOOLEAN]
  /\ object \in [read : Attributes, attr : Attributes]
  /\ notifier \in [pc : {"idle", "reload", "write"}, left : 0..2]
  /\ handler \in [pc : {"idle", "received", "start"}, sur : Source, twt : Twt, eem : Eem]
  /\ request \in [pc : Requesting, twt : Twt, eem : Eem, copy : Attributes]
  /\ updates \in 0..MaxUpdate /\ sent \in Nat
  /\ lastEvent \in [Source -> Time \cup {Never}]
  /\ rejected \in BOOLEAN /\ stale \in BOOLEAN /\ overlap \in BOOLEAN

Idle == [pc |-> "idle", id |-> 0, last |-> FALSE]
NoEvent == [s \in Source |-> Never]
Unused == [pc |-> "idle", sur |-> CHOOSE s \in Source : TRUE, twt |-> "periodic", eem |-> "allPresent"]
NoObject == [read |-> start, attr |-> start]
NotSending == [pc |-> "idle", left |-> 0]
NoRequest == [pc |-> "idle", twt |-> start.twt, eem |-> start.eem, copy |-> start]

NextId == 1 + Max({monitor.id} \cup {w.id : w \in workers})
NewWorker(twt, data, eem) == [id |-> NextId, twt |-> twt, at |-> now + Tws, data |-> data, eem |-> eem]
findWorkers(twt) == {w \in workers : w.twt = twt}
Others(twt) == {w \in workers : w.twt # twt}

\* A sliding window cannot look for missing events only.
validate(twt, eem) == ~(twt = "sliding" /\ eem \in {"allOrSomeMissing", "allMissing"})

\* The <crs> has just been activated.
Init ==
  /\ now = 0
  /\ start \in {r \in Attributes : r.there /\ validate(r.twt, r.eem)}
  /\ crs = start
  /\ monitor = Idle /\ handler = Unused /\ object = NoObject /\ notifier = NotSending /\ request = NoRequest
  /\ workers = IF start.twt = "periodic"
               THEN {[id |-> 1, twt |-> "periodic", at |-> Tws, data |-> {}, eem |-> start.eem]} ELSE {}
  /\ updates = 0 /\ sent = 0 /\ lastEvent = NoEvent /\ rejected = FALSE /\ stale = FALSE
  /\ overlap \in BOOLEAN

NoOther == overlap \/ (handler.pc = "idle" /\ request.pc = "idle")
Alone == overlap \/ (monitor = Idle /\ notifier = NotSending /\ handler.pc = "idle" /\ request.pc = "idle")
\* Windows are checked on time.
OnTime == overlap \/ \A w \in workers : w.at > now

\* dbUpdate(): a copy is written, whatever the <crs> is by now. Nothing can be written once it is gone.
Written(copy, read) ==
  /\ crs.there
  /\ crs' = copy
  /\ stale' = (stale \/ crs # read)

-----------------------------------------------------------------------------
(* Notifications by the subscriptions.                                     *)

\* The <crs> is read.
handleNotification(s) ==
  /\ handler.pc = "idle" /\ Alone /\ OnTime /\ crs.there
  /\ handler' = [pc |-> "received", sur |-> s, twt |-> crs.twt, eem |-> crs.eem]
  /\ UNCHANGED <<now, crs, workers, monitor, object, notifier, request, updates, sent, lastEvent, rejected, stale,
                 start, overlap>>

Seen(s) == lastEvent' = [lastEvent EXCEPT ![s] = now]
Handled == handler' = Unused

\* The window that is found first takes the event. Without a periodic window it is lost.
receivedCrossResourceSubscriptionNotification ==
  /\ handler.pc = "received"
  /\ LET found == findWorkers(handler.twt) IN
     IF found # {}
       THEN \E w \in found :
              /\ \A v \in found : w.id <= v.id
              /\ workers' = (workers \ {w}) \cup {[w EXCEPT !.data = @ \cup {handler.sur}]}
              /\ Seen(handler.sur) /\ Handled
       ELSE /\ handler' = IF handler.twt = "sliding" THEN [handler EXCEPT !.pc = "start"] ELSE Unused
            /\ UNCHANGED <<workers, lastEvent>>
  /\ UNCHANGED <<now, crs, monitor, object, notifier, request, updates, sent, rejected, stale, start, overlap>>

startCRSSlidingWindow ==
  /\ handler.pc = "start" /\ Cardinality(workers) < MaxWorkers
  /\ workers' = workers \cup {NewWorker("sliding", {handler.sur}, handler.eem)}
  /\ Seen(handler.sur) /\ Handled
  /\ UNCHANGED <<now, crs, monitor, object, notifier, request, updates, sent, rejected, stale, start, overlap>>

-----------------------------------------------------------------------------
(* The end of a window.                                                    *)

crsCheck(data, eem) ==
  LET n == Cardinality(data)
      all == Cardinality(Source)
  IN CASE eem = "allPresent" -> n = all
       [] eem = "allOrSomePresent" -> n \in 1..all
       [] eem = "someMissing" -> n \in 1..(all - 1)
       [] eem = "allOrSomeMissing" -> n < all
       [] eem = "allMissing" -> n = 0

Go(pc) == monitor' = [monitor EXCEPT !.pc = pc]

\* The window is tested as it is now. The <crs> may be outside its schedule. (Bound: one check at a time, and
\* the notification of the one before has been sent.)
_crsCheckForNotification ==
  /\ monitor = Idle /\ notifier = NotSending /\ NoOther
  /\ \E w \in workers :
       /\ w.at <= now
       /\ \/ crsCheck(w.data, w.eem) /\ monitor' = [Idle EXCEPT !.pc = "retrieve", !.id = w.id]
          \/ monitor' = [Idle EXCEPT !.pc = "clear", !.id = w.id]
  /\ UNCHANGED <<crs, workers, object, notifier, sent, lastEvent, stale, checkLeaves>>

\* The <crs> is read, if it is still there. An actor sends the notification. It has this object, too.
sendNotificationWithDict ==
  /\ monitor.pc = "retrieve"
  /\ IF crs.there
       THEN /\ object' = [read |-> crs, attr |-> crs]
            /\ sent' = sent + 1
            /\ notifier' = IF crs.nse THEN [pc |-> "reload", left |-> 2] ELSE NotSending
            /\ Go(IF crs.nse THEN "count" ELSE "expire")
       ELSE Go("clear") /\ UNCHANGED <<object, sent, notifier>>
  /\ UNCHANGED <<crs, workers, lastEvent, stale, checkLeaves>>

\* A change that is not yet in the database is lost when the object is read again.
dbReloadDict ==
  /\ crs.there
  /\ object' = [read |-> crs, attr |-> crs]
  /\ stale' = (stale \/ object.attr # object.read)

dbUpdate ==
  /\ Written(object.attr, object.read)
  /\ object' = [object EXCEPT !.read = object.attr]

\* lockNotificationEventStats: the events are counted, and what the notifier sends and receives.
countNotificationEvents ==
  /\ \/ monitor.pc = "count" /\ notifier.pc # "write" /\ dbReloadDict /\ Go("counted") /\ UNCHANGED crs
     \/ monitor.pc = "counted" /\ dbUpdate /\ Go("expire")
  /\ UNCHANGED <<workers, notifier, sent, lastEvent, checkLeaves>>

\* Once the <crs> is gone this ends with an exception.
countSentReceivedNotification ==
  /\ \/ /\ notifier.pc = "reload" /\ monitor.pc # "counted" /\ dbReloadDict
        /\ notifier' = [notifier EXCEPT !.pc = "write"]
        /\ UNCHANGED crs
     \/ /\ notifier.pc = "write" /\ dbUpdate
        /\ notifier' = IF notifier.left = 1 THEN NotSending ELSE [pc |-> "reload", left |-> 1]
     \/ /\ notifier.pc # "idle" /\ ~crs.there
        /\ notifier' = NotSending
        /\ UNCHANGED <<crs, object, stale>>
  /\ UNCHANGED <<monitor, workers, sent, lastEvent, checkLeaves>>

\* The counter of the object, which may have been read once more, is reduced.
reduceExc ==
  /\ monitor.pc = "expire"
  /\ IF object.attr.exc = 0
       THEN Go("clear") /\ UNCHANGED object
       ELSE /\ object' = [object EXCEPT !.attr = [object.attr EXCEPT !.exc = @ - 1]]
            /\ monitor' = [monitor EXCEPT !.pc = "store", !.last = object.attr.exc = 1]
  /\ UNCHANGED <<crs, workers, notifier, sent, lastEvent, stale, checkLeaves>>

\* Mutant of storeExc: the <crs> is not deleted with its last notification.
storeExcLate ==
  /\ monitor.pc = "store" /\ dbUpdate
  /\ Go("clear")
  /\ UNCHANGED <<workers, notifier, sent, lastEvent, checkLeaves>>

storeExc ==
  /\ monitor.pc = "store" /\ dbUpdate
  /\ Go(IF monitor.last THEN "deactivate" ELSE "clear")
  /\ UNCHANGED <<workers, notifier, sent, lastEvent, checkLeaves>>

\* The last notification deletes the <crs>, also from within its own worker: deactivate() stops the window
\* of the object's twt, then the <crs> is removed if it is still there.
deleteLocalResource ==
  /\ \/ monitor.pc = "deactivate" /\ workers' = Others(object.attr.twt) /\ Go("remove") /\ UNCHANGED crs
     \/ monitor.pc = "remove" /\ crs' = [crs EXCEPT !.there = FALSE] /\ Go("clear") /\ UNCHANGED workers
  /\ UNCHANGED <<object, notifier, sent, lastEvent, stale, checkLeaves>>

\* The worker of a periodic window runs again, an actor is removed.
Rescheduled(emptied) ==
  workers' = {IF w.id = monitor.id
                THEN [w EXCEPT !.data = IF emptied THEN {} ELSE @, !.at = @ + Tws] ELSE w :
                w \in {v \in workers : v.id # monitor.id \/ v.twt = "periodic"}}

\* Mutant of _crsWindowMonitor: the window is not emptied.
_crsWindowMonitorFull ==
  /\ monitor.pc = "clear"
  /\ monitor' = Idle
  /\ Rescheduled(FALSE)
  /\ lastEvent' = NoEvent
  /\ UNCHANGED <<crs, object, notifier, sent, stale, checkLeaves>>

\* After the check the window is emptied.
_crsWindowMonitor ==
  /\ monitor.pc = "clear"
  /\ monitor' = Idle
  /\ Rescheduled(TRUE)
  /\ lastEvent' = NoEvent
  /\ UNCHANGED <<crs, object, notifier, sent, stale, checkLeaves>>

\* The exception of a check that finds the <crs> gone leaves the window as it is.
checkFails ==
  /\ monitor.pc \in {"count", "counted", "store"} /\ ~crs.there
  /\ monitor' = Idle
  /\ Rescheduled(FALSE)
  /\ UNCHANGED <<crs, object, notifier, sent, lastEvent, stale, checkLeaves>>

-----------------------------------------------------------------------------
(* Requests for the <crs>. A request works on a copy.                      *)

Goes(pc) == request' = [request EXCEPT !.pc = pc]
Answered == request' = NoRequest

\* Without a new twt or tws the window goes on as it is.
update(window, twt, eem) ==
  /\ request.pc = "idle" /\ Alone /\ OnTime /\ crs.there /\ updates < MaxUpdate
  /\ updates' = updates + 1
  /\ ~window => twt = crs.twt
  /\ request' = [pc |-> IF window THEN "stop" ELSE "store", twt |-> twt, eem |-> eem, copy |-> crs]
  /\ UNCHANGED <<crs, workers, lastEvent, rejected, stale, requestLeaves>>

stopWindow ==
  /\ request.pc = "stop"
  /\ workers' = Others(request.copy.twt) /\ lastEvent' = NoEvent
  /\ Goes(IF request.twt = "periodic" THEN "start" ELSE "store")
  /\ UNCHANGED <<crs, updates, rejected, stale, requestLeaves>>

\* A new periodic window does not get the eem.
startCRSPeriodicWindow ==
  /\ request.pc = "start" /\ Cardinality(workers) < MaxWorkers
  /\ workers' = workers \cup {NewWorker("periodic", {}, "allPresent")}
  /\ Goes("store")
  /\ UNCHANGED <<crs, updates, lastEvent, rejected, stale, requestLeaves>>

\* An update that is not valid is refused only now.
validateUpdate ==
  /\ request.pc = "store" /\ ~validate(request.twt, request.eem)
  /\ rejected' = TRUE /\ Answered
  /\ UNCHANGED <<crs, workers, updates, lastEvent, stale, requestLeaves>>

\* All attributes of the copy are written, twice.
storeUpdate ==
  LET r == request.copy
      copy == [there |-> r.there, twt |-> request.twt, eem |-> request.eem, exc |-> r.exc, nse |-> r.nse] IN
  /\ \/ /\ request.pc = "store" /\ validate(request.twt, request.eem)
        /\ Written(copy, request.copy)
        /\ request' = [request EXCEPT !.pc = "storeAgain", !.copy = copy]
     \/ /\ request.pc = "storeAgain"
        /\ Written(request.copy, request.copy)
        /\ Answered
  /\ UNCHANGED <<workers, updates, lastEvent, rejected, requestLeaves>>

\* The <crs> is gone.
updateFails ==
  /\ request.pc \in {"store", "storeAgain"} /\ ~crs.there /\ Answered
  /\ UNCHANGED <<crs, workers, updates, lastEvent, rejected, stale, requestLeaves>>

delete ==
  /\ request.pc = "idle" /\ Alone /\ OnTime /\ crs.there
  /\ request' = [NoRequest EXCEPT !.pc = "deactivate", !.copy = crs]
  /\ UNCHANGED <<crs, workers, updates, lastEvent, rejected, stale, requestLeaves>>

deactivate ==
  /\ request.pc = "deactivate"
  /\ workers' = Others(request.copy.twt)
  /\ Goes("remove")
  /\ UNCHANGED <<crs, updates, lastEvent, rejected, stale, requestLeaves>>

dbDelete ==
  /\ request.pc = "remove"
  /\ crs' = [crs EXCEPT !.there = FALSE]
  /\ Answered
  /\ UNCHANGED <<workers, updates, lastEvent, rejected, stale, requestLeaves>>

Tick ==
  /\ now < MaxTime /\ monitor = Idle /\ OnTime
  /\ now' = now + 1
  /\ UNCHANGED <<crs, workers, monitor, object, notifier, handler, request, updates, sent, lastEvent, rejected,
                 stale, start, overlap>>

Next ==
  \/ \E s \in Source : handleNotification(s)
  \/ receivedCrossResourceSubscriptionNotification \/ startCRSSlidingWindow
  \/ _crsCheckForNotification \/ sendNotificationWithDict \/ countNotificationEvents
  \/ countSentReceivedNotification \/ reduceExc \/ storeExc \/ deleteLocalResource
  \/ _crsWindowMonitor \/ checkFails
  \/ \E window \in BOOLEAN, twt \in Twt, eem \in Eem : update(window, twt, eem)
  \/ stopWindow \/ startCRSPeriodicWindow \/ validateUpdate \/ storeUpdate \/ updateFails
  \/ delete \/ deactivate \/ dbDelete \/ Tick

Spec == Init /\ [][Next]_windowVars

-----------------------------------------------------------------------------
(* Properties.                                                             *)

AtRest == ~overlap /\ monitor = Idle /\ handler.pc = "idle" /\ request.pc = "idle"

\* Where requests, notifications and checks do not overlap: a window has exactly the subscriptions that have
\* notified the <crs> since it began. There is no second one, none outlives its <crs>, and a <crs> with
\* periodic windows always has one, whatever updates and expirations there are.
WindowExact ==
  AtRest =>
    /\ \A w \in workers :
         w.data = {s \in Source : lastEvent[s] # Never /\ lastEvent[s] + Tws >= w.at}
    /\ ~rejected =>
         IF crs.there THEN /\ \A v, w \in workers : w.twt = crs.twt /\ v = w
                           /\ crs.twt = "periodic" => workers # {}
                      ELSE workers = {}

\* A <crs> with an expiration counter never sends more notifications than that allows, and between checks its
\* counter is what is left, and it is gone with the last one, whatever updates, deletions and notifiers run
\* beside the checks: unless one of them has written an older copy over the <crs>, or a check's
\* change of the counter was lost.
ExpiresExactly ==
  start.exc # 0 /\ ~stale =>
    /\ sent <= start.exc
    /\ monitor = Idle /\ crs.there => sent + crs.exc = start.exc /\ crs.exc # 0
=============================================================================
