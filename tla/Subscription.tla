---------------------------- MODULE Subscription ----------------------------
(* Subscription notifications: acme/services/NotificationManager.py with resources/SUB.py. A <sub> has   *)
(* an entry in the table of subscriptions (table); an event of the subscribed-to resource is handled     *)
(* with a copy of that entry. The <sub> resource counts what is sent to each target (nsi), and is        *)
(* deleted when its expiration counter is used up. Batch notifications are in BatchNotification.         *)
EXTENDS Integers, FiniteSets

CONSTANTS
  Thread,              \* threads that handle events of the resource
  Nu,                  \* notification targets
  Exc,                 \* expiration counters. 0 is none
  MaxEvent, MaxUpdate, None

VARIABLES
  sub,       \* the resource
  table,     \* its entry, or None
  agent,     \* what each thread does, and each notification that is sent in the background
  lock,      \* lockNotificationEventStats: the agent that holds it, or None
  seen,      \* what should be counted for each target, history
  complete,  \* events that all targets have been notified of, history
  events, updates,
  start,     \* the expiration counter of the <sub> as created, never changes
  asyncSubscriptionNotifications, overlap   \* never change

subVars == <<sub, table, agent, lock, seen, complete, events, updates, start, asyncSubscriptionNotifications, overlap>>
counting == <<lock, seen, complete, events, updates, start, asyncSubscriptionNotifications, overlap>>
rigid == <<start, asyncSubscriptionNotifications, overlap>>

Agent == Thread \cup (Thread \X Nu)
Stat == [rqs : Nat, rsr : Nat, noec : Nat]
Zero == [rqs |-> 0, rsr |-> 0, noec |-> 0]
NoStats == [u \in Nu |-> Zero]
Entry == [exc : Nat, nse : BOOLEAN, nus : SUBSET Nu]
Doc(s) == [exc |-> s.exc, nse |-> s.nse, nus |-> s.nus]
Attributes == [there : BOOLEAN, exc : Nat, nse : BOOLEAN, nus : SUBSET Nu, nsi : [Nu -> Stat] \cup {None}]

\* nse is that of the <sub> when it was read for the current target.
Idle == [pc |-> "idle", doc |-> None, left |-> {}, nu |-> None, copy |-> None, nse |-> FALSE]
Become(a, f) == agent' = [agent EXCEPT ![a] = f]
Goto(a, pc) == agent' = [agent EXCEPT ![a].pc = pc]
At(a, pc) == agent[a].pc = pc

\* Counting: the <sub> is read, and then written.
Writing == [count |-> "countWrite", response |-> "responseWrite", event |-> "eventWrite"]
Kinds == DOMAIN Writing

Pc == {"idle", "send", "count", "countWrite", "notify", "sending", "response", "responseWrite",
       "expire", "expireWrite", "expireUpsert", "event", "eventWrite"}
State == [pc : Pc, doc : Entry \cup {None}, left : SUBSET Nu, nu : Nu \cup {None},
          copy : Attributes \cup {None}, nse : BOOLEAN]

\* What is assumed of the constants.
SubscriptionAssumption ==
  /\ Exc \subseteq Nat /\ MaxEvent \in Nat /\ MaxUpdate \in Nat
  /\ Thread \cap (Thread \X Nu) = {}
  /\ None \notin Agent \cup Nu \cup Entry \cup Attributes \cup [Nu -> Stat]

TypeOK ==
  /\ sub \in Attributes /\ table \in Entry \cup {None}
  /\ agent \in [Agent -> State]
  /\ lock \in Agent \cup {None}
  /\ seen \in [Nu -> Stat] /\ complete \in Nat /\ events \in 0..MaxEvent /\ updates \in 0..MaxUpdate
  /\ start \in Exc /\ asyncSubscriptionNotifications \in BOOLEAN /\ overlap \in BOOLEAN

\* Who holds the lock is the one that counts.
LockHeld == \A a \in Agent : (lock = a) <=> (\E kind \in Kinds : At(a, Writing[kind]))

\* activate has made the entry.
Init ==
  /\ start \in Exc /\ overlap \in BOOLEAN /\ asyncSubscriptionNotifications \in BOOLEAN
  /\ \E nse \in BOOLEAN :
       sub = [there |-> TRUE, exc |-> start, nse |-> nse, nus |-> Nu, nsi |-> None]
  /\ table = Doc(sub)
  /\ agent = [a \in Agent |-> Idle] /\ lock = None
  /\ seen = NoStats /\ complete = 0 /\ events = 0 /\ updates = 0

Resting(t) == agent[t] = Idle /\ \A u \in Nu : agent[<<t, u>>] = Idle
AtRest == \A t \in Thread : Resting(t)
Alone == overlap \/ AtRest
Serial == ~overlap /\ ~asyncSubscriptionNotifications

------------------------------------------------------------------------------
(* An event.                                                               *)

checkSubscriptions(t) ==
  /\ Resting(t) /\ Alone /\ events < MaxEvent /\ table # None
  /\ Become(t, [Idle EXCEPT !.pc = "send", !.doc = table, !.left = table.nus])
  /\ events' = events + 1
  /\ UNCHANGED <<sub, table, lock, seen, complete, updates, rigid>>

\* The next target. A <sub> that is gone is a failure.
sender(t) ==
  /\ At(t, "send") /\ agent[t].left # {}
  /\ \E u \in agent[t].left :
       Become(t, [agent[t] EXCEPT !.left = @ \ {u}, !.nu = u, !.nse = FALSE,
                    !.pc = IF ~agent[t].doc.nse THEN "notify" ELSE IF sub.there THEN "count" ELSE "event"])
  /\ UNCHANGED <<sub, table, counting>>

\* The target answers or does not. One that does not ends the notification of this event.
Notify(t) ==
  LET u == agent[t].nu IN
  /\ At(t, "notify")
  /\ IF asyncSubscriptionNotifications
     THEN agent' = [agent EXCEPT ![t].pc = "send", ![<<t, u>>] = [agent[t] EXCEPT !.pc = "sending", !.left = {}]]
     ELSE \E answers \in BOOLEAN : Goto(t, IF ~answers THEN "event" ELSE IF agent[t].nse THEN "response" ELSE "send")
  /\ UNCHANGED <<sub, table, counting>>

\* The same in the background.
_sendNotification(j) ==
  /\ At(j, "sending")
  /\ \E answers \in BOOLEAN :
       IF answers /\ agent[j].nse THEN Goto(j, "response") ELSE Become(j, Idle)
  /\ UNCHANGED <<sub, table, counting>>

AllSent(t) ==
  /\ At(t, "send") /\ agent[t].left = {}
  /\ Goto(t, IF agent[t].doc.exc # 0 THEN "expire" ELSE "event")
  /\ complete' = complete + 1
  /\ UNCHANGED <<sub, table, lock, seen, events, updates, rigid>>

------------------------------------------------------------------------------
(* The statistics: the <sub> is read again and written within a lock.      *)

validateAndConstructNotificationStatsInfo(s) == [s EXCEPT !.nsi = IF @ = None THEN NoStats ELSE @]

Counted(s, kind, u) ==
  LET r == validateAndConstructNotificationStatsInfo(s)
      add(n) == CASE kind = "count" -> [n EXCEPT !.rqs = @ + 1]
                  [] kind = "response" -> [n EXCEPT !.rsr = @ + 1]
                  [] OTHER -> [n EXCEPT !.noec = @ + 1]
      targets == IF kind = "event" THEN r.nus ELSE r.nus \cap {u}
  IN [r EXCEPT !.nsi = [v \in Nu |-> IF v \in targets THEN add(r.nsi[v]) ELSE r.nsi[v]]]

Counts(a, kind) == sub.there /\ (IF kind = "response" THEN agent[a].nse ELSE sub.nse)

\* What follows: the notification of the target, the next target, or the end.
Continue(a, kind) ==
  IF a \notin Thread \/ kind = "event" THEN Idle
  ELSE [agent[a] EXCEPT !.pc = IF kind = "count" THEN "notify" ELSE "send", !.copy = None]

\* Mutant of beginCount: without the lock.
beginCountUnlocked(a) ==
  \E kind \in Kinds :
    /\ At(a, kind)
    /\ IF Counts(a, kind)
       THEN /\ Become(a, [agent[a] EXCEPT !.pc = Writing[kind], !.copy = sub, !.nse = sub.nse])
            /\ seen' = Counted([sub EXCEPT !.nsi = seen], kind, agent[a].nu).nsi
       ELSE Become(a, IF sub.there THEN Continue(a, kind) ELSE Idle) /\ UNCHANGED seen
    /\ UNCHANGED <<sub, table, lock, complete, events, updates, rigid>>

\* It is not counted when the statistics are off or the <sub> is gone. (Without it an exception ends the
\* request, except for the event, which is counted last.)
beginCount(a) ==
  \E kind \in Kinds :
    /\ At(a, kind)
    /\ IF Counts(a, kind)
       THEN /\ lock = None /\ lock' = a
            /\ Become(a, [agent[a] EXCEPT !.pc = Writing[kind], !.copy = sub, !.nse = sub.nse])
            /\ seen' = Counted([sub EXCEPT !.nsi = seen], kind, agent[a].nu).nsi
       ELSE /\ Become(a, IF sub.there THEN Continue(a, kind) ELSE Idle)
            /\ UNCHANGED <<lock, seen>>
    /\ UNCHANGED <<sub, table, complete, events, updates, rigid>>

endCount(a) ==
  /\ \E kind \in Kinds :
       /\ At(a, Writing[kind])
       /\ sub' = IF sub.there THEN Counted(agent[a].copy, kind, agent[a].nu) ELSE sub
       /\ Become(a, IF sub.there THEN Continue(a, kind) ELSE Idle)
  /\ lock' = None
  /\ UNCHANGED <<table, seen, complete, events, updates, rigid>>

------------------------------------------------------------------------------
(* The expiration counter: the value of the entry the event is handled with. *)

deleteSub == sub' = [sub EXCEPT !.there = FALSE] /\ table' = None

expire(t) ==
  /\ At(t, "expire")
  /\ CASE ~sub.there -> Become(t, Idle) /\ UNCHANGED <<sub, table>>
       [] sub.there /\ agent[t].doc.exc = 1 -> deleteSub /\ Goto(t, "event")
       [] sub.there /\ agent[t].doc.exc > 1 ->
            /\ Become(t, [agent[t] EXCEPT !.pc = "expireWrite", !.copy = [sub EXCEPT !.exc = agent[t].doc.exc - 1]])
            /\ UNCHANGED <<sub, table>>
  /\ UNCHANGED counting

expireWrite(t) ==
  /\ At(t, "expireWrite")
  /\ IF sub.there THEN sub' = agent[t].copy /\ Goto(t, "expireUpsert")
                  ELSE Become(t, Idle) /\ UNCHANGED sub
  /\ UNCHANGED <<table, counting>>

\* Mutant of expireUpsert: the table keeps the entry with the counter from before.
expireUpsertStale(t) ==
  /\ At(t, "expireUpsert")
  /\ Become(t, [agent[t] EXCEPT !.pc = "event", !.copy = None])
  /\ UNCHANGED <<sub, table, counting>>

expireUpsert(t) ==
  /\ At(t, "expireUpsert")
  /\ table' = Doc(agent[t].copy)
  /\ Become(t, [agent[t] EXCEPT !.pc = "event", !.copy = None])
  /\ UNCHANGED <<sub, counting>>

------------------------------------------------------------------------------
(* UPDATE of the <sub>. Verification requests to new targets may fail.     *)

\* The statistics begin anew when nse is given, unless it is switched off.
updateOfNSEAttribute(nsi, new) ==
  IF new = TRUE THEN None ELSE nsi

update ==
  /\ Alone /\ sub.there /\ updates < MaxUpdate
  /\ \E nse \in BOOLEAN \cup {None}, nus \in (SUBSET Nu) \ {{}} :
       LET nsi == updateOfNSEAttribute(sub.nsi, nse)
           fresh(u) == u \notin sub.nus \/ u \notin nus
           new == [sub EXCEPT !.nse = IF nse = None THEN @ ELSE nse, !.nus = nus,
                              !.nsi = IF nsi = None THEN None ELSE [u \in Nu |-> IF fresh(u) THEN Zero ELSE nsi[u]]]
       IN /\ sub' = new /\ table' = Doc(new)
          /\ seen' = [u \in Nu |-> IF nsi = None \/ fresh(u) THEN Zero ELSE seen[u]]
  /\ updates' = updates + 1
  /\ UNCHANGED <<agent, lock, complete, events, rigid>>

deactivate ==
  /\ Alone /\ sub.there
  /\ deleteSub
  /\ UNCHANGED <<agent, counting>>

Next ==
  \/ \E t \in Thread :
       \/ checkSubscriptions(t) \/ sender(t) \/ Notify(t) \/ AllSent(t)
       \/ expire(t) \/ expireWrite(t) \/ expireUpsert(t)
  \/ \E j \in Thread \X Nu : _sendNotification(j)
  \/ \E a \in Agent : beginCount(a) \/ endCount(a)
  \/ update \/ deactivate

Spec == Init /\ [][Next]_subVars

------------------------------------------------------------------------------
(* Properties.                                                             *)

\* The expiration counter and an update are written without the lock: no other write overlaps with them.
Undisturbed == Serial \/ (start = 0 /\ (updates = 0 \/ ~overlap))

\* No count is lost, although notifications are sent and counted by several threads at a time.
StatsExact ==
  AtRest /\ Undisturbed /\ sub.there =>
    \A u \in sub.nus : seen[u] = IF sub.nsi = None THEN Zero ELSE sub.nsi[u]

\* Between events the entry in the table is that of the <sub>, and is gone with it. If events come one
\* after the other and notifications are sent by their thread, the <sub> is gone after as many events, of
\* which all targets were notified, as its counter says.
ExpiresExactly ==
  AtRest =>
    /\ Undisturbed => table = IF sub.there THEN Doc(sub) ELSE None
    /\ start # 0 /\ Serial =>
         /\ complete <= start
         /\ sub.there => sub.exc = start - complete /\ sub.exc > 0
=============================================================================
