---------------------- MODULE ConnectedServicesProofs ----------------------
(***************************************************************************)
(* The services that connect the CSE with others, for any number of        *)
(* threads, CSEs, resources and connections. Notifications of a            *)
(* subscription: no count is lost, and the <sub> is gone after as many     *)
(* events as its counter says. Groups: a deleted resource is taken out of  *)
(* every group, the number of members is right in every interleaving, and  *)
(* a fan-out has one result for each member. Web sockets: the tables lead  *)
(* to the open connections. Announcements: the CSE and the others agree on *)
(* what is announced.                                                      *)
(***************************************************************************)
EXTENDS ConnectedServices, Sequences, FiniteSetTheorems, SequenceTheorems, WellFoundedInduction, TLAPS

(***************************************************************************)
(* The inductive invariant.                                                *)
(***************************************************************************)
Active(a) == agent[a].pc # "idle"
WritePc == {"countWrite", "responseWrite", "eventWrite"}

\* What an agent has read.
Fit(f) ==
  /\ f.pc # "idle" => f.doc # None
  /\ f.pc \in WritePc \cup {"expireWrite", "expireUpsert"} => f.copy # None
  /\ f.pc \in {"expire", "expireWrite", "expireUpsert"} => f.doc.exc # 0
  /\ f.pc = "expireWrite" => f.doc.exc > 1
  /\ f.pc \in {"count", "countWrite", "notify"} => f.nu \in Nu \ f.left
Reads == \A a \in Agent : Fit(agent[a])

\* In the background notifications are only sent and counted as answered.
InBackground == \A j \in Thread \X Nu : agent[j].pc \in {"idle", "sending", "response", "responseWrite"}

\* Nothing is sent in the background yet to a target that is still to be notified.
Pending(f, u) == u \in f.left \/ (u = f.nu /\ f.pc \in {"count", "countWrite", "notify"})
NotSent == \A t \in Thread, u \in Nu : Pending(agent[t], u) => ~Active(<<t, u>>)

\* Without an expiration counter there is none in any copy.
NoExc(f) == (f.doc # None => f.doc.exc = 0) /\ (f.copy # None => f.copy.exc = 0)
NoCounter ==
  start = 0 => /\ sub.exc = 0 /\ (table # None => table.exc = 0)
               /\ \A a \in Agent : NoExc(agent[a])

\* The one that counts has the <sub> as it is, and what should be counted is counted.
Stats(s) == IF s.nsi = None THEN NoStats ELSE s.nsi
CountsTold ==
  sub.there =>
    /\ lock = None => seen = Stats(sub)
    /\ \A a \in Agent, kind \in Kinds : At(a, Writing[kind]) =>
         agent[a].copy = sub /\ seen = Counted(sub, kind, agent[a].nu).nsi

\* The table has the entry of the <sub>, but between the two writes of an expiration.
EntryTold == table = IF sub.there THEN Doc(sub) ELSE None
TableTold == (\A a \in Agent : agent[a].pc # "expireUpsert") => EntryTold

\* One after the other: who is active has the entry of the <sub>, and writes what it has read. The counter is
\* what is left, and one more while an event that is complete is not subtracted.
OneActive ==
  /\ \A a \in Agent : Active(a) => a \in Thread
  /\ \A a, b \in Agent : Active(a) /\ Active(b) => a = b

LatePc == {"expire", "expireWrite"}
Late == \E a \in Agent : agent[a].pc \in LatePc
Expiring(f) ==
  /\ ~sub.there => f.pc \in {"idle", "event"}
  /\ f.pc = "expireWrite" => f.copy = [sub EXCEPT !.exc = f.doc.exc - 1]
  /\ f.pc = "expireUpsert" => f.copy = sub
  /\ f.pc \notin {"idle", "expireUpsert", "event", "eventWrite"} => f.doc.exc = sub.exc

CounterTold ==
  start # 0 =>
    /\ complete <= start
    /\ sub.there => sub.exc > 0 /\ sub.exc = start - complete + (IF Late THEN 1 ELSE 0)

SerialTold == OneActive /\ (\A a \in Agent : Expiring(agent[a])) /\ CounterTold

SubInv ==
  /\ TypeOK /\ LockHeld /\ Reads /\ InBackground /\ NotSent /\ NoCounter
  /\ Undisturbed => CountsTold /\ TableTold
  /\ Serial => SerialTold

-----------------------------------------------------------------------------
(* Types.                                                                  *)

LEMMA Constants ==
  ASSUME SubscriptionAssumption
  PROVE  /\ \A a \in Agent : a # None
         /\ \A t \in Thread, u \in Nu : <<t, u>> \in Agent /\ <<t, u>> \notin Thread
         /\ \A t \in Thread : t \in Agent /\ t \notin Thread \X Nu
         /\ \A a \in Agent : a \notin Thread <=> a \in Thread \X Nu
         /\ \A x \in Entry \cup Attributes \cup [Nu -> Stat] : x # None
         /\ \A x \in Exc : x \in Nat
BY DEF SubscriptionAssumption, Agent

LEMMA KindsAre ==
  /\ Kinds = {"count", "response", "event"}
  /\ Writing["count"] = "countWrite" /\ Writing["response"] = "responseWrite" /\ Writing["event"] = "eventWrite"
BY DEF Kinds, Writing

LEMMA WritesAre ==
  ASSUME NEW a \in Agent
  PROVE  (\E kind \in Kinds : At(a, Writing[kind])) <=> agent[a].pc \in WritePc
BY KindsAre DEF At, WritePc

LEMMA IdleType ==
  /\ Idle \in State /\ Idle.pc = "idle" /\ Idle.left = {} /\ Idle.doc = None /\ Idle.copy = None
BY DEF Idle, State, Pc

LEMMA StatsType ==
  /\ Zero \in Stat /\ NoStats \in [Nu -> Stat]
  /\ \A s \in Attributes : Stats(s) \in [Nu -> Stat] /\ Doc(s) \in Entry
<1>1. Zero \in Stat
  BY DEF Zero, Stat
<1>2. NoStats \in [Nu -> Stat]
  BY <1>1 DEF NoStats
<1>3. ASSUME NEW s \in Attributes PROVE Stats(s) \in [Nu -> Stat] /\ Doc(s) \in Entry
  BY <1>2 DEF Attributes, Stats, Doc, Entry
<1>. QED
  BY <1>1, <1>2, <1>3

\* What has been counted is a <sub> like the one before.
LEMMA CountedType ==
  ASSUME SubscriptionAssumption, NEW s \in Attributes, NEW kind, NEW u
  PROVE  /\ Counted(s, kind, u) \in Attributes
         /\ Doc(Counted(s, kind, u)) = Doc(s) /\ Counted(s, kind, u).there = s.there
         /\ Counted(s, kind, u).exc = s.exc
         /\ Counted(s, kind, u).nsi \in [Nu -> Stat] /\ Stats(Counted(s, kind, u)) = Counted(s, kind, u).nsi
<1>. DEFINE r == validateAndConstructNotificationStatsInfo(s)
            add(n) == CASE kind = "count" -> [n EXCEPT !.rqs = @ + 1]
                        [] kind = "response" -> [n EXCEPT !.rsr = @ + 1]
                        [] OTHER -> [n EXCEPT !.noec = @ + 1]
            touched == IF kind = "event" THEN r.nus ELSE r.nus \cap {u}
            nsi == [v \in Nu |-> IF v \in touched THEN add(r.nsi[v]) ELSE r.nsi[v]]
<1>1. /\ r \in Attributes /\ r.nsi = Stats(s) /\ r.nsi \in [Nu -> Stat]
      /\ r.there = s.there /\ r.exc = s.exc /\ r.nse = s.nse /\ r.nus = s.nus
  BY StatsType DEF validateAndConstructNotificationStatsInfo, Attributes, Stats
<1>2. \A n \in Stat : add(n) \in Stat
  BY DEF Stat
<1>3. nsi \in [Nu -> Stat]
  <2>. HIDE DEF add, touched, r
  <2>. QED
    BY <1>1, <1>2
<1>4. Counted(s, kind, u) = [r EXCEPT !.nsi = nsi]
  BY DEF Counted
<1>. HIDE DEF r, nsi
<1>5. /\ Counted(s, kind, u) \in Attributes /\ Counted(s, kind, u).nsi = nsi
      /\ Counted(s, kind, u).there = s.there /\ Counted(s, kind, u).exc = s.exc
      /\ Counted(s, kind, u).nse = s.nse /\ Counted(s, kind, u).nus = s.nus
  BY <1>1, <1>3, <1>4 DEF Attributes
<1>6. nsi # None
  BY <1>3, Constants
<1>. QED
  BY <1>3, <1>5, <1>6 DEF Doc, Stats

\* The same is counted in the history.
LEMMA CountedSame ==
  ASSUME SubscriptionAssumption, NEW s \in Attributes, NEW kind, NEW u
  PROVE  Counted([s EXCEPT !.nsi = Stats(s)], kind, u).nsi = Counted(s, kind, u).nsi
<1>1. Stats(s) \in [Nu -> Stat] /\ Stats(s) # None
  BY StatsType, Constants
<1>2. validateAndConstructNotificationStatsInfo([s EXCEPT !.nsi = Stats(s)]) = [s EXCEPT !.nsi = Stats(s)]
  BY <1>1 DEF validateAndConstructNotificationStatsInfo, Attributes
<1>3. validateAndConstructNotificationStatsInfo(s) = [s EXCEPT !.nsi = Stats(s)]
  BY DEF validateAndConstructNotificationStatsInfo, Attributes, Stats
<1>. QED
  BY <1>2, <1>3 DEF Counted

-----------------------------------------------------------------------------
(* An agent moves.                                                         *)

\* What agent a may become: it has what it needs, and does not wake up or notify anybody twice.
MayBecome(a, f) ==
  /\ Fit(f)
  /\ a \notin Thread => f.pc \in {"idle", "sending", "response", "responseWrite"} /\ (f.pc # "idle" => Active(a))
  /\ a \in Thread => \A u \in Nu : Pending(f, u) => Pending(agent[a], u) \/ ~Active(<<a, u>>)

LEMMA AgentMoves ==
  ASSUME SubscriptionAssumption, SubInv, NEW a \in Agent, NEW f \in State, Become(a, f), MayBecome(a, f)
  PROVE  /\ agent' \in [Agent -> State] /\ agent'[a] = f /\ \A b \in Agent \ {a} : agent'[b] = agent[b]
         /\ Reads' /\ InBackground' /\ NotSent'
<1>1. agent' \in [Agent -> State] /\ agent'[a] = f /\ \A b \in Agent \ {a} : agent'[b] = agent[b]
  BY DEF SubInv, TypeOK, Become
<1>2. Reads'
  BY <1>1 DEF SubInv, Reads, MayBecome, Fit
<1>3. InBackground'
  BY <1>1, Constants DEF SubInv, InBackground, MayBecome
<1>4. NotSent'
  <2> SUFFICES ASSUME NEW t \in Thread, NEW u \in Nu, Pending(agent'[t], u) PROVE agent'[<<t, u>>].pc = "idle"
    BY DEF NotSent, Active, Pending
  <2>1. t \in Agent /\ <<t, u>> \in Agent /\ <<t, u>> # t /\ <<t, u>> \notin Thread
    BY Constants
  <2>2. agent[<<t, u>>].pc = "idle"
    <3>1. CASE t = a
      BY <1>1, <2>1, <3>1 DEF SubInv, NotSent, MayBecome, Active
    <3>2. CASE t # a
      BY <1>1, <2>1, <3>2 DEF SubInv, NotSent, Active
    <3>. QED
      BY <3>1, <3>2
  <2>3. CASE <<t, u>> = a
    BY <1>1, <2>1, <2>2, <2>3 DEF MayBecome, Active
  <2>. QED
    BY <1>1, <2>1, <2>2, <2>3
<1>. QED
  BY <1>1, <1>2, <1>3, <1>4

\* Only the place changes.
LEMMA GotoBecomes ==
  ASSUME SubInv, NEW a \in Agent, NEW pc \in Pc, Goto(a, pc)
  PROVE  \E f \in State : /\ Become(a, f) /\ f.pc = pc /\ f.doc = agent[a].doc /\ f.left = agent[a].left
                          /\ f.nu = agent[a].nu /\ f.copy = agent[a].copy /\ f.nse = agent[a].nse
<1>1. agent[a] \in State
  BY DEF SubInv, TypeOK
<1>2. PICK f : f = [agent[a] EXCEPT !.pc = pc]
  OBVIOUS
<1>3. f \in State /\ f.pc = pc /\ f.doc = agent[a].doc /\ f.left = agent[a].left
      /\ f.nu = agent[a].nu /\ f.copy = agent[a].copy /\ f.nse = agent[a].nse
  BY <1>1, <1>2 DEF State
<1>4. agent' = [agent EXCEPT ![a] = f]
  BY <1>2 DEF Goto
<1>. QED
  BY <1>3, <1>4 DEF Become

\* A move that only concerns the agent.
MayMove(a, f) ==
  /\ MayBecome(a, f)
  /\ start = 0 => NoExc(f)
  /\ f.pc \notin WritePc \cup {"expireUpsert"} /\ agent[a].pc \notin WritePc \cup {"expireUpsert"}
  /\ Serial => /\ a \in Thread /\ (Active(a) \/ \A b \in Agent : ~Active(b))
               /\ Expiring(f)

LEMMA LockAs ==
  LockHeld <=> \A a \in Agent : lock = a <=> agent[a].pc \in WritePc
BY WritesAre DEF LockHeld

LEMMA LockAsNext ==
  LockHeld' <=> \A a \in Agent : lock' = a <=> agent'[a].pc \in WritePc
BY KindsAre DEF LockHeld, At, WritePc

\* Who is at the place where something is counted writes.
LEMMA AtWriting ==
  ASSUME NEW a \in Agent, NEW kind \in Kinds, At(a, Writing[kind])
  PROVE  agent[a].pc \in WritePc
BY KindsAre DEF At, WritePc

LEMMA SerialUndisturbed == Serial => Undisturbed
BY DEF Undisturbed

LEMMA CounterSame ==
  ASSUME SubInv, Serial, NEW a \in Agent, NEW f \in State, Become(a, f), f.pc \in LatePc <=> agent[a].pc \in LatePc,
         UNCHANGED <<sub, complete, rigid>>
  PROVE  CounterTold'
<1>1. agent'[a] = f /\ \A b \in Agent \ {a} : agent'[b] = agent[b]
  BY DEF SubInv, TypeOK, Become
<1>2. Late' <=> Late
  BY <1>1 DEF Late
<1>. QED
  BY <1>2 DEF SubInv, SerialTold, CounterTold, rigid

LEMMA MoveKeeps ==
  ASSUME SubscriptionAssumption, SubInv, NEW a \in Agent, NEW f \in State, Become(a, f), MayMove(a, f),
         UNCHANGED <<sub, table, lock, seen, updates, rigid>>, events' \in 0..MaxEvent, complete' \in Nat,
         Serial => CounterTold'
  PROVE  SubInv'
<1>1. /\ agent' \in [Agent -> State] /\ agent'[a] = f /\ \A b \in Agent \ {a} : agent'[b] = agent[b]
      /\ Reads' /\ InBackground' /\ NotSent'
  BY AgentMoves DEF MayMove
<1>2. f.pc \notin WritePc /\ agent[a].pc \notin WritePc /\ f.pc # "expireUpsert" /\ agent[a].pc # "expireUpsert"
  BY DEF MayMove
<1>3. TypeOK'
  BY <1>1 DEF SubInv, TypeOK, rigid
<1>4. LockHeld'
  BY <1>1, <1>2, LockAs, LockAsNext DEF SubInv
<1>5. NoCounter'
  BY <1>1 DEF SubInv, NoCounter, MayMove, rigid, NoExc
<1>6. (Undisturbed' <=> Undisturbed) /\ (Serial' <=> Serial)
  BY DEF Undisturbed, Serial, rigid
<1>7. ASSUME Undisturbed PROVE CountsTold' /\ TableTold'
  <2>1. CountsTold'
    <3>1. \A b \in Agent, kind \in Kinds : At(b, Writing[kind])' => b # a /\ agent'[b] = agent[b] /\ At(b, Writing[kind])
      BY <1>1, <1>2, KindsAre DEF At, WritePc
    <3>2. Stats(sub)' = Stats(sub) /\ \A kind, u : (Counted(sub, kind, u).nsi)' = Counted(sub, kind, u).nsi
      BY DEF Stats, Counted, validateAndConstructNotificationStatsInfo
    <3>. QED
      BY <1>7, <3>1, <3>2 DEF SubInv, CountsTold
  <2>2. TableTold'
    BY <1>1, <1>2, <1>7 DEF SubInv, TableTold, EntryTold
  <2>. QED
    BY <2>1, <2>2
<1>8. ASSUME Serial PROVE SerialTold'
  <2>1. OneActive'
    BY <1>1, <1>8 DEF SubInv, SerialTold, OneActive, Active, MayMove
  <2>2. \A b \in Agent : Expiring(agent[b])'
    BY <1>1, <1>8 DEF SubInv, SerialTold, Expiring, MayMove
  <2>. QED
    BY <1>8, <2>1, <2>2 DEF SerialTold
<1>. QED
  BY <1>1, <1>3, <1>4, <1>5, <1>6, <1>7, <1>8 DEF SubInv

-----------------------------------------------------------------------------
(* An event.                                                               *)

LEMMA CheckKeeps ==
  ASSUME SubscriptionAssumption, SubInv, NEW t \in Thread, checkSubscriptions(t)
  PROVE  SubInv'
<1>1. /\ Resting(t) /\ Alone /\ events < MaxEvent /\ events' = events + 1 /\ table # None
      /\ Become(t, [Idle EXCEPT !.pc = "send", !.doc = table, !.left = table.nus])
      /\ UNCHANGED <<sub, table, lock, seen, complete, updates, rigid>>
  BY DEF checkSubscriptions
<1>2. TypeOK /\ table \in Entry /\ table # None /\ events' \in 0..MaxEvent /\ t \in Agent
  BY <1>1, Constants DEF SubInv, TypeOK, SubscriptionAssumption
<1>3. PICK f \in State : /\ Become(t, f) /\ f.pc = "send" /\ f.doc = table /\ f.left = table.nus /\ f.nu = None
                         /\ f.copy = None
  <2>. DEFINE f == [Idle EXCEPT !.pc = "send", !.doc = table, !.left = table.nus]
  <2>1. f \in State /\ f.pc = "send" /\ f.doc = table /\ f.left = table.nus /\ f.nu = None /\ f.copy = None
    BY <1>2 DEF Idle, State, Pc, Entry
  <2>. QED
    BY <1>1, <2>1
<1>4. agent[t].pc = "idle" /\ \A u \in Nu : ~Active(<<t, u>>)
  BY <1>1, IdleType DEF Resting, Active
<1>5. MayBecome(t, f)
  <2>1. Fit(f)
    BY <1>2, <1>3 DEF Fit, WritePc
  <2>. QED
    BY <1>4, <2>1 DEF MayBecome
<1>6. start = 0 => NoExc(f)
  BY <1>1, <1>3 DEF SubInv, NoCounter, NoExc
<1>7. ASSUME Serial PROVE (\A b \in Agent : ~Active(b)) /\ Expiring(f)
  <2>1. \A s \in Thread : Resting(s)
    BY <1>1, <1>7 DEF Alone, AtRest, Serial
  <2>2. \A b \in Agent : agent[b].pc = "idle"
    BY <2>1, IdleType, Constants DEF Resting, Agent
  <2>3. EntryTold
    BY <1>7, <2>2, SerialUndisturbed DEF SubInv, TableTold
  <2>4. sub.there /\ table.exc = sub.exc
    BY <1>1, <2>3 DEF EntryTold, Doc
  <2>. QED
    BY <1>3, <2>2, <2>4 DEF Active, Expiring
<1>8. MayMove(t, f)
  BY <1>3, <1>4, <1>5, <1>6, <1>7 DEF MayMove, WritePc
<1>9. f.pc \notin LatePc /\ agent[t].pc \notin LatePc
  BY <1>3, <1>4 DEF LatePc
<1>10. Serial => CounterTold'
  BY <1>1, <1>2, <1>3, <1>9, CounterSame
<1>. QED
  BY <1>1, <1>2, <1>3, <1>8, <1>10, MoveKeeps DEF TypeOK

\* An agent that is active goes on, with the entry it has read.
LEMMA GoesOn ==
  ASSUME SubscriptionAssumption, SubInv, NEW a \in Agent, NEW f \in State, Become(a, f), Active(a),
         agent[a].pc \notin WritePc \cup LatePc \cup {"expireUpsert"}, f.pc \notin WritePc \cup LatePc \cup {"expireUpsert"},
         f.pc # "idle" => f.doc = agent[a].doc,
         f.copy = None \/ f.copy = agent[a].copy,
         f.doc = None \/ f.doc = agent[a].doc,
         f.pc \in {"count", "notify"} => f.nu \in Nu \ f.left,
         a \notin Thread => f.pc \in {"idle", "sending", "response", "responseWrite"},
         a \in Thread => \A u \in Nu : Pending(f, u) => Pending(agent[a], u),
         Serial => (~sub.there => f.pc \in {"idle", "event"})
                   /\ (f.pc \notin {"idle", "event"} => agent[a].pc # "event"),
         UNCHANGED <<sub, table, lock, seen, complete, events, updates, rigid>>
  PROVE  SubInv'
<1>1. Fit(agent[a]) /\ (start = 0 => NoExc(agent[a])) /\ events' \in 0..MaxEvent
  BY DEF SubInv, Reads, NoCounter, TypeOK
<1>2. MayBecome(a, f)
  <2>1. Fit(f)
    BY <1>1 DEF Fit, Active, LatePc, WritePc
  <2>. QED
    BY <2>1 DEF MayBecome
<1>3. start = 0 => NoExc(f)
  BY <1>1 DEF NoExc
<1>4. ASSUME Serial PROVE a \in Thread /\ Expiring(f)
  <2>1. a \in Thread /\ Expiring(agent[a])
    BY <1>4 DEF SubInv, SerialTold, OneActive
  <2>. QED
    BY <1>4, <2>1 DEF Expiring, WritePc, LatePc, Active
<1>5. MayMove(a, f)
  BY <1>2, <1>3, <1>4 DEF MayMove
<1>6. Serial => CounterTold'
  BY CounterSame
<1>. QED
  BY <1>1, <1>5, <1>6, MoveKeeps DEF SubInv, TypeOK

LEMMA SenderKeeps ==
  ASSUME SubscriptionAssumption, SubInv, NEW t \in Thread, sender(t)
  PROVE  SubInv'
<1>1. /\ agent[t].pc = "send" /\ agent[t].left # {}
      /\ UNCHANGED <<sub, table, lock, seen, complete, events, updates, rigid>>
  BY DEF sender, At, counting, rigid
<1>2. PICK u \in agent[t].left :
        Become(t, [agent[t] EXCEPT !.left = @ \ {u}, !.nu = u, !.nse = FALSE,
                     !.pc = IF ~agent[t].doc.nse THEN "notify" ELSE IF sub.there THEN "count" ELSE "event"])
  BY DEF sender
<1>3. t \in Agent /\ agent[t] \in State /\ agent[t].left \subseteq Nu /\ u \in Nu
  BY <1>2, Constants DEF SubInv, TypeOK, State
<1>4. PICK pc \in {"notify", "count", "event"} :
        /\ pc = IF ~agent[t].doc.nse THEN "notify" ELSE IF sub.there THEN "count" ELSE "event"
        /\ Become(t, [agent[t] EXCEPT !.left = @ \ {u}, !.nu = u, !.nse = FALSE, !.pc = pc])
  BY <1>2
<1>5. PICK f \in State : /\ Become(t, f) /\ f.pc = pc /\ f.doc = agent[t].doc /\ f.left = agent[t].left \ {u}
                         /\ f.nu = u /\ f.copy = agent[t].copy
  <2>. DEFINE f == [agent[t] EXCEPT !.left = @ \ {u}, !.nu = u, !.nse = FALSE, !.pc = pc]
  <2>1. f \in State /\ f.pc = pc /\ f.doc = agent[t].doc /\ f.left = agent[t].left \ {u}
        /\ f.nu = u /\ f.copy = agent[t].copy
    BY <1>3 DEF State, Pc
  <2>. QED
    BY <1>4, <2>1
<1>6. \A v \in Nu : Pending(f, v) => Pending(agent[t], v)
  BY <1>5 DEF Pending
<1>7. ASSUME Serial PROVE sub.there
  BY <1>1, <1>3, <1>7 DEF SubInv, SerialTold, Expiring
<1>. QED
  BY <1>1, <1>3, <1>5, <1>6, <1>7, GoesOn DEF Active, WritePc, LatePc

LEMMA NotifyKeeps ==
  ASSUME SubscriptionAssumption, SubInv, NEW t \in Thread, Notify(t)
  PROVE  SubInv'
<1>. DEFINE u == agent[t].nu
<1>1. /\ agent[t].pc = "notify"
      /\ UNCHANGED <<sub, table, lock, seen, complete, events, updates, rigid>>
  BY DEF Notify, At, counting, rigid
<1>2. t \in Agent /\ agent[t] \in State /\ agent \in [Agent -> State]
  BY Constants DEF SubInv, TypeOK
<1>3. CASE ~asyncSubscriptionNotifications
  <2>1. PICK pc \in {"event", "response", "send"} : Goto(t, pc)
    BY <1>3 DEF Notify
  <2>2. PICK f \in State : /\ Become(t, f) /\ f.pc = pc /\ f.doc = agent[t].doc /\ f.left = agent[t].left
                           /\ f.nu = agent[t].nu /\ f.copy = agent[t].copy /\ f.nse = agent[t].nse
    BY <1>2, <2>1, GotoBecomes DEF Pc
  <2>3. \A v \in Nu : Pending(f, v) => Pending(agent[t], v)
    BY <2>1, <2>2 DEF Pending
  <2>4. ASSUME Serial PROVE sub.there
    BY <1>1, <1>2, <2>4 DEF SubInv, SerialTold, Expiring
  <2>. QED
    BY <1>1, <1>2, <2>1, <2>2, <2>3, <2>4, GoesOn DEF Active, WritePc, LatePc
<1>4. CASE asyncSubscriptionNotifications
  <2>1. agent' = [agent EXCEPT ![t].pc = "send", ![<<t, u>>] = [agent[t] EXCEPT !.pc = "sending", !.left = {}]]
    BY <1>4 DEF Notify
  <2>2. ~Serial
    BY <1>4 DEF Serial
  <2>3. PICK g \in State : /\ g = [agent[t] EXCEPT !.pc = "send"] /\ g.pc = "send" /\ g.doc = agent[t].doc
                           /\ g.left = agent[t].left /\ g.nu = u /\ g.copy = agent[t].copy
    <3>. DEFINE g == [agent[t] EXCEPT !.pc = "send"]
    <3>1. g \in State /\ g.pc = "send" /\ g.doc = agent[t].doc /\ g.left = agent[t].left /\ g.nu = u
          /\ g.copy = agent[t].copy
      BY <1>2 DEF State, Pc
    <3>. QED
      BY <3>1
  <2>4. PICK h \in State : /\ h = [agent[t] EXCEPT !.pc = "sending", !.left = {}] /\ h.pc = "sending" /\ h.left = {}
                           /\ h.doc = agent[t].doc /\ h.copy = agent[t].copy
    <3>. DEFINE h == [agent[t] EXCEPT !.pc = "sending", !.left = {}]
    <3>1. h \in State /\ h.pc = "sending" /\ h.left = {} /\ h.doc = agent[t].doc /\ h.copy = agent[t].copy
      BY <1>2 DEF State, Pc
    <3>. QED
      BY <3>1
  <2>5. u \in Nu /\ u \notin agent[t].left
    BY <1>1, <1>2 DEF SubInv, Reads, Fit
  <2>. DEFINE j == <<t, u>>
  <2>6. j \in Agent /\ j \in Thread \X Nu /\ j # t /\ j \notin Thread
    BY <2>5, Constants
  <2>7. agent[j].pc = "idle"
    BY <1>1, <2>5 DEF SubInv, NotSent, Pending, Active
  <2>8. /\ agent' \in [Agent -> State] /\ agent'[t] = g /\ agent'[j] = h
        /\ \A b \in Agent \ {t, j} : agent'[b] = agent[b]
    <3>1. agent' = [[agent EXCEPT ![t] = g] EXCEPT ![j] = h]
      BY <2>1, <2>3, <2>4
    <3>. HIDE DEF j
    <3>. QED
      BY <1>2, <2>6, <3>1
  <2>9. Reads'
    <3>1. Fit(agent[t])
      BY <1>2 DEF SubInv, Reads
    <3>2. Fit(g) /\ Fit(h)
      BY <1>1, <2>3, <2>4, <3>1 DEF Fit, WritePc
    <3>. HIDE DEF j
    <3>. QED
      BY <2>8, <3>2 DEF SubInv, Reads, Fit
  <2>10. InBackground'
    <3> SUFFICES ASSUME NEW i \in Thread \X Nu
                 PROVE agent'[i].pc \in {"idle", "sending", "response", "responseWrite"}
      BY DEF InBackground
    <3>. HIDE DEF j
    <3>1. i \in Agent /\ i # t
      BY Constants DEF Agent
    <3>2. CASE i = j
      BY <2>4, <2>8, <3>2
    <3>3. CASE i # j
      BY <2>8, <3>1, <3>3 DEF SubInv, InBackground
    <3>. QED
      BY <3>2, <3>3
  <2>11. NotSent'
    <3> SUFFICES ASSUME NEW s \in Thread, NEW v \in Nu, Pending(agent'[s], v) PROVE agent'[<<s, v>>].pc = "idle"
      BY DEF NotSent, Active, Pending
    <3>1. s \in Agent /\ <<s, v>> \in Agent /\ s # j /\ <<s, v>> # t
      <4>1. s \in Agent /\ <<s, v>> \in Agent /\ s \notin Thread \X Nu /\ <<s, v>> \notin Thread
        BY Constants
      <4>. HIDE DEF j
      <4>. QED
        BY <2>6, <4>1
    <3>2. agent'[s] = IF s = t THEN g ELSE agent[s]
      BY <2>8, <3>1
    <3>3. Pending(agent[s], v) /\ (s = t => v \in agent[t].left)
      BY <2>3, <3>2 DEF Pending
    <3>4. agent[<<s, v>>].pc = "idle" /\ <<s, v>> # j
      BY <2>5, <3>3 DEF SubInv, NotSent, Active
    <3>. QED
      BY <2>8, <3>1, <3>4
  <2>. HIDE DEF j
  <2>12. TypeOK' /\ LockHeld'
    <3>1. g.pc \notin WritePc /\ h.pc \notin WritePc /\ agent[t].pc \notin WritePc /\ agent[j].pc \notin WritePc
      BY <1>1, <2>7, <2>3, <2>4 DEF WritePc
    <3>2. \A b \in Agent : agent'[b].pc \in WritePc <=> agent[b].pc \in WritePc
      BY <2>8, <3>1
    <3>3. LockHeld'
      BY <1>1, <3>2, LockAs, LockAsNext DEF SubInv
    <3>. QED
      BY <1>1, <2>8, <3>3 DEF SubInv, TypeOK, rigid
  <2>13. NoCounter'
    <3>1. start = 0 => NoExc(g) /\ NoExc(h)
      BY <1>2, <2>3, <2>4 DEF SubInv, NoCounter, NoExc
    <3>. QED
      BY <1>1, <2>8, <3>1 DEF SubInv, NoCounter, NoExc, rigid
  <2>14. (Undisturbed' <=> Undisturbed) /\ ~Serial'
    BY <1>1, <2>2 DEF Undisturbed, Serial, rigid
  <2>15. ASSUME Undisturbed PROVE CountsTold' /\ TableTold'
    <3>1. ASSUME NEW b \in Agent, NEW kind \in Kinds, At(b, Writing[kind])'
          PROVE  agent'[b] = agent[b] /\ At(b, Writing[kind])
      <4>1. agent'[b].pc \in WritePc
        BY <3>1, KindsAre DEF At, WritePc
      <4>2. b # t /\ b # j
        BY <2>3, <2>4, <2>8, <4>1 DEF WritePc
      <4>. QED
        BY <2>8, <3>1, <4>2 DEF At
    <3>2. Stats(sub)' = Stats(sub) /\ \A kind, x : (Counted(sub, kind, x).nsi)' = Counted(sub, kind, x).nsi
      BY <1>1 DEF Stats, Counted, validateAndConstructNotificationStatsInfo
    <3>3. CountsTold'
      BY <1>1, <2>15, <3>1, <3>2 DEF SubInv, CountsTold
    <3>4. ASSUME NEW b \in Agent PROVE agent'[b].pc = "expireUpsert" <=> agent[b].pc = "expireUpsert"
      <4>1. CASE b = t
        BY <1>1, <2>3, <2>8, <4>1
      <4>2. CASE b = j
        BY <2>7, <2>4, <2>8, <4>2
      <4>3. CASE b \notin {t, j}
        BY <2>8, <4>3
      <4>. QED
        BY <4>1, <4>2, <4>3
    <3>5. TableTold'
      BY <1>1, <2>15, <3>4 DEF SubInv, TableTold, EntryTold
    <3>. QED
      BY <3>3, <3>5
  <2>. QED
    BY <2>12, <2>9, <2>10, <2>11, <2>13, <2>14, <2>15 DEF SubInv
<1>. QED
  BY <1>3, <1>4

LEMMA SendKeeps ==
  ASSUME SubscriptionAssumption, SubInv, NEW j \in Thread \X Nu, _sendNotification(j)
  PROVE  SubInv'
<1>1. /\ agent[j].pc = "sending"
      /\ UNCHANGED <<sub, table, lock, seen, complete, events, updates, rigid>>
  BY DEF _sendNotification, At, counting, rigid
<1>2. j \in Agent /\ j \notin Thread /\ agent[j] \in State
  BY Constants DEF SubInv, TypeOK, Agent
<1>3. CASE Goto(j, "response")
  <2>1. PICK f \in State : /\ Become(j, f) /\ f.pc = "response" /\ f.doc = agent[j].doc /\ f.left = agent[j].left
                           /\ f.nu = agent[j].nu /\ f.copy = agent[j].copy /\ f.nse = agent[j].nse
    BY <1>2, <1>3, GotoBecomes DEF Pc
  <2>2. ~Serial
    BY <1>1, <1>2 DEF SubInv, SerialTold, OneActive, Active
  <2>. QED
    BY <1>1, <1>2, <2>1, <2>2, GoesOn DEF Active, WritePc, LatePc
<1>4. CASE Become(j, Idle)
  BY <1>1, <1>2, <1>4, IdleType, GoesOn DEF Active, WritePc, LatePc
<1>. QED
  BY <1>3, <1>4 DEF _sendNotification

\* With an event that all targets have been notified of, the counter is one too high.
LEMMA AllSentKeeps ==
  ASSUME SubscriptionAssumption, SubInv, NEW t \in Thread, AllSent(t)
  PROVE  SubInv'
<1>1. /\ agent[t].pc = "send" /\ complete' = complete + 1
      /\ UNCHANGED <<sub, table, lock, seen, events, updates, rigid>>
  BY DEF AllSent, At
<1>2. t \in Agent /\ agent[t] \in State /\ Fit(agent[t]) /\ TypeOK
  BY Constants DEF SubInv, TypeOK, Reads
<1>3. PICK pc \in {"expire", "event"} : pc = (IF agent[t].doc.exc # 0 THEN "expire" ELSE "event") /\ Goto(t, pc)
  BY DEF AllSent
<1>4. PICK f \in State : /\ Become(t, f) /\ f.pc = pc /\ f.doc = agent[t].doc /\ f.left = agent[t].left
                         /\ f.nu = agent[t].nu /\ f.copy = agent[t].copy /\ f.nse = agent[t].nse
  BY <1>2, <1>3, GotoBecomes DEF Pc
<1>5. MayBecome(t, f)
  <2>1. Fit(f)
    BY <1>1, <1>2, <1>3, <1>4 DEF Fit, WritePc
  <2>2. \A u \in Nu : Pending(f, u) => Pending(agent[t], u)
    BY <1>3, <1>4 DEF Pending
  <2>. QED
    BY <2>1, <2>2 DEF MayBecome
<1>6. start = 0 => NoExc(f)
  BY <1>2, <1>4 DEF SubInv, NoCounter, NoExc
<1>7. ASSUME Serial PROVE Expiring(agent[t]) /\ sub.there /\ agent[t].doc.exc = sub.exc /\ Expiring(f)
  <2>1. Expiring(agent[t])
    BY <1>2, <1>7 DEF SubInv, SerialTold
  <2>2. sub.there /\ agent[t].doc.exc = sub.exc
    BY <1>1, <2>1 DEF Expiring
  <2>. QED
    BY <1>3, <1>4, <2>1, <2>2 DEF Expiring
<1>8. MayMove(t, f)
  BY <1>1, <1>3, <1>4, <1>5, <1>6, <1>7 DEF MayMove, WritePc, Active
<1>9. ASSUME Serial PROVE CounterTold'
  <2>1. SUFFICES ASSUME start # 0 PROVE CounterTold'
    BY <1>1 DEF CounterTold, rigid
  <2>2. \A b \in Agent : agent[b].pc \in {"idle", "send"}
    BY <1>1, <1>2, <1>9 DEF SubInv, SerialTold, OneActive, Active
  <2>3. ~Late
    BY <2>2 DEF Late, LatePc
  <2>4. sub.exc \in Nat /\ start \in Nat /\ complete \in Nat
    BY <1>2, Constants DEF TypeOK, Attributes
  <2>5. sub.exc > 0 /\ sub.exc = start - complete
    BY <1>7, <1>9, <2>1, <2>3, <2>4 DEF SubInv, SerialTold, CounterTold
  <2>6. agent'[t].pc = "expire"
    BY <1>2, <1>3, <1>4, <1>7, <1>9, <2>5 DEF Become, TypeOK
  <2>7. Late'
    BY <1>2, <2>6 DEF Late, LatePc
  <2>. QED
    BY <1>1, <2>5, <2>7, <2>4 DEF CounterTold, rigid
<1>10. complete' \in Nat /\ events' \in 0..MaxEvent
  BY <1>1, <1>2 DEF TypeOK
<1>. QED
  BY <1>1, <1>2, <1>4, <1>8, <1>9, <1>10, MoveKeeps

-----------------------------------------------------------------------------
(* Counting.                                                               *)

LEMMA BeginCountKeeps ==
  ASSUME SubscriptionAssumption, SubInv, NEW a \in Agent, beginCount(a)
  PROVE  SubInv'
<1>1. PICK kind \in Kinds :
        /\ At(a, kind)
        /\ IF Counts(a, kind)
           THEN /\ lock = None /\ lock' = a
                /\ Become(a, [agent[a] EXCEPT !.pc = Writing[kind], !.copy = sub, !.nse = sub.nse])
                /\ seen' = Counted([sub EXCEPT !.nsi = seen], kind, agent[a].nu).nsi
           ELSE /\ Become(a, IF sub.there THEN Continue(a, kind) ELSE Idle)
                /\ UNCHANGED <<lock, seen>>
        /\ UNCHANGED <<sub, table, complete, events, updates, rigid>>
  BY DEF beginCount
<1>2. /\ agent[a].pc = kind /\ kind \in {"count", "response", "event"} /\ agent[a] \in State /\ TypeOK
      /\ Fit(agent[a]) /\ (start = 0 => NoExc(agent[a])) /\ UNCHANGED <<sub, table, complete, events, updates, rigid>>
  BY <1>1, KindsAre DEF SubInv, TypeOK, At, Reads, NoCounter
<1>3. CASE ~Counts(a, kind)
  <2>1. Become(a, IF sub.there THEN Continue(a, kind) ELSE Idle) /\ UNCHANGED <<lock, seen>>
    BY <1>1, <1>3
  <2>2. CASE Become(a, Idle)
    BY <1>2, <2>1, <2>2, IdleType, GoesOn DEF Active, WritePc, LatePc, Pending
  <2>3. CASE sub.there /\ a \in Thread /\ kind # "event" /\ Become(a, Continue(a, kind))
    <3>1. PICK pc \in {"notify", "send"} : /\ pc = "notify" => kind = "count"
                                           /\ Become(a, [agent[a] EXCEPT !.pc = pc, !.copy = None])
      BY <2>3 DEF Continue
    <3>2. PICK f \in State : /\ Become(a, f) /\ f.pc = pc /\ f.doc = agent[a].doc /\ f.left = agent[a].left
                             /\ f.nu = agent[a].nu /\ f.copy = None
      <4>. DEFINE f == [agent[a] EXCEPT !.pc = pc, !.copy = None]
      <4>1. f \in State /\ f.pc = pc /\ f.doc = agent[a].doc /\ f.left = agent[a].left
            /\ f.nu = agent[a].nu /\ f.copy = None
        BY <1>2 DEF State, Pc
      <4>. QED
        BY <3>1, <4>1
    <3>3. f.pc \in {"count", "notify"} => f.nu \in Nu \ f.left
      BY <1>2, <3>1, <3>2 DEF Fit
    <3>4. \A u \in Nu : Pending(f, u) => Pending(agent[a], u)
      BY <1>2, <3>1, <3>2 DEF Pending
    <3>. QED
      BY <1>2, <2>1, <2>3, <3>1, <3>2, <3>3, <3>4, GoesOn DEF Active, WritePc, LatePc
  <2>4. Continue(a, kind) = Idle \/ (a \in Thread /\ kind # "event")
    BY DEF Continue
  <2>. QED
    BY <2>1, <2>2, <2>3, <2>4
<1>4. CASE Counts(a, kind)
  <2>1. /\ lock = None /\ lock' = a /\ sub.there
        /\ Become(a, [agent[a] EXCEPT !.pc = Writing[kind], !.copy = sub, !.nse = sub.nse])
        /\ seen' = Counted([sub EXCEPT !.nsi = seen], kind, agent[a].nu).nsi
    BY <1>1, <1>4 DEF Counts
  <2>2. Writing[kind] \in WritePc
    BY KindsAre DEF WritePc
  <2>3. PICK f \in State : /\ Become(a, f) /\ f.pc = Writing[kind] /\ f.doc = agent[a].doc /\ f.left = agent[a].left
                           /\ f.nu = agent[a].nu /\ f.copy = sub
    <3>. DEFINE f == [agent[a] EXCEPT !.pc = Writing[kind], !.copy = sub, !.nse = sub.nse]
    <3>1. Writing[kind] \in Pc /\ sub \in Attributes /\ sub.nse \in BOOLEAN
      BY <1>2, <2>2 DEF WritePc, Pc, TypeOK, Attributes
    <3>2. f \in State /\ f.pc = Writing[kind] /\ f.doc = agent[a].doc /\ f.left = agent[a].left
          /\ f.nu = agent[a].nu /\ f.copy = sub
      <4>. DEFINE w == Writing[kind]
      <4>. HIDE DEF w
      <4>. QED
        BY <1>2, <3>1 DEF State
    <3>. QED
      BY <2>1, <3>2
  <2>4. /\ agent[a].pc \notin WritePc \cup LatePc \cup {"expireUpsert", "idle"}
        /\ f.pc \in WritePc /\ f.pc \notin LatePc \cup {"expireUpsert"}
        /\ f.pc = "countWrite" => kind = "count"
        /\ f.pc = "responseWrite" <=> kind = "response"
    BY <1>2, <2>2, <2>3, KindsAre DEF WritePc, LatePc
  <2>5. MayBecome(a, f)
    <3>1. sub # None
      BY <1>2, Constants DEF TypeOK
    <3>2. Fit(f)
      BY <1>2, <2>3, <2>4, <3>1 DEF Fit, WritePc, LatePc
    <3>3. a \notin Thread => kind = "response"
      BY <1>2, Constants DEF SubInv, InBackground
    <3>4. \A u \in Nu : Pending(f, u) => Pending(agent[a], u)
      BY <1>2, <2>3, <2>4 DEF Pending, WritePc
    <3>. QED
      BY <1>2, <2>3, <2>4, <3>2, <3>3, <3>4 DEF MayBecome, Active
  <2>6. /\ agent' \in [Agent -> State] /\ agent'[a] = f /\ \A b \in Agent \ {a} : agent'[b] = agent[b]
        /\ Reads' /\ InBackground' /\ NotSent'
    BY <2>3, <2>5, AgentMoves
  <2>7. \A b \in Agent : agent[b].pc \notin WritePc
    BY <2>1, LockAs, Constants DEF SubInv
  <2>8. LockHeld'
    BY <2>1, <2>4, <2>6, <2>7, LockAsNext
  <2>9. TypeOK'
    <3>1. [sub EXCEPT !.nsi = seen] \in Attributes
      BY <1>2 DEF TypeOK, Attributes
    <3>2. seen' \in [Nu -> Stat]
      BY <2>1, <3>1, CountedType
    <3>. QED
      BY <1>2, <2>1, <2>6, <3>2 DEF TypeOK, rigid
  <2>10. NoCounter'
    BY <1>2, <2>3, <2>6 DEF SubInv, NoCounter, NoExc, rigid
  <2>11. (Undisturbed' <=> Undisturbed) /\ (Serial' <=> Serial)
    BY <1>2 DEF Undisturbed, Serial, rigid
  <2>12. ASSUME Undisturbed PROVE CountsTold' /\ TableTold'
    <3>1. seen = Stats(sub)
      BY <2>1, <2>12 DEF SubInv, CountsTold
    <3>2. seen' = Counted(sub, kind, agent[a].nu).nsi
      BY <1>2, <2>1, <3>1, CountedSame DEF TypeOK
    <3>3. ASSUME NEW b \in Agent, NEW k \in Kinds, At(b, Writing[k])' PROVE b = a /\ k = kind
      <4>1. agent'[b].pc = Writing[k] /\ agent'[b].pc \in WritePc
        BY <3>3, KindsAre DEF At, WritePc
      <4>2. b = a
        BY <2>6, <2>7, <4>1
      <4>. QED
        BY <2>3, <2>6, <4>1, <4>2, KindsAre
    <3>4. (Counted(sub, kind, agent[a].nu).nsi)' = Counted(sub, kind, f.nu).nsi
      BY <1>2, <2>6 DEF Counted, validateAndConstructNotificationStatsInfo
    <3>5. CountsTold'
      <4>1. a # None
        BY Constants
      <4> SUFFICES ASSUME NEW b \in Agent, NEW k \in Kinds, At(b, Writing[k])'
                   PROVE  agent'[b].copy = sub' /\ seen' = Counted(sub', k, agent'[b].nu).nsi
        BY <2>1, <4>1 DEF CountsTold
      <4>2. b = a /\ k = kind
        BY <3>3
      <4>. QED
        BY <1>2, <2>3, <2>6, <3>2, <4>2
    <3>6. TableTold'
      <4>1. (\A b \in Agent : agent'[b].pc # "expireUpsert") => \A b \in Agent : agent[b].pc # "expireUpsert"
        BY <2>4, <2>6
      <4>. QED
        BY <1>2, <2>12, <4>1 DEF SubInv, TableTold, EntryTold
    <3>. QED
      BY <3>5, <3>6
  <2>13. ASSUME Serial PROVE SerialTold'
    <3>1. OneActive'
      BY <2>4, <2>6, <2>13 DEF SubInv, SerialTold, OneActive, Active
    <3>2. Expiring(agent[a])
      BY <2>13 DEF SubInv, SerialTold
    <3>3. Expiring(f)
      BY <1>2, <2>1, <2>3, <2>4, <3>2 DEF Expiring, WritePc
    <3>4. \A b \in Agent : Expiring(agent[b])'
      BY <1>2, <2>6, <2>13, <3>3 DEF SubInv, SerialTold, Expiring
    <3>5. CounterTold'
      BY <1>2, <2>3, <2>4, <2>13, CounterSame
    <3>. QED
      BY <3>1, <3>4, <3>5 DEF SerialTold
  <2>. QED
    BY <2>6, <2>8, <2>9, <2>10, <2>11, <2>12, <2>13 DEF SubInv
<1>. QED
  BY <1>3, <1>4

LEMMA EndCountKeeps ==
  ASSUME SubscriptionAssumption, SubInv, NEW a \in Agent, endCount(a)
  PROVE  SubInv'
<1>1. PICK kind \in Kinds :
        /\ At(a, Writing[kind])
        /\ sub' = IF sub.there THEN Counted(agent[a].copy, kind, agent[a].nu) ELSE sub
        /\ Become(a, IF sub.there THEN Continue(a, kind) ELSE Idle)
  BY DEF endCount
<1>2. lock' = None /\ UNCHANGED <<table, seen, complete, events, updates, rigid>>
  BY DEF endCount
<1>3. /\ agent[a].pc \in WritePc /\ agent[a].pc = Writing[kind] /\ agent[a] \in State /\ TypeOK
      /\ Fit(agent[a]) /\ (start = 0 => NoExc(agent[a]))
  BY <1>1, KindsAre DEF SubInv, TypeOK, At, Reads, NoCounter, WritePc
<1>4. agent[a].pc \notin LatePc \cup {"expireUpsert", "idle", "event"}
  BY <1>3 DEF WritePc, LatePc
<1>5. PICK f \in State :
        /\ Become(a, f) /\ f.copy = None /\ (f.pc = "idle" => f.left = {} /\ f.doc = None) /\ f.pc \in {"idle", "notify", "send"}
        /\ ~sub.there => f.pc = "idle"
        /\ f.pc # "idle" => f.doc = agent[a].doc /\ f.left = agent[a].left /\ f.nu = agent[a].nu /\ a \in Thread
        /\ f.pc = "notify" => agent[a].pc = "countWrite"
        /\ f.pc # "idle" => agent[a].pc # "eventWrite"
  <2>1. CASE Become(a, Idle)
    BY <2>1, IdleType
  <2>2. CASE sub.there /\ a \in Thread /\ kind # "event" /\ Become(a, Continue(a, kind))
    <3>1. PICK pc \in {"notify", "send"} : /\ pc = "notify" => kind = "count"
                                           /\ Become(a, [agent[a] EXCEPT !.pc = pc, !.copy = None])
      BY <2>2 DEF Continue
    <3>. DEFINE f == [agent[a] EXCEPT !.pc = pc, !.copy = None]
    <3>2. f \in State /\ f.pc = pc /\ f.doc = agent[a].doc /\ f.left = agent[a].left
          /\ f.nu = agent[a].nu /\ f.copy = None
      BY <1>3 DEF State, Pc
    <3>3. Become(a, f)
      BY <3>1
    <3>4. (pc = "notify" => agent[a].pc = "countWrite") /\ agent[a].pc # "eventWrite"
      BY <1>3, <2>2, <3>1, KindsAre
    <3>. HIDE DEF f
    <3>. QED
      BY <2>2, <3>1, <3>2, <3>3, <3>4
  <2>3. Continue(a, kind) = Idle \/ (a \in Thread /\ kind # "event")
    BY DEF Continue
  <2>. QED
    BY <1>1, <2>1, <2>2, <2>3
<1>6. MayBecome(a, f)
  <2>1. Fit(f)
    BY <1>3, <1>4, <1>5 DEF Fit, WritePc
  <2>2. \A u \in Nu : Pending(f, u) => Pending(agent[a], u)
    BY <1>3, <1>5 DEF Pending
  <2>. QED
    BY <1>4, <1>5, <2>1, <2>2 DEF MayBecome
<1>7. /\ agent' \in [Agent -> State] /\ agent'[a] = f /\ \A b \in Agent \ {a} : agent'[b] = agent[b]
      /\ Reads' /\ InBackground' /\ NotSent'
  BY <1>5, <1>6, AgentMoves
<1>8. lock = a /\ \A b \in Agent \ {a} : agent[b].pc \notin WritePc
  BY <1>3, LockAs DEF SubInv
<1>9. \A b \in Agent : agent'[b].pc \notin WritePc
  BY <1>5, <1>7, <1>8 DEF WritePc
<1>10. LockHeld'
  BY <1>2, <1>9, LockAsNext, Constants
<1>11. agent[a].copy \in Attributes
  BY <1>3 DEF Fit, State
<1>12. TypeOK'
  <2>1. sub' \in Attributes
    BY <1>1, <1>3, <1>11, CountedType DEF TypeOK
  <2>. QED
    BY <1>2, <1>3, <1>7, <2>1 DEF TypeOK, rigid
<1>13. NoCounter'
  <2>1. SUFFICES ASSUME start = 0 PROVE NoCounter'
    BY <1>2 DEF NoCounter, rigid
  <2>2. agent[a].copy # None /\ agent[a].copy.exc = 0 /\ (agent[a].doc # None => agent[a].doc.exc = 0) /\ sub.exc = 0
    BY <1>3, <2>1 DEF Fit, NoExc, SubInv, NoCounter
  <2>3. sub'.exc = 0
    BY <1>1, <1>11, <2>2, CountedType
  <2>4. NoExc(f)
    BY <1>5, <2>2 DEF NoExc
  <2>. QED
    BY <1>2, <1>7, <2>1, <2>3, <2>4 DEF SubInv, NoCounter, NoExc
<1>14. (Undisturbed' <=> Undisturbed) /\ (Serial' <=> Serial)
  BY <1>2 DEF Undisturbed, Serial, rigid
<1>15. ASSUME Undisturbed
       PROVE  /\ sub'.there = sub.there /\ sub'.exc = sub.exc /\ sub' \in Attributes /\ Doc(sub') = Doc(sub)
              /\ sub.there => seen = Stats(sub')
  <2>1. CASE ~sub.there
    BY <1>1, <1>3, <2>1 DEF TypeOK
  <2>2. CASE sub.there
    <3>1. agent[a].copy = sub /\ seen = Counted(sub, kind, agent[a].nu).nsi
      BY <1>1, <1>15, <2>2 DEF SubInv, CountsTold
    <3>2. sub' = Counted(sub, kind, agent[a].nu) /\ sub \in Attributes
      BY <1>1, <1>3, <2>2, <3>1 DEF TypeOK
    <3>. QED
      BY <3>1, <3>2, CountedType
  <2>. QED
    BY <2>1, <2>2
<1>16. ASSUME Undisturbed PROVE CountsTold' /\ TableTold'
  <2>1. Doc(sub)' = Doc(sub) /\ Stats(sub)' = Stats(sub')
    BY <1>15, <1>16 DEF Doc, Stats
  <2>2. CountsTold'
    <3>1. \A b \in Agent, k \in Kinds : ~At(b, Writing[k])'
      BY <1>9, KindsAre DEF At, WritePc
    <3>. QED
      BY <1>2, <1>15, <1>16, <2>1, <3>1 DEF CountsTold
  <2>3. TableTold'
    <3>1. (\A b \in Agent : agent'[b].pc # "expireUpsert") => \A b \in Agent : agent[b].pc # "expireUpsert"
      BY <1>4, <1>7
    <3>. QED
      BY <1>2, <1>15, <1>16, <2>1, <3>1 DEF SubInv, TableTold, EntryTold
  <2>. QED
    BY <2>2, <2>3
<1>17. ASSUME Serial PROVE SerialTold'
  <2>1. /\ sub'.there = sub.there /\ sub'.exc = sub.exc
    BY <1>15, <1>17, SerialUndisturbed
  <2>2. OneActive'
    BY <1>4, <1>7, <1>17 DEF SubInv, SerialTold, OneActive, Active
  <2>3. Expiring(agent[a]) /\ \A b \in Agent \ {a} : agent[b].pc = "idle"
    BY <1>4, <1>17 DEF SubInv, SerialTold, OneActive, Active
  <2>4. f.pc # "idle" => f.doc.exc = sub'.exc
    BY <1>4, <1>5, <2>1, <2>3 DEF Expiring
  <2>5. \A b \in Agent : Expiring(agent[b])'
    BY <1>5, <1>7, <2>1, <2>3, <2>4 DEF Expiring
  <2>6. Late' <=> Late
    BY <1>4, <1>5, <1>7 DEF Late, LatePc
  <2>7. CounterTold'
    BY <1>2, <1>17, <2>1, <2>6 DEF SubInv, SerialTold, CounterTold, rigid
  <2>. QED
    BY <2>2, <2>5, <2>7 DEF SerialTold
<1>. QED
  BY <1>7, <1>10, <1>12, <1>13, <1>14, <1>16, <1>17 DEF SubInv

-----------------------------------------------------------------------------
(* The expiration counter.                                                 *)

\* An agent that expires the <sub> is alone with it, if what it reads is to be true.
LEMMA ExpiringAlone ==
  ASSUME SubscriptionAssumption, SubInv, NEW t \in Agent, agent[t].pc \in {"expire", "expireWrite", "expireUpsert"}
  PROVE  /\ start # 0 /\ (Undisturbed => Serial)
         /\ agent[t] \in State /\ agent[t].doc \in Entry /\ agent[t].doc.exc \in Nat \ {0}
         /\ t \in Thread
         /\ Serial => /\ sub.there /\ Expiring(agent[t]) /\ lock = None /\ seen = Stats(sub)
                      /\ \A b \in Agent \ {t} : agent[b].pc = "idle"
                      /\ CounterTold /\ OneActive
<1>1. agent[t] \in State /\ agent[t].doc \in Entry /\ agent[t].doc.exc \in Nat \ {0}
  BY DEF SubInv, TypeOK, Reads, Fit, State, Entry
<1>2. start # 0
  BY <1>1 DEF SubInv, NoCounter, NoExc, Reads, Fit
<1>3. Undisturbed => Serial
  BY <1>2 DEF Undisturbed
<1>4. t \in Thread
  BY Constants DEF SubInv, InBackground
<1>5. ASSUME Serial
      PROVE  /\ sub.there /\ Expiring(agent[t]) /\ CounterTold /\ OneActive
             /\ \A b \in Agent \ {t} : agent[b].pc = "idle"
  BY <1>5 DEF SubInv, SerialTold, Expiring, OneActive, Active
<1>6. ASSUME Serial PROVE lock = None /\ seen = Stats(sub)
  <2>1. \A b \in Agent : agent[b].pc \notin WritePc
    BY <1>5, <1>6 DEF WritePc
  <2>2. lock = None
    BY <2>1, LockAs DEF SubInv, TypeOK
  <2>. QED
    BY <1>5, <1>6, <2>2, SerialUndisturbed DEF SubInv, CountsTold
<1>. QED
  BY <1>1, <1>2, <1>3, <1>4, <1>5, <1>6

LEMMA ExpireKeeps ==
  ASSUME SubscriptionAssumption, SubInv, NEW t \in Thread, expire(t)
  PROVE  SubInv'
<1>1. agent[t].pc = "expire" /\ UNCHANGED <<lock, seen, complete, events, updates, rigid>>
  BY DEF expire, At, counting, rigid
<1>2. t \in Agent /\ TypeOK /\ complete' \in Nat /\ events' \in 0..MaxEvent
  BY <1>1, Constants DEF SubInv, TypeOK
<1>3. /\ start # 0 /\ (Undisturbed => Serial) /\ agent[t] \in State /\ agent[t].doc \in Entry
      /\ agent[t].doc.exc \in Nat \ {0}
      /\ Serial => sub.there /\ Expiring(agent[t]) /\ \A b \in Agent \ {t} : agent[b].pc = "idle"
      /\ Serial => CounterTold /\ OneActive
  BY <1>1, <1>2, ExpiringAlone
<1>4. CASE ~sub.there
  <2>1. Become(t, Idle) /\ UNCHANGED <<sub, table>>
    BY <1>3, <1>4 DEF expire
  <2>2. ~Serial
    BY <1>3, <1>4
  <2>3. MayMove(t, Idle)
    BY <1>1, <1>2, <2>2, IdleType DEF MayMove, MayBecome, Fit, NoExc, Pending, WritePc
  <2>. QED
    BY <1>1, <1>2, <2>1, <2>2, <2>3, IdleType, MoveKeeps
<1>5. CASE sub.there /\ agent[t].doc.exc > 1
  <2>1. /\ Become(t, [agent[t] EXCEPT !.pc = "expireWrite", !.copy = [sub EXCEPT !.exc = agent[t].doc.exc - 1]])
        /\ UNCHANGED <<sub, table>>
    <3>1. agent[t].doc.exc # 1
      BY <1>3, <1>5
    <3>. QED
      BY <1>5, <3>1, Zenon DEF expire
  <2>2. PICK c \in Attributes : c = [sub EXCEPT !.exc = agent[t].doc.exc - 1]
    <3>1. agent[t].doc.exc - 1 \in Nat
      BY <1>3
    <3>. QED
      BY <1>2, <3>1 DEF TypeOK, Attributes
  <2>3. PICK f \in State : /\ Become(t, f) /\ f.pc = "expireWrite" /\ f.doc = agent[t].doc /\ f.left = agent[t].left
                           /\ f.nu = agent[t].nu /\ f.copy = c
    <3>. DEFINE f == [agent[t] EXCEPT !.pc = "expireWrite", !.copy = c]
    <3>1. f \in State /\ f.pc = "expireWrite" /\ f.doc = agent[t].doc /\ f.left = agent[t].left
          /\ f.nu = agent[t].nu /\ f.copy = c
      BY <1>3 DEF State, Pc
    <3>. QED
      BY <2>1, <2>2, <3>1
  <2>4. MayBecome(t, f)
    <3>1. c # None /\ f.doc # None
      BY <1>3, <2>3, Constants
    <3>2. Fit(f)
      BY <1>3, <1>5, <2>3, <3>1 DEF Fit, WritePc
    <3>. QED
      BY <2>3, <3>2 DEF MayBecome, Pending
  <2>5. Serial => Expiring(f)
    BY <1>1, <1>3, <2>2, <2>3 DEF Expiring
  <2>6. MayMove(t, f)
    BY <1>1, <1>3, <2>3, <2>4, <2>5 DEF MayMove, WritePc, Active
  <2>7. Serial => CounterTold'
    BY <1>1, <1>2, <2>1, <2>3, CounterSame DEF LatePc
  <2>. QED
    BY <1>1, <1>2, <2>1, <2>3, <2>6, <2>7, MoveKeeps
<1>6. CASE sub.there /\ agent[t].doc.exc = 1
  <2>1. deleteSub /\ Goto(t, "event")
    BY <1>3, <1>6 DEF expire
  <2>2. PICK f \in State : /\ Become(t, f) /\ f.pc = "event" /\ f.doc = agent[t].doc /\ f.left = agent[t].left
                           /\ f.nu = agent[t].nu /\ f.copy = agent[t].copy /\ f.nse = agent[t].nse
    BY <1>2, <2>1, GotoBecomes DEF Pc
  <2>3. /\ sub' \in Attributes /\ ~sub'.there /\ sub'.exc = sub.exc /\ table' = None
    BY <1>2, <2>1 DEF TypeOK, Attributes, deleteSub
  <2>4. MayBecome(t, f)
    BY <1>3, <2>2, Constants DEF MayBecome, Pending, Fit, WritePc
  <2>5. /\ agent' \in [Agent -> State] /\ agent'[t] = f /\ \A b \in Agent \ {t} : agent'[b] = agent[b]
        /\ Reads' /\ InBackground' /\ NotSent'
    BY <1>2, <2>2, <2>4, AgentMoves
  <2>6. TypeOK'
    BY <1>1, <1>2, <2>3, <2>5 DEF TypeOK, rigid
  <2>7. LockHeld'
    <3>1. \A b \in Agent : agent'[b].pc \in WritePc <=> agent[b].pc \in WritePc
      BY <1>1, <2>2, <2>5 DEF WritePc
    <3>. QED
      BY <1>1, <3>1, LockAs, LockAsNext DEF SubInv
  <2>8. NoCounter'
    BY <1>1, <1>3 DEF NoCounter, rigid
  <2>9. (Undisturbed' <=> Undisturbed) /\ (Serial' <=> Serial)
    BY <1>1 DEF Undisturbed, Serial, rigid
  <2>10. CountsTold' /\ TableTold'
    BY <2>3 DEF CountsTold, TableTold, EntryTold
  <2>11. ASSUME Serial PROVE SerialTold'
    <3>1. OneActive'
      BY <1>1, <1>2, <1>3, <2>5, <2>11 DEF OneActive, Active
    <3>2. \A b \in Agent : Expiring(agent[b])'
      BY <1>3, <2>2, <2>3, <2>5, <2>11 DEF Expiring
    <3>3. CounterTold'
      BY <1>1, <1>3, <2>3, <2>11 DEF CounterTold, rigid
    <3>. QED
      BY <3>1, <3>2, <3>3 DEF SerialTold
  <2>. QED
    BY <2>5, <2>6, <2>7, <2>8, <2>9, <2>10, <2>11 DEF SubInv
<1>. QED
  BY <1>3, <1>4, <1>5, <1>6

LEMMA ExpireWriteKeeps ==
  ASSUME SubscriptionAssumption, SubInv, NEW t \in Thread, expireWrite(t)
  PROVE  SubInv'
<1>1. agent[t].pc = "expireWrite" /\ UNCHANGED <<table, lock, seen, complete, events, updates, rigid>>
  BY DEF expireWrite, At, counting, rigid
<1>2. t \in Agent /\ TypeOK /\ complete' \in Nat /\ events' \in 0..MaxEvent
  BY <1>1, Constants DEF SubInv, TypeOK
<1>3. /\ start # 0 /\ (Undisturbed => Serial) /\ agent[t] \in State /\ agent[t].doc \in Entry
      /\ Serial => sub.there /\ Expiring(agent[t]) /\ \A b \in Agent \ {t} : agent[b].pc = "idle"
      /\ Serial => CounterTold /\ OneActive /\ lock = None /\ seen = Stats(sub)
  BY <1>1, <1>2, ExpiringAlone
<1>4. CASE ~sub.there
  <2>1. Become(t, Idle) /\ UNCHANGED <<sub, table>>
    BY <1>1, <1>4 DEF expireWrite
  <2>2. ~Serial
    BY <1>3, <1>4
  <2>3. MayMove(t, Idle)
    BY <1>1, <1>2, <2>2, IdleType DEF MayMove, MayBecome, Fit, NoExc, Pending, WritePc
  <2>. QED
    BY <1>1, <1>2, <2>1, <2>2, <2>3, IdleType, MoveKeeps
<1>5. CASE sub.there
  <2>1. sub' = agent[t].copy /\ Goto(t, "expireUpsert")
    BY <1>5 DEF expireWrite
  <2>2. PICK f \in State : /\ Become(t, f) /\ f.pc = "expireUpsert" /\ f.doc = agent[t].doc /\ f.left = agent[t].left
                           /\ f.nu = agent[t].nu /\ f.copy = agent[t].copy /\ f.nse = agent[t].nse
    BY <1>2, <2>1, GotoBecomes DEF Pc
  <2>3. agent[t].copy \in Attributes /\ agent[t].doc.exc \in Nat /\ agent[t].doc.exc > 1
    BY <1>1, <1>2, <1>3 DEF SubInv, Reads, Fit, State, Entry
  <2>4. MayBecome(t, f)
    <3>1. Fit(f)
      BY <1>3, <2>2, <2>3, Constants DEF Fit, WritePc
    <3>. QED
      BY <2>2, <3>1, Constants DEF MayBecome, Pending
  <2>5. /\ agent' \in [Agent -> State] /\ agent'[t] = f /\ \A b \in Agent \ {t} : agent'[b] = agent[b]
        /\ Reads' /\ InBackground' /\ NotSent'
    BY <1>2, <2>2, <2>4, AgentMoves
  <2>6. TypeOK'
    BY <1>1, <1>2, <2>1, <2>3, <2>5 DEF TypeOK, rigid
  <2>7. LockHeld'
    <3>1. \A b \in Agent : agent'[b].pc \in WritePc <=> agent[b].pc \in WritePc
      BY <1>1, <2>2, <2>5 DEF WritePc
    <3>. QED
      BY <1>1, <3>1, LockAs, LockAsNext DEF SubInv
  <2>8. NoCounter'
    BY <1>1, <1>3 DEF NoCounter, rigid
  <2>9. (Undisturbed' <=> Undisturbed) /\ (Serial' <=> Serial)
    BY <1>1 DEF Undisturbed, Serial, rigid
  <2>10. ASSUME Serial PROVE CountsTold' /\ TableTold' /\ SerialTold'
    <3>1. /\ agent[t].doc.exc = sub.exc /\ sub' = [sub EXCEPT !.exc = agent[t].doc.exc - 1]
      BY <1>1, <1>3, <2>1, <2>10 DEF Expiring
    <3>2. sub'.there /\ sub'.exc = sub.exc - 1 /\ sub'.nsi = sub.nsi
      BY <1>2, <1>3, <2>10, <3>1 DEF TypeOK, Attributes
    <3>3. \A b \in Agent : agent'[b].pc \notin WritePc
      BY <1>3, <2>2, <2>5, <2>10 DEF WritePc
    <3>4. CountsTold'
      <4>1. \A b \in Agent, k \in Kinds : ~At(b, Writing[k])'
        BY <3>3, KindsAre DEF At, WritePc
      <4>2. Stats(sub)' = Stats(sub)
        BY <3>2 DEF Stats
      <4>. QED
        BY <1>1, <1>3, <2>10, <4>1, <4>2 DEF CountsTold
    <3>5. TableTold'
      BY <1>2, <2>2, <2>5 DEF TableTold
    <3>6. OneActive'
      BY <1>1, <1>2, <1>3, <2>5, <2>10 DEF OneActive, Active
    <3>7. \A b \in Agent : Expiring(agent[b])'
      BY <1>3, <2>1, <2>2, <2>5, <2>10, <3>2 DEF Expiring
    <3>8. CounterTold'
      <4>1. Late /\ ~Late'
        BY <1>1, <1>2, <1>3, <2>2, <2>5, <2>10 DEF Late, LatePc
      <4>2. complete \in Nat /\ start \in Nat /\ sub.exc \in Nat
        BY <1>2, Constants DEF TypeOK, Attributes
      <4>. QED
        BY <1>1, <1>3, <2>3, <2>10, <3>1, <3>2, <4>1, <4>2 DEF CounterTold, rigid
    <3>. QED
      BY <3>4, <3>5, <3>6, <3>7, <3>8 DEF SerialTold
  <2>. QED
    BY <1>3, <2>5, <2>6, <2>7, <2>8, <2>9, <2>10 DEF SubInv
<1>. QED
  BY <1>4, <1>5

LEMMA ExpireUpsertKeeps ==
  ASSUME SubscriptionAssumption, SubInv, NEW t \in Thread, expireUpsert(t)
  PROVE  SubInv'
<1>1. agent[t].pc = "expireUpsert" /\ UNCHANGED <<sub, lock, seen, complete, events, updates, rigid>>
  BY DEF expireUpsert, At, counting, rigid
<1>2. t \in Agent /\ TypeOK
  BY Constants DEF SubInv, TypeOK
<1>3. /\ start # 0 /\ (Undisturbed => Serial) /\ agent[t] \in State /\ agent[t].doc \in Entry
      /\ Serial => sub.there /\ Expiring(agent[t]) /\ \A b \in Agent \ {t} : agent[b].pc = "idle"
      /\ Serial => CounterTold /\ OneActive /\ lock = None /\ seen = Stats(sub)
  BY <1>1, <1>2, ExpiringAlone
<1>4. table' = Doc(agent[t].copy) /\ Become(t, [agent[t] EXCEPT !.pc = "event", !.copy = None])
  BY DEF expireUpsert
<1>5. PICK f \in State : /\ Become(t, f) /\ f.pc = "event" /\ f.doc = agent[t].doc /\ f.left = agent[t].left
                         /\ f.nu = agent[t].nu /\ f.copy = None
  <2>. DEFINE f == [agent[t] EXCEPT !.pc = "event", !.copy = None]
  <2>1. f \in State /\ f.pc = "event" /\ f.doc = agent[t].doc /\ f.left = agent[t].left
        /\ f.nu = agent[t].nu /\ f.copy = None
    BY <1>3 DEF State, Pc
  <2>. QED
    BY <1>4, <2>1
<1>6. MayBecome(t, f)
  BY <1>3, <1>5, Constants DEF MayBecome, Pending, Fit, WritePc
<1>7. /\ agent' \in [Agent -> State] /\ agent'[t] = f /\ \A b \in Agent \ {t} : agent'[b] = agent[b]
      /\ Reads' /\ InBackground' /\ NotSent'
  BY <1>2, <1>5, <1>6, AgentMoves
<1>8. TypeOK'
  <2>1. agent[t].copy \in Attributes
    BY <1>1, <1>2 DEF SubInv, Reads, Fit, TypeOK, State
  <2>2. table' \in Entry
    BY <1>4, <2>1, StatsType
  <2>. QED
    BY <1>1, <1>2, <1>7, <2>2 DEF TypeOK, rigid
<1>9. LockHeld'
  <2>1. \A b \in Agent : agent'[b].pc \in WritePc <=> agent[b].pc \in WritePc
    BY <1>1, <1>5, <1>7 DEF WritePc
  <2>. QED
    BY <1>1, <2>1, LockAs, LockAsNext DEF SubInv
<1>10. NoCounter'
  BY <1>1, <1>3 DEF NoCounter, rigid
<1>11. (Undisturbed' <=> Undisturbed) /\ (Serial' <=> Serial)
  BY <1>1 DEF Undisturbed, Serial, rigid
<1>12. ASSUME Serial PROVE CountsTold' /\ TableTold' /\ SerialTold'
  <2>1. table' = Doc(sub)
    BY <1>1, <1>3, <1>4, <1>12 DEF Expiring
  <2>2. CountsTold'
    <3>1. \A b \in Agent : agent'[b].pc \notin WritePc
      BY <1>3, <1>5, <1>7, <1>12 DEF WritePc
    <3>2. \A b \in Agent, k \in Kinds : ~At(b, Writing[k])'
      BY <3>1, KindsAre DEF At, WritePc
    <3>3. Stats(sub)' = Stats(sub)
      BY <1>1 DEF Stats
    <3>. QED
      BY <1>1, <1>3, <1>12, <3>2, <3>3 DEF CountsTold
  <2>3. TableTold'
    <3>1. Doc(sub)' = Doc(sub)
      BY <1>1 DEF Doc
    <3>. QED
      BY <1>1, <1>3, <1>12, <2>1, <3>1 DEF TableTold, EntryTold
  <2>4. OneActive'
    BY <1>1, <1>2, <1>3, <1>7, <1>12 DEF OneActive, Active
  <2>5. \A b \in Agent : Expiring(agent[b])'
    BY <1>1, <1>3, <1>5, <1>7, <1>12 DEF Expiring
  <2>6. CounterTold'
    BY <1>1, <1>2, <1>3, <1>5, <1>12, CounterSame DEF LatePc
  <2>. QED
    BY <2>2, <2>3, <2>4, <2>5, <2>6 DEF SerialTold
<1>. QED
  BY <1>3, <1>7, <1>8, <1>9, <1>10, <1>11, <1>12 DEF SubInv

-----------------------------------------------------------------------------
(* UPDATE and DELETE of the <sub>.                                         *)

LEMMA RestIsIdle ==
  ASSUME SubscriptionAssumption, AtRest
  PROVE  \A a \in Agent : agent[a].pc = "idle"
BY IdleType DEF AtRest, Resting, Agent

LEMMA RestUnlocked ==
  ASSUME SubscriptionAssumption, SubInv, AtRest
  PROVE  /\ lock = None /\ (Undisturbed => CountsTold /\ EntryTold)
         /\ Undisturbed /\ sub.there => seen = Stats(sub)
<1>1. \A a \in Agent : agent[a].pc \notin WritePc \cup {"expireUpsert"}
  BY RestIsIdle DEF WritePc
<1>2. lock = None
  BY <1>1, LockAs DEF SubInv, TypeOK
<1>. QED
  BY <1>1, <1>2 DEF SubInv, CountsTold, TableTold

\* The agents do not move.
LEMMA SameAgents ==
  ASSUME SubInv, UNCHANGED agent
  PROVE  Reads' /\ InBackground' /\ NotSent' /\ (OneActive' <=> OneActive) /\ (Late' <=> Late)
BY DEF SubInv, Reads, InBackground, NotSent, Active, OneActive, Late

LEMMA UpdateKeeps ==
  ASSUME SubscriptionAssumption, SubInv, update
  PROVE  SubInv'
<1>. DEFINE fresh(nus, u) == u \notin sub.nus \/ u \notin nus
<1>1. /\ Alone /\ sub.there /\ updates < MaxUpdate /\ updates' = updates + 1
      /\ UNCHANGED <<agent, lock, complete, events, rigid>>
  BY DEF update
<1>2. PICK nse \in BOOLEAN \cup {None}, nus \in (SUBSET Nu) \ {{}} :
        LET nsi == updateOfNSEAttribute(sub.nsi, nse)
            new == [sub EXCEPT !.nse = IF nse = None THEN @ ELSE nse, !.nus = nus,
                               !.nsi = IF nsi = None THEN None ELSE [u \in Nu |-> IF fresh(nus, u) THEN Zero ELSE nsi[u]]]
        IN /\ sub' = new /\ table' = Doc(new)
           /\ seen' = [u \in Nu |-> IF nsi = None \/ fresh(nus, u) THEN Zero ELSE seen[u]]
  BY DEF update
<1>. DEFINE nsi == updateOfNSEAttribute(sub.nsi, nse)
            on == IF nse = None THEN sub.nse ELSE nse
            counts == IF nsi = None THEN None ELSE [u \in Nu |-> IF fresh(nus, u) THEN Zero ELSE nsi[u]]
<1>3. /\ sub' = [sub EXCEPT !.nse = on, !.nus = nus, !.nsi = counts] /\ table' = Doc(sub')
      /\ seen' = [u \in Nu |-> IF nsi = None \/ fresh(nus, u) THEN Zero ELSE seen[u]]
  BY <1>2
<1>4. TypeOK /\ Zero \in Stat /\ (nsi = None \/ (nsi = sub.nsi /\ nsi \in [Nu -> Stat]))
  BY StatsType DEF SubInv, TypeOK, Attributes, updateOfNSEAttribute
<1>5. on \in BOOLEAN
  BY <1>4 DEF TypeOK, Attributes
<1>6. counts \in [Nu -> Stat] \cup {None}
  <2>. HIDE DEF nsi, fresh
  <2>. QED
    BY <1>4
<1>. HIDE DEF on, counts
<1>7. sub' \in Attributes /\ sub'.there /\ sub'.exc = sub.exc /\ sub'.nsi = counts
  BY <1>1, <1>3, <1>4, <1>5, <1>6 DEF TypeOK, Attributes
<1>8. TypeOK'
  <2>1. seen' \in [Nu -> Stat]
    <3>. HIDE DEF nsi, fresh
    <3>. QED
      BY <1>3, <1>4 DEF TypeOK
  <2>2. table' \in Entry
    BY <1>3, <1>7, StatsType
  <2>3. updates' \in 0..MaxUpdate
    BY <1>1, <1>4 DEF TypeOK, SubscriptionAssumption
  <2>. QED
    BY <1>1, <1>4, <1>7, <2>1, <2>2, <2>3 DEF TypeOK, rigid
<1>9. LockHeld'
  BY <1>1, LockAs, LockAsNext DEF SubInv
<1>10. Reads' /\ InBackground' /\ NotSent' /\ (OneActive' <=> OneActive) /\ (Late' <=> Late)
  BY <1>1, SameAgents
<1>11. NoCounter'
  BY <1>1, <1>3, <1>7 DEF SubInv, NoCounter, NoExc, Doc, rigid
<1>12. (Undisturbed' => Undisturbed /\ AtRest) /\ (Serial' <=> Serial)
  BY <1>1, <1>4 DEF Undisturbed, Serial, Alone, TypeOK, rigid
<1>13. ASSUME Undisturbed' PROVE CountsTold' /\ TableTold'
  <2>1. AtRest /\ lock = None /\ seen = Stats(sub)
    BY <1>1, <1>12, <1>13, RestUnlocked
  <2>2. \A a \in Agent, k \in Kinds : ~At(a, Writing[k])'
    <3>1. \A a \in Agent : agent'[a].pc = "idle"
      BY <1>1, <2>1, RestIsIdle
    <3>. QED
      BY <3>1, KindsAre DEF At
  <2>3. seen' = Stats(sub')
    <3>1. CASE nsi = None
      BY <1>3, <1>7, <3>1 DEF Stats, NoStats, counts
    <3>2. CASE nsi # None
      <4>1. seen = sub.nsi /\ nsi = sub.nsi
        BY <1>4, <2>1, <3>2 DEF Stats
      <4>2. seen' = counts
        BY <1>3, <3>2, <4>1 DEF counts
      <4>3. counts # None
        BY <3>2, <1>8, <4>2, Constants DEF TypeOK
      <4>. QED
        BY <1>7, <4>2, <4>3 DEF Stats
    <3>. QED
      BY <3>1, <3>2
  <2>4. Stats(sub)' = Stats(sub') /\ Doc(sub)' = Doc(sub')
    BY DEF Stats, Doc
  <2>5. CountsTold'
    BY <1>1, <2>2, <2>3, <2>4 DEF CountsTold
  <2>6. TableTold'
    BY <1>3, <1>7, <2>4 DEF TableTold, EntryTold
  <2>. QED
    BY <2>5, <2>6
<1>14. ASSUME Serial PROVE SerialTold'
  <2>1. \A a \in Agent : Expiring(agent[a])'
    <3>1. \A a \in Agent : agent'[a].pc = "idle"
      BY <1>1, <1>14, RestIsIdle DEF Alone, Serial
    <3>. QED
      BY <3>1 DEF Expiring
  <2>2. CounterTold'
    BY <1>1, <1>7, <1>10, <1>14 DEF SubInv, SerialTold, CounterTold, rigid
  <2>. QED
    BY <1>10, <1>14, <2>1, <2>2 DEF SubInv, SerialTold
<1>. QED
  BY <1>8, <1>9, <1>10, <1>11, <1>12, <1>13, <1>14 DEF SubInv

LEMMA DeactivateKeeps ==
  ASSUME SubscriptionAssumption, SubInv, deactivate
  PROVE  SubInv'
<1>1. /\ Alone /\ sub' = [sub EXCEPT !.there = FALSE] /\ table' = None
      /\ UNCHANGED <<agent, lock, seen, complete, events, updates, rigid>>
  BY DEF deactivate, deleteSub, counting, rigid
<1>2. TypeOK /\ sub' \in Attributes /\ ~sub'.there /\ sub'.exc = sub.exc
  BY <1>1 DEF SubInv, TypeOK, Attributes
<1>3. TypeOK'
  BY <1>1, <1>2 DEF TypeOK, rigid
<1>4. LockHeld'
  BY <1>1, LockAs, LockAsNext DEF SubInv
<1>5. Reads' /\ InBackground' /\ NotSent' /\ (OneActive' <=> OneActive) /\ (Late' <=> Late)
  BY <1>1, SameAgents
<1>6. NoCounter'
  BY <1>1, <1>2 DEF SubInv, NoCounter, NoExc, rigid
<1>7. (Undisturbed' <=> Undisturbed) /\ (Serial' <=> Serial)
  BY <1>1 DEF Undisturbed, Serial, rigid
<1>8. CountsTold' /\ TableTold'
  BY <1>1, <1>2 DEF CountsTold, TableTold, EntryTold
<1>9. ASSUME Serial PROVE SerialTold'
  <2>1. \A a \in Agent : Expiring(agent[a])'
    <3>1. \A a \in Agent : agent'[a].pc = "idle"
      BY <1>1, <1>9, RestIsIdle DEF Alone, Serial
    <3>. QED
      BY <3>1 DEF Expiring
  <2>2. CounterTold'
    BY <1>1, <1>2, <1>9 DEF SubInv, SerialTold, CounterTold, rigid
  <2>. QED
    BY <1>5, <1>9, <2>1, <2>2 DEF SubInv, SerialTold
<1>. QED
  BY <1>3, <1>4, <1>5, <1>6, <1>7, <1>8, <1>9 DEF SubInv

-----------------------------------------------------------------------------
(* The theorems.                                                           *)

LEMMA SubInit ==
  ASSUME SubscriptionAssumption, Init
  PROVE  SubInv
<1>1. PICK nse \in BOOLEAN : sub = [there |-> TRUE, exc |-> start, nse |-> nse, nus |-> Nu, nsi |-> None]
  BY DEF Init
<1>2. /\ start \in Exc /\ start \in Nat /\ table = Doc(sub) /\ lock = None
      /\ agent = [a \in Agent |-> Idle] /\ seen = NoStats /\ complete = 0 /\ events = 0 /\ updates = 0
      /\ overlap \in BOOLEAN /\ asyncSubscriptionNotifications \in BOOLEAN
  BY Constants DEF Init
<1>3. sub \in Attributes /\ sub.there /\ sub.exc = start /\ sub.nsi = None
  BY <1>1, <1>2 DEF Attributes
<1>4. TypeOK
  BY <1>2, <1>3, IdleType, StatsType DEF TypeOK, SubscriptionAssumption
<1>5. \A a \in Agent : agent[a] = Idle /\ agent[a].pc = "idle"
  BY <1>2, IdleType
<1>6. \A a \in Agent : agent[a].pc \notin WritePc
  BY <1>5 DEF WritePc
<1>7. LockHeld
  BY <1>2, <1>6, LockAs, Constants
<1>8. Reads /\ InBackground
  <2>1. \A j \in Thread \X Nu : j \in Agent
    BY DEF Agent
  <2>2. InBackground
    BY <1>5, <2>1 DEF InBackground
  <2>3. Reads
    BY <1>5, IdleType DEF Reads, Fit, WritePc
  <2>. QED
    BY <2>2, <2>3
<1>9. NotSent
  BY <1>5, Constants DEF NotSent, Active
<1>10. NoCounter
  BY <1>2, <1>3, <1>5, IdleType DEF NoCounter, NoExc, Doc
<1>11. CountsTold /\ TableTold
  <2>1. \A a \in Agent, k \in Kinds : ~At(a, Writing[k])
    BY <1>6, AtWriting
  <2>. QED
    BY <1>2, <1>3, <2>1 DEF CountsTold, TableTold, EntryTold, Stats
<1>12. SerialTold
  <2>1. ~Late
    BY <1>5 DEF Late, LatePc
  <2>2. OneActive /\ \A a \in Agent : Expiring(agent[a])
    BY <1>3, <1>5 DEF OneActive, Active, Expiring
  <2>3. CounterTold
    BY <1>2, <1>3, <2>1 DEF CounterTold
  <2>. QED
    BY <2>2, <2>3 DEF SerialTold
<1>. QED
  BY <1>4, <1>7, <1>8, <1>9, <1>10, <1>11, <1>12 DEF SubInv

LEMMA SubStep ==
  ASSUME SubscriptionAssumption, SubInv, [Next]_subVars
  PROVE  SubInv'
<1>1. ASSUME NEW t \in Thread,
             checkSubscriptions(t) \/ sender(t) \/ Notify(t) \/ AllSent(t) \/ expire(t) \/ expireWrite(t) \/ expireUpsert(t)
      PROVE  SubInv'
  BY <1>1, CheckKeeps, SenderKeeps, NotifyKeeps, AllSentKeeps, ExpireKeeps, ExpireWriteKeeps, ExpireUpsertKeeps
<1>2. ASSUME NEW j \in Thread \X Nu, _sendNotification(j) PROVE SubInv'
  BY <1>2, SendKeeps
<1>3. ASSUME NEW a \in Agent, beginCount(a) \/ endCount(a) PROVE SubInv'
  BY <1>3, BeginCountKeeps, EndCountKeeps
<1>4. CASE update \/ deactivate
  BY <1>4, UpdateKeeps, DeactivateKeeps
<1>5. CASE UNCHANGED subVars
  BY SMTT(30), <1>5 DEF subVars, SubInv, TypeOK, LockHeld, At, Reads, InBackground, NotSent, Active, NoCounter, Undisturbed, Serial,
              CountsTold, TableTold, EntryTold, SerialTold, OneActive, Expiring, CounterTold, Late, Stats, Doc, Counted,
              validateAndConstructNotificationStatsInfo
<1>. QED
  BY <1>1, <1>2, <1>3, <1>4, <1>5 DEF Next

LEMMA Invariant == ASSUME SubscriptionAssumption PROVE Spec => []SubInv
<1>1. Init => SubInv
  BY SubInit
<1>2. SubInv /\ [Next]_subVars => SubInv'
  BY SubStep
<1>. QED
  BY <1>1, <1>2, PTL DEF Spec

\* The variables have their types, and the lock is held by the one agent that counts (beginCount, endCount).
THEOREM TypeCorrect == ASSUME SubscriptionAssumption PROVE Spec => [](TypeOK /\ LockHeld)
<1>1. SubInv => TypeOK /\ LockHeld
  BY DEF SubInv
<1>. QED
  BY <1>1, Invariant, PTL

\* When nobody works on the subscription its statistics are what was sent and answered: no count is lost by
\* threads and background notifications that read and write the <sub> at the same time (Counted within the lock).
THEOREM StatsAlwaysExact == ASSUME SubscriptionAssumption PROVE Spec => []StatsExact
<1>1. SubInv => StatsExact
  <2>1. SUFFICES ASSUME SubInv, AtRest, Undisturbed, sub.there, NEW u \in sub.nus
                 PROVE  seen[u] = IF sub.nsi = None THEN Zero ELSE sub.nsi[u]
    BY DEF StatsExact
  <2>2. u \in Nu
    BY <2>1 DEF SubInv, TypeOK, Attributes
  <2>. QED
    BY <2>1, <2>2, RestUnlocked DEF Stats, NoStats
<1>. QED
  BY <1>1, Invariant, PTL

\* Between events the table has the entry of the <sub>, and none when it is gone; and the expiration counter is
\* what is left of it, so that the <sub> does not survive its last event (expire, expireWrite, expireUpsert).
THEOREM ExpiresAlwaysExactly == ASSUME SubscriptionAssumption PROVE Spec => []ExpiresExactly
<1>1. SubInv => ExpiresExactly
  <2>1. SUFFICES ASSUME SubInv, AtRest PROVE ExpiresExactly
    BY DEF ExpiresExactly
  <2>2. Undisturbed => EntryTold
    BY <2>1, RestUnlocked
  <2>3. ~Late
    BY <2>1, RestIsIdle DEF Late, LatePc
  <2>4. complete \in Nat /\ start \in Nat /\ sub.exc \in Nat
    BY <2>1, Constants DEF SubInv, TypeOK, Attributes
  <2>5. start # 0 /\ Serial => complete <= start /\ (sub.there => sub.exc = start - complete /\ sub.exc > 0)
    BY <2>1, <2>3, <2>4 DEF SubInv, SerialTold, CounterTold
  <2>. QED
    BY <2>2, <2>5 DEF ExpiresExactly, EntryTold
<1>. QED
  BY <1>1, Invariant, PTL

(***************************************************************************)
(* Groups: the inductive invariant.                                        *)
(***************************************************************************)
Listable == Resource \cup Group

\* The number of members is right, in every copy of a group as well.
GroupCounted(c) == c.cnm = Cardinality(c.mid)
GroupCounts ==
  /\ \A g \in Group : GroupCounted(group[g])
  /\ groupUpdate.pc = "write" => GroupCounted(groupUpdate.copy)
  /\ \A r \in Listable : job[r].pc = "write" =>
       \A g \in job[r].todo : r \in job[r].copy[g].mid /\ GroupCounted(job[r].copy[g])

\* A group that is a member has no sub-groups, in any copy.
Flat ==
  /\ \A g \in Sub : group[g].mid \cap Sub = {}
  /\ groupUpdate.pc # "none" /\ groupUpdate.group \in Sub => groupUpdate.copy.mid \cap Sub = {}
  /\ \A r \in Listable : job[r].pc = "write" => \A g \in job[r].todo \cap Sub : job[r].copy[g].mid \cap Sub = {}

\* Each deletion has its job.
Jobs == \A r \in Listable : r \in there <=> job[r].pc = "none"

\* One after the other.
OneWrites ==
  /\ groupUpdate.pc # "none" => fopt.pc = "none"
  /\ \A r \in Listable : job[r].pc = "write" =>
       groupUpdate.pc = "none" /\ fopt.pc = "none" /\ \A s \in Listable : job[s].pc = "write" => s = r

\* The job that writes has the groups as they are.
CopiesTrue == \A r \in Listable : job[r].pc = "write" => \A g \in job[r].todo : job[r].copy[g] = group[g]

\* A member that does not exist has a job that will take it out, or one that has failed.
Missed(g, m) ==
  m \in there \/ job[m].pc \in {"search", "died"} \/ (job[m].pc = "write" /\ g \in job[m].todo)
Covered == \A g \in Group \cap there : \A m \in group[g].mid \ Sub : Missed(g, m)

\* The members of an update that has been checked exist.
Checked == groupUpdate.pc = "write" => groupUpdate.copy.mid \subseteq there \cup Sub

\* A fan-out has visited what is not left to visit, and its sub-group has none.
Visits ==
  fopt.pc = "visit" =>
    /\ ~overlapGroup /\ fopt.todo # <<>>
    /\ Len(fopt.todo) = 2 => fopt.todo[1] \cap Sub = {}
    /\ fopt.results + Cardinality(fopt.todo[Len(fopt.todo)]) = group[fopt.group].cnm

GroupInv ==
  /\ Groups!TypeOK /\ GroupCounts /\ Flat /\ Jobs /\ Visits
  /\ ~overlapGroup => OneWrites /\ CopiesTrue /\ Covered /\ Checked

(* Members and their number.                                               *)

\* Finite sets, as the module has them.
LEMMA CountAs ==
  ASSUME NEW S
  PROVE  Groups!Cardinality(S) = Cardinality(S) /\ Groups!IsFiniteSet(S) = IsFiniteSet(S)
<1>1. Groups!Cardinality(S) = Cardinality(S)
  BY Zenon DEF Groups!Cardinality, Cardinality
<1>2. Groups!IsFiniteSet(S) = IsFiniteSet(S)
  BY Zenon DEF Groups!IsFiniteSet, IsFiniteSet
<1> QED BY <1>1, <1>2

\* The members of a group are finitely many.
LEMMA Finite ==
  ASSUME Groups!GroupAssumption, NEW m \in SUBSET (Resource \cup Sub)
  PROVE  IsFiniteSet(m) /\ Cardinality(m) \in Nat
<1>1. IsFiniteSet(Resource \cup Group)
  BY FS_Union, CountAs DEF Groups!GroupAssumption
<1>2. m \subseteq Resource \cup Group
  BY DEF Groups!GroupAssumption
<1>3. IsFiniteSet(m)
  BY <1>1, <1>2, FS_Subset
<1> QED BY <1>3, FS_CardinalityType

LEMMA CopyType ==
  ASSUME NEW m \in SUBSET (Resource \cup Sub), NEW n \in Nat
  PROVE  /\ [mid |-> m, cnm |-> n] \in Groups!Copy
         /\ [mid |-> m, cnm |-> n].mid = m /\ [mid |-> m, cnm |-> n].cnm = n
BY DEF Groups!Copy

LEMMA NoCopyType == Groups!NoCopy \in Groups!Copy
BY DEF Groups!NoCopy, Groups!Copy

LEMMA NoJobType ==
  ASSUME NEW pc \in {"none", "search", "done", "died"}
  PROVE  /\ Groups!NoJob \in Groups!Job /\ [Groups!NoJob EXCEPT !.pc = pc] \in Groups!Job
         /\ Groups!NoJob.pc = "none" /\ [Groups!NoJob EXCEPT !.pc = pc].pc = pc
BY NoCopyType DEF Groups!NoJob, Groups!Job

LEMMA NoRequestType ==
  ASSUME Groups!GroupAssumption
  PROVE  /\ Groups!NoRequest \in Groups!Update /\ Groups!NoRequest.pc = "none"
         /\ Groups!NoFopt \in Groups!FanOut /\ Groups!NoFopt.pc = "none" /\ Groups!NoFopt.todo = <<>>
<1>1. (CHOOSE g \in Group : TRUE) \in Group
  BY DEF Groups!GroupAssumption
<1>2. <<>> \in Seq(SUBSET (Resource \cup Sub))
  OBVIOUS
<1> QED BY <1>1, <1>2, NoCopyType DEF Groups!NoRequest, Groups!NoFopt, Groups!Update, Groups!FanOut

\* A member less.
LEMMA RemoveMember ==
  ASSUME Groups!GroupAssumption, NEW c \in Groups!Copy, GroupCounted(c), NEW r \in c.mid
  PROVE  /\ Groups!removeMember(c, r) \in Groups!Copy /\ GroupCounted(Groups!removeMember(c, r))
         /\ Groups!removeMember(c, r).mid = c.mid \ {r}
<1>1. c.mid \in SUBSET (Resource \cup Sub) /\ c.cnm \in Nat
  BY DEF Groups!Copy
<1>2. IsFiniteSet(c.mid) /\ IsFiniteSet(c.mid \ {r})
  BY <1>1, Finite, FS_RemoveElement
<1>3. Cardinality(c.mid \ {r}) = c.cnm - 1 /\ Cardinality(c.mid \ {r}) \in Nat
  BY <1>2, FS_RemoveElement, FS_CardinalityType DEF GroupCounted
<1> QED BY <1>1, <1>3 DEF Groups!removeMember, Groups!Copy, GroupCounted

\* Deleting a resource keeps its job, and nothing else is known of what is deleted.
LEMMA JobsApart ==
  ASSUME Groups!TypeOK, NEW r \in Listable, NEW j \in Groups!Job, job' = [job EXCEPT ![r] = j]
  PROVE  /\ job' \in [Listable -> Groups!Job] /\ job'[r] = j
         /\ \A s \in Listable \ {r} : job'[s] = job[s]
BY DEF Groups!TypeOK, Listable

(* Deletion, and its job.                                                  *)

LEMMA GroupDeleteKeeps ==
  ASSUME Groups!GroupAssumption, GroupInv, NEW r \in Listable, Groups!deleteResource(r)
  PROVE  GroupInv'
<1>1. /\ r \in there /\ Groups!Alone /\ there' = there \ {r}
      /\ job' = [job EXCEPT ![r].pc = "search"]
      /\ UNCHANGED <<group, groupUpdate, fopt, groupUpdates, overlapGroup>>
  BY DEF Groups!deleteResource
<1>2. Groups!TypeOK /\ job[r] \in Groups!Job /\ job[r].pc = "none"
  BY <1>1 DEF GroupInv, Jobs, Groups!TypeOK, Listable
<1>3. PICK j \in Groups!Job : job' = [job EXCEPT ![r] = j] /\ j.pc = "search"
  <2>1. [job[r] EXCEPT !.pc = "search"] \in Groups!Job /\ [job[r] EXCEPT !.pc = "search"].pc = "search"
    BY <1>2 DEF Groups!Job
  <2>2. job' = [job EXCEPT ![r] = [job[r] EXCEPT !.pc = "search"]]
    BY <1>1
  <2> QED BY <2>1, <2>2
<1>4. /\ job' \in [Listable -> Groups!Job] /\ job'[r].pc = "search"
      /\ \A s \in Listable \ {r} : job'[s] = job[s]
  BY <1>2, <1>3, JobsApart
<1>5. Groups!TypeOK'
  BY <1>1, <1>2, <1>4 DEF Groups!TypeOK, Listable
<1>6. GroupCounts' /\ Flat'
  BY <1>1, <1>4 DEF GroupInv, GroupCounts, GroupCounted, Flat
<1>7. Jobs'
  BY <1>1, <1>4 DEF GroupInv, Jobs
<1>8. Visits'
  BY <1>1 DEF GroupInv, Visits
<1>9. ASSUME ~overlapGroup PROVE OneWrites' /\ CopiesTrue' /\ Covered' /\ Checked'
  <2>1. OneWrites' /\ CopiesTrue'
    BY <1>1, <1>4, <1>9 DEF GroupInv, OneWrites, CopiesTrue
  <2>2. Covered'
    <3> SUFFICES ASSUME NEW g \in Group \cap there', NEW m \in group[g].mid \ Sub PROVE Missed(g, m)'
      BY <1>1 DEF Covered
    <3>1. m \in Listable /\ Missed(g, m)
      BY <1>1, <1>2, <1>9 DEF GroupInv, Covered, Groups!TypeOK, Groups!Copy, Listable
    <3> QED BY <1>1, <1>4, <3>1 DEF Missed
  <2>3. Checked'
    BY <1>1, <1>9 DEF Groups!Alone, Checked
  <2> QED BY <2>1, <2>2, <2>3
<1> QED BY <1>1, <1>5, <1>6, <1>7, <1>8, <1>9 DEF GroupInv

LEMMA SearchKeeps ==
  ASSUME Groups!GroupAssumption, GroupInv, NEW r \in Listable, Groups!search(r)
  PROVE  GroupInv'
<1> DEFINE found == {g \in Group \cap there : r \in group[g].mid /\ r \notin Sub}
            j == [pc |-> IF found = {} THEN "done" ELSE "write", todo |-> found,
                  copy |-> [g \in Group |-> IF g \in found THEN group[g] ELSE Groups!NoCopy]]
<1>1. /\ job[r].pc = "search" /\ Groups!Alone /\ job' = [job EXCEPT ![r] = j]
      /\ UNCHANGED <<there, group, groupUpdate, fopt, groupUpdates, overlapGroup>>
  BY DEF Groups!search
<1>2. Groups!TypeOK /\ group \in [Group -> Groups!Copy]
  BY DEF GroupInv, Groups!TypeOK
<1>3. /\ j \in Groups!Job /\ j.pc \in {"done", "write"} /\ j.todo = found
      /\ \A g \in found : j.copy[g] = group[g]
      /\ j.pc # "write" => found = {}
  <2>1. [g \in Group |-> IF g \in found THEN group[g] ELSE Groups!NoCopy] \in [Group -> Groups!Copy]
    BY <1>2, NoCopyType
  <2> QED BY <2>1 DEF Groups!Job
<1> HIDE DEF j
<1>4. /\ job' \in [Listable -> Groups!Job] /\ job'[r] = j
      /\ \A s \in Listable \ {r} : job'[s] = job[s]
  BY <1>1, <1>2, <1>3, JobsApart
<1>5. Groups!TypeOK'
  BY <1>1, <1>2, <1>4 DEF Groups!TypeOK, Listable
<1>6. GroupCounts'
  <2> SUFFICES ASSUME NEW s \in Listable, job'[s].pc = "write", NEW g \in job'[s].todo
               PROVE  s \in job'[s].copy[g].mid /\ GroupCounted(job'[s].copy[g])
    BY <1>1 DEF GroupInv, GroupCounts, GroupCounted
  <2> QED BY <1>3, <1>4 DEF GroupInv, GroupCounts
<1>7. Flat'
  <2> SUFFICES ASSUME NEW s \in Listable, job'[s].pc = "write", NEW g \in job'[s].todo \cap Sub
               PROVE  job'[s].copy[g].mid \cap Sub = {}
    BY <1>1 DEF GroupInv, Flat
  <2> QED BY <1>3, <1>4 DEF GroupInv, Flat
<1>8. Jobs'
  BY <1>1, <1>3, <1>4 DEF GroupInv, Jobs
<1>9. Visits'
  BY <1>1 DEF GroupInv, Visits
<1>10. ASSUME ~overlapGroup PROVE OneWrites' /\ CopiesTrue' /\ Covered' /\ Checked'
  <2>1. groupUpdate.pc = "none" /\ fopt.pc # "visit" /\ \A s \in Listable : job[s].pc # "write"
    BY <1>1, <1>10 DEF Groups!Alone, Listable
  <2>2. fopt.pc = "none"
    BY <1>2, <2>1 DEF Groups!TypeOK, Groups!FanOut
  <2>3. OneWrites'
    BY <1>1, <1>4, <2>1, <2>2 DEF OneWrites
  <2>4. CopiesTrue'
    BY <1>1, <1>3, <1>4, <2>1 DEF CopiesTrue
  <2>5. Covered'
    <3> SUFFICES ASSUME NEW g \in Group \cap there, NEW m \in group[g].mid \ Sub PROVE Missed(g, m)'
      BY <1>1 DEF Covered
    <3>1. m \in Listable /\ Missed(g, m)
      BY <1>2, <1>10 DEF GroupInv, Covered, Groups!TypeOK, Groups!Copy, Listable
    <3>2. CASE m = r
      <4>1. g \in found
        BY <3>2
      <4>2. job'[m].pc = "write" /\ g \in job'[m].todo
        BY <1>3, <1>4, <3>2, <4>1
      <4> QED BY <4>2 DEF Missed
    <3> QED BY <1>1, <1>4, <3>1, <3>2 DEF Missed
  <2>6. Checked'
    BY <1>1, <2>1 DEF Checked
  <2> QED BY <2>3, <2>4, <2>5, <2>6
<1> QED BY <1>1, <1>5, <1>6, <1>7, <1>8, <1>9, <1>10 DEF GroupInv

LEMMA WriteKeeps ==
  ASSUME Groups!GroupAssumption, GroupInv, NEW r \in Listable, Groups!writeGroup(r)
  PROVE  GroupInv'
<1>1. /\ job[r].pc = "write" /\ UNCHANGED <<there, groupUpdate, fopt, groupUpdates, overlapGroup>>
      /\ Groups!TypeOK /\ job[r] \in Groups!Job /\ group \in [Group -> Groups!Copy]
  BY DEF Groups!writeGroup, GroupInv, Groups!TypeOK, Listable
<1>2. PICK g \in job[r].todo :
        IF g \in there
        THEN /\ group' = [group EXCEPT ![g] = Groups!removeMember(job[r].copy[g], r)]
             /\ job' = IF job[r].todo = {g} THEN Groups!End(r, "done")
                       ELSE [job EXCEPT ![r] = [pc |-> "write", todo |-> job[r].todo \ {g},
                                                copy |-> [job[r].copy EXCEPT ![g] = Groups!NoCopy]]]
        ELSE job' = Groups!End(r, "died") /\ UNCHANGED group
  BY DEF Groups!writeGroup
<1>3. /\ g \in Group /\ job[r].copy[g] \in Groups!Copy /\ r \in job[r].copy[g].mid /\ GroupCounted(job[r].copy[g])
      /\ g \in Sub => job[r].copy[g].mid \cap Sub = {}
  BY <1>1, <1>2 DEF GroupInv, GroupCounts, Flat, Groups!Job
<1>4. PICK c \in Groups!Copy : /\ GroupCounted(c) /\ (g \in Sub => c.mid \cap Sub = {})
                               /\ g \in there => c.mid = job[r].copy[g].mid \ {r}
                               /\ g \notin there => c = group[g]
                               /\ group' = [group EXCEPT ![g] = c]
  <2>1. CASE g \in there
    BY <1>2, <1>3, <2>1, RemoveMember
  <2>2. CASE g \notin there
    BY <1>1, <1>2, <1>3, <2>2 DEF GroupInv, GroupCounts, Flat
  <2> QED BY <2>1, <2>2
<1>5. group' \in [Group -> Groups!Copy] /\ group'[g] = c /\ \A h \in Group \ {g} : group'[h] = group[h]
  BY <1>1, <1>3, <1>4
<1>6. PICK j \in Groups!Job : /\ job' = [job EXCEPT ![r] = j]
                              /\ j.pc \in {"done", "died", "write"}
                              /\ j.pc = "done" => job[r].todo = {g}
                              /\ j.pc = "write" => /\ j.todo = job[r].todo \ {g}
                                                   /\ \A h \in j.todo : j.copy[h] = job[r].copy[h]
  <2>1. CASE g \notin there
    BY <1>2, <2>1, NoJobType DEF Groups!End
  <2>2. CASE g \in there /\ job[r].todo = {g}
    BY <1>2, <2>2, NoJobType DEF Groups!End
  <2>3. CASE g \in there /\ job[r].todo # {g}
    <3> DEFINE k == [pc |-> "write", todo |-> job[r].todo \ {g}, copy |-> [job[r].copy EXCEPT ![g] = Groups!NoCopy]]
    <3>1. job' = [job EXCEPT ![r] = k]
      BY <1>2, <2>3
    <3>2. /\ job[r].todo \ {g} \in SUBSET Group
          /\ [job[r].copy EXCEPT ![g] = Groups!NoCopy] \in [Group -> Groups!Copy]
      BY <1>1, <1>3, NoCopyType DEF Groups!Job
    <3>3. k \in Groups!Job /\ k.pc = "write" /\ k.todo = job[r].todo \ {g}
      BY <3>2 DEF Groups!Job
    <3>4. \A h \in k.todo : k.copy[h] = job[r].copy[h]
      BY <1>1 DEF Groups!Job
    <3> QED BY <3>1, <3>3, <3>4
  <2> QED BY <2>1, <2>2, <2>3
<1>7. /\ job' \in [Listable -> Groups!Job] /\ job'[r] = j
      /\ \A s \in Listable \ {r} : job'[s] = job[s]
  BY <1>1, <1>6, JobsApart
<1>8. Groups!TypeOK'
  BY <1>1, <1>5, <1>7 DEF Groups!TypeOK, Listable
<1>9. GroupCounts'
  <2>1. \A h \in Group : GroupCounted(group'[h])
    BY <1>4, <1>5 DEF GroupInv, GroupCounts
  <2>2. \A s \in Listable : job'[s].pc = "write" =>
          \A h \in job'[s].todo : s \in job'[s].copy[h].mid /\ GroupCounted(job'[s].copy[h])
    <3> SUFFICES ASSUME NEW s \in Listable, job'[s].pc = "write", NEW h \in job'[s].todo
                 PROVE  s \in job'[s].copy[h].mid /\ GroupCounted(job'[s].copy[h])
      OBVIOUS
    <3>1. job[s].pc = "write" /\ h \in job[s].todo /\ job'[s].copy[h] = job[s].copy[h]
      BY <1>1, <1>6, <1>7
    <3> QED BY <3>1 DEF GroupInv, GroupCounts
  <2> QED BY <1>1, <2>1, <2>2 DEF GroupInv, GroupCounts, GroupCounted
<1>10. Flat'
  <2>1. \A h \in Sub : group'[h].mid \cap Sub = {}
    BY <1>4, <1>5 DEF GroupInv, Flat, Groups!GroupAssumption
  <2>2. \A s \in Listable : job'[s].pc = "write" => \A h \in job'[s].todo \cap Sub : job'[s].copy[h].mid \cap Sub = {}
    <3> SUFFICES ASSUME NEW s \in Listable, job'[s].pc = "write", NEW h \in job'[s].todo \cap Sub
                 PROVE  job'[s].copy[h].mid \cap Sub = {}
      OBVIOUS
    <3>1. job[s].pc = "write" /\ h \in job[s].todo \cap Sub /\ job'[s].copy[h] = job[s].copy[h]
      BY <1>1, <1>6, <1>7
    <3> QED BY <3>1 DEF GroupInv, Flat
  <2> QED BY <1>1, <2>1, <2>2 DEF GroupInv, Flat
<1>11. Jobs'
  BY <1>1, <1>6, <1>7 DEF GroupInv, Jobs
<1>12. Visits'
  BY <1>1 DEF GroupInv, Visits, OneWrites, Groups!TypeOK
<1>13. ASSUME ~overlapGroup PROVE OneWrites' /\ CopiesTrue' /\ Covered' /\ Checked'
  <2>1. \A s \in Listable : job'[s].pc = "write" => s = r
    BY <1>1, <1>7, <1>13 DEF GroupInv, OneWrites
  <2>2. OneWrites'
    BY <1>1, <1>13, <2>1 DEF GroupInv, OneWrites
  <2>3. CopiesTrue'
    <3> SUFFICES ASSUME NEW s \in Listable, job'[s].pc = "write", NEW h \in job'[s].todo
                 PROVE  job'[s].copy[h] = group'[h]
      BY DEF CopiesTrue
    <3>1. s = r /\ h \in job[r].todo /\ h # g /\ job'[r].copy[h] = job[r].copy[h]
      BY <1>6, <1>7, <2>1
    <3>2. h \in Group /\ job[r].copy[h] = group[h]
      BY <1>1, <1>13, <3>1 DEF GroupInv, CopiesTrue, Groups!Job
    <3> QED BY <1>5, <3>1, <3>2
  <2>4. group'[g].mid \subseteq group[g].mid /\ (g \in there => r \notin group'[g].mid)
    <3>1. job[r].copy[g] = group[g]
      BY <1>1, <1>13 DEF GroupInv, CopiesTrue
    <3> QED BY <1>4, <1>5, <3>1
  <2>5. Covered'
    <3> SUFFICES ASSUME NEW h \in Group \cap there, NEW m \in group'[h].mid \ Sub PROVE Missed(h, m)'
      BY <1>1 DEF Covered
    <3>1. m \in group[h].mid \ Sub
      BY <1>5, <2>4
    <3>2. m \in Listable /\ Missed(h, m)
      BY <1>1, <1>13, <3>1 DEF GroupInv, Covered, Groups!TypeOK, Groups!Copy, Listable
    <3>3. CASE m = r
      <4>1. h # g
        BY <2>4, <3>3
      <4>2. job[r].pc = "write" /\ r \notin there
        BY <1>1 DEF GroupInv, Jobs
      <4>3. h \in job[r].todo
        BY <3>2, <3>3, <4>2 DEF Missed
      <4>4. job'[r].pc = "died" \/ (job'[r].pc = "write" /\ h \in job'[r].todo)
        BY <1>6, <1>7, <4>1, <4>3
      <4> QED BY <3>3, <4>4 DEF Missed
    <3> QED BY <1>1, <1>7, <3>2, <3>3 DEF Missed
  <2>6. Checked'
    BY <1>1, <1>13 DEF GroupInv, Checked
  <2> QED BY <2>2, <2>3, <2>5, <2>6
<1> QED BY <1>1, <1>8, <1>9, <1>10, <1>11, <1>12, <1>13 DEF GroupInv

(* Update of a group.                                                      *)

LEMMA GroupUpdateKeeps ==
  ASSUME Groups!GroupAssumption, GroupInv, NEW g \in Group, Groups!update(g)
  PROVE  GroupInv'
<1>1. /\ groupUpdate.pc = "none" /\ Groups!Alone /\ groupUpdates < MaxUpdate /\ groupUpdates' = groupUpdates + 1
      /\ UNCHANGED <<there, group, job, fopt, overlapGroup>>
      /\ Groups!TypeOK /\ group[g] \in Groups!Copy
  BY DEF Groups!update, GroupInv, Groups!TypeOK
<1>2. PICK mid \in (SUBSET (Resource \cup (Sub \ {g}))) \cup {group[g].mid} :
        /\ g \in Sub => mid \cap Sub = {}
        /\ groupUpdate' = [pc |-> "check", group |-> g, copy |-> [mid |-> mid, cnm |-> group[g].cnm]]
  BY DEF Groups!update
<1>3. mid \in SUBSET (Resource \cup Sub) /\ group[g].cnm \in Nat
  BY <1>1, <1>2 DEF Groups!Copy
<1>4. /\ groupUpdate' \in Groups!Update /\ groupUpdate'.pc = "check" /\ groupUpdate'.group = g
      /\ groupUpdate'.copy.mid = mid
  BY <1>2, <1>3, CopyType DEF Groups!Update
<1>5. Groups!TypeOK'
  BY <1>1, <1>4 DEF Groups!TypeOK, Groups!GroupAssumption
<1>6. GroupCounts' /\ Flat' /\ Jobs' /\ Visits'
  BY <1>1, <1>2, <1>4 DEF GroupInv, GroupCounts, GroupCounted, Flat, Jobs, Visits
<1>7. ASSUME ~overlapGroup PROVE OneWrites' /\ CopiesTrue' /\ Covered' /\ Checked'
  <2>1. fopt.pc = "none" /\ \A s \in Listable : job[s].pc # "write"
    BY <1>1, <1>7 DEF Groups!Alone, Listable, Groups!TypeOK, Groups!FanOut
  <2> QED BY <1>1, <1>4, <1>7, <2>1 DEF GroupInv, OneWrites, CopiesTrue, Covered, Missed, Checked
<1> QED BY <1>1, <1>5, <1>6, <1>7 DEF GroupInv

\* The update ends, or never was.
LEMMA NoUpdate ==
  ASSUME Groups!GroupAssumption, GroupInv, groupUpdate' = Groups!NoRequest,
         UNCHANGED <<there, group, job, fopt, groupUpdates, overlapGroup>>
  PROVE  GroupInv'
<1>1. groupUpdate' \in Groups!Update /\ groupUpdate'.pc = "none"
  BY NoRequestType
<1>2. Groups!TypeOK' /\ GroupCounts' /\ Flat' /\ Jobs' /\ Visits'
  BY <1>1 DEF GroupInv, Groups!TypeOK, GroupCounts, GroupCounted, Flat, Jobs, Visits
<1>3. ASSUME ~overlapGroup PROVE OneWrites' /\ CopiesTrue' /\ Covered' /\ Checked'
  BY <1>1, <1>3 DEF GroupInv, OneWrites, CopiesTrue, Covered, Missed, Checked
<1> QED BY <1>2, <1>3 DEF GroupInv

LEMMA ValidateKeeps ==
  ASSUME Groups!GroupAssumption, GroupInv, Groups!validateGroup
  PROVE  GroupInv'
<1> DEFINE mid == groupUpdate.copy.mid
            checked == [pc |-> "write", group |-> groupUpdate.group, copy |-> [mid |-> mid, cnm |-> Cardinality(mid)]]
<1>1. /\ groupUpdate.pc = "check" /\ Groups!TypeOK /\ groupUpdate \in Groups!Update
      /\ UNCHANGED <<there, group, job, fopt, groupUpdates, overlapGroup>>
  BY DEF Groups!validateGroup, GroupInv, Groups!TypeOK
<1>2. CASE ~Groups!_checkMembers(mid)
  BY <1>1, <1>2, NoUpdate DEF Groups!validateGroup
<1>3. CASE Groups!_checkMembers(mid)
  <2>1. mid \in SUBSET (Resource \cup Sub) /\ groupUpdate.group \in Group /\ groupUpdate.copy \in Groups!Copy
    BY <1>1 DEF Groups!Update, Groups!Copy
  <2>2. Cardinality(mid) \in Nat
    BY <2>1, Finite
  <2>3. groupUpdate' = [groupUpdate EXCEPT !.pc = "write", !.copy.cnm = Cardinality(mid)]
    BY <1>3, CountAs DEF Groups!validateGroup
  <2>4. groupUpdate' = checked
    <3>1. groupUpdate' = [groupUpdate EXCEPT !.pc = "write", !.copy = [groupUpdate.copy EXCEPT !.cnm = Cardinality(mid)]]
      BY <1>1, <2>3 DEF Groups!Update
    <3>2. [groupUpdate.copy EXCEPT !.cnm = Cardinality(mid)] = [mid |-> mid, cnm |-> Cardinality(mid)]
      BY <2>1 DEF Groups!Copy
    <3> QED BY <1>1, <3>1, <3>2 DEF Groups!Update
  <2>5. /\ groupUpdate' \in Groups!Update /\ groupUpdate'.pc = "write" /\ groupUpdate'.group = groupUpdate.group
        /\ groupUpdate'.copy.mid = mid /\ GroupCounted(groupUpdate'.copy)
    BY <2>1, <2>2, <2>4 DEF Groups!Update, Groups!Copy, GroupCounted
  <2>6. Groups!TypeOK' /\ GroupCounts' /\ Flat' /\ Jobs' /\ Visits'
    BY <1>1, <2>5 DEF GroupInv, Groups!TypeOK, GroupCounts, GroupCounted, Flat, Jobs, Visits
  <2>7. mid \subseteq there
    BY <1>3 DEF Groups!_checkMembers, Groups!Exist
  <2>8. ASSUME ~overlapGroup PROVE OneWrites' /\ CopiesTrue' /\ Covered' /\ Checked'
    BY <1>1, <2>5, <2>7, <2>8 DEF GroupInv, OneWrites, CopiesTrue, Covered, Missed, Checked
  <2> QED BY <1>1, <2>6, <2>8 DEF GroupInv
<1> QED BY <1>2, <1>3

LEMMA GroupUpdatedKeeps ==
  ASSUME Groups!GroupAssumption, GroupInv, Groups!updated
  PROVE  GroupInv'
<1> DEFINE g == groupUpdate.group
            c == groupUpdate.copy
<1>1. /\ groupUpdate.pc = "write" /\ groupUpdate' = Groups!NoRequest
         /\ UNCHANGED <<there, job, fopt, groupUpdates, overlapGroup>>
      /\ Groups!TypeOK /\ group \in [Group -> Groups!Copy] /\ g \in Group /\ c \in Groups!Copy
      /\ GroupCounted(c) /\ (g \in Sub => c.mid \cap Sub = {})
  BY DEF Groups!updated, GroupInv, Groups!TypeOK, Groups!Update, GroupCounts, Flat
<1>2. CASE g \notin there
  BY <1>1, <1>2, NoUpdate DEF Groups!updated
<1>3. CASE g \in there
  <2>1. group' = [group EXCEPT ![g] = c]
    BY <1>3 DEF Groups!updated
  <2>2. group' \in [Group -> Groups!Copy] /\ group'[g] = c /\ \A h \in Group \ {g} : group'[h] = group[h]
    BY <1>1, <2>1
  <2>3. groupUpdate' \in Groups!Update /\ groupUpdate'.pc = "none"
    BY <1>1, NoRequestType
  <2>4. Groups!TypeOK'
    BY <1>1, <2>2, <2>3 DEF Groups!TypeOK
  <2>5. GroupCounts'
    <3>1. \A h \in Group : GroupCounted(group'[h])
      BY <1>1, <2>2 DEF GroupInv, GroupCounts
    <3> QED BY <1>1, <2>3, <3>1 DEF GroupInv, GroupCounts, GroupCounted
  <2>6. Flat'
    <3>1. \A h \in Sub : group'[h].mid \cap Sub = {}
      BY <1>1, <2>2 DEF GroupInv, Flat, Groups!GroupAssumption
    <3> QED BY <1>1, <2>3, <3>1 DEF GroupInv, Flat
  <2>7. Jobs' /\ Visits'
    BY <1>1 DEF GroupInv, Jobs, Visits, OneWrites
  <2>8. ASSUME ~overlapGroup PROVE OneWrites' /\ CopiesTrue' /\ Covered' /\ Checked'
    <3>1. \A s \in Listable : job[s].pc # "write"
      BY <1>1, <2>8 DEF GroupInv, OneWrites
    <3>2. OneWrites' /\ CopiesTrue' /\ Checked'
      BY <1>1, <2>3, <3>1 DEF OneWrites, CopiesTrue, Checked
    <3>3. c.mid \subseteq there \cup Sub
      BY <1>1, <2>8 DEF GroupInv, Checked
    <3>4. Covered'
      <4> SUFFICES ASSUME NEW h \in Group \cap there, NEW m \in group'[h].mid \ Sub PROVE Missed(h, m)
        BY <1>1 DEF Covered, Missed
      <4>1. CASE h = g
        BY <2>2, <3>3, <4>1 DEF Missed
      <4>2. CASE h # g
        BY <2>2, <2>8, <4>2 DEF GroupInv, Covered
      <4> QED BY <4>1, <4>2
    <3> QED BY <3>2, <3>4
  <2> QED BY <1>1, <2>4, <2>5, <2>6, <2>7, <2>8 DEF GroupInv
<1> QED BY <1>2, <1>3

(* A request to a fanOutPoint.                                             *)

\* What is left of a fan-out changes.
LEMMA FanKeeps ==
  ASSUME Groups!GroupAssumption, GroupInv,
         UNCHANGED <<there, group, job, groupUpdate, groupUpdates, overlapGroup>>,
         fopt' \in Groups!FanOut, Len(fopt'.todo) <= 2, Visits',
         ~overlapGroup => fopt'.pc = "none" \/ (groupUpdate.pc = "none" /\ \A r \in Listable : job[r].pc # "write")
  PROVE  GroupInv'
<1>1. Groups!TypeOK' /\ GroupCounts' /\ Flat' /\ Jobs'
  BY DEF GroupInv, Groups!TypeOK, GroupCounts, GroupCounted, Flat, Jobs
<1>2. ASSUME ~overlapGroup PROVE OneWrites' /\ CopiesTrue' /\ Covered' /\ Checked'
  BY <1>2 DEF GroupInv, OneWrites, CopiesTrue, Covered, Missed, Checked
<1> QED BY <1>1, <1>2 DEF GroupInv

LEMMA FoptKeeps ==
  ASSUME Groups!GroupAssumption, GroupInv, NEW g \in Group, Groups!foptRequest(g)
  PROVE  GroupInv'
<1>1. /\ Groups!Alone /\ ~overlapGroup
         /\ fopt' = [pc |-> "visit", group |-> g, todo |-> <<group[g].mid>>, results |-> 0]
      /\ UNCHANGED <<there, group, job, groupUpdate, groupUpdates, overlapGroup>>
  BY DEF Groups!foptRequest
<1>2. group[g] \in Groups!Copy /\ group[g].mid \in SUBSET (Resource \cup Sub)
  BY DEF GroupInv, Groups!TypeOK, Groups!Copy
<1>3. /\ fopt'.pc = "visit" /\ fopt'.group = g /\ fopt'.results = 0 /\ fopt'.todo = <<group[g].mid>>
      /\ fopt'.todo \in Seq(SUBSET (Resource \cup Sub)) /\ Len(fopt'.todo) = 1 /\ fopt'.todo # <<>>
      /\ fopt'.todo[1] = group[g].mid
  BY <1>1, <1>2
<1>4. fopt' \in Groups!FanOut
  BY <1>1, <1>3 DEF Groups!FanOut
<1>5. Cardinality(group[g].mid) = group[g].cnm /\ group[g].cnm \in Nat
  BY <1>2 DEF GroupInv, GroupCounts, GroupCounted, Groups!Copy
<1>6. Visits'
  BY <1>1, <1>3, <1>5 DEF Visits
<1>7. groupUpdate.pc = "none" /\ \A r \in Listable : job[r].pc # "write"
  BY <1>1 DEF Groups!Alone, Listable
<1> QED BY <1>1, <1>3, <1>4, <1>6, <1>7, FanKeeps

\* The last of a sequence with a new head.
LEMMA OthersType ==
  ASSUME NEW S, NEW s \in Seq(S), s # <<>>, NEW x \in S
  PROVE  LET t == <<x>> \o Tail(s)
         IN /\ t \in Seq(S) /\ t # <<>> /\ Len(t) = Len(s) /\ t[1] = x
            /\ t[Len(t)] = IF Tail(s) = <<>> THEN x ELSE s[Len(s)]
<1>1. Tail(s) \in Seq(S) /\ Len(Tail(s)) = Len(s) - 1 /\ Len(s) \in Nat \ {0}
      /\ \A i \in 1..Len(Tail(s)) : Tail(s)[i] = s[i + 1]
  BY EmptySeq, HeadTailProperties
<1>2. <<x>> \in Seq(S) /\ Len(<<x>>) = 1 /\ <<x>>[1] = x
  OBVIOUS
<1> DEFINE t == <<x>> \o Tail(s)
<1>3. t \in Seq(S) /\ Len(t) = Len(s) /\ t[1] = x /\ \A i \in 2..Len(s) : t[i] = s[i]
  BY <1>1, <1>2, ConcatProperties
<1>4. Tail(s) = <<>> <=> Len(s) = 1
  BY <1>1, EmptySeq
<1> QED BY <1>1, <1>3, <1>4

LEMMA OneOrTwo == \A n \in Nat \ {0} : n <= 2 => n = 1 \/ n = 2
OBVIOUS

\* What is left to visit has one or two parts.
LEMMA Parts ==
  ASSUME NEW S, NEW s \in Seq(S), s # <<>>, Len(s) <= 2,
         NEW t \in Seq(S), Len(t) = Len(s) - 1, \A i \in 1..Len(t) : t[i] = s[i + 1]
  PROVE  \/ Len(s) = 1 /\ t = <<>>
         \/ Len(s) = 2 /\ t # <<>> /\ Len(t) = 1 /\ t[1] = s[2]
<1>1. Len(s) = 1 \/ Len(s) = 2
  BY EmptySeq, OneOrTwo
<1>2. CASE Len(s) = 1
  <2>1. Len(t) = 0
    BY <1>2
  <2>2. t # <<>> => Len(t) \in Nat \ {0}
    BY EmptySeq
  <2> QED BY <1>2, <2>1, <2>2
<1>3. CASE Len(s) = 2
  <2>1. Len(t) = 1
    BY <1>3
  <2>2. t # <<>>
    BY <2>1, EmptySeq
  <2>3. t[1] = s[1 + 1]
    BY <2>1
  <2> QED BY <1>3, <2>1, <2>2, <2>3
<1> QED BY <1>1, <1>2, <1>3

LEMMA TodoParts ==
  ASSUME NEW S, NEW s \in Seq(S), s # <<>>, Len(s) <= 2
  PROVE  /\ Head(s) = s[1] /\ Head(s) \in S /\ Tail(s) \in Seq(S) /\ Len(s) \in {1, 2}
         /\ Tail(s) = <<>> <=> Len(s) = 1
         /\ Tail(s) # <<>> => Len(Tail(s)) = 1 /\ Tail(s)[1] = s[2]
<1>1. PICK t : t = Tail(s)
  OBVIOUS
<1>2. Head(s) \in S /\ t \in Seq(S) /\ Len(t) = Len(s) - 1 /\ \A i \in 1..Len(t) : t[i] = s[i + 1]
  BY <1>1, HeadTailProperties
<1>3. \/ Len(s) = 1 /\ t = <<>>
      \/ Len(s) = 2 /\ t # <<>> /\ Len(t) = 1 /\ t[1] = s[2]
  BY <1>2, Parts
<1>4. Head(s) = s[1]
  OBVIOUS
<1> QED BY <1>1, <1>2, <1>3, <1>4

LEMMA Prepended ==
  ASSUME NEW S, NEW s \in Seq(S), Len(s) = 1, NEW x \in S
  PROVE  LET t == <<x>> \o s
         IN t \in Seq(S) /\ t # <<>> /\ Len(t) = 2 /\ t[1] = x /\ t[Len(t)] = s[1]
<1>1. <<x>> \in Seq(S) /\ Len(<<x>>) = 1 /\ <<x>>[1] = x
  OBVIOUS
<1> DEFINE t == <<x>> \o s
<1>2. t \in Seq(S) /\ Len(t) = 2 /\ t[1] = x /\ t[2] = s[1]
  BY <1>1, ConcatProperties
<1> QED BY <1>2, EmptySeq

\* The end of a fan-out, with all results or with none.
LEMMA FanEnds ==
  ASSUME Groups!GroupAssumption, GroupInv, fopt' = Groups!NoFopt,
         UNCHANGED <<there, group, job, groupUpdate, groupUpdates, overlapGroup>>
  PROVE  GroupInv'
<1>1. fopt' \in Groups!FanOut /\ fopt'.pc = "none" /\ Len(fopt'.todo) <= 2
  BY NoRequestType
<1>2. Visits'
  BY <1>1 DEF Visits
<1> QED BY <1>1, <1>2, FanKeeps

LEMMA VisitKeeps ==
  ASSUME Groups!GroupAssumption, GroupInv, Groups!visitMember
  PROVE  GroupInv'
<1> DEFINE rest == Tail(fopt.todo)
            result == IF rest = <<>> THEN 1 ELSE 0
            S == SUBSET (Resource \cup Sub)
<1>1. /\ fopt.pc = "visit" /\ UNCHANGED <<there, group, job, groupUpdate, groupUpdates, overlapGroup>>
      /\ Groups!TypeOK /\ fopt \in Groups!FanOut /\ Len(fopt.todo) <= 2
      /\ fopt.todo \in Seq(S) /\ fopt.group \in Group /\ fopt.results \in Nat
      /\ group \in [Group -> Groups!Copy]
  BY Zenon DEF Groups!visitMember, GroupInv, Groups!TypeOK, Groups!FanOut
<1>2. /\ ~overlapGroup /\ fopt.todo # <<>>
      /\ Len(fopt.todo) = 2 => fopt.todo[1] \cap Sub = {}
      /\ fopt.results + Cardinality(fopt.todo[Len(fopt.todo)]) = group[fopt.group].cnm
  BY <1>1 DEF GroupInv, Visits
<1>3. groupUpdate.pc = "none" /\ \A r \in Listable : job[r].pc # "write"
  BY <1>1, <1>2 DEF GroupInv, OneWrites, Groups!TypeOK, Groups!Update
<1>4. /\ Head(fopt.todo) = fopt.todo[1] /\ Head(fopt.todo) \in S /\ rest \in Seq(S) /\ Len(fopt.todo) \in {1, 2}
      /\ rest = <<>> <=> Len(fopt.todo) = 1
      /\ rest # <<>> => Len(rest) = 1 /\ rest[1] = fopt.todo[2]
  <2> HIDE DEF S
  <2> QED BY <1>1, <1>2, TodoParts
<1>0. \A m \in S : IsFiniteSet(m) /\ Cardinality(m) \in Nat
  BY Finite
<1> HIDE DEF S
<1>5. CASE Head(fopt.todo) = {} /\ rest = <<>>
  BY <1>1, <1>5, FanEnds DEF Groups!visitMember
<1>6. CASE Head(fopt.todo) = {} /\ rest # <<>>
  <2>1. fopt' = [fopt EXCEPT !.todo = rest]
    BY <1>6 DEF Groups!visitMember
  <2>2. fopt' \in Groups!FanOut /\ fopt'.todo = rest /\ fopt'.pc = "visit" /\ fopt'.group = fopt.group
        /\ fopt'.results = fopt.results
    BY <1>1, <1>4, <2>1 DEF Groups!FanOut, S
  <2>3. Len(rest) = 1 /\ rest[Len(rest)] = fopt.todo[Len(fopt.todo)]
    BY <1>4, <1>6
  <2> HIDE DEF rest
  <2>4. Visits'
    BY <1>1, <1>2, <1>6, <2>2, <2>3 DEF Visits
  <2> QED BY <1>1, <1>2, <1>3, <2>2, <2>3, <2>4, FanKeeps
<1>7. CASE Head(fopt.todo) # {}
  <2>1. PICK m \in Head(fopt.todo) :
          LET others == <<Head(fopt.todo) \ {m}>> \o rest
          IN CASE m \notin there -> fopt' = Groups!NoFopt
               [] m \in Sub \cap there ->
                    fopt' = [fopt EXCEPT !.todo = <<group[m].mid>> \o others, !.results = @ + result]
               [] OTHER -> fopt' = [fopt EXCEPT !.todo = others, !.results = @ + result]
    BY Zenon, <1>7 DEF Groups!visitMember
  <2> DEFINE left == Head(fopt.todo) \ {m}
              others == <<left>> \o rest
              n == fopt.results + result
  <2>2. left \in S /\ IsFiniteSet(Head(fopt.todo))
        /\ Cardinality(left) = Cardinality(Head(fopt.todo)) - 1 /\ Cardinality(left) \in Nat
    <3>1. left \in S
      BY <1>4 DEF S
    <3>2. IsFiniteSet(Head(fopt.todo)) /\ Cardinality(Head(fopt.todo)) \in Nat /\ Cardinality(left) \in Nat
      BY <1>0, <1>4, <3>1
    <3> QED BY <3>1, <3>2, FS_RemoveElement
  <2>3. /\ others \in Seq(S) /\ others # <<>> /\ Len(others) = Len(fopt.todo) /\ others[1] = left
        /\ others[Len(others)] = IF rest = <<>> THEN left ELSE fopt.todo[Len(fopt.todo)]
    <3> HIDE DEF left
    <3> QED BY SMTT(30), <1>1, <1>2, <2>2, OthersType
  <2> HIDE DEF others
  <2>4. n \in Nat /\ n + Cardinality(others[Len(others)]) = group[fopt.group].cnm
    <3>1. CASE rest = <<>>
      <4>1. fopt.results + Cardinality(Head(fopt.todo)) = group[fopt.group].cnm
        BY <1>2, <1>4, <3>1
      <4>2. Cardinality(Head(fopt.todo)) \in Nat
        BY <1>0, <1>4
      <4>3. n = fopt.results + 1 /\ Cardinality(others[Len(others)]) = Cardinality(Head(fopt.todo)) - 1
        BY <2>2, <2>3, <3>1
      <4>4. fopt.results \in Nat
        BY <1>1
      <4>5. \A x, y, z \in Nat : y + x = z => y + 1 + (x - 1) = z /\ y + 1 \in Nat
        OBVIOUS
      <4>6. group[fopt.group].cnm \in Nat
        BY <1>1 DEF Groups!Copy
      <4>7. /\ fopt.results + 1 + (Cardinality(Head(fopt.todo)) - 1) = group[fopt.group].cnm
            /\ fopt.results + 1 \in Nat
        BY ONLY <4>1, <4>2, <4>4, <4>5, <4>6
      <4> QED BY ONLY <4>3, <4>7
    <3>2. CASE rest # <<>>
      BY <1>1, <1>2, <2>3, <3>2
    <3> QED BY <3>1, <3>2
  <2> HIDE DEF left, n
  <2>5. CASE m \notin there
    BY <1>1, <2>1, <2>5, FanEnds
  <2>6. CASE m \in Sub \cap there
    <3>1. fopt' = [fopt EXCEPT !.todo = <<group[m].mid>> \o others, !.results = n]
      BY <2>1, <2>6 DEF others, left, n
    <3>2. Len(fopt.todo) = 1 /\ Len(others) = 1
      BY <1>2, <1>4, <2>3, <2>6
    <3>3. group[m].mid \in S /\ group[m].mid \cap Sub = {}
      BY <1>1, <2>6 DEF GroupInv, Flat, Groups!Copy, Groups!GroupAssumption, S
    <3>4. PICK todo \in Seq(S) : todo = <<group[m].mid>> \o others /\ todo # <<>> /\ Len(todo) = 2
                                 /\ todo[1] = group[m].mid /\ todo[Len(todo)] = others[1]
      <4> DEFINE todo == <<group[m].mid>> \o others
      <4>1. others \in Seq(S)
        BY <2>3
      <4>2. /\ todo \in Seq(S) /\ todo # <<>> /\ Len(todo) = 2 /\ todo[1] = group[m].mid
            /\ todo[Len(todo)] = others[1]
        BY <3>2, <3>3, <4>1, Prepended
      <4> QED BY <4>2
    <3>5. /\ fopt' \in Groups!FanOut /\ fopt'.todo = todo /\ fopt'.pc = "visit" /\ fopt'.group = fopt.group
          /\ fopt'.results = n
      BY <1>1, <2>4, <3>1, <3>4 DEF Groups!FanOut, S
    <3>6. todo[Len(todo)] = others[Len(others)]
      BY <3>2, <3>4
    <3>7. Visits'
      BY <1>1, <1>2, <2>4, <3>3, <3>4, <3>5, <3>6 DEF Visits
    <3> QED BY <1>1, <1>2, <1>3, <3>4, <3>5, <3>7, FanKeeps
  <2>7. CASE m \in there /\ m \notin Sub
    <3>1. fopt' = [fopt EXCEPT !.todo = others, !.results = n]
      BY <2>1, <2>7 DEF others, left, n
    <3>2. /\ fopt' \in Groups!FanOut /\ fopt'.todo = others /\ fopt'.pc = "visit" /\ fopt'.group = fopt.group
          /\ fopt'.results = n
      BY <1>1, <2>3, <2>4, <3>1 DEF Groups!FanOut, S
    <3>3. Len(others) = 2 => others[1] \cap Sub = {}
      BY <1>2, <1>4, <2>3 DEF left
    <3>4. Visits'
      BY <1>1, <1>2, <2>3, <2>4, <3>2, <3>3 DEF Visits
    <3> QED BY <1>1, <1>2, <1>3, <2>3, <3>2, <3>4, FanKeeps
  <2> QED BY <2>5, <2>6, <2>7
<1> QED BY <1>5, <1>6, <1>7

(* The theorems.                                                           *)

LEMMA GroupInit == Groups!GroupAssumption /\ Groups!Init => GroupInv
<1> SUFFICES ASSUME Groups!GroupAssumption, Groups!Init PROVE GroupInv
  OBVIOUS
<1>1. /\ there = Listable /\ groupUpdates = 0 /\ overlapGroup \in BOOLEAN
      /\ group \in [Group -> {[mid |-> m, cnm |-> Cardinality(m)] : m \in SUBSET (Resource \cup Sub)}]
      /\ \A g \in Sub : group[g].mid \cap Sub = {}
      /\ job = [r \in Listable |-> Groups!NoJob] /\ groupUpdate = Groups!NoRequest /\ fopt = Groups!NoFopt
  BY CountAs DEF Groups!Init, Listable
<1>2. \A g \in Group : group[g] \in Groups!Copy /\ GroupCounted(group[g])
  <2> SUFFICES ASSUME NEW g \in Group PROVE group[g] \in Groups!Copy /\ GroupCounted(group[g])
    OBVIOUS
  <2>1. PICK m \in SUBSET (Resource \cup Sub) : group[g] = [mid |-> m, cnm |-> Cardinality(m)]
    BY <1>1
  <2> QED BY <2>1, Finite DEF Groups!Copy, GroupCounted
<1>3. /\ groupUpdate \in Groups!Update /\ groupUpdate.pc = "none" /\ fopt \in Groups!FanOut
         /\ fopt.pc = "none" /\ Len(fopt.todo) <= 2
      /\ job \in [Listable -> Groups!Job] /\ \A r \in Listable : job[r].pc = "none"
  BY <1>1, NoRequestType, NoJobType
<1>4. Groups!TypeOK
  BY <1>1, <1>2, <1>3 DEF Groups!TypeOK, Listable, Groups!GroupAssumption
<1>5. GroupCounts /\ Flat /\ Jobs /\ Visits
  BY <1>1, <1>2, <1>3 DEF GroupCounts, Flat, Jobs, Visits
<1>6. OneWrites /\ CopiesTrue /\ Checked
  BY <1>3 DEF OneWrites, CopiesTrue, Checked
<1>7. Covered
  BY <1>1, <1>2 DEF Covered, Missed, Groups!Copy, Listable
<1> QED BY <1>4, <1>5, <1>6, <1>7 DEF GroupInv

LEMMA GroupStep == Groups!GroupAssumption /\ GroupInv /\ [Groups!Next]_(Groups!groupVars) => GroupInv'
<1> SUFFICES ASSUME Groups!GroupAssumption, GroupInv, [Groups!Next]_(Groups!groupVars) PROVE GroupInv'
  OBVIOUS
<1>1. ASSUME NEW r \in Resource \cup Group,
             Groups!deleteResource(r) \/ Groups!handleDeleteEvent(r) PROVE GroupInv'
  BY <1>1, GroupDeleteKeeps, SearchKeeps, WriteKeeps DEF Groups!handleDeleteEvent, Listable
<1>2. ASSUME NEW g \in Group, Groups!update(g) \/ Groups!foptRequest(g) PROVE GroupInv'
  BY <1>2, GroupUpdateKeeps, FoptKeeps
<1>3. CASE Groups!validateGroup \/ Groups!updated \/ Groups!visitMember
  BY <1>3, ValidateKeeps, GroupUpdatedKeeps, VisitKeeps
<1>4. CASE UNCHANGED Groups!groupVars
  BY <1>4 DEF Groups!groupVars, GroupInv, Groups!TypeOK, GroupCounts, GroupCounted, Flat, Jobs, Visits,
              OneWrites, CopiesTrue, Covered, Missed, Checked
<1> QED BY <1>1, <1>2, <1>3, <1>4 DEF Groups!Next

\* Every variable of the groups keeps its type, and the number of members is never negative.
THEOREM GroupTypeCorrect ==
  ASSUME Groups!GroupAssumption
  PROVE  Groups!Spec => []Groups!TypeOK
<1>1. GroupInv => Groups!TypeOK
  BY DEF GroupInv
<1> QED BY <1>1, GroupInit, GroupStep, PTL DEF Groups!Spec

\* When the jobs of all deleted resources have ended well, no group has a member that does not exist, and
\* currentNrOfMembers is right at any time, for any number of groups and resources.
THEOREM GroupMembersExist ==
  ASSUME Groups!GroupAssumption
  PROVE  Groups!Spec => []Groups!MembersExist
<1>1. ASSUME GroupInv PROVE Groups!MembersExist
  <2>1. ASSUME ~overlapGroup, \A r \in Resource \cup Group : job[r].pc \in {"none", "done"},
               NEW g \in Group \cap there, NEW m \in group[g].mid \ Sub
        PROVE  m \in there
    <3>1. Missed(g, m) /\ m \in Resource \cup Group
      BY <1>1, <2>1 DEF GroupInv, Covered, Groups!TypeOK, Groups!Copy
    <3>2. job[m].pc \in {"none", "done"}
      BY <2>1, <3>1
    <3> QED BY <3>1, <3>2 DEF Missed
  <2>2. \A g \in Group : group[g].cnm = Cardinality(group[g].mid)
    BY <1>1 DEF GroupInv, GroupCounts, GroupCounted
  <2> QED BY <2>1, <2>2, CountAs DEF Groups!MembersExist
<1> QED BY <1>1, GroupInit, GroupStep, PTL DEF Groups!Spec

\* A fan-out has one result for each member of its group that it has visited, also for a sub-group.
THEOREM AllMembersAnswer ==
  ASSUME Groups!GroupAssumption
  PROVE  Groups!Spec => []Groups!AllAnswer
<1>1. GroupInv => Groups!AllAnswer
  BY CountAs DEF GroupInv, Visits, Groups!AllAnswer
<1> QED BY <1>1, GroupInit, GroupStep, PTL DEF Groups!Spec

-----------------------------------------------------------------------------
(* Web sockets, where peers reconnect and requests come one after the other. The tables agree because of *)
(* who may work on them: a peer has one connection at a time, which is its own or the temporary one of   *)
(* the one request to it.                                                                                *)
InUse(c) == loop[c] \notin {"unused", "ended"}
OneConnection == \A c, d \in WS : InUse(c) /\ InUse(d) /\ peer[c] = peer[d] => c = d
OneRequest == \A s, t \in Sender : requester[s].to = requester[t].to /\ requester[s].to # None => s = t

\* The request opened its connection itself.
Temporary(s) == requester[s].pc = "added" \/ requester[s].isSenderWS

RequestType ==
  [pc : {"idle", "connect", "added", "send", "wait"}, to : Peer \cup {None}, ws : WS \cup {None},
   isSenderWS : BOOLEAN, again : BOOLEAN]

SocketTypes ==
  /\ wsConnections \subseteq WS /\ open \subseteq WS /\ knownPeer \subseteq WS /\ deletedConnections \subseteq WS
  /\ associatedConnections \in [Peer -> WS \cup {None}]
  /\ connectionUsedCounter \in [WS -> Nat \cup {None}]
  /\ peer \in [WS -> Peer \cup {None}]
  /\ loop \in [WS -> {"unused", "accepted", "added", "receiving", "cse", "ended"}]
  /\ message \in [WS -> Nat] /\ messageJobs \in [WS -> Nat]
  /\ requester \in [Sender -> RequestType]

\* The first message has registered the AE.
Registered(c) == message[c] >= 1 /\ (message[c] = 1 => messageJobs[c] = 0)

\* What a connection is when its loop has come so far.
Connection(c) ==
  /\ messageJobs[c] <= message[c]
  /\ c \in open => InUse(c)
  /\ InUse(c) => peer[c] \in Peer
  /\ loop[c] \in {"unused", "accepted"} => message[c] = 0
  /\ loop[c] \in {"added", "cse"} => c \in knownPeer
  /\ loop[c] \in {"added", "receiving"} => c \in wsConnections
  /\ c \in deletedConnections => loop[c] \in {"receiving", "ended"}
  /\ c \notin knownPeer => /\ messageJobs[c] > 0 => loop[c] = "receiving" /\ c \in open
                           /\ c \in deletedConnections => Registered(c)
Connections == \A c \in WS : Connection(c)

\* An association is with the peer's own connection, or with that of a request.
Association(p, c) ==
  /\ peer[c] = p /\ c \in wsConnections \ deletedConnections
  /\ c \in knownPeer \/ (c \in open /\ Registered(c))
  /\ loop[c] = "receiving" \/ \E s \in Sender : requester[s].isSenderWS /\ requester[s].ws = c
Associated == \A p \in Peer : associatedConnections[p] # None => Association(p, associatedConnections[p])
KnownAssociated ==
  \A c \in knownPeer \ deletedConnections : loop[c] = "receiving" => associatedConnections[peer[c]] = c
TemporaryUsed == \A c \in open : loop[c] = "cse" => \E s \in Sender : Temporary(s) /\ requester[s].ws = c

\* What a request has found, or opened.
Request(r) ==
  /\ r.pc = "idle" <=> r.to = None
  /\ r.isSenderWS => r.pc \in {"send", "wait"}
  /\ r.pc = "connect" => \A d \in WS : peer[d] = r.to /\ InUse(d) =>
                           loop[d] = "receiving" /\ d \in open /\ associatedConnections[r.to] = d
  /\ r.pc = "send" => r.ws \in open /\ peer[r.ws] = r.to
  /\ r.pc = "added" \/ r.isSenderWS =>
       /\ r.ws \in (knownPeer \cap wsConnections) \ deletedConnections
       /\ peer[r.ws] = r.to /\ connectionUsedCounter[r.ws] = 1 /\ loop[r.ws] \in {"cse", "ended"}
       /\ \A d \in WS : peer[d] = r.to /\ InUse(d) => d = r.ws
       /\ r.pc = "added" => r.ws \in open
       /\ associatedConnections[r.to] = IF r.pc = "added" THEN None ELSE r.ws
Requests == \A s \in Sender : Request(requester[s])

SocketSerial ==
  /\ SocketTypes /\ OneConnection /\ OneRequest /\ Connections /\ Associated /\ KnownAssociated
  /\ TemporaryUsed /\ Requests
SocketInv == ~overlapSockets => SocketSerial

\* What the proofs use of the constants.
LEMMA SocketConstants == None \notin Peer /\ None \notin WS
BY ConnectedAssumption DEF Sockets!SocketAssumption

\* A connection is accepted where the peer has none, and none is requested.
LEMMA AcceptKeeps ==
  ASSUME SocketSerial, ~overlapSockets, NEW c \in WS, NEW p \in Peer, Sockets!accept(c, p)
  PROVE  SocketSerial'
<1> USE SocketConstants DEF SocketSerial, Sockets!accept, Sockets!tables, Sockets!messages
<1>1. SocketTypes'
  BY DEF SocketTypes
<1>2. ~InUse(c) /\ (\A d \in WS : peer[d] = p => ~InUse(d)) /\ \A s \in Sender : requester[s].to # p
  BY DEF Sockets!Busy, InUse
<1>3. /\ peer' = [peer EXCEPT ![c] = p] /\ loop' = [loop EXCEPT ![c] = "accepted"]
      /\ \A d \in WS : d # c => peer'[d] = peer[d] /\ loop'[d] = loop[d] /\ InUse(d)' = InUse(d)
                                 /\ (d \in knownPeer' <=> d \in knownPeer) /\ (d \in open' <=> d \in open)
      /\ peer'[c] = p /\ loop'[c] = "accepted" /\ c \in open'
      /\ UNCHANGED <<wsConnections, associatedConnections, connectionUsedCounter, message, messageJobs,
                     deletedConnections, requester>>
  BY DEF SocketTypes, InUse
<1>4. OneConnection' /\ OneRequest'
  BY <1>2, <1>3 DEF OneConnection, OneRequest, InUse
<1>5. Connections'
  BY <1>2, <1>3 DEF SocketTypes, Connections, Connection, InUse, Registered
<1>6. Associated'
  BY <1>2, <1>3 DEF SocketTypes, Associated, Association, Registered, Connections, Connection, InUse, Requests, Request
<1>7. KnownAssociated' /\ TemporaryUsed'
  BY <1>2, <1>3 DEF SocketTypes, KnownAssociated, TemporaryUsed, Temporary, InUse
<1>8. Requests'
  BY <1>2, <1>3 DEF SocketTypes, Requests, Request, Connections, Connection, InUse
<1> QED BY <1>1, <1>4, <1>5, <1>6, <1>7, <1>8

\* The connection is known.
LEMMA AddKeeps ==
  ASSUME SocketSerial, ~overlapSockets, NEW c \in WS, Sockets!addConnection(c)
  PROVE  SocketSerial'
<1> USE SocketConstants DEF SocketSerial, Sockets!addConnection, Sockets!messages
<1>1. SocketTypes'
  BY DEF SocketTypes
<1>2. /\ loop[c] = "accepted" /\ \A d \in WS : InUse(d)' = InUse(d)
      /\ \A d \in WS : d # c => loop'[d] = loop[d]
      /\ loop'[c] = IF c \in knownPeer THEN "added" ELSE "receiving"
      /\ wsConnections' = wsConnections \cup {c}
      /\ UNCHANGED <<associatedConnections, connectionUsedCounter, open, peer, knownPeer, message, messageJobs,
                     deletedConnections, requester>>
  BY DEF SocketTypes, InUse
<1>3. OneConnection' /\ OneRequest'
  BY <1>2 DEF OneConnection, OneRequest
<1>4. Connections'
  BY <1>2 DEF SocketTypes, Connections, Connection, Registered, InUse
<1>5. Associated'
  BY <1>2 DEF SocketTypes, Associated, Association, Registered
<1>6. KnownAssociated' /\ TemporaryUsed'
  BY <1>2 DEF SocketTypes, KnownAssociated, TemporaryUsed, Temporary
<1>7. Requests'
  BY <1>2 DEF SocketTypes, Requests, Request, InUse
<1> QED BY <1>1, <1>3, <1>4, <1>5, <1>6, <1>7

\* A connection with a header is associated: no other one has to be closed before.
LEMMA AssociateIncomingKeeps ==
  ASSUME SocketSerial, ~overlapSockets, NEW c \in WS, Sockets!associateIncoming(c)
  PROVE  SocketSerial'
<1> USE SocketConstants DEF SocketSerial
<1>1. /\ loop[c] = "added" /\ InUse(c) /\ peer[c] \in Peer
      /\ c \in knownPeer /\ c \in wsConnections \ deletedConnections
  BY DEF Sockets!associateIncoming, SocketTypes, InUse, Connections, Connection
<1>2. associatedConnections[peer[c]] = None
  <2> SUFFICES ASSUME associatedConnections[peer[c]] # None PROVE FALSE
    OBVIOUS
  <2>1. Association(peer[c], associatedConnections[peer[c]]) /\ associatedConnections[peer[c]] \in WS
    BY <1>1 DEF Associated, SocketTypes
  <2>2. CASE loop[associatedConnections[peer[c]]] = "receiving"
    BY <1>1, <2>1, <2>2 DEF OneConnection, InUse, Association
  <2>3. CASE \E s \in Sender : requester[s].isSenderWS /\ requester[s].ws = associatedConnections[peer[c]]
    BY <1>1, <2>1, <2>3 DEF Requests, Request, Association, InUse
  <2> QED BY <2>1, <2>2, <2>3 DEF Association
<1>3. /\ loop' = [loop EXCEPT ![c] = "receiving"]
      /\ associatedConnections' = [associatedConnections EXCEPT ![peer[c]] = c]
      /\ UNCHANGED <<wsConnections, connectionUsedCounter, open, peer, knownPeer, message, messageJobs,
                     deletedConnections, requester>>
  BY <1>1, <1>2 DEF Sockets!associateIncoming, Sockets!closeFirst, Sockets!messages
<1>4. SocketTypes'
  BY <1>1, <1>3 DEF SocketTypes
<1>5. /\ \A d \in WS : InUse(d)' = InUse(d)
      /\ \A d \in WS : d # c => loop'[d] = loop[d]
      /\ loop'[c] = "receiving" /\ associatedConnections'[peer[c]] = c
      /\ \A p \in Peer : p # peer[c] => associatedConnections'[p] = associatedConnections[p]
  BY <1>1, <1>3 DEF SocketTypes, InUse
<1>6. OneConnection' /\ OneRequest'
  BY <1>3, <1>5 DEF OneConnection, OneRequest
<1>7. Connections'
  BY <1>1, <1>3, <1>5 DEF Connections, Connection, Registered
<1>8. Associated'
  <2> SUFFICES ASSUME NEW p \in Peer, associatedConnections'[p] # None
               PROVE  Association(p, associatedConnections[p])'
    BY DEF Associated
  <2>1. CASE p = peer[c]
    BY <1>1, <1>3, <1>5, <2>1 DEF Association
  <2>2. CASE p # peer[c]
    BY <1>1, <1>3, <1>5, <2>2 DEF SocketTypes, Associated, Association, Registered
  <2> QED BY <2>1, <2>2
<1>9. KnownAssociated' /\ TemporaryUsed'
  BY <1>1, <1>3, <1>5 DEF SocketTypes, OneConnection, KnownAssociated, TemporaryUsed, Temporary, Connections,
       Connection, InUse
<1>10. \A s \in Sender : requester[s].to = peer[c] => requester[s].pc # "connect" /\ ~Temporary(s)
  BY <1>1 DEF Requests, Request, Temporary
<1>11. Requests'
  <2> SUFFICES ASSUME NEW s \in Sender PROVE Request(requester[s])'
    BY DEF Requests
  <2>1. Request(requester[s])
    BY DEF Requests
  <2>2. requester[s].to = peer[c] => requester[s].pc # "connect" /\ ~Temporary(s)
    BY <1>10
  <2>3. requester[s].pc # "idle" => requester[s].to \in Peer
    BY <2>1 DEF SocketTypes, RequestType, Request
  <2> QED BY <1>1, <1>3, <1>5, <2>1, <2>2, <2>3 DEF Request, Temporary
<1> QED BY <1>4, <1>6, <1>7, <1>8, <1>9, <1>11

\* A message.
LEMMA ReceiveKeeps ==
  ASSUME SocketSerial, ~overlapSockets, NEW c \in WS, Sockets!receive(c)
  PROVE  SocketSerial'
<1> USE SocketConstants DEF SocketSerial, Sockets!receive, Sockets!tables
<1>1. SocketTypes'
  BY DEF SocketTypes
<1>2. /\ loop[c] \in {"receiving", "cse"} /\ c \in open
      /\ \A d \in WS : d # c => message'[d] = message[d] /\ messageJobs'[d] = messageJobs[d]
      /\ message'[c] = message[c] + 1 /\ messageJobs'[c] = messageJobs[c] + 1
      /\ message[c] \in Nat /\ messageJobs[c] \in Nat
      /\ UNCHANGED <<wsConnections, associatedConnections, connectionUsedCounter, open, peer, loop, knownPeer,
                     deletedConnections, requester>>
  BY DEF SocketTypes
<1>3. OneConnection' /\ OneRequest' /\ KnownAssociated' /\ TemporaryUsed'
  BY <1>2 DEF OneConnection, OneRequest, KnownAssociated, TemporaryUsed, Temporary, InUse
<1>4. \A d \in WS : Registered(d) => Registered(d)'
  BY <1>2 DEF Registered
<1>5. Connections'
  <2> SUFFICES ASSUME NEW d \in WS PROVE Connection(d)'
    BY DEF Connections
  <2>1. Connection(d)
    BY DEF Connections
  <2> QED BY <1>2, <1>4, <2>1 DEF Connection, InUse
<1>6. Associated'
  BY <1>2, <1>4 DEF SocketTypes, Associated, Association
<1>7. Requests'
  BY <1>2 DEF Requests, Request, InUse
<1> QED BY <1>1, <1>3, <1>5, <1>6, <1>7

\* The job of a message registers an AE without a header: it has no other connection.
LEMMA HandleMessageKeeps ==
  ASSUME SocketSerial, ~overlapSockets, NEW c \in WS, Sockets!_handleReceivedMessage(c)
  PROVE  SocketSerial'
<1> USE SocketConstants DEF SocketSerial
<1> DEFINE registers == c \notin knownPeer /\ message[c] = 1
<1>1. /\ messageJobs[c] > 0 /\ messageJobs[c] \in Nat /\ message[c] \in Nat /\ messageJobs[c] <= message[c]
      /\ messageJobs' = [messageJobs EXCEPT ![c] = @ - 1]
      /\ associatedConnections' = IF registers THEN [associatedConnections EXCEPT ![peer[c]] = c]
                                               ELSE associatedConnections
      /\ UNCHANGED <<wsConnections, connectionUsedCounter, open, peer, loop, knownPeer, message,
                     deletedConnections, requester>>
  BY DEF Sockets!_handleReceivedMessage, SocketTypes, Connections, Connection
<1>2. messageJobs'[c] = messageJobs[c] - 1 /\ \A d \in WS : d # c => messageJobs'[d] = messageJobs[d]
  BY <1>1 DEF SocketTypes
<1>3. \A d \in WS : Registered(d) => Registered(d)'
  BY <1>1, <1>2 DEF Registered, SocketTypes
<1>4. ASSUME registers
      PROVE  /\ loop[c] = "receiving" /\ c \in open /\ c \in wsConnections /\ peer[c] \in Peer /\ InUse(c)
             /\ c \notin deletedConnections /\ Registered(c)'
  BY <1>1, <1>2, <1>4 DEF Connections, Connection, Registered, InUse
<1>5. SocketTypes'
  BY <1>1, <1>4 DEF SocketTypes
<1>6. OneConnection' /\ OneRequest' /\ TemporaryUsed'
  BY <1>1 DEF OneConnection, OneRequest, InUse, TemporaryUsed, Temporary
<1>7. Connections'
  BY <1>1, <1>2, <1>3 DEF SocketTypes, Connections, Connection, InUse
<1>8. CASE ~registers
  <2>1. Associated' /\ KnownAssociated' /\ Requests'
    BY <1>1, <1>3, <1>8 DEF SocketTypes, Associated, Association, KnownAssociated, Requests, Request, InUse
  <2> QED BY <1>5, <1>6, <1>7, <2>1
<1>9. CASE registers
  <2>1. /\ associatedConnections'[peer[c]] = c
        /\ \A p \in Peer : p # peer[c] => associatedConnections'[p] = associatedConnections[p]
    BY <1>1, <1>4, <1>9 DEF SocketTypes
  <2>2. Associated'
    <3> SUFFICES ASSUME NEW p \in Peer, associatedConnections'[p] # None
                 PROVE  Association(p, associatedConnections[p])'
      BY DEF Associated
    <3>1. CASE p = peer[c]
      BY <1>1, <1>4, <1>9, <2>1, <3>1 DEF Association
    <3>2. CASE p # peer[c]
      BY <1>1, <1>3, <2>1, <3>2 DEF SocketTypes, Associated, Association
    <3> QED BY <3>1, <3>2
  <2>3. KnownAssociated'
    BY <1>1, <1>4, <1>9, <2>1 DEF SocketTypes, KnownAssociated, OneConnection, Connections, Connection, InUse
  <2>4. Requests'
    <3> SUFFICES ASSUME NEW s \in Sender PROVE Request(requester[s])'
      BY DEF Requests
    <3>1. Request(requester[s])
      BY DEF Requests
    <3>2. requester[s].to = peer[c] => /\ ~Temporary(s)
                                       /\ requester[s].pc = "connect" => associatedConnections[peer[c]] = c
      BY <1>4, <1>9, <3>1 DEF Request, Temporary
    <3>3. requester[s].pc # "idle" => requester[s].to \in Peer
      BY <3>1 DEF SocketTypes, RequestType, Request
    <3> QED BY <1>1, <2>1, <3>1, <3>2, <3>3 DEF Request, Temporary, InUse
  <2> QED BY <1>5, <1>6, <1>7, <2>2, <2>3, <2>4
<1> QED BY <1>8, <1>9

\* The peer closes.
LEMMA ClosedByPeerKeeps ==
  ASSUME SocketSerial, ~overlapSockets, NEW c \in WS, Sockets!closeByPeer(c)
  PROVE  SocketSerial'
<1> USE SocketConstants DEF SocketSerial, Sockets!closeByPeer, Sockets!tables, Sockets!messages
<1>1. SocketTypes'
  BY DEF SocketTypes
<1>2. /\ c \in open /\ open' = open \ {c} /\ messageJobs[c] = 0
      /\ c \in knownPeer \cup deletedConnections \/ message[c] = 0
      /\ \A s \in Sender : requester[s].to = peer[c] => requester[s].pc = "wait"
      /\ UNCHANGED <<wsConnections, associatedConnections, connectionUsedCounter, peer, loop, knownPeer, message,
                     messageJobs, deletedConnections, requester>>
  OBVIOUS
<1>3. OneConnection' /\ OneRequest' /\ KnownAssociated' /\ TemporaryUsed'
  BY <1>2 DEF OneConnection, OneRequest, KnownAssociated, TemporaryUsed, Temporary, InUse
<1>4. Connections'
  BY <1>2 DEF Connections, Connection, InUse, Registered
<1>5. Associated'
  BY <1>2 DEF SocketTypes, Associated, Association, Registered
<1>6. Requests'
  BY <1>2 DEF SocketTypes, Requests, Request, InUse
<1> QED BY <1>1, <1>3, <1>4, <1>5, <1>6

\* The loop ends, and takes the association of its peer.
LEMMA LeaveKeeps ==
  ASSUME SocketSerial, ~overlapSockets, NEW c \in WS, Sockets!leave(c)
  PROVE  SocketSerial'
<1> USE SocketConstants DEF SocketSerial
<1>1. /\ loop[c] \in {"receiving", "cse"} /\ c \notin open /\ InUse(c) /\ peer[c] \in Peer
      /\ loop' = [loop EXCEPT ![c] = "ended"]
      /\ UNCHANGED <<connectionUsedCounter, open, peer, knownPeer, message, messageJobs, deletedConnections, requester>>
  BY DEF Sockets!leave, Sockets!messages, Connections, Connection, InUse
<1>2. /\ loop'[c] = "ended" /\ ~InUse(c)' /\ \A d \in WS : d # c => loop'[d] = loop[d] /\ InUse(d)' = InUse(d)
  BY <1>1 DEF SocketTypes, InUse
<1>3. OneConnection' /\ OneRequest'
  BY <1>1, <1>2 DEF OneConnection, OneRequest
<1>4. TemporaryUsed'
  BY <1>1, <1>2 DEF TemporaryUsed, Temporary
<1>5. CASE loop[c] = "cse"
  <2>1. UNCHANGED <<wsConnections, associatedConnections>>
    BY <1>5 DEF Sockets!leave
  <2>2. SocketTypes'
    BY <1>1, <2>1 DEF SocketTypes
  <2>3. Connections'
    BY <1>1, <1>2, <1>5, <2>1 DEF Connections, Connection, Registered
  <2>4. Associated' /\ KnownAssociated'
    BY <1>1, <1>2, <1>5, <2>1 DEF SocketTypes, Associated, Association, Registered, KnownAssociated
  <2>5. Requests'
    BY <1>1, <1>2, <2>1 DEF SocketTypes, Requests, Request
  <2> QED BY <1>3, <1>4, <2>2, <2>3, <2>4, <2>5
<1>6. CASE loop[c] = "receiving"
  <2>1. /\ wsConnections' = wsConnections \ {c}
        /\ associatedConnections' = IF c \in knownPeer THEN [associatedConnections EXCEPT ![peer[c]] = None]
                                                        ELSE associatedConnections
    BY <1>1, <1>6 DEF Sockets!leave, Sockets!removeConnection
  <2>2. SocketTypes'
    BY <1>1, <2>1 DEF SocketTypes
  <2>3. Connections'
    BY <1>1, <1>2, <1>6, <2>1 DEF Connections, Connection, Registered
  <2>4. \A p \in Peer : /\ p # peer[c] => associatedConnections'[p] = associatedConnections[p]
                        /\ associatedConnections'[p] # None => associatedConnections'[p] = associatedConnections[p]
    BY <1>1, <2>1 DEF SocketTypes
  <2>5. \A p \in Peer : associatedConnections'[p] # c
    BY <1>1, <2>1 DEF SocketTypes, Associated, Association
  <2>6. Associated'
    <3> SUFFICES ASSUME NEW p \in Peer, associatedConnections'[p] # None
                 PROVE  Association(p, associatedConnections[p])'
      BY DEF Associated
    <3>1. Association(p, associatedConnections[p]) /\ associatedConnections[p] \in WS /\ associatedConnections[p] # c
      BY <2>4, <2>5 DEF SocketTypes, Associated
    <3> QED BY <1>1, <1>2, <2>1, <2>4, <3>1 DEF Association, Registered
  <2>7. KnownAssociated'
    BY <1>1, <1>2, <2>4 DEF SocketTypes, KnownAssociated, OneConnection, Connections, Connection, InUse
  <2>8. Requests'
    <3> SUFFICES ASSUME NEW s \in Sender PROVE Request(requester[s])'
      BY DEF Requests
    <3>1. Request(requester[s])
      BY DEF Requests
    <3>2. requester[s].to = peer[c] => requester[s].pc # "connect" /\ ~Temporary(s)
      BY <1>1, <1>6, <3>1 DEF Request, Temporary
    <3>3. requester[s].pc # "idle" => requester[s].to \in Peer
      BY <3>1 DEF SocketTypes, RequestType, Request
    <3>4. Temporary(s) => requester[s].ws # c
      BY <1>6, <3>1 DEF Request, Temporary
    <3> QED BY <1>1, <1>2, <2>1, <2>4, <3>1, <3>2, <3>3, <3>4 DEF Request, Temporary
  <2> QED BY <1>3, <1>4, <2>2, <2>3, <2>6, <2>7, <2>8
<1> QED BY <1>1, <1>5, <1>6

\* An AE is deleted.
LEMMA HandleDeleteKeeps ==
  ASSUME SocketSerial, ~overlapSockets, NEW p \in Peer, Sockets!_handleDeleteEvent(p)
  PROVE  SocketSerial'
<1> USE SocketConstants DEF SocketSerial
<1> PICK c \in WS : c = associatedConnections[p]
  BY DEF Sockets!_handleDeleteEvent, SocketTypes
<1>1. /\ associatedConnections' = [associatedConnections EXCEPT ![p] = None]
      /\ deletedConnections' = deletedConnections \cup {c}
      /\ \A s \in Sender : requester[s].to # p
      /\ UNCHANGED <<wsConnections, connectionUsedCounter, open, peer, loop, knownPeer, message, messageJobs,
                     requester>>
  BY DEF Sockets!_handleDeleteEvent
<1>2. /\ Association(p, c) /\ associatedConnections'[p] = None
      /\ \A q \in Peer : q # p => associatedConnections'[q] = associatedConnections[q]
  BY <1>1 DEF Associated, SocketTypes
<1>3. loop[c] = "receiving"
  BY <1>1, <1>2 DEF Association, Requests, Request
<1>4. SocketTypes'
  BY <1>1 DEF SocketTypes
<1>5. OneConnection' /\ OneRequest' /\ TemporaryUsed'
  BY <1>1 DEF OneConnection, OneRequest, InUse, TemporaryUsed, Temporary
<1>6. Connections'
  BY <1>1, <1>2, <1>3 DEF Connections, Connection, Association, Registered, InUse
<1>7. Associated'
  BY <1>1, <1>2 DEF SocketTypes, Associated, Association, Registered
<1>8. KnownAssociated'
  BY <1>1, <1>2 DEF SocketTypes, KnownAssociated, Connections, Connection, InUse
<1>9. Requests'
  <2> SUFFICES ASSUME NEW s \in Sender PROVE Request(requester[s])'
    BY DEF Requests
  <2>1. Request(requester[s]) /\ requester[s].to # p
    BY <1>1 DEF Requests
  <2>2. requester[s].pc # "idle" => requester[s].to \in Peer
    BY <2>1 DEF SocketTypes, RequestType, Request
  <2> QED BY <1>1, <1>2, <1>3, <2>1, <2>2 DEF Request, InUse
<1> QED BY <1>4, <1>5, <1>6, <1>7, <1>8, <1>9

\* A request begins where the peer has no connection, or its own, which is associated.
LEMMA SendRequestKeeps ==
  ASSUME SocketSerial, ~overlapSockets, NEW s \in Sender, NEW p \in Peer, Sockets!sendWSRequest(s, p)
  PROVE  SocketSerial'
<1> USE SocketConstants DEF SocketSerial
<1>1. /\ requester[s].pc = "idle" /\ Sockets!Quiet(p)
      /\ requester' = [requester EXCEPT ![s] = [Sockets!Idle EXCEPT !.pc = "connect", !.to = p]]
      /\ UNCHANGED <<wsConnections, associatedConnections, connectionUsedCounter, open, peer, loop, knownPeer,
                     message, messageJobs, deletedConnections>>
  BY DEF Sockets!sendWSRequest, Sockets!become, Sockets!tables, Sockets!messages
<1>2. /\ requester'[s].pc = "connect" /\ requester'[s].to = p /\ requester'[s].isSenderWS = FALSE
      /\ \A t \in Sender : t # s => requester'[t] = requester[t]
      /\ \A t \in Sender : requester[t].to # p
  BY <1>1 DEF SocketTypes, Sockets!Quiet, Sockets!Idle
<1>3. SocketTypes'
  <2>1. Sockets!Idle \in RequestType
    BY DEF Sockets!Idle, RequestType
  <2>2. [Sockets!Idle EXCEPT !.pc = "connect", !.to = p] \in RequestType
    BY <2>1 DEF RequestType
  <2> QED BY <1>1, <2>2 DEF SocketTypes
<1>4. ~Temporary(s) /\ \A t \in Sender : Temporary(t)' = Temporary(t)
  BY <1>1, <1>2 DEF Requests, Request, Temporary
<1>5. OneConnection' /\ OneRequest' /\ Connections' /\ KnownAssociated'
  BY <1>1, <1>2 DEF OneConnection, OneRequest, InUse, Connections, Connection, Registered, KnownAssociated
<1>6. Associated' /\ TemporaryUsed'
  BY <1>1, <1>2, <1>4 DEF Associated, Association, Registered, TemporaryUsed, Temporary
<1>7. Requests'
  BY <1>1, <1>2 DEF Requests, Request, InUse, Sockets!Quiet
<1> QED BY <1>3, <1>5, <1>6, <1>7

\* A request uses the peer's own connection.
LEMMA EstablishedKeeps ==
  ASSUME SocketSerial, ~overlapSockets, NEW s \in Sender, Sockets!connectEstablished(s)
  PROVE  SocketSerial'
<1> USE SocketConstants DEF SocketSerial
<1>1. requester[s].pc = "connect" /\ requester[s].to \in Peer /\ Request(requester[s]) /\ ~requester[s].isSenderWS
  BY DEF Sockets!connectEstablished, SocketTypes, RequestType, Requests, Request
<1> PICK c \in WS : c = associatedConnections[requester[s].to]
  BY <1>1 DEF Sockets!connectEstablished, SocketTypes
<1>2. Association(requester[s].to, c)
  BY <1>1 DEF Associated
<1>3. \A t \in Sender : Temporary(t) => requester[t].ws # c
  BY <1>1, <1>2 DEF Association, Requests, Request, OneRequest, Temporary
<1>4. loop[c] = "receiving" /\ c \in open
  BY <1>1, <1>2, <1>3 DEF Association, Temporary, InUse, Request
<1>5. /\ requester' = [requester EXCEPT ![s] = [requester[s] EXCEPT !.pc = "send", !.ws = c]]
      /\ connectionUsedCounter' = [connectionUsedCounter EXCEPT ![c] = IF @ = None THEN None ELSE @ + 1]
      /\ UNCHANGED <<wsConnections, associatedConnections, open, peer, loop, knownPeer, message, messageJobs,
                     deletedConnections>>
  BY <1>2 DEF Sockets!connectEstablished, Sockets!become, Sockets!messages, Association
<1>6. /\ requester'[s] = [requester[s] EXCEPT !.pc = "send", !.ws = c]
      /\ \A t \in Sender : t # s => requester'[t] = requester[t]
      /\ \A d \in WS : d # c => connectionUsedCounter'[d] = connectionUsedCounter[d]
  BY <1>5 DEF SocketTypes
<1>7. /\ requester'[s].pc = "send" /\ requester'[s].ws = c /\ requester'[s].to = requester[s].to
      /\ requester'[s].isSenderWS = FALSE
  BY <1>1, <1>6 DEF SocketTypes
<1>8. SocketTypes'
  <2>1. [requester[s] EXCEPT !.pc = "send", !.ws = c]
          \in RequestType
    <3>1. requester[s] \in RequestType
      BY DEF SocketTypes
    <3> QED BY <3>1 DEF RequestType
  <2>2. connectionUsedCounter' \in [WS -> Nat \cup {None}]
    BY <1>5 DEF SocketTypes
  <2> QED BY <1>5, <2>1, <2>2 DEF SocketTypes
<1>9. OneConnection' /\ OneRequest' /\ Connections' /\ KnownAssociated'
  BY <1>5, <1>6, <1>7 DEF OneConnection, OneRequest, InUse, Connections, Connection, Registered, KnownAssociated
<1>10. Associated' /\ TemporaryUsed'
  BY <1>1, <1>5, <1>6, <1>7 DEF Associated, Association, Registered, TemporaryUsed, Temporary
<1>11. Requests'
  <2> SUFFICES ASSUME NEW t \in Sender PROVE Request(requester[t])'
    BY DEF Requests
  <2>1. CASE t = s
    BY <1>1, <1>2, <1>4, <1>5, <1>7, <2>1 DEF Request, Association
  <2>2. CASE t # s
    <3>1. Request(requester[t]) /\ requester'[t] = requester[t] /\ (Temporary(t) => requester[t].ws # c)
      BY <1>3, <1>6, <2>2 DEF Requests
    <3>2. UNCHANGED <<wsConnections, associatedConnections, open, peer, loop, knownPeer, deletedConnections>>
      BY <1>5
    <3>3. CASE requester[t].pc = "added" \/ requester[t].isSenderWS
      <4>1. requester[t].ws \in WS /\ requester[t].ws # c
        BY <3>1, <3>3 DEF SocketTypes, Request, Temporary
      <4>2. connectionUsedCounter'[requester[t].ws] = connectionUsedCounter[requester[t].ws]
        BY <1>6, <4>1
      <4> QED BY <3>1, <3>2, <4>2 DEF Request, InUse
    <3>4. CASE ~(requester[t].pc = "added" \/ requester[t].isSenderWS)
      BY <3>1, <3>2, <3>4 DEF Request, InUse
    <3> QED BY <3>3, <3>4
  <2> QED BY <2>1, <2>2
<1> QED BY <1>8, <1>9, <1>10, <1>11

\* A request opens a connection, or ends.
LEMMA TemporaryKeeps ==
  ASSUME SocketSerial, ~overlapSockets, NEW s \in Sender, Sockets!connectTemporary(s)
  PROVE  SocketSerial'
<1> USE SocketConstants DEF SocketSerial
<1>1. /\ requester[s].pc = "connect" /\ requester[s].to \in Peer /\ ~requester[s].isSenderWS
      /\ associatedConnections[requester[s].to] = None
      /\ \A d \in WS : peer[d] = requester[s].to => ~InUse(d)
      /\ UNCHANGED <<associatedConnections, message, messageJobs, deletedConnections>>
  BY DEF Sockets!connectTemporary, Sockets!messages, SocketTypes, RequestType, Requests, Request
<1>2. ASSUME NEW c \in WS,
             /\ loop[c] = "unused"
             /\ open' = open \cup {c} /\ wsConnections' = wsConnections \cup {c}
             /\ connectionUsedCounter' = [connectionUsedCounter EXCEPT ![c] = 1]
             /\ peer' = [peer EXCEPT ![c] = requester[s].to] /\ knownPeer' = knownPeer \cup {c}
             /\ loop' = [loop EXCEPT ![c] = "cse"]
             /\ Sockets!become(s, [requester[s] EXCEPT !.pc = "added", !.ws = c])
      PROVE  SocketSerial'
  <2>1. SocketTypes'
    <3>1. [requester[s] EXCEPT !.pc = "added", !.ws = c]
            \in RequestType
      <4>1. requester[s] \in RequestType
        BY DEF SocketTypes
      <4> QED BY <4>1 DEF RequestType
    <3> QED BY <1>1, <1>2, <3>1 DEF SocketTypes, Sockets!become
  <2>2. /\ peer'[c] = requester[s].to /\ loop'[c] = "cse" /\ InUse(c)' /\ connectionUsedCounter'[c] = 1
        /\ \A d \in WS : d # c => peer'[d] = peer[d] /\ loop'[d] = loop[d] /\ InUse(d)' = InUse(d)
                                   /\ connectionUsedCounter'[d] = connectionUsedCounter[d]
        /\ requester'[s] = [requester[s] EXCEPT !.pc = "added", !.ws = c]
        /\ \A t \in Sender : t # s => requester'[t] = requester[t]
    BY <1>2 DEF SocketTypes, InUse, Sockets!become
  <2>3. /\ requester'[s].pc = "added" /\ requester'[s].ws = c /\ requester'[s].to = requester[s].to
        /\ requester'[s].isSenderWS = FALSE
    BY <1>1, <2>2 DEF SocketTypes
  <2>4. ~InUse(c) /\ c \notin open /\ c \notin deletedConnections /\ message[c] = 0 /\ messageJobs[c] = 0
    BY <1>2 DEF SocketTypes, Connections, Connection, InUse
  <2>5. OneConnection' /\ OneRequest'
    <3>1. OneConnection'
      BY <1>1, <2>2 DEF OneConnection
    <3>2. \A t \in Sender : requester'[t].to = requester[t].to
      BY <2>2, <2>3
    <3> QED BY <3>1, <3>2 DEF OneRequest
  <2>6. Connections'
    BY <1>1, <1>2, <2>2, <2>4 DEF SocketTypes, Connections, Connection, Registered
  <2>7. \A p \in Peer : associatedConnections[p] # c
    BY <1>2, <2>4 DEF SocketTypes, Associated, Association, Requests, Request
  <2>8. Associated'
    <3> SUFFICES ASSUME NEW p \in Peer, associatedConnections[p] # None
                 PROVE  Association(p, associatedConnections[p])'
      BY <1>1 DEF Associated
    <3>1. Association(p, associatedConnections[p]) /\ associatedConnections[p] \in WS /\ associatedConnections[p] # c
      BY <2>7 DEF SocketTypes, Associated
    <3> QED BY <1>1, <1>2, <2>2, <2>3, <3>1 DEF Association, Registered
  <2>9. KnownAssociated' /\ TemporaryUsed'
    <3>1. KnownAssociated'
      BY <1>1, <1>2, <2>2 DEF SocketTypes, KnownAssociated
    <3>2. \A t \in Sender : Temporary(t) => Temporary(t)' /\ requester'[t] = requester[t]
      BY <1>1, <2>2 DEF Temporary
    <3>3. TemporaryUsed'
      <4> SUFFICES ASSUME NEW d \in open', loop'[d] = "cse"
                   PROVE  \E t \in Sender : Temporary(t)' /\ requester'[t].ws = d
        BY DEF TemporaryUsed
      <4>1. CASE d = c
        BY <2>3, <4>1 DEF Temporary
      <4>2. CASE d # c
        BY <1>2, <2>2, <3>2, <4>2 DEF SocketTypes, TemporaryUsed
      <4> QED BY <4>1, <4>2
    <3> QED BY <3>1, <3>3
  <2>10. Requests'
    <3> SUFFICES ASSUME NEW t \in Sender PROVE Request(requester[t])'
      BY DEF Requests
    <3>1. CASE t = s
      <4>1. \A d \in WS : peer'[d] = requester[s].to /\ InUse(d)' => d = c
        BY <1>1, <2>2
      <4>2. c \in (knownPeer' \cap wsConnections' \cap open') \ deletedConnections'
        BY <1>1, <1>2, <2>4
      <4> QED BY <1>1, <2>2, <2>3, <3>1, <4>1, <4>2 DEF Request
    <3>2. CASE t # s
      <4>1. Request(requester[t]) /\ requester'[t] = requester[t] /\ requester[t].to # requester[s].to
        BY <1>1, <2>2, <3>2 DEF Requests, OneRequest
      <4>2. (requester[t].pc = "send" \/ Temporary(t)) /\ requester[t].ws = c => FALSE
        BY <1>2, <2>4, <4>1 DEF Request, Temporary
      <4> QED BY <1>1, <1>2, <2>2, <4>1, <4>2 DEF Request, Temporary
    <3> QED BY <3>1, <3>2
  <2> QED BY <2>1, <2>5, <2>6, <2>8, <2>9, <2>10
<1>3. ASSUME Sockets!become(s, Sockets!Idle),
             UNCHANGED <<wsConnections, connectionUsedCounter, open, peer, loop, knownPeer>>
      PROVE  SocketSerial'
  <2>1. /\ requester'[s] = [pc |-> "idle", to |-> None, ws |-> None, isSenderWS |-> FALSE, again |-> FALSE]
        /\ \A t \in Sender : t # s => requester'[t] = requester[t]
    BY <1>3 DEF SocketTypes, Sockets!become, Sockets!Idle
  <2>2. SocketTypes'
    BY <1>1, <1>3 DEF SocketTypes, RequestType, Sockets!become, Sockets!Idle
  <2>3. OneConnection' /\ OneRequest' /\ Connections' /\ KnownAssociated'
    BY <1>1, <1>3, <2>1 DEF OneConnection, OneRequest, InUse, Connections, Connection, Registered, KnownAssociated
  <2>4. Associated' /\ TemporaryUsed'
    BY <1>1, <1>3, <2>1 DEF Associated, Association, Registered, TemporaryUsed, Temporary
  <2>5. Requests'
    BY <1>1, <1>3, <2>1 DEF Requests, Request, InUse
  <2> QED BY <2>2, <2>3, <2>4, <2>5
<1> QED BY <1>2, <1>3 DEF Sockets!connectTemporary

\* The connection of a request is associated.
LEMMA AssociateTemporaryKeeps ==
  ASSUME SocketSerial, ~overlapSockets, NEW s \in Sender, Sockets!associateTemporary(s)
  PROVE  SocketSerial'
<1> USE SocketConstants DEF SocketSerial
<1> PICK c : c = requester[s].ws
  OBVIOUS
<1>1. /\ requester[s].pc = "added" /\ requester[s].to \in Peer /\ ~requester[s].isSenderWS /\ c \in WS
      /\ associatedConnections[requester[s].to] = None /\ Request(requester[s])
  BY DEF Sockets!associateTemporary, SocketTypes, RequestType, Requests, Request
<1>2. /\ associatedConnections' = [associatedConnections EXCEPT ![requester[s].to] = c]
      /\ requester' = [requester EXCEPT ![s] = [requester[s] EXCEPT !.pc = "send", !.isSenderWS = TRUE]]
      /\ UNCHANGED <<wsConnections, connectionUsedCounter, open, peer, loop, knownPeer, message, messageJobs,
                     deletedConnections>>
  BY <1>1 DEF Sockets!associateTemporary, Sockets!closeFirst, Sockets!become, Sockets!messages
<1>3. /\ associatedConnections'[requester[s].to] = c
      /\ \A p \in Peer : p # requester[s].to => associatedConnections'[p] = associatedConnections[p]
      /\ \A t \in Sender : t # s => requester'[t] = requester[t]
      /\ requester'[s].pc = "send" /\ requester'[s].ws = c /\ requester'[s].to = requester[s].to
      /\ requester'[s].isSenderWS = TRUE
  BY <1>1, <1>2 DEF SocketTypes
<1>4. SocketTypes'
  <2>1. [requester[s] EXCEPT !.pc = "send", !.isSenderWS = TRUE]
          \in RequestType
    <3>1. requester[s] \in RequestType
      BY DEF SocketTypes
    <3> QED BY <3>1 DEF RequestType
  <2> QED BY <1>1, <1>2, <2>1 DEF SocketTypes
<1>5. OneConnection' /\ OneRequest' /\ Connections' /\ TemporaryUsed'
  BY <1>1, <1>2, <1>3 DEF OneConnection, OneRequest, InUse, Connections, Connection, Registered, TemporaryUsed,
       Temporary
<1>6. Associated'
  <2> SUFFICES ASSUME NEW p \in Peer, associatedConnections'[p] # None
               PROVE  Association(p, associatedConnections[p])'
    BY DEF Associated
  <2>1. CASE p = requester[s].to
    BY <1>1, <1>2, <1>3, <2>1 DEF Association, Request
  <2>2. CASE p # requester[s].to
    BY <1>1, <1>2, <1>3, <2>2 DEF Associated, Association, Registered
  <2> QED BY <2>1, <2>2
<1>7. KnownAssociated'
  BY <1>1, <1>2, <1>3 DEF SocketTypes, KnownAssociated, Request, Connections, Connection, InUse
<1>8. Requests'
  <2> SUFFICES ASSUME NEW t \in Sender PROVE Request(requester[t])'
    BY DEF Requests
  <2>1. CASE t = s
    BY <1>1, <1>2, <1>3, <2>1 DEF Request, InUse
  <2>2. CASE t # s
    <3>1. Request(requester[t]) /\ requester'[t] = requester[t] /\ requester[t].to # requester[s].to
      BY <1>1, <1>3, <2>2 DEF Requests, OneRequest
    <3>2. requester[t].pc # "idle" => requester[t].to \in Peer
      BY <3>1 DEF SocketTypes, RequestType, Request
    <3> QED BY <1>2, <1>3, <3>1, <3>2 DEF Request, InUse
  <2> QED BY <2>1, <2>2
<1> QED BY <1>4, <1>5, <1>6, <1>7, <1>8

\* The request is sent: its connection is open.
LEMMA SocketSendKeeps ==
  ASSUME SocketSerial, ~overlapSockets, NEW s \in Sender, Sockets!send(s)
  PROVE  SocketSerial'
<1> USE SocketConstants DEF SocketSerial
<1>1. requester[s].pc = "send" /\ Request(requester[s]) /\ requester[s].ws \in open
  BY DEF Sockets!send, Requests, Request
<1>2. /\ requester' = [requester EXCEPT ![s] = [requester[s] EXCEPT !.pc = "wait"]]
      /\ UNCHANGED <<wsConnections, associatedConnections, connectionUsedCounter, open, peer, loop, knownPeer,
                     message, messageJobs, deletedConnections>>
  BY <1>1 DEF Sockets!send, Sockets!become, Sockets!messages
<1>3. /\ \A t \in Sender : t # s => requester'[t] = requester[t]
      /\ requester'[s].pc = "wait" /\ requester'[s].ws = requester[s].ws /\ requester'[s].to = requester[s].to
      /\ requester'[s].isSenderWS = requester[s].isSenderWS
  BY <1>2 DEF SocketTypes, RequestType
<1>4. SocketTypes'
  BY <1>2 DEF SocketTypes, RequestType
<1>5. OneConnection' /\ OneRequest' /\ Connections' /\ KnownAssociated'
  BY <1>2, <1>3 DEF OneConnection, OneRequest, InUse, Connections, Connection, Registered, KnownAssociated
<1>6. Associated' /\ TemporaryUsed'
  BY <1>1, <1>2, <1>3 DEF Associated, Association, Registered, TemporaryUsed, Temporary
<1>7. Requests'
  BY <1>1, <1>2, <1>3 DEF Requests, Request, InUse
<1> QED BY <1>4, <1>5, <1>6, <1>7

\* The request ends, and closes the connection if it has opened it.
LEMMA DisconnectKeeps ==
  ASSUME SocketSerial, ~overlapSockets, NEW s \in Sender, Sockets!disconnectWS(s)
  PROVE  SocketSerial'
<1> USE SocketConstants DEF SocketSerial
<1>1. /\ requester[s].pc = "wait" /\ Request(requester[s]) /\ requester[s].to \in Peer
      /\ UNCHANGED <<peer, loop, knownPeer, message, messageJobs, deletedConnections>>
  BY DEF Sockets!disconnectWS, Sockets!messages, SocketTypes, RequestType, Requests, Request
<1>2. /\ requester'[s] = [pc |-> "idle", to |-> None, ws |-> None, isSenderWS |-> FALSE, again |-> FALSE]
      /\ requester' \in [Sender -> RequestType]
      /\ \A t \in Sender : t # s => requester'[t] = requester[t]
  BY DEF Sockets!disconnectWS, SocketTypes, RequestType, Sockets!become, Sockets!Idle
<1>3. OneConnection' /\ OneRequest'
  BY <1>1, <1>2 DEF OneConnection, OneRequest, InUse
<1>4. CASE ~requester[s].isSenderWS
  <2>1. UNCHANGED <<wsConnections, associatedConnections, connectionUsedCounter, open>>
    BY <1>4 DEF Sockets!disconnectWS, Sockets!tables
  <2>2. SocketTypes' /\ Connections' /\ KnownAssociated'
    BY <1>1, <1>2, <2>1 DEF SocketTypes, Connections, Connection, Registered, InUse, KnownAssociated
  <2>3. Associated' /\ TemporaryUsed'
    BY <1>1, <1>2, <1>4, <2>1 DEF Associated, Association, Registered, TemporaryUsed, Temporary
  <2>4. Requests'
    BY <1>1, <1>2, <2>1 DEF Requests, Request, InUse
  <2> QED BY <1>3, <2>2, <2>3, <2>4
<1>5. CASE requester[s].isSenderWS
  <2> PICK c \in WS : c = requester[s].ws
    BY <1>1, <1>5 DEF SocketTypes, Request
  <2>1. /\ associatedConnections[requester[s].to] = c /\ connectionUsedCounter[c] = 1 /\ peer[c] = requester[s].to
        /\ loop[c] \in {"cse", "ended"} /\ c \in knownPeer
    BY <1>1, <1>5 DEF Request
  <2>2. /\ connectionUsedCounter' = [connectionUsedCounter EXCEPT ![c] = None]
        /\ open' = open \ {c} /\ wsConnections' = wsConnections \ {c}
        /\ associatedConnections' = [associatedConnections EXCEPT ![requester[s].to] = None]
    BY <1>1, <1>5, <2>1 DEF SocketTypes, Sockets!disconnectWS, Sockets!closeConnection, Sockets!StillUsed,
         Sockets!Decremented, Sockets!removeConnection
  <2>3. SocketTypes'
    BY <1>1, <1>2, <2>2 DEF SocketTypes
  <2>4. Connections'
    BY <1>1, <2>1, <2>2 DEF Connections, Connection, Registered, InUse
  <2>5. /\ associatedConnections'[requester[s].to] = None
        /\ \A p \in Peer : p # requester[s].to => associatedConnections'[p] = associatedConnections[p]
        /\ \A d \in WS : d # c => connectionUsedCounter'[d] = connectionUsedCounter[d]
    BY <1>1, <2>2 DEF SocketTypes
  <2>6. Associated'
    <3> SUFFICES ASSUME NEW p \in Peer, associatedConnections'[p] # None
                 PROVE  Association(p, associatedConnections[p])'
      BY DEF Associated
    <3>1. /\ Association(p, associatedConnections[p]) /\ associatedConnections'[p] = associatedConnections[p]
          /\ associatedConnections[p] # c
      BY <2>1, <2>5 DEF Associated, Association
    <3> QED BY <1>1, <1>2, <2>2, <3>1 DEF Association, Registered
  <2>7. KnownAssociated'
    BY <1>1, <1>5, <2>1, <2>5 DEF SocketTypes, KnownAssociated, Request, Connections, Connection, InUse
  <2>8. TemporaryUsed'
    BY <1>1, <1>2, <2>2 DEF TemporaryUsed, Temporary
  <2>9. Requests'
    <3> SUFFICES ASSUME NEW t \in Sender PROVE Request(requester[t])'
      BY DEF Requests
    <3>1. CASE t = s
      BY <1>2, <3>1 DEF Request
    <3>2. CASE t # s
      <4>1. Request(requester[t]) /\ requester'[t] = requester[t] /\ requester[t].to # requester[s].to
        BY <1>1, <1>2, <3>2 DEF Requests, OneRequest
      <4>2. requester[t].pc # "idle" => requester[t].to \in Peer
        BY <4>1 DEF SocketTypes, RequestType, Request
      <4>3. ASSUME requester[t].pc = "send" \/ Temporary(t) PROVE requester[t].ws # c
        BY <2>1, <4>1, <4>3 DEF Request, Temporary
      <4>4. \A d \in WS : peer[d] = requester[t].to => d # c
        BY <2>1, <4>1
      <4> QED BY <1>1, <1>2, <2>2, <2>5, <4>1, <4>2, <4>3, <4>4 DEF SocketTypes, Request, Temporary, InUse
    <3> QED BY <3>1, <3>2
  <2> QED BY <1>3, <2>3, <2>4, <2>6, <2>7, <2>8, <2>9
<1> QED BY <1>4, <1>5

\* The invariant holds before the first connection.
LEMMA SocketInit == Sockets!Init => SocketInv
<1> SUFFICES ASSUME Sockets!Init PROVE SocketSerial
  BY DEF SocketInv
<1> USE SocketConstants DEF Sockets!Init, Sockets!Idle
<1>1. SocketTypes
  BY DEF SocketTypes, RequestType
<1>2. OneConnection /\ OneRequest /\ Connections
  BY DEF OneConnection, OneRequest, Connections, Connection, InUse
<1>3. Associated /\ KnownAssociated /\ TemporaryUsed /\ Requests
  BY DEF Associated, KnownAssociated, TemporaryUsed, Requests, Request
<1> QED BY <1>1, <1>2, <1>3 DEF SocketSerial

\* It holds in every reachable state.
LEMMA SocketInvariant == Sockets!Spec => []SocketInv
<1>1. SocketInv /\ [Sockets!Next]_Sockets!wsVars => SocketInv'
  <2>1. SocketInv /\ UNCHANGED Sockets!wsVars => SocketInv'
    BY DEF Sockets!wsVars, SocketInv, SocketSerial, SocketTypes, OneConnection, OneRequest, Connections, Connection,
         Registered, InUse, Associated, Association, KnownAssociated, TemporaryUsed, Temporary, Requests, Request
  <2>2. ASSUME Sockets!Next PROVE overlapSockets' = overlapSockets
    BY Zenon, <2>2 DEF Sockets!Next, Sockets!accept, Sockets!addConnection, Sockets!associateIncoming, Sockets!receive,
         Sockets!_handleReceivedMessage, Sockets!closeByPeer, Sockets!leave, Sockets!_handleDeleteEvent,
         Sockets!sendWSRequest, Sockets!connectEstablished, Sockets!connectTemporary, Sockets!associateTemporary,
         Sockets!send, Sockets!disconnectWS
  <2>3. ASSUME SocketSerial, ~overlapSockets, Sockets!Next PROVE SocketSerial'
    BY <2>3, AcceptKeeps, AddKeeps, AssociateIncomingKeeps, ReceiveKeeps, HandleMessageKeeps, ClosedByPeerKeeps,
       LeaveKeeps, HandleDeleteKeeps, SendRequestKeeps, EstablishedKeeps, TemporaryKeeps, AssociateTemporaryKeeps,
       SocketSendKeeps, DisconnectKeeps DEF Sockets!Next
  <2> QED BY <2>1, <2>2, <2>3 DEF SocketInv
<1> QED BY <1>1, SocketInit, PTL DEF Sockets!Spec
-----------------------------------------------------------------------------
(***************************************************************************)
(* Announcements, to any number of CSEs, that answer or do not.            *)
(***************************************************************************)

\* Induction, with a set instead of a predicate.
LEMMA Induct ==
  ASSUME NEW n \in Nat, NEW S, 0 \in S, \A k \in 1..n : k - 1 \in S => k \in S
  PROVE  n \in S
<1> DEFINE Bad == {k \in 0..n : k \notin S}
<1>1. CASE Bad = {}
  BY <1>1
<1>2. CASE Bad # {}
  <2> DEFINE Less == {pair \in Nat \X Nat : pair[1] < pair[2]}
  <2>1. IsWellFoundedOn(Less, Nat)
    BY NatLessThanWellFounded DEF OpToRel
  <2>2. Bad \in SUBSET Nat
    OBVIOUS
  <2>3. PICK k \in Bad : \A y \in Bad : <<y, k>> \notin Less
    BY <2>1, <2>2, <1>2, WFMin
  <2>4. k \in 0..n /\ k \notin S /\ k # 0
    OBVIOUS
  <2>5. k - 1 \in S
    <3> SUFFICES ASSUME k - 1 \notin S PROVE FALSE
      OBVIOUS
    <3>1. k - 1 \in Bad /\ k - 1 < k /\ k - 1 \in Nat /\ k \in Nat
      BY <2>4
    <3> QED BY <2>3, <3>1
  <2>6. k \in 1..n
    BY <2>4
  <2> QED BY <2>4, <2>5, <2>6
<1> QED BY <1>1, <1>2

\* The greatest of some indexes that have one.
LEMMA Greatest ==
  ASSUME NEW k \in Nat, NEW T \in SUBSET (1..k), k \in T
  PROVE  Announcements!Max(T) = k
<1>1. \A y \in T : k >= y /\ y \in Int
  OBVIOUS
<1>2. Announcements!Max(T) \in T /\ Announcements!Max(T) >= k
  BY <1>1 DEF Announcements!Max
<1>3. PICK m \in T : m = Announcements!Max(T)
  BY <1>2
<1> QED BY <1>1, <1>2, <1>3

(***************************************************************************)
(* Folds.                                                                  *)
(***************************************************************************)

\* The loop over the CSEs.
AllOn(w, csis, answers, g) ==
  g = [T \in SUBSET (DOMAIN csis) |->
         IF T = {} THEN w
         ELSE Announcements!announceResourceToCSI(g[T \ {Announcements!Max(T)}],
                                                  csis[Announcements!Max(T)], answers)]

LEMMA AllLoop ==
  ASSUME NEW w, NEW csis, NEW answers
  PROVE  Announcements!announceAll(w, csis, answers) = (CHOOSE g : AllOn(w, csis, answers, g))[DOMAIN csis]
BY Zenon DEF Announcements!announceAll, Announcements!FoldLeft, Announcements!MapThenFoldSet, AllOn

LEMMA AllExists ==
  ASSUME NEW w, NEW n \in Nat, NEW csis, DOMAIN csis = 1..n, NEW answers
  PROVE  \E g : AllOn(w, csis, answers, g)
<1> DEFINE Turn(g, T) ==
              Announcements!announceResourceToCSI(g[T \ {Announcements!Max(T)}],
                                                  csis[Announcements!Max(T)], answers)
            On(k, g) == g = [T \in SUBSET (1..k) |-> IF T = {} THEN w ELSE Turn(g, T)]
            S == {k \in 0..n : \E g : On(k, g)}
<1>1. 0 \in S
  <2> DEFINE g == [T \in SUBSET (1..0) |-> w]
  <2>1. \A T \in SUBSET (1..0) : T = {}
    OBVIOUS
  <2>2. On(0, g)
    BY <2>1
  <2> QED BY <2>2
<1>2. ASSUME NEW k \in 1..n, k - 1 \in S PROVE k \in S
  <2>1. PICK h : On(k - 1, h)
    BY <1>2
  <2> DEFINE g == [T \in SUBSET (1..k) |->
                      IF k \in T THEN Announcements!announceResourceToCSI(h[T \ {k}], csis[k], answers) ELSE h[T]]
  <2>2. ASSUME NEW T \in SUBSET (1..k) PROVE g[T] = IF T = {} THEN w ELSE Turn(g, T)
    <3>1. CASE k \in T
      <4>1. Announcements!Max(T) = k
        BY <3>1, Greatest
      <4>2. T \ {k} \in SUBSET (1..k) /\ k \notin T \ {k}
        OBVIOUS
      <4>3. g[T \ {k}] = h[T \ {k}]
        BY <4>2
      <4>4. g[T] = Announcements!announceResourceToCSI(h[T \ {k}], csis[k], answers)
        BY <3>1
      <4> QED BY <3>1, <4>1, <4>3, <4>4
    <3>2. CASE k \notin T
      <4>1. T \in SUBSET (1..(k - 1))
        BY <3>2
      <4>2. g[T] = h[T]
        BY <3>2
      <4>3. h[T] = IF T = {} THEN w ELSE Turn(h, T)
        BY <2>1, <4>1
      <4>4. T # {} => k \notin T \ {Announcements!Max(T)} /\ T \ {Announcements!Max(T)} \in SUBSET (1..k)
        BY <3>2
      <4>5. T # {} => g[T \ {Announcements!Max(T)}] = h[T \ {Announcements!Max(T)}]
        BY <4>4
      <4> QED BY <4>2, <4>3, <4>5
    <3> QED BY <3>1, <3>2
  <2>3. g = [T \in SUBSET (1..k) |-> g[T]]
    OBVIOUS
  <2>4. On(k, g)
    <3> HIDE DEF g, Turn
    <3> QED BY <2>2, <2>3, Zenon
  <2> QED
    <3> HIDE DEF g, On
    <3> QED BY <2>4
<1>3. n \in S
  <2> HIDE DEF S
  <2> QED BY <1>1, <1>2, Induct
<1> QED BY <1>3 DEF AllOn

\* What is worked on after each turn.
AllTurning(v, w, n, csis, answers) ==
  /\ v[0] = w /\ Announcements!announceAll(w, csis, answers) = v[n]
  /\ \A k \in 1..n : v[k] = Announcements!announceResourceToCSI(v[k - 1], csis[k], answers)

LEMMA AllTurns ==
  ASSUME NEW w, NEW n \in Nat, NEW csis, DOMAIN csis = 1..n, NEW answers
  PROVE  \E v : AllTurning(v, w, n, csis, answers)
<1> DEFINE g == CHOOSE g : AllOn(w, csis, answers, g)
            v == [k \in 0..n |-> g[1..k]]
<1>1. AllOn(w, csis, answers, g)
  BY AllExists, Zenon
<1> HIDE DEF g
<1>2. \A T \in SUBSET (1..n) :
        g[T] = IF T = {} THEN w
               ELSE Announcements!announceResourceToCSI(g[T \ {Announcements!Max(T)}],
                                                        csis[Announcements!Max(T)], answers)
  BY <1>1, Zenon DEF AllOn
<1>3. v[0] = w
  <2>1. 1..0 = {} /\ v[0] = g[1..0] /\ {} \in SUBSET (1..n)
    OBVIOUS
  <2> QED BY <2>1, <1>2
<1>4. ASSUME NEW k \in 1..n PROVE v[k] = Announcements!announceResourceToCSI(v[k - 1], csis[k], answers)
  <2>1. 1..k \in SUBSET (1..n) /\ k \in 1..k /\ (1..k) \ {k} = 1..(k - 1) /\ k - 1 \in 0..n /\ k \in 0..n
    OBVIOUS
  <2>2. Announcements!Max(1..k) = k
    BY <2>1, Greatest
  <2>3. g[1..k] = Announcements!announceResourceToCSI(g[1..(k - 1)], csis[k], answers)
    BY <1>2, <2>1, <2>2
  <2> QED BY <2>1, <2>3
<1>5. Announcements!announceAll(w, csis, answers) = v[n]
  <2>1. Announcements!announceAll(w, csis, answers) = g[1..n]
    BY Zenon, AllLoop DEF g
  <2>2. n \in 0..n
    OBVIOUS
  <2> QED BY <2>1, <2>2
<1> QED
  <2> HIDE DEF v
  <2> QED BY <1>3, <1>4, <1>5 DEF AllTurning

\* The loop over the announced resources.
GoneOn(w, list, answers, g) ==
  g = [T \in SUBSET (DOMAIN list) |->
         IF T = {} THEN w
         ELSE Announcements!deAnnounceResourceFromCSI(g[T \ {Announcements!Max(T)}],
                                                      list[Announcements!Max(T)], answers)]

LEMMA GoneLoop ==
  ASSUME NEW w, NEW list, list = Announcements!Visited(w.to), NEW answers
  PROVE  Announcements!deAnnounceResource(w, answers) = (CHOOSE g : GoneOn(w, list, answers, g))[DOMAIN list]
BY Zenon DEF Announcements!deAnnounceResource, Announcements!FoldLeft, Announcements!MapThenFoldSet, GoneOn

LEMMA GoneExists ==
  ASSUME NEW w, NEW n \in Nat, NEW list, DOMAIN list = 1..n, NEW answers
  PROVE  \E g : GoneOn(w, list, answers, g)
<1> DEFINE Turn(g, T) ==
              Announcements!deAnnounceResourceFromCSI(g[T \ {Announcements!Max(T)}],
                                                      list[Announcements!Max(T)], answers)
            On(k, g) == g = [T \in SUBSET (1..k) |-> IF T = {} THEN w ELSE Turn(g, T)]
            S == {k \in 0..n : \E g : On(k, g)}
<1>1. 0 \in S
  <2> DEFINE g == [T \in SUBSET (1..0) |-> w]
  <2>1. \A T \in SUBSET (1..0) : T = {}
    OBVIOUS
  <2>2. On(0, g)
    BY <2>1
  <2> QED BY <2>2
<1>2. ASSUME NEW k \in 1..n, k - 1 \in S PROVE k \in S
  <2>1. PICK h : On(k - 1, h)
    BY <1>2
  <2> DEFINE g == [T \in SUBSET (1..k) |->
                      IF k \in T THEN Announcements!deAnnounceResourceFromCSI(h[T \ {k}], list[k], answers)
                      ELSE h[T]]
  <2>2. ASSUME NEW T \in SUBSET (1..k) PROVE g[T] = IF T = {} THEN w ELSE Turn(g, T)
    <3>1. CASE k \in T
      <4>1. Announcements!Max(T) = k
        BY <3>1, Greatest
      <4>2. T \ {k} \in SUBSET (1..k) /\ k \notin T \ {k}
        OBVIOUS
      <4>3. g[T \ {k}] = h[T \ {k}]
        BY <4>2
      <4>4. g[T] = Announcements!deAnnounceResourceFromCSI(h[T \ {k}], list[k], answers)
        BY <3>1
      <4> QED BY <3>1, <4>1, <4>3, <4>4
    <3>2. CASE k \notin T
      <4>1. T \in SUBSET (1..(k - 1))
        BY <3>2
      <4>2. g[T] = h[T]
        BY <3>2
      <4>3. h[T] = IF T = {} THEN w ELSE Turn(h, T)
        BY <2>1, <4>1
      <4>4. T # {} => k \notin T \ {Announcements!Max(T)} /\ T \ {Announcements!Max(T)} \in SUBSET (1..k)
        BY <3>2
      <4>5. T # {} => g[T \ {Announcements!Max(T)}] = h[T \ {Announcements!Max(T)}]
        BY <4>4
      <4> QED BY <4>2, <4>3, <4>5
    <3> QED BY <3>1, <3>2
  <2>3. g = [T \in SUBSET (1..k) |-> g[T]]
    OBVIOUS
  <2>4. On(k, g)
    <3> HIDE DEF g, Turn
    <3> QED BY <2>2, <2>3, Zenon
  <2> QED
    <3> HIDE DEF g, On
    <3> QED BY <2>4
<1>3. n \in S
  <2> HIDE DEF S
  <2> QED BY <1>1, <1>2, Induct
<1> QED BY <1>3 DEF GoneOn

GoneTurning(v, w, n, list, answers) ==
  /\ v[0] = w /\ Announcements!deAnnounceResource(w, answers) = v[n]
  /\ \A k \in 1..n : v[k] = Announcements!deAnnounceResourceFromCSI(v[k - 1], list[k], answers)

LEMMA GoneTurns ==
  ASSUME NEW w, NEW n \in Nat, NEW list, DOMAIN list = 1..n, list = Announcements!Visited(w.to), NEW answers
  PROVE  \E v : GoneTurning(v, w, n, list, answers)
<1> DEFINE g == CHOOSE g : GoneOn(w, list, answers, g)
            v == [k \in 0..n |-> g[1..k]]
<1>1. GoneOn(w, list, answers, g)
  BY GoneExists, Zenon
<1> HIDE DEF g
<1>2. \A T \in SUBSET (1..n) :
        g[T] = IF T = {} THEN w
               ELSE Announcements!deAnnounceResourceFromCSI(g[T \ {Announcements!Max(T)}],
                                                            list[Announcements!Max(T)], answers)
  BY <1>1, Zenon DEF GoneOn
<1>3. v[0] = w
  <2>1. 1..0 = {} /\ v[0] = g[1..0] /\ {} \in SUBSET (1..n)
    OBVIOUS
  <2> QED BY <2>1, <1>2
<1>4. ASSUME NEW k \in 1..n PROVE v[k] = Announcements!deAnnounceResourceFromCSI(v[k - 1], list[k], answers)
  <2>1. 1..k \in SUBSET (1..n) /\ k \in 1..k /\ (1..k) \ {k} = 1..(k - 1) /\ k - 1 \in 0..n /\ k \in 0..n
    OBVIOUS
  <2>2. Announcements!Max(1..k) = k
    BY <2>1, Greatest
  <2>3. g[1..k] = Announcements!deAnnounceResourceFromCSI(g[1..(k - 1)], list[k], answers)
    BY <1>2, <2>1, <2>2
  <2> QED BY <2>1, <2>3
<1>5. Announcements!deAnnounceResource(w, answers) = v[n]
  <2>1. Announcements!deAnnounceResource(w, answers) = g[1..n]
    BY Zenon, GoneLoop DEF g
  <2>2. n \in 0..n
    OBVIOUS
  <2> QED BY <2>1, <2>2
<1> QED
  <2> HIDE DEF v
  <2> QED BY <1>3, <1>4, <1>5 DEF GoneTurning

\* The loop over a list some entries of which are left out.
KeptEntry(t, e, X) == IF e \in X THEN t ELSE Append(t, e)

WithoutOn(s, X, g) ==
  g = [T \in SUBSET (DOMAIN s) |->
         IF T = {} THEN <<>> ELSE KeptEntry(g[T \ {Announcements!Max(T)}], s[Announcements!Max(T)], X)]

LEMMA WithoutLoop ==
  ASSUME NEW s, NEW X
  PROVE  Announcements!Without(s, X) = (CHOOSE g : WithoutOn(s, X, g))[DOMAIN s]
BY Zenon DEF Announcements!Without, KeptEntry, Announcements!FoldLeft, Announcements!MapThenFoldSet, WithoutOn

LEMMA WithoutExists ==
  ASSUME NEW n \in Nat, NEW s, DOMAIN s = 1..n, NEW X
  PROVE  \E g : WithoutOn(s, X, g)
<1> DEFINE Turn(g, T) == KeptEntry(g[T \ {Announcements!Max(T)}], s[Announcements!Max(T)], X)
            On(k, g) == g = [T \in SUBSET (1..k) |-> IF T = {} THEN <<>> ELSE Turn(g, T)]
            S == {k \in 0..n : \E g : On(k, g)}
<1>1. 0 \in S
  <2> DEFINE g == [T \in SUBSET (1..0) |-> <<>>]
  <2>1. \A T \in SUBSET (1..0) : T = {}
    OBVIOUS
  <2>2. On(0, g)
    BY <2>1
  <2> QED BY <2>2
<1>2. ASSUME NEW k \in 1..n, k - 1 \in S PROVE k \in S
  <2>1. PICK h : On(k - 1, h)
    BY <1>2
  <2> DEFINE g == [T \in SUBSET (1..k) |->
                      IF k \in T THEN KeptEntry(h[T \ {k}], s[k], X) ELSE h[T]]
  <2>2. ASSUME NEW T \in SUBSET (1..k) PROVE g[T] = IF T = {} THEN <<>> ELSE Turn(g, T)
    <3>1. CASE k \in T
      <4>1. Announcements!Max(T) = k
        BY <3>1, Greatest
      <4>2. T \ {k} \in SUBSET (1..k) /\ k \notin T \ {k}
        OBVIOUS
      <4>3. g[T \ {k}] = h[T \ {k}]
        BY <4>2
      <4>4. g[T] = KeptEntry(h[T \ {k}], s[k], X)
        BY <3>1
      <4> QED BY <3>1, <4>1, <4>3, <4>4
    <3>2. CASE k \notin T
      <4>1. T \in SUBSET (1..(k - 1))
        BY <3>2
      <4>2. g[T] = h[T]
        BY <3>2
      <4>3. h[T] = IF T = {} THEN <<>> ELSE Turn(h, T)
        BY <2>1, <4>1
      <4>4. T # {} => k \notin T \ {Announcements!Max(T)} /\ T \ {Announcements!Max(T)} \in SUBSET (1..k)
        BY <3>2
      <4>5. T # {} => g[T \ {Announcements!Max(T)}] = h[T \ {Announcements!Max(T)}]
        BY <4>4
      <4> QED BY <4>2, <4>3, <4>5
    <3> QED BY <3>1, <3>2
  <2>3. g = [T \in SUBSET (1..k) |-> g[T]]
    OBVIOUS
  <2>4. On(k, g)
    <3> HIDE DEF g, Turn
    <3> QED BY <2>2, <2>3, Zenon
  <2> QED
    <3> HIDE DEF g, On
    <3> QED BY <2>4
<1>3. n \in S
  <2> HIDE DEF S
  <2> QED BY <1>1, <1>2, Induct
<1> QED BY <1>3 DEF WithoutOn

WithoutTurning(v, s, n, X) ==
  v[0] = <<>> /\ Announcements!Without(s, X) = v[n] /\ \A k \in 1..n : v[k] = KeptEntry(v[k - 1], s[k], X)

LEMMA WithoutTurns ==
  ASSUME NEW n \in Nat, NEW s, DOMAIN s = 1..n, NEW X
  PROVE  \E v : WithoutTurning(v, s, n, X)
<1> DEFINE g == CHOOSE g : WithoutOn(s, X, g)
            v == [k \in 0..n |-> g[1..k]]
<1>1. WithoutOn(s, X, g)
  BY WithoutExists, Zenon
<1> HIDE DEF g
<1>2. \A T \in SUBSET (1..n) :
        g[T] = IF T = {} THEN <<>> ELSE KeptEntry(g[T \ {Announcements!Max(T)}], s[Announcements!Max(T)], X)
  BY <1>1, Zenon DEF WithoutOn
<1>3. v[0] = <<>>
  <2>1. 1..0 = {} /\ v[0] = g[1..0] /\ {} \in SUBSET (1..n)
    OBVIOUS
  <2> QED BY <2>1, <1>2
<1>4. ASSUME NEW k \in 1..n PROVE v[k] = KeptEntry(v[k - 1], s[k], X)
  <2>1. 1..k \in SUBSET (1..n) /\ k \in 1..k /\ (1..k) \ {k} = 1..(k - 1) /\ k - 1 \in 0..n /\ k \in 0..n
    OBVIOUS
  <2>2. Announcements!Max(1..k) = k
    BY <2>1, Greatest
  <2>3. g[1..k] = KeptEntry(g[1..(k - 1)], s[k], X)
    BY <1>2, <2>1, <2>2
  <2> QED BY <2>1, <2>3
<1>5. Announcements!Without(s, X) = v[n]
  <2>1. Announcements!Without(s, X) = g[1..n]
    BY Zenon, WithoutLoop DEF g
  <2>2. n \in 0..n
    OBVIOUS
  <2> QED BY <2>1, <2>2
<1> QED
  <2> HIDE DEF v
  <2> QED BY <1>3, <1>4, <1>5 DEF WithoutTurning

(***************************************************************************)
(* Lists.                                                                  *)
(***************************************************************************)

\* A list has one entry for a CSE.
Single(s) == \A i, k \in DOMAIN s : s[i].csi = s[k].csi => i = k

LEMMA NoEntry ==
  /\ \A D : <<>> \in Seq(D)
  /\ DOMAIN <<>> = {} /\ Len(<<>>) = 0 /\ Announcements!Entries(<<>>) = {} /\ Announcements!Csis(<<>>) = {}
     /\ Single(<<>>)
BY DEF Announcements!Entries, Announcements!Csis, Single

LEMMA EntriesIn == ASSUME NEW D, NEW s \in Seq(D) PROVE Announcements!Entries(s) \subseteq D
BY DEF Announcements!Entries

LEMMA AppendIs ==
  ASSUME NEW D, NEW s \in Seq(D), NEW e \in D
  PROVE  /\ Append(s, e) \in Seq(D) /\ Announcements!Entries(Append(s, e)) = Announcements!Entries(s) \cup {e}
         /\ Single(s) /\ (\A x \in Announcements!Entries(s) : x.csi # e.csi) => Single(Append(s, e))
<1> DEFINE t == Append(s, e)
            n == Len(s)
<1>1. /\ n \in Nat /\ DOMAIN s = 1..n /\ DOMAIN t = 1..(n + 1) /\ t \in Seq(D)
      /\ t[n + 1] = e /\ \A i \in 1..n : t[i] = s[i]
  OBVIOUS
<1> HIDE DEF t, n
<1>2. Announcements!Entries(t) = Announcements!Entries(s) \cup {e}
  <2>1. \A x \in Announcements!Entries(t) : x \in Announcements!Entries(s) \cup {e}
    <3> SUFFICES ASSUME NEW i \in 1..(n + 1) PROVE t[i] \in Announcements!Entries(s) \cup {e}
      BY <1>1 DEF Announcements!Entries
    <3> QED BY <1>1 DEF Announcements!Entries
  <2>2. e \in Announcements!Entries(t)
    <3>1. n + 1 \in 1..(n + 1)
      BY <1>1
    <3> QED BY <3>1, <1>1 DEF Announcements!Entries
  <2>3. ASSUME NEW i \in 1..n PROVE s[i] \in Announcements!Entries(t)
    <3>1. i \in 1..(n + 1)
      BY <1>1
    <3> QED BY <3>1, <1>1 DEF Announcements!Entries
  <2>4. \A x \in Announcements!Entries(s) : x \in Announcements!Entries(t)
    BY <2>3, <1>1 DEF Announcements!Entries
  <2> QED BY <2>1, <2>2, <2>4
<1>3. ASSUME Single(s), \A x \in Announcements!Entries(s) : x.csi # e.csi PROVE Single(t)
  <2> SUFFICES ASSUME NEW i \in 1..(n + 1), NEW k \in 1..(n + 1), t[i].csi = t[k].csi PROVE i = k
    BY <1>1 DEF Single
  <2>1. \A m \in 1..n : t[m].csi # e.csi
    BY <1>1, <1>3 DEF Announcements!Entries
  <2>2. i = n + 1 \/ i \in 1..n
    BY <1>1
  <2>3. k = n + 1 \/ k \in 1..n
    BY <1>1
  <2> QED BY <1>1, <1>3, <2>1, <2>2, <2>3 DEF Single
<1> QED BY <1>1, <1>2, <1>3 DEF t

LEMMA WithoutIs ==
  ASSUME NEW D, NEW s \in Seq(D), NEW X
  PROVE  /\ /\ Announcements!Without(s, X) \in Seq(D)
         /\ Announcements!Entries(Announcements!Without(s, X)) = Announcements!Entries(s) \ X
         /\ Single(s) => Single(Announcements!Without(s, X))
<1> DEFINE n == Len(s)
<1>1. n \in Nat /\ DOMAIN s = 1..n /\ \A i \in 1..n : s[i] \in D
  OBVIOUS
<1>2. PICK v : /\ v[0] = <<>> /\ Announcements!Without(s, X) = v[n]
               /\ \A k \in 1..n : v[k] = KeptEntry(v[k - 1], s[k], X)
  BY <1>1, WithoutTurns DEF WithoutTurning
<1> HIDE DEF n
<1> DEFINE Upto(k) == {s[i] : i \in 1..k}
            Good(k) == /\ v[k] \in Seq(D) /\ Announcements!Entries(v[k]) = Upto(k) \ X
                       /\ Single(s) => Single(v[k])
            S == {k \in 0..n : Good(k)}
<1>3. 0 \in S
  <2>1. Upto(0) = {}
    OBVIOUS
  <2>2. Good(0)
    BY <1>2, <2>1, NoEntry
  <2> QED BY <1>1, <2>2
<1>4. ASSUME NEW k \in 1..n, k - 1 \in S PROVE k \in S
  <2>1. Good(k - 1) /\ k \in 0..n /\ s[k] \in D
    BY <1>1, <1>4
  <2>2. Upto(k) = Upto(k - 1) \cup {s[k]}
    <3>1. \A i \in 1..k : i = k \/ i \in 1..(k - 1)
      OBVIOUS
    <3>2. k \in 1..k /\ \A i \in 1..(k - 1) : i \in 1..k
      OBVIOUS
    <3> QED BY <3>1, <3>2
  <2>3. Single(s) => \A x \in Upto(k - 1) : x.csi # s[k].csi
    <3>1. \A i \in 1..(k - 1) : i # k /\ i \in 1..n /\ k \in 1..n
      BY <1>1
    <3> QED BY <1>1, <3>1 DEF Single
  <2>4. v[k] = KeptEntry(v[k - 1], s[k], X)
    BY <1>2
  <2> HIDE DEF Upto
  <2>5. CASE s[k] \in X
    <3>1. Good(k)
      BY <2>1, <2>2, <2>4, <2>5 DEF KeptEntry
    <3> QED BY <2>1, <3>1
  <2>6. CASE s[k] \notin X
    <3> DEFINE t == v[k - 1]
                e == s[k]
    <3>1. v[k] = Append(t, e) /\ t \in Seq(D) /\ e \in D /\ Announcements!Entries(t) = Upto(k - 1) \ X
      BY <2>1, <2>4, <2>6 DEF KeptEntry
    <3>2. Single(s) => Single(t) /\ \A x \in Announcements!Entries(t) : x.csi # e.csi
      BY <2>1, <2>3, <3>1
    <3>3. e \notin X /\ Upto(k) = Upto(k - 1) \cup {e}
      BY <2>2, <2>6
    <3> HIDE DEF t, e
    <3>4. /\ Append(t, e) \in Seq(D) /\ Announcements!Entries(Append(t, e)) = Announcements!Entries(t) \cup {e}
          /\ Single(t) /\ (\A x \in Announcements!Entries(t) : x.csi # e.csi) => Single(Append(t, e))
      BY <3>1, AppendIs
    <3>5. Good(k)
      BY <3>1, <3>2, <3>3, <3>4
    <3> QED BY <2>1, <3>5
  <2> QED BY <2>5, <2>6
<1>5. n \in S
  <2> HIDE DEF S
  <2> QED BY <1>1, <1>3, <1>4, Induct
<1>6. Upto(n) = Announcements!Entries(s)
  BY <1>1 DEF Announcements!Entries
<1> QED BY <1>2, <1>5, <1>6

(***************************************************************************)
(* The invariant.                                                          *)
(***************************************************************************)

Others == {"parent", "child"}
EntryN == [csi : Csi, ri : Nat]
AnnouncedN == [csi : Csi, ri : Nat, lnk : Announcements!Local, pi : Nat]

\* Announced resources have identifiers of their own, and are below what they should be below.
Remotes(all, n) ==
  /\ all \subseteq AnnouncedN
  /\ \A x \in all : 1 <= x.ri /\ x.ri <= n /\ x.pi <= n /\ (x.lnk = "base" => x.pi = 0)
  /\ \A x, y \in all : x.ri = y.ri => x = y
  /\ \A x, y \in all : x.lnk = "parent" /\ y.csi = x.csi /\ y.ri = x.pi => y.lnk = "base"
  /\ \A x, y \in all : x.csi = y.csi /\ x.lnk = "base" /\ y.lnk = "base" => x = y
  /\ instance => \A x \in all : x.lnk = "child" =>
       \E y \in all : y.csi = x.csi /\ y.ri = x.pi /\ y.lnk = "parent"

\* A resource knows its announced resources by their identifiers, which are of no other resource.
Known(r, to, all, n) ==
  /\ to \in Seq(EntryN) /\ Single(to)
  /\ \A e \in Announcements!Entries(to) : 1 <= e.ri /\ e.ri <= n
                            /\ \A x \in all : x.csi = e.csi /\ x.ri = e.ri => x.lnk = r

\* The CSEBase knows all of its own.
Told(all, base) == \A x \in all : x.lnk = "base" => [csi |-> x.csi, ri |-> x.ri] \in Announcements!Entries(base)

Used(s, n) == s \in Seq(EntryN) /\ \A e \in Announcements!Entries(s) : e.ri <= n

WorkN == [r : Others, at : Seq(EntryN), to : Seq(EntryN), saved : [at : Seq(EntryN), to : Seq(EntryN)],
          base : Seq(EntryN), remote : SUBSET AnnouncedN, ids : Nat, raised : BOOLEAN]

\* The same of what a handler works on.
Right(w) ==
  /\ w \in WorkN
  /\ Remotes(w.remote, w.ids) /\ Told(w.remote, w.base)
  /\ Known("base", w.base, w.remote, w.ids)
  /\ Known(w.r, w.to, w.remote, w.ids) /\ Known(w.r, w.saved.to, w.remote, w.ids)
  /\ \A s \in Others \ {w.r} : Known(s, announcedTo[s], w.remote, w.ids)
  /\ Used(w.at, w.ids) /\ Used(w.saved.at, w.ids)
  /\ ids \in Nat /\ ids <= w.ids

\* An announced resource more.
LEMMA RemotesFresh ==
  ASSUME NEW all, NEW n \in Nat, Remotes(all, n), NEW csi \in Csi, NEW r \in Announcements!Local,
         NEW pi \in Nat, pi <= n,
         r = "base" => pi = 0 /\ \A y \in all : y.csi = csi => y.lnk # "base",
         r = "parent" => \A y \in all : y.csi = csi /\ y.ri = pi => y.lnk = "base",
         r = "child" /\ instance => \E y \in all : y.csi = csi /\ y.ri = pi /\ y.lnk = "parent"
  PROVE  Remotes(all \cup {[csi |-> csi, ri |-> n + 1, lnk |-> r, pi |-> pi]}, n + 1)
<1> DEFINE new == [csi |-> csi, ri |-> n + 1, lnk |-> r, pi |-> pi]
            more == all \cup {new}
<1>1. new \in AnnouncedN /\ new.csi = csi /\ new.ri = n + 1 /\ new.lnk = r /\ new.pi = pi
  BY DEF AnnouncedN
<1>2. \A x \in all : /\ x \in AnnouncedN /\ x.ri \in Nat /\ x.pi \in Nat /\ x.lnk \in Announcements!Local
                     /\ 1 <= x.ri /\ x.ri <= n /\ x.pi <= n /\ (x.lnk = "base" => x.pi = 0)
  BY DEF Remotes, AnnouncedN
<1> HIDE DEF new
<1>3. more \subseteq AnnouncedN
  BY <1>1, <1>2
<1>4. \A x \in more : 1 <= x.ri /\ x.ri <= n + 1 /\ x.pi <= n + 1 /\ (x.lnk = "base" => x.pi = 0)
  BY <1>1, <1>2
<1>5. \A x, y \in more : x.ri = y.ri => x = y
  <2>1. \A x \in all : x.ri # n + 1
    BY <1>2
  <2>2. \A x, y \in all : x.ri = y.ri => x = y
    BY DEF Remotes
  <2> QED BY <1>1, <2>1, <2>2
<1>6. \A x, y \in more : x.lnk = "parent" /\ y.csi = x.csi /\ y.ri = x.pi => y.lnk = "base"
  <2>1. \A x \in more : x.pi # n + 1
    BY <1>1, <1>2
  <2>2. \A x, y \in all : x.lnk = "parent" /\ y.csi = x.csi /\ y.ri = x.pi => y.lnk = "base"
    BY DEF Remotes
  <2> QED BY <1>1, <2>1, <2>2
<1>7. \A x, y \in more : x.csi = y.csi /\ x.lnk = "base" /\ y.lnk = "base" => x = y
  BY <1>1 DEF Remotes
<1>8. instance => \A x \in more : x.lnk = "child" =>
        \E y \in more : y.csi = x.csi /\ y.ri = x.pi /\ y.lnk = "parent"
  BY <1>1 DEF Remotes
<1>9. Remotes(more, n + 1)
  BY <1>3, <1>4, <1>5, <1>6, <1>7, <1>8 DEF Remotes
<1> QED BY <1>9 DEF new

LEMMA KnownFresh ==
  ASSUME NEW s, NEW to, NEW all, NEW n \in Nat, Known(s, to, all, n), NEW x, x.ri = n + 1
  PROVE  Known(s, to, all \cup {x}, n + 1)
<1>1. \A e \in Announcements!Entries(to) : e.ri \in Nat
  BY EntriesIn DEF Known, EntryN
<1> QED BY <1>1 DEF Known

LEMMA KnownNext ==
  ASSUME NEW s, NEW to, NEW all, NEW n \in Nat, Known(s, to, all, n), NEW x, x.ri = n + 1, x.lnk = s,
         NEW csi \in Csi, \A e \in Announcements!Entries(to) : e.csi # csi, \A y \in all : y.ri # n + 1
  PROVE  Known(s, Append(to, [csi |-> csi, ri |-> n + 1]), all \cup {x}, n + 1)
<1> DEFINE e == [csi |-> csi, ri |-> n + 1]
<1>1. e \in EntryN /\ e.csi = csi /\ e.ri = n + 1
  BY DEF EntryN
<1> HIDE DEF e
<1>2. Known(s, to, all \cup {x}, n + 1)
  BY KnownFresh
<1>3. /\ Append(to, e) \in Seq(EntryN)
         /\ Announcements!Entries(Append(to, e)) = Announcements!Entries(to) \cup {e}
      /\ Single(Append(to, e))
  BY <1>1, AppendIs DEF Known
<1>4. Known(s, Append(to, e), all \cup {x}, n + 1)
  BY <1>1, <1>2, <1>3 DEF Known
<1> QED BY <1>4 DEF e

LEMMA UsedNext ==
  ASSUME NEW s, NEW n \in Nat, Used(s, n)
  PROVE  Used(s, n + 1)
<1>1. \A e \in Announcements!Entries(s) : e.ri \in Nat
  BY EntriesIn DEF Used, EntryN
<1> QED BY <1>1 DEF Used

\* Announced resources less.
LEMMA KnownLess ==
  ASSUME NEW s, NEW to, NEW all, NEW n, Known(s, to, all, n), NEW less \in SUBSET all, NEW X
  PROVE  Known(s, Announcements!Without(to, X), less, n) /\ Known(s, to, less, n)
<1>1. to \in Seq(EntryN)
  BY DEF Known
<1>2. /\ Announcements!Without(to, X) \in Seq(EntryN)
         /\ Announcements!Entries(Announcements!Without(to, X)) = Announcements!Entries(to) \ X
      /\ Single(to) => Single(Announcements!Without(to, X))
  BY <1>1, WithoutIs
<1> QED BY <1>2 DEF Known

LEMMA UsedLess ==
  ASSUME NEW s, NEW n, Used(s, n), NEW X
  PROVE  Used(Announcements!Without(s, X), n)
<1>1. s \in Seq(EntryN)
  BY DEF Used
<1>2. /\ Announcements!Without(s, X) \in Seq(EntryN)
      /\ Announcements!Entries(Announcements!Without(s, X)) = Announcements!Entries(s) \ X
  BY <1>1, WithoutIs
<1> QED BY <1>2 DEF Used

\* What is below a resource that goes, goes too, and no more.
LEMMA RemotesLess ==
  ASSUME NEW all, NEW n \in Nat, Remotes(all, n), NEW e, e.ri \in Nat, 1 <= e.ri
  PROVE  Remotes(Announcements!RemoveRemote(all, e), n) /\ Announcements!RemoveRemote(all, e) \subseteq all
<1> DEFINE less == Announcements!RemoveRemote(all, e)
<1>1. less \subseteq all
  BY DEF Announcements!RemoveRemote
<1>2. instance => \A x \in less : x.lnk = "child" =>
        \E y \in less : y.csi = x.csi /\ y.ri = x.pi /\ y.lnk = "parent"
  <2> SUFFICES ASSUME instance, NEW x \in less, x.lnk = "child"
                PROVE  \E y \in less : y.csi = x.csi /\ y.ri = x.pi /\ y.lnk = "parent"
    OBVIOUS
  <2>1. PICK y \in all : y.csi = x.csi /\ y.ri = x.pi /\ y.lnk = "parent"
    BY <1>1 DEF Remotes
  <2>2. ~(y.csi = e.csi /\ (y.ri = e.ri \/ y.pi = e.ri))
    BY <2>1 DEF Announcements!RemoveRemote
  <2>3. ASSUME NEW z \in all, z.csi = e.csi, y.csi = e.csi, z.ri = y.pi, z.pi = e.ri PROVE FALSE
    <3>1. z.lnk = "base"
      BY <2>1, <2>3 DEF Remotes
    <3>2. z.pi = 0
      BY <3>1 DEF Remotes
    <3> QED BY <2>3, <3>2
  <2>4. y \in less
    BY <2>2, <2>3 DEF Announcements!RemoveRemote
  <2> QED BY <2>1, <2>4
<1> HIDE DEF less
<1>3. Remotes(less, n)
  BY <1>1, <1>2 DEF Remotes
<1> QED BY <1>1, <1>3 DEF less

(***************************************************************************)
(* Announcing.                                                             *)
(***************************************************************************)

LEMMA WorkFields ==
  ASSUME NEW w \in WorkN
  PROVE  /\ w.r \in Others /\ w.at \in Seq(EntryN) /\ w.to \in Seq(EntryN)
         /\ w.saved \in [at : Seq(EntryN), to : Seq(EntryN)] /\ w.base \in Seq(EntryN)
         /\ w.remote \in SUBSET AnnouncedN /\ w.ids \in Nat /\ w.raised \in BOOLEAN
BY DEF WorkN

\* Two works that have the same but for what a handler changes.
SameOwn(v, w) == v.r = w.r /\ v.at = w.at /\ v.to = w.to /\ v.saved = w.saved
SameRest(v, w) == v.r = w.r /\ v.base = w.base /\ v.remote = w.remote /\ v.ids = w.ids /\ v.raised = w.raised

LEMMA ChangeSaved ==
  ASSUME NEW w \in WorkN
  PROVE  /\ /\ Announcements!Save(w) \in WorkN /\ SameRest(Announcements!Save(w), w)
         /\ Announcements!Save(w).at = w.at /\ Announcements!Save(w).to = w.to
         /\ Announcements!Save(w).saved.at = w.at /\ Announcements!Save(w).saved.to = w.to
BY DEF WorkN, SameRest, Announcements!Save

LEMMA ChangeRaised ==
  ASSUME NEW w \in WorkN
  PROVE  /\ /\ Announcements!Raise(w) \in WorkN /\ SameOwn(Announcements!Raise(w), w)
         /\ Announcements!Raise(w).base = w.base
         /\ Announcements!Raise(w).remote = w.remote /\ Announcements!Raise(w).ids = w.ids
            /\ Announcements!Raise(w).raised
BY DEF WorkN, SameOwn, Announcements!Raise

\* The entry of at that is a CSE-ID only is replaced.
AnnouncementFilled(s, csi, n) ==
  LET e == [csi |-> csi, ri |-> n]
      bare == [csi |-> csi, ri |-> Announcements!NotYet]
  IN IF bare \in Announcements!Entries(s) THEN [i \in DOMAIN s |-> IF s[i] = bare THEN e ELSE s[i]]
     ELSE Append(s, e)

LEMMA FilledIs ==
  ASSUME NEW s, NEW n \in Nat, Used(s, n), NEW csi \in Csi
  PROVE  Used(AnnouncementFilled(s, csi, n), n)
<1> DEFINE e == [csi |-> csi, ri |-> n]
            bare == [csi |-> csi, ri |-> Announcements!NotYet]
<1>0. e \in EntryN /\ e.ri = n
  BY DEF EntryN
<1> HIDE DEF e, bare
<1>1. s \in Seq(EntryN) /\ Len(s) \in Nat /\ DOMAIN s = 1..Len(s) /\ \A i \in 1..Len(s) : s[i] \in EntryN
  BY DEF Used
<1>2. CASE bare \in Announcements!Entries(s)
  <2> DEFINE t == [i \in DOMAIN s |-> IF s[i] = bare THEN e ELSE s[i]]
  <2>1. DOMAIN t = 1..Len(s) /\ \A i \in 1..Len(s) : t[i] \in EntryN /\ t[i] \in Announcements!Entries(s) \cup {e}
    BY <1>0, <1>1 DEF Announcements!Entries
  <2>2. t = [i \in 1..Len(s) |-> t[i]]
    BY <1>1
  <2> HIDE DEF t
  <2>3. t \in Seq(EntryN)
    BY <1>1, <2>1, <2>2
  <2>4. \A x \in Announcements!Entries(t) : x \in Announcements!Entries(s) \cup {e}
    BY <2>1 DEF Announcements!Entries
  <2>5. Used(t, n)
    BY <1>0, <2>3, <2>4 DEF Used
  <2> QED BY <1>2, <2>5 DEF t, AnnouncementFilled, e, bare
<1>3. CASE bare \notin Announcements!Entries(s)
  <2>1. Append(s, e) \in Seq(EntryN) /\ Announcements!Entries(Append(s, e)) = Announcements!Entries(s) \cup {e}
    BY <1>0, <1>1, AppendIs
  <2>2. Used(Append(s, e), n)
    BY <1>0, <2>1 DEF Used
  <2> QED BY <1>3, <2>2 DEF AnnouncementFilled, e, bare
<1> QED BY <1>2, <1>3

\* What createAnnounced makes of it when the request is successful.
LEMMA CreatedIs ==
  ASSUME NEW w \in WorkN, NEW csi \in Csi, NEW pi \in Nat, NEW answers, Used(w.at, w.ids), NEW v,
         v = Announcements!createAnnounced(w, csi, pi, answers),
         csi \in answers /\ \E x \in w.remote : x.csi = csi /\ x.ri = pi
  PROVE  /\ v \in WorkN /\ v.r = w.r /\ v.at = AnnouncementFilled(w.at, csi, w.ids + 1)
         /\ v.to = Append(w.to, [csi |-> csi, ri |-> w.ids + 1]) /\ v.saved.at = v.at /\ v.saved.to = v.to
         /\ v.base = w.base /\ v.ids = w.ids + 1 /\ v.raised = w.raised
         /\ v.remote = w.remote \cup {[csi |-> csi, ri |-> w.ids + 1, lnk |-> w.r, pi |-> pi]}
<1> DEFINE e == [csi |-> csi, ri |-> w.ids + 1]
            u == [w EXCEPT !.ids = @ + 1,
                           !.remote = @ \cup {[csi |-> csi, ri |-> w.ids + 1, lnk |-> w.r, pi |-> pi]}]
            u2 == [u EXCEPT !.to = Append(u.to, e), !.at = AnnouncementFilled(u.at, csi, w.ids + 1)]
<1>1. /\ w.ids + 1 \in Nat /\ w.ids \in Nat /\ w.r \in Announcements!Local /\ w.remote \in SUBSET AnnouncedN
      /\ w.to \in Seq(EntryN)
  BY WorkFields DEF Others, Announcements!Local
<1>2. w.remote \cup {[csi |-> csi, ri |-> w.ids + 1, lnk |-> w.r, pi |-> pi]} \in SUBSET AnnouncedN
  BY <1>1 DEF AnnouncedN
<1>3. /\ u \in WorkN /\ SameOwn(u, w) /\ u.base = w.base /\ u.ids = w.ids + 1 /\ u.raised = w.raised
      /\ u.remote = w.remote \cup {[csi |-> csi, ri |-> w.ids + 1, lnk |-> w.r, pi |-> pi]}
  <2> DEFINE all == w.remote \cup {[csi |-> csi, ri |-> w.ids + 1, lnk |-> w.r, pi |-> pi]}
              n == w.ids + 1
  <2>1. all \in SUBSET AnnouncedN /\ n \in Nat /\ u = [w EXCEPT !.ids = n, !.remote = all]
    BY <1>1, <1>2
  <2> HIDE DEF all, n, u
  <2>2. u \in WorkN /\ SameOwn(u, w) /\ u.base = w.base /\ u.ids = n /\ u.raised = w.raised /\ u.remote = all
    BY <2>1 DEF WorkN, SameOwn
  <2> QED BY <2>2 DEF all, n
<1>4. e \in EntryN /\ e.csi = csi /\ Append(w.to, e) \in Seq(EntryN)
  BY <1>1 DEF EntryN
<1>5. AnnouncementFilled(w.at, csi, w.ids + 1) \in Seq(EntryN)
  <2>1. Used(AnnouncementFilled(w.at, csi, w.ids + 1), w.ids + 1)
    BY <1>1, UsedNext, FilledIs
  <2> QED BY <2>1 DEF Used
<1> HIDE DEF u
<1>6. /\ u2 \in WorkN /\ SameRest(u2, u) /\ u2.at = AnnouncementFilled(w.at, csi, w.ids + 1)
         /\ u2.to = Append(w.to, e)
  <2>1. u.to = w.to /\ u.at = w.at
    BY <1>3 DEF SameOwn
  <2> DEFINE to == Append(w.to, e)
              s == AnnouncementFilled(w.at, csi, w.ids + 1)
  <2>2. u2 = [u EXCEPT !.to = to, !.at = s] /\ to \in Seq(EntryN) /\ s \in Seq(EntryN) /\ u \in WorkN
    BY <1>3, <1>4, <1>5, <2>1
  <2> HIDE DEF e, to, s, u2
  <2>3. u2 \in WorkN /\ SameRest(u2, u) /\ u2.at = s /\ u2.to = to
    BY <2>2 DEF WorkN, SameRest
  <2> QED BY <2>3 DEF to, s
<1>7. Announcements!addAnnouncementToResource(u, e) = Announcements!Save(u2)
  BY <1>4, Zenon DEF Announcements!addAnnouncementToResource, AnnouncementFilled, e
<1>8. v = Announcements!addAnnouncementToResource(u, e)
  BY DEF Announcements!createAnnounced, u
<1> HIDE DEF u2, e
<1>9. /\ Announcements!Save(u2) \in WorkN /\ SameRest(Announcements!Save(u2), u2)
         /\ Announcements!Save(u2).at = u2.at /\ Announcements!Save(u2).to = u2.to
      /\ Announcements!Save(u2).saved.at = u2.at /\ Announcements!Save(u2).saved.to = u2.to
  BY <1>6, ChangeSaved
<1> QED BY <1>3, <1>6, <1>7, <1>8, <1>9 DEF SameRest, SameOwn, e

LEMMA CreateRight ==
  ASSUME NEW w, Right(w), NEW csi \in Csi, NEW pi \in Nat, NEW answers,
         \A e \in Announcements!Entries(w.to) : e.csi # csi,
         w.r = "parent" => \A y \in w.remote : y.csi = csi /\ y.ri = pi => y.lnk = "base",
         w.r = "child" /\ instance => \A y \in w.remote : y.csi = csi /\ y.ri = pi => y.lnk = "parent"
  PROVE  /\ Right(Announcements!createAnnounced(w, csi, pi, answers))
         /\ Announcements!createAnnounced(w, csi, pi, answers).r = w.r
<1>1. w \in WorkN
  BY DEF Right
<1>2. CASE ~(csi \in answers /\ \E x \in w.remote : x.csi = csi /\ x.ri = pi)
  <2>1. Announcements!createAnnounced(w, csi, pi, answers) = w
    BY <1>2 DEF Announcements!createAnnounced
  <2> QED BY <2>1
<1>3. ASSUME csi \in answers, NEW x \in w.remote, x.csi = csi, x.ri = pi
      PROVE  /\ Right(Announcements!createAnnounced(w, csi, pi, answers))
             /\ Announcements!createAnnounced(w, csi, pi, answers).r = w.r
  <2> DEFINE n == w.ids
              all == w.remote
              e == [csi |-> csi, ri |-> n + 1]
              y == [csi |-> csi, ri |-> n + 1, lnk |-> w.r, pi |-> pi]
              more == all \cup {y}
              v == Announcements!createAnnounced(w, csi, pi, answers)
  <2>1. /\ n \in Nat /\ w.r \in Others /\ n + 1 \in Nat
    BY <1>1, WorkFields
  <2>2. y.ri = n + 1 /\ y.lnk = w.r
    OBVIOUS
  <2>3. /\ v \in WorkN /\ v.r = w.r /\ v.at = AnnouncementFilled(w.at, csi, n + 1)
        /\ v.to = Append(w.to, e) /\ v.saved.at = v.at /\ v.saved.to = v.to
        /\ v.base = w.base /\ v.ids = n + 1 /\ v.raised = w.raised /\ v.remote = more
    <3>1. csi \in answers /\ \E z \in w.remote : z.csi = csi /\ z.ri = pi
      BY <1>3
    <3>2. Used(w.at, w.ids)
      BY DEF Right
    <3> QED
      <4>1. v = Announcements!createAnnounced(w, csi, pi, answers)
        OBVIOUS
      <4> HIDE DEF v
      <4> QED BY <1>1, <3>1, <3>2, <4>1, CreatedIs
  <2>4. Remotes(all, n) /\ pi <= n /\ w.r \in Announcements!Local /\ w.r # "base"
    <3>1. Remotes(all, n)
      BY DEF Right
    <3>2. w.r \in Announcements!Local /\ w.r # "base"
      BY <2>1 DEF Others, Announcements!Local
    <3> QED BY <1>3, <3>1, <3>2 DEF Remotes
  <2>5. Remotes(more, n + 1)
    <3>1. w.r = "child" /\ instance => \E z \in all : z.csi = csi /\ z.ri = pi /\ z.lnk = "parent"
      BY <1>3
    <3> QED BY <2>1, <2>4, <3>1, RemotesFresh
  <2>6. Used(AnnouncementFilled(w.at, csi, n + 1), n + 1)
    <3>1. Used(w.at, n + 1)
      BY <2>1, UsedNext DEF Right
    <3> QED BY <2>1, <3>1, FilledIs
  <2>7. Known("base", w.base, more, n + 1)
    BY <2>1, <2>2, KnownFresh DEF Right
  <2>8. Known(w.r, Append(w.to, e), more, n + 1)
    <3>1. \A z \in all : z.ri # n + 1
      <4>1. \A z \in all : z.ri \in Nat /\ z.ri <= n
        BY <2>4 DEF Remotes, AnnouncedN
      <4> QED BY <2>1, <4>1
    <3>2. Known(w.r, w.to, all, n)
      BY DEF Right
    <3> QED BY <2>1, <2>2, <3>1, <3>2, KnownNext
  <2>9. \A s \in Others \ {w.r} : Known(s, announcedTo[s], more, n + 1)
    BY <2>1, <2>2, KnownFresh DEF Right
  <2>10. Told(more, w.base)
    BY <2>2, <2>4 DEF Right, Told
  <2>11. ids \in Nat /\ ids <= n + 1
    BY <2>1 DEF Right
  <2> HIDE DEF n, all, e, y, more, v
  <2>12. Right(v)
    BY <2>3, <2>5, <2>6, <2>7, <2>8, <2>9, <2>10, <2>11 DEF Right
  <2> QED BY <2>3, <2>12 DEF v
<1> QED BY <1>2, <1>3

\* The announced CSEBase is there after it, when the CSE answers.
Announces(v, w, csi, answers) ==
  /\ \A x \in v.remote : x \in w.remote \/ (x.csi = csi /\ x.lnk = "base")
  /\ csi \in answers => /\ Announcements!_announcedInfos(v.base, csi) # {}
                        /\ \A e \in Announcements!_announcedInfos(v.base, csi) :
                             \E x \in v.remote : x.csi = csi /\ x.ri = e.ri

\* The CSEBase is announced first, and to a CSE once.
LEMMA CheckRight ==
  ASSUME NEW w, Right(w), NEW csi \in Csi, NEW answers, NEW v,
         v = Announcements!checkCSEBaseAnnouncement(w, csi, answers)
  PROVE  Right(v) /\ SameOwn(v, w) /\ v.raised = w.raised /\ Announces(v, w, csi, answers)
<1> DEFINE n == w.ids
            all == w.remote
            bases == {x \in all : x.csi = csi /\ x.lnk = "base"}
            entries == Announcements!_announcedInfos(w.base, csi)
<1>1. /\ w \in WorkN /\ n \in Nat /\ n + 1 \in Nat /\ w.r \in Others /\ w.base \in Seq(EntryN)
      /\ all \in SUBSET AnnouncedN /\ Remotes(all, n) /\ Known("base", w.base, all, n) /\ Told(all, w.base)
  BY WorkFields DEF Right
<1>2. entries = {e \in Announcements!Entries(w.base) : e.csi = csi}
  BY DEF Announcements!_announcedInfos
<1>3. ASSUME v = w, csi \in answers => \E x \in bases, e \in entries : x.ri = e.ri
      PROVE  Right(v) /\ SameOwn(v, w) /\ v.raised = w.raised /\ Announces(v, w, csi, answers)
  <2>1. ASSUME csi \in answers, NEW e \in entries PROVE \E x \in all : x.csi = csi /\ x.ri = e.ri
    <3>1. PICK x \in bases, d \in entries : x.ri = d.ri
      BY <1>3, <2>1
    <3>2. d = e
      BY <1>1, <1>2 DEF Known, Single, Announcements!Entries
    <3> QED BY <3>1, <3>2
  <2>2. csi \in answers => entries # {}
    BY <1>3
  <2>3. Announces(v, w, csi, answers)
    BY <1>3, <2>1, <2>2 DEF Announces
  <2> QED BY <1>3, <2>3 DEF SameOwn
<1>4. ASSUME entries = {}, bases # {},
             v = [w EXCEPT !.base = Append(@, [csi |-> csi, ri |-> (CHOOSE x \in bases : TRUE).ri])]
      PROVE  Right(v) /\ SameOwn(v, w) /\ v.raised = w.raised /\ Announces(v, w, csi, answers)
  <2>1. PICK x \in bases : x = (CHOOSE y \in bases : TRUE)
    BY <1>4
  <2> DEFINE e == [csi |-> csi, ri |-> x.ri]
              base == Append(w.base, e)
  <2>2. x \in all /\ x.csi = csi /\ x.lnk = "base" /\ x.ri \in Nat
    BY <1>1 DEF AnnouncedN
  <2>3. e \in EntryN /\ e.csi = csi /\ e.ri = x.ri
    BY <2>2 DEF EntryN
  <2>4. v = [w EXCEPT !.base = base]
    BY <1>4, <2>1
  <2> HIDE DEF e
  <2>5. /\ base \in Seq(EntryN) /\ Announcements!Entries(base) = Announcements!Entries(w.base) \cup {e}
        /\ Single(w.base) /\ (\A y \in Announcements!Entries(w.base) : y.csi # e.csi) => Single(base)
    BY <1>1, <2>3, AppendIs
  <2> HIDE DEF base, n, all, bases, entries
  <2>6. /\ v \in WorkN /\ SameOwn(v, w) /\ v.base = base /\ v.remote = w.remote /\ v.ids = w.ids
        /\ v.raised = w.raised
    BY <1>1, <2>4, <2>5 DEF WorkN, SameOwn
  <2>7. Known("base", base, all, n)
    <3>1. Single(base)
      BY <1>1, <1>2, <1>4, <2>3, <2>5 DEF Known
    <3>2. 1 <= e.ri /\ e.ri <= n
      BY <1>1, <2>2, <2>3 DEF Remotes
    <3>3. \A y \in all : y.csi = e.csi /\ y.ri = e.ri => y.lnk = "base"
      BY <1>1, <2>2, <2>3 DEF Remotes
    <3> QED BY <1>1, <2>5, <3>1, <3>2, <3>3 DEF Known
  <2>8. Told(all, base)
    BY <1>1, <2>5 DEF Told
  <2>9. Announces(v, w, csi, answers)
    <3>1. Announcements!_announcedInfos(v.base, csi) = {e}
      BY <1>2, <1>4, <2>3, <2>5, <2>6 DEF Announcements!_announcedInfos
    <3> QED BY <2>2, <2>3, <2>6, <3>1 DEF Announces, all
  <2> QED BY <2>6, <2>7, <2>8, <2>9 DEF Right, SameOwn, all, n
<1>5. ASSUME entries = {} => bases = {}, ~\E x \in bases, e \in entries : x.ri = e.ri,
             v = [w EXCEPT !.base = Append(Announcements!Without(@, entries), [csi |-> csi, ri |-> w.ids + 1]),
                           !.ids = @ + 1,
                           !.remote = @ \cup {[csi |-> csi, ri |-> w.ids + 1, lnk |-> "base",
                                                 pi |-> Announcements!NotYet]}]
      PROVE  Right(v) /\ SameOwn(v, w) /\ v.raised = w.raised /\ Announces(v, w, csi, answers)
  <2> DEFINE e == [csi |-> csi, ri |-> n + 1]
              x == [csi |-> csi, ri |-> n + 1, lnk |-> "base", pi |-> Announcements!NotYet]
              rest == Announcements!Without(w.base, entries)
              base == Append(rest, e)
              more == all \cup {x}
  <2>1. bases = {}
    <3> SUFFICES ASSUME NEW y \in bases PROVE FALSE
      OBVIOUS
    <3>1. [csi |-> y.csi, ri |-> y.ri] \in Announcements!Entries(w.base) /\ y.csi = csi
      BY <1>1 DEF Told
    <3>2. [csi |-> csi, ri |-> y.ri] \in entries
      BY <1>2, <3>1
    <3> QED BY <1>5, <3>2
  <2>2. \A y \in all : y.csi = csi => y.lnk # "base"
    BY <2>1
  <2>3. x \in AnnouncedN /\ x.ri = n + 1 /\ x.lnk = "base" /\ x.csi = csi /\ e \in EntryN /\ e.csi = csi
    BY <1>1 DEF AnnouncedN, EntryN, Announcements!Local, Announcements!NotYet
  <2>4. Remotes(more, n + 1)
    <3>1. /\ Announcements!NotYet \in Nat /\ Announcements!NotYet = 0 /\ Announcements!NotYet <= n
          /\ "base" \in Announcements!Local
      BY <1>1 DEF Announcements!NotYet, Announcements!Local
    <3> QED BY <1>1, <2>2, <3>1, RemotesFresh
  <2>5. rest \in Seq(EntryN) /\ Announcements!Entries(rest) = Announcements!Entries(w.base) \ entries
    BY <1>1, WithoutIs
  <2>6. Known("base", rest, all, n)
    BY <1>1, KnownLess
  <2>7. /\ base \in Seq(EntryN) /\ Announcements!Entries(base) = Announcements!Entries(rest) \cup {e}
    BY <2>3, <2>5, AppendIs
  <2>8. Known("base", base, more, n + 1)
    <3>1. \A y \in all : y.ri # n + 1
      <4>1. \A y \in all : y.ri \in Nat /\ y.ri <= n
        BY <1>1 DEF Remotes, AnnouncedN
      <4> QED BY <1>1, <4>1
    <3>2. \A y \in Announcements!Entries(rest) : y.csi # csi
      BY <1>2, <2>5
    <3> QED BY <1>1, <2>3, <2>6, <3>1, <3>2, KnownNext
  <2>9. Told(more, base)
    <3> SUFFICES ASSUME NEW y \in more,
                        y.lnk = "base" PROVE [csi |-> y.csi, ri |-> y.ri] \in Announcements!Entries(base)
      BY DEF Told
    <3>1. CASE y = x
      BY <2>3, <2>7, <3>1
    <3>2. CASE y \in all
      <4>1. y.csi # csi /\ [csi |-> y.csi, ri |-> y.ri] \in Announcements!Entries(w.base)
        BY <1>1, <2>2, <3>2 DEF Told
      <4>2. [csi |-> y.csi, ri |-> y.ri] \notin entries
        BY <1>2, <4>1
      <4> QED BY <2>5, <2>7, <4>1, <4>2
    <3> QED BY <3>1, <3>2
  <2>10. \A s \in Others \ {w.r} : Known(s, announcedTo[s], more, n + 1)
    BY <1>1, <2>3, KnownFresh DEF Right
  <2>11. Known(w.r, w.to, more, n + 1) /\ Known(w.r, w.saved.to, more, n + 1)
    BY <1>1, <2>3, KnownFresh DEF Right
  <2>12. Used(w.at, n + 1) /\ Used(w.saved.at, n + 1)
    BY <1>1, UsedNext DEF Right
  <2>13. ids \in Nat /\ ids <= n + 1
    BY <1>1 DEF Right
  <2>14. more \in SUBSET AnnouncedN
    BY <1>1, <2>3
  <2>15. v = [w EXCEPT !.base = base, !.ids = n + 1, !.remote = more]
    BY <1>5
  <2> HIDE DEF e, x, rest, base, more
  <2>16. v \in WorkN /\ SameOwn(v, w) /\ v.base = base /\ v.remote = more /\ v.ids = n + 1 /\ v.raised = w.raised
    BY <1>1, <2>7, <2>14, <2>15 DEF WorkN, SameOwn
  <2>17. Announces(v, w, csi, answers)
    <3>1. Announcements!_announcedInfos(v.base, csi) = {e} /\ x \in v.remote /\ x.ri = e.ri /\ x.csi = csi
      BY <1>2, <2>3, <2>5, <2>7, <2>16 DEF Announcements!_announcedInfos, more, x, e
    <3>2. \A y \in v.remote : y \in w.remote \/ (y.csi = csi /\ y.lnk = "base")
      BY <2>3, <2>16 DEF more
    <3> QED BY <3>1, <3>2 DEF Announces
  <2> HIDE DEF n, all, entries, bases
  <2> QED BY <2>4, <2>8, <2>9, <2>10, <2>11, <2>12, <2>13, <2>16, <2>17 DEF Right, SameOwn
<1>6. CASE csi \notin answers \/ (\E x \in bases, e \in entries : x.ri = e.ri)
  <2>1. v = w
    BY <1>6, Zenon DEF Announcements!checkCSEBaseAnnouncement
  <2> QED BY <1>3, <1>6, <2>1
<1>7. CASE csi \in answers /\ entries = {} /\ bases # {}
  <2>1. v = [w EXCEPT !.base = Append(@, [csi |-> csi, ri |-> (CHOOSE x \in bases : TRUE).ri])]
    BY <1>7 DEF Announcements!checkCSEBaseAnnouncement
  <2> QED BY <1>4, <1>7, <2>1
<1>8. CASE csi \in answers /\ ~(entries = {} /\ bases # {}) /\ ~(\E x \in bases, e \in entries : x.ri = e.ri)
  <2>1. v = [w EXCEPT !.base = Append(Announcements!Without(@, entries), [csi |-> csi, ri |-> w.ids + 1]),
                      !.ids = @ + 1,
                      !.remote = @ \cup {[csi |-> csi, ri |-> w.ids + 1, lnk |-> "base",
                                            pi |-> Announcements!NotYet]}]
    BY <1>8 DEF Announcements!checkCSEBaseAnnouncement
  <2>2. (entries = {} => bases = {}) /\ (~\E x \in bases, e \in entries : x.ri = e.ri)
    BY <1>8
  <2> QED BY <1>5, <2>1, <2>2
<1> QED BY <1>6, <1>7, <1>8

LEMMA BelowBaseRight ==
  ASSUME NEW w, Right(w), NEW csi \in Csi, NEW answers, \A e \in Announcements!Entries(w.to) : e.csi # csi,
         ~(w.r = "child" /\ instance)
  PROVE  /\ Right(Announcements!announceBelowBase(w, csi, answers))
         /\ Announcements!announceBelowBase(w, csi, answers).r = w.r
<1> DEFINE w1 == Announcements!checkCSEBaseAnnouncement(w, csi, answers)
            infos == IF w.r # "parent" /\ csi \notin answers THEN {}
                     ELSE Announcements!_announcedInfos(w1.base, csi)
            pi == (CHOOSE e \in infos : TRUE).ri
<1>1. Right(w1) /\ SameOwn(w1, w) /\ w1.raised = w.raised
  BY CheckRight
<1> HIDE DEF w1
<1>2. CASE infos = {}
  <2>1. Announcements!announceBelowBase(w, csi, answers) = Announcements!Raise(w1)
    BY <1>2 DEF Announcements!announceBelowBase, w1
  <2>2. /\ Announcements!Raise(w1) \in WorkN /\ SameOwn(Announcements!Raise(w1), w1)
           /\ Announcements!Raise(w1).base = w1.base
        /\ Announcements!Raise(w1).remote = w1.remote /\ Announcements!Raise(w1).ids = w1.ids
    BY <1>1, ChangeRaised DEF Right
  <2> QED BY <1>1, <2>1, <2>2 DEF Right, SameOwn
<1>3. CASE infos # {}
  <2>1. Announcements!announceBelowBase(w, csi, answers) = Announcements!createAnnounced(w1, csi, pi, answers)
    BY <1>3 DEF Announcements!announceBelowBase, w1
  <2>2. PICK e \in infos : e.ri = pi
    BY <1>3
  <2>3. e \in Announcements!Entries(w1.base) /\ e.csi = csi
    BY DEF Announcements!_announcedInfos
  <2>4. pi \in Nat
    <3>1. w1.base \in Seq(EntryN)
      BY <1>1, WorkFields DEF Right
    <3>2. e \in EntryN
      BY <2>3, <3>1, EntriesIn
    <3> QED BY <2>2, <3>2 DEF EntryN
  <2>5. \A y \in w1.remote : y.csi = csi /\ y.ri = pi => y.lnk = "base"
    BY <1>1, <2>2, <2>3 DEF Right, Known
  <2>6. \A d \in Announcements!Entries(w1.to) : d.csi # csi
    BY <1>1 DEF SameOwn
  <2> HIDE DEF infos, pi
  <2>7. /\ Right(Announcements!createAnnounced(w1, csi, pi, answers))
        /\ Announcements!createAnnounced(w1, csi, pi, answers).r = w1.r
    BY <1>1, <2>4, <2>5, <2>6, CreateRight DEF SameOwn
  <2> QED BY <1>1, <2>1, <2>7 DEF SameOwn
<1> QED BY <1>2, <1>3

LEMMA ToCSIRight ==
  ASSUME NEW w, Right(w), NEW csi \in Csi, NEW answers
  PROVE  /\ Right(Announcements!announceResourceToCSI(w, csi, answers))
         /\ Announcements!announceResourceToCSI(w, csi, answers).r = w.r
<1> DEFINE infos == Announcements!_announcedInfos(announcedTo["parent"], csi)
            pi == (CHOOSE e \in infos : TRUE).ri
<1>1. CASE Announcements!_isResourceAnnouncedTo(w.to, csi) \/ w.raised
  <2>1. Announcements!announceResourceToCSI(w, csi, answers) = w
    BY <1>1, Zenon DEF Announcements!announceResourceToCSI
  <2> QED BY <2>1
<1>2. CASE ~Announcements!_isResourceAnnouncedTo(w.to, csi) /\ ~w.raised
  <2>1. \A e \in Announcements!Entries(w.to) : e.csi # csi
    BY <1>2 DEF Announcements!_isResourceAnnouncedTo, Announcements!_announcedInfos
  <2>2. CASE w.r = "child" /\ infos # {}
    <3>1. Announcements!announceResourceToCSI(w, csi, answers)
          = Announcements!createAnnounced(w, csi, pi, answers)
      BY <1>2, <2>2, Zenon DEF Announcements!announceResourceToCSI, Announcements!_isResourceAnnouncedTo
    <3>2. PICK e \in infos : e.ri = pi
      BY <2>2
    <3>3. e \in Announcements!Entries(announcedTo["parent"]) /\ e.csi = csi
      BY DEF Announcements!_announcedInfos
    <3>4. Known("parent", announcedTo["parent"], w.remote, w.ids)
      BY <2>2 DEF Right, Others
    <3>5. pi \in Nat
      BY <3>2, <3>3, <3>4, EntriesIn DEF Known, EntryN
    <3>6. \A y \in w.remote : y.csi = csi /\ y.ri = pi => y.lnk = "parent"
      BY <3>2, <3>3, <3>4 DEF Known
    <3> HIDE DEF infos, pi
    <3>7. /\ Right(Announcements!createAnnounced(w, csi, pi, answers))
          /\ Announcements!createAnnounced(w, csi, pi, answers).r = w.r
      BY <2>1, <2>2, <3>5, <3>6, CreateRight
    <3> QED BY <3>1, <3>7
  <2>3. CASE w.r = "child" /\ infos = {} /\ instance
    BY <1>2, <2>3, Zenon DEF Announcements!announceResourceToCSI, Announcements!_isResourceAnnouncedTo
  <2>4. CASE ~(w.r = "child" /\ infos # {}) /\ ~(w.r = "child" /\ instance)
    <3>1. Announcements!announceResourceToCSI(w, csi, answers) = Announcements!announceBelowBase(w, csi, answers)
      BY <1>2, <2>4, Zenon DEF Announcements!announceResourceToCSI, Announcements!_isResourceAnnouncedTo
    <3> QED BY <2>1, <2>4, <3>1, BelowBaseRight
  <2> QED BY <2>2, <2>3, <2>4
<1> QED BY <1>1, <1>2

\* However many CSEs are named.
LEMMA AllRight ==
  ASSUME NEW w, Right(w), NEW csis \in Seq(Csi), NEW answers
  PROVE  Right(Announcements!announceAll(w, csis, answers)) /\ Announcements!announceAll(w, csis, answers).r = w.r
<1> DEFINE n == Len(csis)
<1>1. n \in Nat /\ DOMAIN csis = 1..n /\ \A i \in 1..n : csis[i] \in Csi
  OBVIOUS
<1> HIDE DEF n
<1>2. PICK v : /\ v[0] = w /\ Announcements!announceAll(w, csis, answers) = v[n]
               /\ \A k \in 1..n : v[k] = Announcements!announceResourceToCSI(v[k - 1], csis[k], answers)
  <2>1. \E v : AllTurning(v, w, n, csis, answers)
    BY <1>1, AllTurns
  <2> QED BY <2>1 DEF AllTurning
<1> DEFINE S == {k \in 0..n : Right(v[k]) /\ v[k].r = w.r}
<1>3. 0 \in S
  BY <1>1, <1>2
<1>4. ASSUME NEW k \in 1..n, k - 1 \in S PROVE k \in S
  <2>1. Right(v[k - 1]) /\ v[k - 1].r = w.r /\ csis[k] \in Csi /\ k \in 0..n
    BY <1>1, <1>4
  <2>2. /\ Right(Announcements!announceResourceToCSI(v[k - 1], csis[k], answers))
        /\ Announcements!announceResourceToCSI(v[k - 1], csis[k], answers).r = v[k - 1].r
    BY <2>1, ToCSIRight
  <2> QED BY <1>2, <2>1, <2>2
<1>5. n \in S
  <2> HIDE DEF S
  <2> QED BY <1>1, <1>3, <1>4, Induct
<1> QED BY <1>2, <1>5

(***************************************************************************)
(* De-announcing.                                                          *)
(***************************************************************************)

LEMMA RemoveIs ==
  ASSUME NEW w \in WorkN, NEW csi, NEW v, v = Announcements!_removeAnnouncementFromResource(w, csi)
  PROVE  /\ v \in WorkN /\ SameRest(v, w) /\ v.saved = w.saved
         /\ v.to = Announcements!Without(w.to, Announcements!_announcedInfos(w.to, csi))
            /\ v.at = Announcements!Without(w.at, Announcements!_announcedInfos(w.to, csi))
<1> DEFINE X == Announcements!_announcedInfos(w.to, csi)
            to == Announcements!Without(w.to, X)
            s == Announcements!Without(w.at, X)
<1>1. to \in Seq(EntryN) /\ s \in Seq(EntryN)
  BY WorkFields, WithoutIs
<1>2. v = [w EXCEPT !.to = to, !.at = s]
  BY DEF Announcements!_removeAnnouncementFromResource
<1> HIDE DEF to, s
<1>3. v \in WorkN /\ SameRest(v, w) /\ v.saved = w.saved /\ v.to = to /\ v.at = s
  BY <1>1, <1>2 DEF WorkN, SameRest
<1> QED BY <1>3 DEF to, s

\* What deAnnounceResourceFromCSI makes of it.
LEMMA GoneIs ==
  ASSUME NEW w \in WorkN, NEW e, NEW answers, NEW v, v = Announcements!deAnnounceResourceFromCSI(w, e, answers)
  PROVE  /\ v \in WorkN /\ v.r = w.r /\ v.base = w.base /\ v.ids = w.ids /\ v.raised = w.raised
         /\ v.remote = IF e.csi \in answers THEN Announcements!RemoveRemote(w.remote, e) ELSE w.remote
         /\ v.to = Announcements!Without(w.to, Announcements!_announcedInfos(w.to, e.csi))
            /\ v.at = Announcements!Without(w.at, Announcements!_announcedInfos(w.to, e.csi))
         /\ v.saved.at = v.at /\ v.saved.to = v.to
<1> DEFINE all == IF e.csi \in answers THEN Announcements!RemoveRemote(w.remote, e) ELSE w.remote
            u == [w EXCEPT !.remote = all]
            u2 == Announcements!_removeAnnouncementFromResource(u, e.csi)
<1>1. all \in SUBSET AnnouncedN
  BY WorkFields DEF Announcements!RemoveRemote
<1>2. v = Announcements!Save(u2)
  BY DEF Announcements!deAnnounceResourceFromCSI
<1> HIDE DEF all
<1>3. u \in WorkN /\ SameOwn(u, w) /\ u.base = w.base /\ u.remote = all /\ u.ids = w.ids /\ u.raised = w.raised
  BY <1>1 DEF WorkN, SameOwn
<1> HIDE DEF u
<1>4. /\ u2 \in WorkN /\ SameRest(u2, u)
      /\ u2.to = Announcements!Without(u.to, Announcements!_announcedInfos(u.to, e.csi))
         /\ u2.at = Announcements!Without(u.at, Announcements!_announcedInfos(u.to, e.csi))
  BY <1>3, RemoveIs
<1> HIDE DEF u2
<1>5. /\ Announcements!Save(u2) \in WorkN /\ SameRest(Announcements!Save(u2), u2)
         /\ Announcements!Save(u2).at = u2.at /\ Announcements!Save(u2).to = u2.to
      /\ Announcements!Save(u2).saved.at = u2.at /\ Announcements!Save(u2).saved.to = u2.to
  BY <1>4, ChangeSaved
<1> QED BY <1>2, <1>3, <1>4, <1>5 DEF SameRest, SameOwn, all

\* What de-announcing leaves as it is.
Shrinks(v, w) ==
  v.r = w.r /\ v.base = w.base /\ v.ids = w.ids /\ v.raised = w.raised /\ v.remote \subseteq w.remote

LEMMA GoneRight ==
  ASSUME NEW w, Right(w), NEW e, e.ri \in Nat, 1 <= e.ri, NEW answers
  PROVE  /\ Right(Announcements!deAnnounceResourceFromCSI(w, e, answers))
         /\ Shrinks(Announcements!deAnnounceResourceFromCSI(w, e, answers), w)
<1> DEFINE v == Announcements!deAnnounceResourceFromCSI(w, e, answers)
            X == Announcements!_announcedInfos(w.to, e.csi)
            less == IF e.csi \in answers THEN Announcements!RemoveRemote(w.remote, e) ELSE w.remote
            n == w.ids
<1>1. w \in WorkN /\ n \in Nat /\ Remotes(w.remote, n)
  BY WorkFields DEF Right
<1>2. /\ v \in WorkN /\ v.r = w.r /\ v.base = w.base /\ v.ids = n /\ v.raised = w.raised /\ v.remote = less
      /\ v.to = Announcements!Without(w.to, X) /\ v.at = Announcements!Without(w.at, X) /\ v.saved.at = v.at
         /\ v.saved.to = v.to
  BY <1>1, GoneIs
<1>3. Remotes(less, n) /\ less \in SUBSET w.remote
  BY <1>1, RemotesLess
<1> HIDE DEF v, less, X, n
<1>4. Known(w.r, Announcements!Without(w.to, X), less, n) /\ Known("base", w.base, less, n)
  BY <1>3, KnownLess DEF Right, n
<1>5. \A s \in Others \ {w.r} : Known(s, announcedTo[s], less, n)
  BY <1>3, KnownLess DEF Right, n
<1>6. Used(Announcements!Without(w.at, X), n)
  BY UsedLess DEF Right, n
<1>7. Told(less, w.base)
  BY <1>3 DEF Right, Told
<1>8. ids \in Nat /\ ids <= n
  BY DEF Right, n
<1>9. Right(v)
  BY <1>2, <1>3, <1>4, <1>5, <1>6, <1>7, <1>8 DEF Right
<1>10. Shrinks(v, w)
  BY <1>2, <1>3 DEF Shrinks, n
<1> QED BY <1>9, <1>10 DEF v

LEMMA VisitedIs ==
  ASSUME NEW D, NEW to \in Seq(D)
  PROVE  \E n \in Nat : DOMAIN Announcements!Visited(to) = 1..n
         /\ \A i \in 1..n : Announcements!Visited(to)[i] \in Announcements!Entries(to)
<1> DEFINE m == Len(to)
            n == (m + 1) \div 2
<1>1. m \in Nat /\ DOMAIN to = 1..m
  OBVIOUS
<1>2. n \in Nat /\ 2 * n <= m + 1
  BY <1>1
<1>3. DOMAIN Announcements!Visited(to) = 1..n /\ \A i \in 1..n : Announcements!Visited(to)[i] = to[2 * i - 1]
  BY DEF Announcements!Visited
<1> HIDE DEF m, n
<1>4. \A i \in 1..n : 2 * i - 1 \in 1..m
  BY <1>1, <1>2
<1>5. \A i \in 1..n : Announcements!Visited(to)[i] \in Announcements!Entries(to)
  BY <1>1, <1>3, <1>4 DEF Announcements!Entries
<1> QED BY <1>2, <1>3, <1>5

LEMMA AllGoneRight ==
  ASSUME NEW w, Right(w), NEW answers
  PROVE  /\ Right(Announcements!deAnnounceResource(w, answers))
         /\ Shrinks(Announcements!deAnnounceResource(w, answers), w)
<1> DEFINE list == Announcements!Visited(w.to)
<1>1. w.to \in Seq(EntryN) /\ \A e \in Announcements!Entries(w.to) : e.ri \in Nat /\ 1 <= e.ri
  <2>1. w.to \in Seq(EntryN) /\ Known(w.r, w.to, w.remote, w.ids)
    BY WorkFields DEF Right
  <2>2. \A e \in Announcements!Entries(w.to) : e.ri \in Nat
    BY <2>1, EntriesIn DEF EntryN
  <2> QED BY <2>1, <2>2 DEF Known
<1>2. PICK n \in Nat : DOMAIN list = 1..n /\ \A i \in 1..n : list[i] \in Announcements!Entries(w.to)
  BY <1>1, VisitedIs
<1>3. PICK v : /\ v[0] = w /\ Announcements!deAnnounceResource(w, answers) = v[n]
               /\ \A k \in 1..n : v[k] = Announcements!deAnnounceResourceFromCSI(v[k - 1], list[k], answers)
  <2>1. list = Announcements!Visited(w.to)
    OBVIOUS
  <2> HIDE DEF list
  <2>2. \E v : GoneTurning(v, w, n, list, answers)
    BY <1>2, <2>1, GoneTurns
  <2> QED BY <2>2 DEF GoneTurning
<1> HIDE DEF list
<1> DEFINE S == {k \in 0..n : Right(v[k]) /\ Shrinks(v[k], w)}
<1>4. 0 \in S
  BY <1>2, <1>3 DEF Shrinks
<1>5. ASSUME NEW k \in 1..n, k - 1 \in S PROVE k \in S
  <2>1. Right(v[k - 1]) /\ Shrinks(v[k - 1], w) /\ k \in 0..n /\ list[k].ri \in Nat /\ 1 <= list[k].ri
    BY <1>1, <1>2, <1>5
  <2>2. /\ Right(Announcements!deAnnounceResourceFromCSI(v[k - 1], list[k], answers))
        /\ Shrinks(Announcements!deAnnounceResourceFromCSI(v[k - 1], list[k], answers), v[k - 1])
    BY <2>1, GoneRight
  <2>3. Right(v[k]) /\ Shrinks(v[k], v[k - 1])
    BY <1>3, <2>2
  <2> QED BY <2>1, <2>3 DEF Shrinks
<1>6. n \in S
  <2> HIDE DEF S
  <2> QED BY <1>2, <1>4, <1>5, Induct
<1> QED BY <1>3, <1>6

(***************************************************************************)
(* Every step.                                                             *)
(***************************************************************************)

Typed ==
  /\ present \in [now : SUBSET Announcements!Local, before : SUBSET Announcements!Local]
     /\ present.now \subseteq present.before
  /\ "base" \in present.now /\ targets \subseteq Csi /\ ids \in 0..MaxId
  /\ reliable \in BOOLEAN /\ instance \in BOOLEAN
  /\ at \in [Announcements!Local -> Seq(EntryN)] /\ announcedTo \in [Announcements!Local -> Seq(EntryN)]

Linked ==
  /\ Remotes(remote, ids) /\ Told(remote, announcedTo["base"])
  /\ \A r \in Announcements!Local : Known(r, announcedTo[r], remote, ids) /\ Used(at[r], ids)

\* A resource that is not there has no announcements, and the CSEBase no attribute at.
Unset ==
  /\ at["base"] = <<>>
  /\ \A r \in Announcements!Local \ present.now : at[r] = <<>> /\ announcedTo[r] = <<>>

AnnouncementInv == Typed /\ Linked /\ Unset

\* Finite sets, as the module has them.
LEMMA FiniteAs ==
  ASSUME NEW S
  PROVE  Announcements!Cardinality(S) = Cardinality(S) /\ Announcements!IsFiniteSet(S) = IsFiniteSet(S)
<1>1. Announcements!Cardinality(S) = Cardinality(S)
  BY Zenon DEF Announcements!Cardinality, Cardinality
<1>2. Announcements!IsFiniteSet(S) = IsFiniteSet(S)
  BY Zenon DEF Announcements!IsFiniteSet, IsFiniteSet
<1> QED BY <1>1, <1>2

LEMMA AnnouncementConstants == MaxId \in Nat /\ IsFiniteSet(Csi)
BY ConnectedAssumption, FiniteAs DEF ConnectedAssumption, Announcements!AnnouncementAssumption

LEMMA UsedMore ==
  ASSUME NEW s, NEW n \in Nat, NEW m \in Nat, Used(s, n), n <= m
  PROVE  Used(s, m)
<1>1. \A e \in Announcements!Entries(s) : e.ri \in Nat
  BY EntriesIn DEF Used, EntryN
<1> QED BY <1>1 DEF Used

LEMMA BareUsed ==
  ASSUME NEW s \in Seq(Csi), NEW n \in Nat
  PROVE  Used(Announcements!Bare(s), n)
<1>1. Len(s) \in Nat /\ DOMAIN s = 1..Len(s) /\ \A i \in 1..Len(s) : s[i] \in Csi
  OBVIOUS
<1>2. /\ Announcements!Bare(s) = [i \in 1..Len(s) |-> [csi |-> s[i], ri |-> Announcements!NotYet]]
      /\ \A i \in 1..Len(s) : [csi |-> s[i], ri |-> Announcements!NotYet] \in EntryN
  BY <1>1 DEF Announcements!Bare, EntryN, Announcements!NotYet
<1>3. Announcements!Bare(s) \in Seq(EntryN)
  BY <1>1, <1>2
<1>4. \A e \in Announcements!Entries(Announcements!Bare(s)) : e.ri = 0
  BY <1>2 DEF Announcements!Entries, Announcements!NotYet
<1> QED BY <1>3, <1>4 DEF Used

LEMMA NamedIs == ASSUME targets \subseteq Csi PROVE Announcements!Named \subseteq Seq(Csi)
<1> SUFFICES ASSUME NEW m \in 0..Announcements!Cardinality(targets),
                    NEW s \in [1..m -> targets] PROVE s \in Seq(Csi)
  BY DEF Announcements!Named
<1>1. m \in Nat /\ s \in [1..m -> Csi]
  OBVIOUS
<1> QED BY <1>1

\* The CSEs of a list.
LEMMA CsiList ==
  ASSUME NEW s \in Seq(EntryN)
  PROVE  [i \in DOMAIN s |-> s[i].csi] \in Seq(Csi)
<1>1. Len(s) \in Nat /\ DOMAIN s = 1..Len(s) /\ \A i \in 1..Len(s) : s[i] \in EntryN
  OBVIOUS
<1>2. \A i \in 1..Len(s) : s[i].csi \in Csi
  BY <1>1 DEF EntryN
<1>3. [i \in 1..Len(s) |-> s[i].csi] \in Seq(Csi)
  BY <1>1, <1>2
<1> QED BY <1>1, <1>3

\* What a handler starts with is right.
Start(r, s) == [Announcements!Work(r) EXCEPT !.at = s]
With(r, all) == [Announcements!Work(r) EXCEPT !.remote = all]

LEMMA WorkRight ==
  ASSUME AnnouncementInv, NEW r \in Others, NEW s, Used(s, ids)
  PROVE  /\ Right(Start(r, s)) /\ Start(r, s).r = r /\ Start(r, s).at = s /\ Start(r, s).to = announcedTo[r]
         /\ ~Start(r, s).raised /\ Start(r, s).saved = [at |-> at[r], to |-> announcedTo[r]]
         /\ Start(r, s).base = announcedTo["base"] /\ Start(r, s).remote = remote /\ Start(r, s).ids = ids
<1> DEFINE w == Start(r, s)
<1>1. /\ r \in Announcements!Local /\ at[r] \in Seq(EntryN) /\ announcedTo[r] \in Seq(EntryN) /\ ids \in Nat
      /\ announcedTo["base"] \in Seq(EntryN) /\ s \in Seq(EntryN) /\ remote \in SUBSET AnnouncedN
  BY AnnouncementConstants DEF AnnouncementInv, Typed, Linked, Remotes, Others, Announcements!Local, Used
<1>2. /\ w.r = r /\ w.at = s /\ w.to = announcedTo[r] /\ w.saved = [at |-> at[r], to |-> announcedTo[r]]
      /\ w.base = announcedTo["base"] /\ w.remote = remote /\ w.ids = ids /\ ~w.raised
  BY DEF Announcements!Work, Start
<1>3. w \in WorkN
  BY <1>1 DEF Announcements!Work, WorkN, Start
<1>4. w.saved.at = at[r] /\ w.saved.to = announcedTo[r]
  BY <1>2
<1>5. /\ Remotes(remote, ids) /\ Told(remote, announcedTo["base"])
      /\ Known("base", announcedTo["base"], remote, ids) /\ Known(r, announcedTo[r], remote, ids)
      /\ \A q \in Others \ {r} : Known(q, announcedTo[q], remote, ids)
      /\ Used(at[r], ids) /\ ids <= ids
  BY <1>1 DEF AnnouncementInv, Linked, Others, Announcements!Local
<1>6. Right(w)
  <2> HIDE DEF AnnouncementInv
  <2> QED BY <1>1, <1>2, <1>3, <1>4, <1>5 DEF Right
<1> QED BY <1>2, <1>6

\* And what it stores.
LEMMA StoreRight ==
  ASSUME AnnouncementInv, NEW r \in Others, NEW w, Right(w), w.r = r, NEW s, NEW to,
         Used(s, w.ids), Known(r, to, w.remote, w.ids), Announcements!Store(w, r, [at |-> s, to |-> to]),
         UNCHANGED <<targets, reliable, instance>>,
         present' \in [now : SUBSET Announcements!Local, before : SUBSET Announcements!Local],
         present.now \ {r} \subseteq present'.now,
         present'.now \subseteq present'.before, r \notin present'.now => s = <<>> /\ to = <<>>
  PROVE  AnnouncementInv'
<1>1. /\ r \in Announcements!Local /\ r # "base" /\ "base" \in Announcements!Local /\ ids \in Nat
         /\ w.ids \in Nat /\ ids <= w.ids
      /\ w.ids <= MaxId
  BY AnnouncementConstants, WorkFields DEF Others, Announcements!Local, Right, Announcements!Store
<1>2. /\ at' = [at EXCEPT ![r] = s] /\ announcedTo' = [announcedTo EXCEPT ![r] = to, !["base"] = w.base]
      /\ remote' = w.remote /\ ids' = w.ids
  BY DEF Announcements!Store
<1>3. /\ at'[r] = s /\ announcedTo'[r] = to /\ announcedTo'["base"] = w.base
      /\ \A q \in Announcements!Local \ {r} : at'[q] = at[q]
      /\ \A q \in Others \ {r} : announcedTo'[q] = announcedTo[q]
  BY <1>1, <1>2 DEF AnnouncementInv, Typed, Others, Announcements!Local
<1>4. s \in Seq(EntryN) /\ to \in Seq(EntryN) /\ w.base \in Seq(EntryN)
  BY WorkFields DEF Right, Used, Known
<1>5. Typed'
  <2>1. at' \in [Announcements!Local -> Seq(EntryN)] /\ announcedTo' \in [Announcements!Local -> Seq(EntryN)]
    BY <1>2, <1>4 DEF AnnouncementInv, Typed
  <2>2. ids' \in 0..MaxId
    BY <1>1, <1>2
  <2>3. "base" \in present'.now
    BY <1>1 DEF AnnouncementInv, Typed
  <2> QED BY <2>1, <2>2, <2>3 DEF AnnouncementInv, Typed
<1>6. Linked'
  <2>1. Remotes(remote, ids)'
    BY <1>2 DEF Right, Remotes
  <2>2. Told(remote', announcedTo'["base"])
    BY <1>2, <1>3 DEF Right
  <2>3. ASSUME NEW q \in Announcements!Local PROVE Known(q, announcedTo'[q], remote', ids') /\ Used(at'[q], ids')
    <3>1. CASE q = r
      BY <1>2, <1>3, <3>1
    <3>2. CASE q # r
      <4>1. Used(at'[q], ids')
        BY <1>1, <1>2, <1>3, <3>2, UsedMore DEF AnnouncementInv, Linked
      <4>2. CASE q = "base"
        BY <1>2, <1>3, <4>1, <4>2 DEF Right
      <4>3. CASE q # "base"
        <5>1. q \in Others \ {r}
          BY <3>2, <4>3 DEF Others, Announcements!Local
        <5> QED BY <1>2, <1>3, <4>1, <5>1 DEF Right
      <4> QED BY <4>2, <4>3
    <3> QED BY <3>1, <3>2
  <2> QED BY <2>1, <2>2, <2>3 DEF Linked, Known, Used, Told
<1>7. Unset'
  <2>1. at'["base"] = <<>>
    BY <1>1, <1>3 DEF AnnouncementInv, Unset
  <2>2. ASSUME NEW q \in Announcements!Local \ present'.now PROVE at'[q] = <<>> /\ announcedTo'[q] = <<>>
    <3>1. CASE q = r
      BY <1>3, <3>1
    <3>2. CASE q # r
      <4>1. q \notin present.now /\ q \in Others \ {r}
        BY <3>2 DEF AnnouncementInv, Typed, Others, Announcements!Local
      <4> QED BY <1>3, <3>2, <4>1 DEF AnnouncementInv, Unset
    <3> QED BY <3>1, <3>2
  <2> QED BY <2>1, <2>2 DEF Unset
<1> QED BY <1>5, <1>6, <1>7 DEF AnnouncementInv

LEMMA NothingIs == ASSUME NEW n, NEW r, NEW all PROVE Used(<<>>, n) /\ Known(r, <<>>, all, n)
BY NoEntry DEF Used, Known

LEMMA ActivateStep ==
  ASSUME AnnouncementInv, NEW r \in Announcements!Local, Announcements!activate(r)
  PROVE  AnnouncementInv'
<1> PICK s \in Announcements!Named, answers \in Announcements!Answers :
       LET w == Announcements!announceResource([Announcements!Work(r) EXCEPT !.at = Announcements!Bare(s)],
                                               answers)
       IN /\ Announcements!Store(w, r, IF w.raised THEN Announcements!Nothing ELSE [at |-> w.at, to |-> w.to])
          /\ present' = [now |-> IF w.raised THEN present.now ELSE present.now \cup {r},
                         before |-> present.before \cup {r}]
  BY Zenon DEF Announcements!activate
<1> DEFINE w0 == [Announcements!Work(r) EXCEPT !.at = Announcements!Bare(s)]
            w == Announcements!announceResource(w0, answers)
<1>1. /\ r \in Others /\ r \notin present.before /\ present.now \subseteq present.before /\ ids \in Nat
      /\ targets \subseteq Csi
  BY AnnouncementConstants DEF Announcements!activate, AnnouncementInv, Typed, Others, Announcements!Local
<1>2. Used(Announcements!Bare(s), ids)
  BY <1>1, NamedIs, BareUsed
<1>3. Right(w0) /\ w0.r = r
  <2>1. w0 = Start(r, Announcements!Bare(s))
    BY DEF Start
  <2>2. Right(Start(r, Announcements!Bare(s))) /\ Start(r, Announcements!Bare(s)).r = r
    BY Zenon, <1>1, <1>2, WorkRight
  <2> HIDE DEF w0
  <2> QED BY <2>1, <2>2
<1> HIDE DEF w0
<1>4. [i \in DOMAIN w0.at |-> w0.at[i].csi] \in Seq(Csi)
  BY <1>3, WorkFields, CsiList DEF Right
<1>5. Right(w) /\ w.r = r
  BY <1>3, <1>4, AllRight DEF Announcements!announceResource
<1>6. /\ Announcements!Store(w, r, IF w.raised THEN Announcements!Nothing ELSE [at |-> w.at, to |-> w.to])
      /\ present' = [now |-> IF w.raised THEN present.now ELSE present.now \cup {r},
                     before |-> present.before \cup {r}]
  BY DEF w0
<1>7. UNCHANGED <<targets, reliable, instance>>
  BY DEF Announcements!activate
<1> HIDE DEF w
<1>8. /\ present' \in [now : SUBSET Announcements!Local, before : SUBSET Announcements!Local]
         /\ present.now \ {r} \subseteq present'.now
      /\ present'.now \subseteq present'.before
  BY <1>1, <1>6 DEF AnnouncementInv, Typed
<1>9. CASE w.raised
  <2>1. Announcements!Store(w, r, [at |-> <<>>, to |-> <<>>])
    BY <1>6, <1>9 DEF Announcements!Nothing
  <2>2. Used(<<>>, w.ids) /\ Known(r, <<>>, w.remote, w.ids)
    BY NothingIs
  <2> QED BY <1>1, <1>5, <1>7, <1>8, <2>1, <2>2, StoreRight
<1>10. CASE ~w.raised
  <2>1. Announcements!Store(w, r, [at |-> w.at, to |-> w.to]) /\ r \in present'.now
    BY <1>6, <1>10
  <2>2. Used(w.at, w.ids) /\ Known(r, w.to, w.remote, w.ids)
    BY <1>5 DEF Right
  <2> QED BY <1>1, <1>5, <1>7, <1>8, <2>1, <2>2, StoreRight
<1> QED BY <1>9, <1>10

LEMMA UpdateStep ==
  ASSUME AnnouncementInv, NEW r \in Announcements!Local, Announcements!update(r)
  PROVE  AnnouncementInv'
<1> PICK new \in {Announcements!Bare(s) : s \in Announcements!Named} \cup {at[r]},
         answers \in Announcements!Answers :
       LET w0 == [Announcements!Work(r) EXCEPT !.at = new]
           w == CASE new # <<>> -> Announcements!announceUpdatedResource(w0, answers)
                  [] new = <<>> /\ at[r] # <<>> -> Announcements!deAnnounceResource(w0, answers)
                  [] OTHER -> w0
       IN Announcements!Store(w, r, IF w.raised THEN w.saved ELSE [at |-> w.at, to |-> w.to])
  BY Zenon DEF Announcements!update
<1> DEFINE w0 == [Announcements!Work(r) EXCEPT !.at = new]
            w == CASE new # <<>> -> Announcements!announceUpdatedResource(w0, answers)
                   [] new = <<>> /\ at[r] # <<>> -> Announcements!deAnnounceResource(w0, answers)
                   [] OTHER -> w0
<1>1. r \in Others /\ r \in present.now /\ ids \in Nat /\ targets \subseteq Csi
  BY AnnouncementConstants DEF Announcements!update, AnnouncementInv, Typed, Others, Announcements!Local
<1>2. Used(new, ids)
  <2>1. CASE new = at[r]
    BY <1>1, <2>1 DEF AnnouncementInv, Linked
  <2>2. ASSUME NEW s \in Announcements!Named, new = Announcements!Bare(s) PROVE Used(new, ids)
    BY <1>1, <2>2, NamedIs, BareUsed
  <2> QED BY <2>1, <2>2
<1>3. Right(w0) /\ w0.r = r
  <2>1. w0 = Start(r, new)
    BY DEF Start
  <2>2. Right(Start(r, new)) /\ Start(r, new).r = r
    BY Zenon, <1>1, <1>2, WorkRight
  <2> HIDE DEF w0
  <2> QED BY <2>1, <2>2
<1>4. Announcements!Store(w, r, IF w.raised THEN w.saved ELSE [at |-> w.at, to |-> w.to])
  OBVIOUS
<1> HIDE DEF w0
<1>5. Right(w) /\ w.r = r
  <2>1. CASE new # <<>>
    <3> DEFINE csis == [i \in DOMAIN w0.at |-> w0.at[i].csi]
    <3>1. w = Announcements!announceAll(w0, Announcements!Without(csis, Announcements!Csis(w0.to)), answers)
      BY <2>1 DEF Announcements!announceUpdatedResource
    <3>2. csis \in Seq(Csi)
      BY <1>3, WorkFields, CsiList DEF Right
    <3> HIDE DEF csis
    <3>3. Announcements!Without(csis, Announcements!Csis(w0.to)) \in Seq(Csi)
      BY <3>2, WithoutIs
    <3> QED BY <1>3, <3>1, <3>3, AllRight
  <2>2. CASE new = <<>> /\ at[r] # <<>>
    <3>1. w = Announcements!deAnnounceResource(w0, answers)
      BY <2>2
    <3> QED BY <1>3, <3>1, AllGoneRight DEF Shrinks
  <2>3. CASE new = <<>> /\ at[r] = <<>>
    <3>1. w = w0
      BY <2>3
    <3> QED BY <1>3, <3>1
  <2> QED BY <2>1, <2>2, <2>3
<1>6. UNCHANGED <<present, targets, reliable, instance>>
  BY DEF Announcements!update
<1> HIDE DEF w
<1>7. /\ present' \in [now : SUBSET Announcements!Local, before : SUBSET Announcements!Local]
         /\ present.now \ {r} \subseteq present'.now
      /\ present'.now \subseteq present'.before /\ r \in present'.now
  BY <1>1, <1>6 DEF AnnouncementInv, Typed
<1>8. CASE w.raised
  <2>1. w.saved = [at |-> w.saved.at, to |-> w.saved.to]
    BY <1>5, WorkFields DEF Right
  <2>2. Announcements!Store(w, r, [at |-> w.saved.at, to |-> w.saved.to])
    BY <1>4, <1>8, <2>1
  <2>3. Used(w.saved.at, w.ids) /\ Known(r, w.saved.to, w.remote, w.ids)
    BY <1>5 DEF Right
  <2> QED BY <1>1, <1>5, <1>6, <1>7, <2>2, <2>3, StoreRight
<1>9. CASE ~w.raised
  <2>1. Announcements!Store(w, r, [at |-> w.at, to |-> w.to])
    BY <1>4, <1>9
  <2>2. Used(w.at, w.ids) /\ Known(r, w.to, w.remote, w.ids)
    BY <1>5 DEF Right
  <2> QED BY <1>1, <1>5, <1>6, <1>7, <2>1, <2>2, StoreRight
<1> QED BY <1>8, <1>9

\* The announced resources that are left when a resource is deleted.
Left(s, all, answers) ==
  IF at[s] = <<>> THEN all
  ELSE Announcements!deAnnounceResource([Announcements!Work(s) EXCEPT !.remote = all], answers).remote

LEMMA WorkSame ==
  ASSUME AnnouncementInv, NEW r \in Others
  PROVE  Announcements!Work(r) = Start(r, at[r])
<1> DEFINE w == Announcements!Work(r)
<1>1. /\ at[r] \in Seq(EntryN) /\ announcedTo[r] \in Seq(EntryN) /\ ids \in Nat
      /\ announcedTo["base"] \in Seq(EntryN) /\ remote \in SUBSET AnnouncedN
  BY AnnouncementConstants DEF AnnouncementInv, Typed, Linked, Remotes, Others, Announcements!Local
<1>2. w \in WorkN /\ w.at = at[r]
  BY <1>1 DEF Announcements!Work, WorkN
<1> HIDE DEF w
<1>3. w = [w EXCEPT !.at = at[r]]
  BY <1>2 DEF WorkN
<1> QED BY <1>3, Zenon DEF w, Start

LEMMA LessRight ==
  ASSUME AnnouncementInv, NEW s \in Others, NEW all \in SUBSET remote, Remotes(all, ids),
         NEW w, w = With(s, all)
  PROVE  Right(w) /\ w.r = s /\ w.at = at[s] /\ w.to = announcedTo[s] /\ w.remote = all /\ w.ids = ids
<1> DEFINE u == [Announcements!Work(s) EXCEPT !.at = at[s]]
<1>1. s \in Announcements!Local /\ Used(at[s], ids)
  BY DEF AnnouncementInv, Linked, Others, Announcements!Local
<1>2. /\ Right(u) /\ u.r = s /\ u.at = at[s] /\ u.to = announcedTo[s] /\ ~u.raised
      /\ u.base = announcedTo["base"] /\ u.remote = remote /\ u.ids = ids
  <2>1. u = Start(s, at[s])
    BY DEF Start
  <2>2. /\ Right(Start(s, at[s])) /\ Start(s, at[s]).r = s /\ Start(s, at[s]).at = at[s]
        /\ Start(s, at[s]).to = announcedTo[s] /\ ~Start(s, at[s]).raised
        /\ Start(s, at[s]).base = announcedTo["base"] /\ Start(s, at[s]).remote = remote
           /\ Start(s, at[s]).ids = ids
    <3>1. Right(Start(s, at[s]))
      BY <1>1, WorkRight
    <3>2. /\ Start(s, at[s]).r = s /\ Start(s, at[s]).at = at[s]
          /\ Start(s, at[s]).to = announcedTo[s] /\ ~Start(s, at[s]).raised
          /\ Start(s, at[s]).base = announcedTo["base"] /\ Start(s, at[s]).remote = remote
          /\ Start(s, at[s]).ids = ids
      BY DEF Start, Announcements!Work
    <3> QED BY <3>1, <3>2
  <2> HIDE DEF u
  <2> QED BY <2>1, <2>2
<1>3. w = [u EXCEPT !.remote = all]
  <2>1. Announcements!Work(s) = u
    BY WorkSame, Zenon DEF Start
  <2>2. w = [Announcements!Work(s) EXCEPT !.remote = all]
    BY DEF With
  <2> HIDE DEF u
  <2> QED BY <2>1, <2>2, Zenon
<1> HIDE DEF u
<1>4. u \in WorkN /\ all \in SUBSET AnnouncedN
  BY <1>2 DEF Right, Remotes
<1>5. w \in WorkN /\ SameOwn(w, u) /\ w.base = u.base /\ w.remote = all /\ w.ids = u.ids
  BY <1>3, <1>4 DEF WorkN, SameOwn
<1>6. Known("base", w.base, all, w.ids) /\ Known(w.r, w.to, all, w.ids) /\ Known(w.r, w.saved.to, all, w.ids)
  BY <1>2, <1>5, KnownLess DEF Right, SameOwn
<1>7. \A q \in Others \ {w.r} : Known(q, announcedTo[q], all, w.ids)
  BY <1>2, <1>5, KnownLess DEF Right, SameOwn
<1>8. Told(all, w.base)
  BY <1>2, <1>5 DEF Right, Told
<1> QED BY <1>2, <1>5, <1>6, <1>7, <1>8 DEF Right, SameOwn

LEMMA LeftRight ==
  ASSUME AnnouncementInv, NEW s \in Others, NEW all \in SUBSET remote, Remotes(all, ids), NEW answers
  PROVE  Left(s, all, answers) \in SUBSET all /\ Remotes(Left(s, all, answers), ids)
<1>1. CASE at[s] = <<>>
  BY <1>1 DEF Left
<1>2. CASE at[s] # <<>>
  <2> DEFINE w == [Announcements!Work(s) EXCEPT !.remote = all]
              v == Announcements!deAnnounceResource(w, answers)
  <2>1. Right(w) /\ w.remote = all /\ w.ids = ids
    <3>1. w = With(s, all)
      BY DEF With
    <3> HIDE DEF w
    <3> QED BY <3>1, LessRight
  <2>2. Left(s, all, answers) = v.remote
    BY <1>2 DEF Left
  <2> HIDE DEF w
  <2>3. Right(v) /\ Shrinks(v, w)
    BY <2>1, AllGoneRight
  <2> HIDE DEF v
  <2> QED BY <2>1, <2>2, <2>3 DEF Right, Shrinks
<1> QED BY <1>1, <1>2

LEMMA DeactivateStep ==
  ASSUME AnnouncementInv, NEW r \in Announcements!Local, Announcements!deactivate(r)
  PROVE  AnnouncementInv'
<1> DEFINE Deleted == IF r = "parent" THEN {"parent", "child"} ELSE {r}
<1>1. r \in Others /\ r \in present.now /\ Deleted \subseteq Others
  BY DEF Announcements!deactivate, Others, Announcements!Local
<1>2. PICK answers \in Announcements!Answers :
        remote' = IF r = "parent" /\ "child" \in present.now
                  THEN Left("child", Left("parent", remote, answers), answers) ELSE Left(r, remote, answers)
  BY Zenon DEF Announcements!deactivate, Left
<1>3. remote' \in SUBSET remote /\ Remotes(remote', ids)
  <2>1. Remotes(remote, ids) /\ remote \in SUBSET remote /\ "child" \in Others /\ "parent" \in Others
    BY DEF AnnouncementInv, Linked, Others
  <2>2. \A q \in Others : Left(q, remote, answers) \in SUBSET remote /\ Remotes(Left(q, remote, answers), ids)
    BY <2>1, LeftRight
  <2>3. /\ Left("child", Left("parent", remote, answers), answers) \in SUBSET Left("parent", remote, answers)
        /\ Remotes(Left("child", Left("parent", remote, answers), answers), ids)
    BY <2>1, <2>2, LeftRight
  <2> QED BY <1>1, <1>2, <2>1, <2>2, <2>3
<1>4. /\ present' = [present EXCEPT !.now = @ \ Deleted]
      /\ at' = [s \in Announcements!Local |-> IF s \in Deleted THEN <<>> ELSE at[s]]
      /\ announcedTo' = [s \in Announcements!Local |-> IF s \in Deleted THEN <<>> ELSE announcedTo[s]]
      /\ UNCHANGED <<ids, targets, reliable, instance>>
  BY DEF Announcements!deactivate
<1> HIDE DEF Deleted
<1>5. Typed'
  <2>1. at' \in [Announcements!Local -> Seq(EntryN)] /\ announcedTo' \in [Announcements!Local -> Seq(EntryN)]
    BY <1>4, NoEntry DEF AnnouncementInv, Typed
  <2> QED BY <1>1, <1>4, <2>1 DEF AnnouncementInv, Typed, Others
<1>6. Linked'
  <2>1. Remotes(remote, ids)'
    BY <1>3, <1>4 DEF Remotes
  <2>2. Told(remote', announcedTo'["base"])
    BY <1>1, <1>3, <1>4 DEF AnnouncementInv, Linked, Told, Others, Announcements!Local
  <2>3. ASSUME NEW q \in Announcements!Local PROVE Known(q, announcedTo'[q], remote', ids') /\ Used(at'[q], ids')
    <3>1. CASE q \in Deleted
      BY <1>4, <3>1, NothingIs
    <3>2. CASE q \notin Deleted
      BY <1>3, <1>4, <3>2, KnownLess DEF AnnouncementInv, Linked
    <3> QED BY <3>1, <3>2
  <2> QED BY <2>1, <2>2, <2>3 DEF Linked, Known, Used, Told
<1>7. Unset'
  BY <1>4 DEF AnnouncementInv, Unset, Typed, Announcements!Local
<1> QED BY <1>5, <1>6, <1>7 DEF AnnouncementInv

LEMMA ShutdownStep ==
  ASSUME AnnouncementInv, Announcements!checkResourcesForUnAnnouncement
  PROVE  AnnouncementInv'
<1> PICK csi \in Csi, answers \in Announcements!Answers :
       \E r \in Announcements!searchAnnounceableResourcesForCSI(csi) :
       LET w == Announcements!_removeAnnouncementFromResource(
                  Announcements!deAnnounceResource(Announcements!Work(r), answers), csi)
       IN Announcements!Store(w, r, [at |-> w.at, to |-> w.to])
  BY Zenon DEF Announcements!checkResourcesForUnAnnouncement
<1> PICK r \in Announcements!searchAnnounceableResourcesForCSI(csi) :
       LET w == Announcements!_removeAnnouncementFromResource(
                  Announcements!deAnnounceResource(Announcements!Work(r), answers), csi)
       IN Announcements!Store(w, r, [at |-> w.at, to |-> w.to])
  BY Zenon
<1> DEFINE w0 == [Announcements!Work(r) EXCEPT !.at = at[r]]
            v == Announcements!deAnnounceResource(w0, answers)
            w == Announcements!_removeAnnouncementFromResource(v, csi)
<1>1. r \in Others /\ r \in present.now /\ r \in Announcements!Local
  BY NoEntry DEF Announcements!searchAnnounceableResourcesForCSI, AnnouncementInv, Typed, Unset, Others,
       Announcements!Local
<1>2. Announcements!Work(r) = w0 /\ Right(w0) /\ w0.r = r
  <2>1. Used(at[r], ids)
    BY <1>1 DEF AnnouncementInv, Linked
  <2>2. w0.r = r
    BY DEF Announcements!Work
  <2>3. Right(w0)
    <3>1. w0 = Start(r, at[r])
      BY DEF Start
    <3>2. Right(Start(r, at[r]))
      BY <1>1, <2>1, WorkRight
    <3> HIDE DEF w0
    <3> QED BY <3>1, <3>2
  <2>4. Announcements!Work(r) = w0
    BY <1>1, WorkSame, Zenon DEF Start
  <2> QED BY <2>2, <2>3, <2>4
<1>3. Announcements!Store(w, r, [at |-> w.at, to |-> w.to])
  BY <1>2
<1> HIDE DEF w0
<1>4. Right(v) /\ v.r = r
  BY <1>2, AllGoneRight DEF Shrinks
<1> HIDE DEF v
<1>5. Right(w) /\ w.r = r
  <2> DEFINE X == Announcements!_announcedInfos(v.to, csi)
  <2>1. /\ w \in WorkN /\ SameRest(w, v) /\ w.saved = v.saved /\ w.to = Announcements!Without(v.to, X)
        /\ w.at = Announcements!Without(v.at, X)
    BY <1>4, RemoveIs DEF Right
  <2> HIDE DEF w, X
  <2>2. Known(v.r, Announcements!Without(v.to, X), v.remote, v.ids)
    BY <1>4, KnownLess DEF Right
  <2>3. Used(Announcements!Without(v.at, X), v.ids)
    BY <1>4, UsedLess DEF Right
  <2> QED BY <1>4, <2>1, <2>2, <2>3 DEF Right, SameRest
<1> HIDE DEF w
<1>6. UNCHANGED <<present, targets, reliable, instance>>
  BY DEF Announcements!checkResourcesForUnAnnouncement
<1>7. /\ present' \in [now : SUBSET Announcements!Local, before : SUBSET Announcements!Local]
         /\ present.now \ {r} \subseteq present'.now
      /\ present'.now \subseteq present'.before /\ r \in present'.now
  BY <1>1, <1>6 DEF AnnouncementInv, Typed
<1>8. Used(w.at, w.ids) /\ Known(r, w.to, w.remote, w.ids)
  BY <1>5 DEF Right
<1> QED BY <1>1, <1>3, <1>5, <1>6, <1>7, <1>8, StoreRight

LEMMA RemovesStep ==
  ASSUME AnnouncementInv, Announcements!RemoteRemoves
  PROVE  AnnouncementInv'
<1>1. PICK x \in remote : remote' = Announcements!RemoveRemote(remote, x)
  BY DEF Announcements!RemoteRemoves
<1>2. UNCHANGED <<present, at, announcedTo, ids, targets, reliable, instance>>
  BY DEF Announcements!RemoteRemoves
<1>3. x.ri \in Nat /\ 1 <= x.ri /\ ids \in Nat /\ Remotes(remote, ids)
  BY AnnouncementConstants DEF AnnouncementInv, Typed, Linked, Remotes, AnnouncedN
<1>4. Remotes(remote', ids) /\ remote' \in SUBSET remote
  BY <1>1, <1>3, RemotesLess
<1>5. Remotes(remote, ids)'
  BY <1>2, <1>4 DEF Remotes
<1>6. Told(remote', announcedTo'["base"])
  BY <1>2, <1>4 DEF AnnouncementInv, Linked, Told
<1>7. \A q \in Announcements!Local : Known(q, announcedTo'[q], remote', ids') /\ Used(at'[q], ids')
  BY <1>2, <1>4, KnownLess DEF AnnouncementInv, Linked
<1>8. Linked'
  BY <1>5, <1>6, <1>7 DEF Linked, Known, Used, Told
<1> QED BY <1>2, <1>8 DEF AnnouncementInv, Typed, Unset

LEMMA AnnouncementStep ==
  AnnouncementInv /\ [Announcements!Next]_(Announcements!announcementVars) => AnnouncementInv'
<1> SUFFICES ASSUME AnnouncementInv, [Announcements!Next]_(Announcements!announcementVars) PROVE AnnouncementInv'
  OBVIOUS
<1>1. CASE Announcements!Next
  BY <1>1, ActivateStep, UpdateStep, DeactivateStep, ShutdownStep, RemovesStep DEF Announcements!Next
<1>2. CASE UNCHANGED Announcements!announcementVars
  BY <1>2 DEF Announcements!announcementVars, AnnouncementInv, Typed, Linked, Unset, Remotes, Told, Known, Used
<1> QED BY <1>1, <1>2

LEMMA AnnouncementInit == Announcements!Init => AnnouncementInv
<1> SUFFICES ASSUME Announcements!Init PROVE AnnouncementInv
  OBVIOUS
<1>1. Typed
  BY AnnouncementConstants, NoEntry DEF Announcements!Init, Typed, Announcements!Local
<1>2. \A r \in Announcements!Local : at[r] = <<>> /\ announcedTo[r] = <<>>
  BY DEF Announcements!Init
<1>3. Linked
  <2>1. Remotes(remote, ids) /\ Told(remote, announcedTo["base"])
    BY DEF Announcements!Init, Remotes, Told
  <2> QED BY <1>2, <2>1, NothingIs DEF Linked
<1>4. Unset
  BY <1>2 DEF Unset, Announcements!Local
<1> QED BY <1>1, <1>3, <1>4 DEF AnnouncementInv

(***************************************************************************)
(* One CSE, that always answers.                                           *)
(***************************************************************************)

\* Lists of one entry.
LEMMA OneEntry ==
  ASSUME NEW D, NEW e \in D
  PROVE  /\ /\ <<e>> \in Seq(D) /\ Len(<<e>>) = 1 /\ DOMAIN <<e>> = 1..1 /\ <<e>>[1] = e
         /\ Announcements!Entries(<<e>>) = {e}
         /\ Append(<<>>, e) = <<e>>
<1>1. <<e>> \in Seq(D) /\ Len(<<e>>) = 1 /\ DOMAIN <<e>> = 1..1 /\ <<e>>[1] = e
  OBVIOUS
<1>2. Append(<<>>, e) = <<e>>
  OBVIOUS
<1>3. Announcements!Entries(<<e>>) = {e}
  <2>1. \A i \in 1..1 : i = 1
    OBVIOUS
  <2>2. 1 \in 1..1
    OBVIOUS
  <2> QED BY <1>1, <2>1, <2>2 DEF Announcements!Entries
<1> QED BY <1>1, <1>2, <1>3

LEMMA AnnouncementNoneLeft == ASSUME NEW D, NEW s \in Seq(D), Announcements!Entries(s) = {} PROVE s = <<>>
<1>1. Len(s) \in Nat /\ DOMAIN s = 1..Len(s)
  OBVIOUS
<1>2. \A i \in 1..Len(s) : s[i] \in Announcements!Entries(s)
  BY <1>1 DEF Announcements!Entries
<1>3. Len(s) = 0
  <2>1. Len(s) # 0 => 1 \in 1..Len(s)
    BY <1>1
  <2> QED BY <1>2, <2>1
<1> QED BY <1>3

LEMMA WithoutOne ==
  ASSUME NEW D, NEW e \in D, NEW X
  PROVE  /\ Announcements!Without(<<e>>, X) = (IF e \in X THEN <<>> ELSE <<e>>)
         /\ Announcements!Without(<<>>, X) = <<>>
<1>1. Announcements!Without(<<>>, X) = <<>>
  <2>1. PICK s \in Seq(D) : s = <<>> /\ Announcements!Entries(s) = {}
    BY NoEntry
  <2>2. /\ Announcements!Without(s, X) \in Seq(D)
        /\ Announcements!Entries(Announcements!Without(s, X)) = Announcements!Entries(s) \ X
    BY WithoutIs
  <2> QED BY <2>1, <2>2, AnnouncementNoneLeft
<1>2. PICK v : /\ v[0] = <<>> /\ Announcements!Without(<<e>>, X) = v[1]
               /\ \A k \in 1..1 : v[k] = KeptEntry(v[k - 1], <<e>>[k], X)
  <2>1. PICK s : s = <<e>> /\ DOMAIN s = 1..1
    BY OneEntry
  <2> PICK n \in Nat : n = 1
    OBVIOUS
  <2>3. DOMAIN s = 1..n
    BY <2>1
  <2>2. \E v : WithoutTurning(v, s, n, X)
    BY <2>3, WithoutTurns
  <2> QED BY <2>1, <2>2 DEF WithoutTurning
<1>3. v[1] = KeptEntry(<<>>, e, X)
  <2>1. 1 \in 1..1 /\ 1 - 1 = 0
    OBVIOUS
  <2>2. v[1] = KeptEntry(v[1 - 1], <<e>>[1], X)
    BY <1>2, <2>1
  <2> QED BY <1>2, <2>1, <2>2, OneEntry
<1> QED BY <1>1, <1>2, <1>3, OneEntry DEF KeptEntry

LEMMA AnnounceNone ==
  ASSUME NEW w, NEW answers
  PROVE  Announcements!announceAll(w, <<>>, answers) = w
<1>2. PICK list : list = <<>> /\ DOMAIN list = 1..0
  OBVIOUS
<1> PICK n \in Nat : n = 0
  OBVIOUS
<1>3. PICK v : AllTurning(v, w, n, list, answers)
  <2>1. DOMAIN list = 1..n
    BY <1>2
  <2> QED BY <2>1, AllTurns
<1> QED BY <1>2, <1>3 DEF AllTurning

LEMMA AnnounceOne ==
  ASSUME NEW w, NEW csi \in Csi, NEW answers
  PROVE  Announcements!announceAll(w, <<csi>>, answers) = Announcements!announceResourceToCSI(w, csi, answers)
<1>2. PICK list : list = <<csi>> /\ DOMAIN list = 1..1 /\ list[1] = csi
  BY OneEntry
<1>3. PICK v : /\ v[0] = w /\ Announcements!announceAll(w, list, answers) = v[1]
               /\ \A k \in 1..1 : v[k] = Announcements!announceResourceToCSI(v[k - 1], list[k], answers)
  <2>1. PICK n \in Nat : n = 1 /\ DOMAIN list = 1..n
    BY <1>2
  <2>2. \E v : AllTurning(v, w, n, list, answers)
    BY AllTurns, <2>1
  <2> QED BY <2>1, <2>2 DEF AllTurning
<1>4. 1 \in 1..1 /\ 1 - 1 = 0
  OBVIOUS
<1>5. v[1] = Announcements!announceResourceToCSI(v[1 - 1], list[1], answers)
  BY <1>3, <1>4
<1> QED BY <1>2, <1>3, <1>4, <1>5

LEMMA GoneNone ==
  ASSUME NEW w, w.to = <<>>, NEW answers
  PROVE  Announcements!deAnnounceResource(w, answers) = w
<1>2. PICK list : list = Announcements!Visited(w.to)
  OBVIOUS
<1> PICK n \in Nat : n = 0
  OBVIOUS
<1>3. PICK v : GoneTurning(v, w, n, list, answers)
  <2>1. (Len(w.to) + 1) \div 2 = 0
    BY NoEntry
  <2>2. DOMAIN list = 1..n
    BY <1>2, <2>1 DEF Announcements!Visited
  <2>3. \E v : GoneTurning(v, w, n, list, answers)
    BY <1>2, <2>2, GoneTurns
  <2> QED BY <2>3
<1> QED BY <1>3 DEF GoneTurning

LEMMA GoneOne ==
  ASSUME NEW w, NEW e \in EntryN, w.to = <<e>>, NEW answers
  PROVE  Announcements!deAnnounceResource(w, answers) = Announcements!deAnnounceResourceFromCSI(w, e, answers)
<1>2. PICK list : list = Announcements!Visited(w.to)
  OBVIOUS
<1>3. DOMAIN list = 1..1 /\ list[1] = e
  <2>1. (Len(w.to) + 1) \div 2 = 1
    BY OneEntry
  <2>2. list = [i \in 1..1 |-> w.to[2 * i - 1]]
    BY <1>2, <2>1 DEF Announcements!Visited
  <2>3. 1 \in 1..1 /\ 2 * 1 - 1 = 1
    OBVIOUS
  <2> QED BY <2>2, <2>3, OneEntry
<1>4. PICK v : /\ v[0] = w /\ Announcements!deAnnounceResource(w, answers) = v[1]
               /\ \A k \in 1..1 : v[k] = Announcements!deAnnounceResourceFromCSI(v[k - 1], list[k], answers)
  <2>1. PICK n \in Nat : n = 1 /\ DOMAIN list = 1..n
    BY <1>3
  <2>2. \E v : GoneTurning(v, w, n, list, answers)
    BY GoneTurns, <1>2, <2>1
  <2> QED BY <2>1, <2>2 DEF GoneTurning
<1>5. 1 \in 1..1 /\ 1 - 1 = 0
  OBVIOUS
<1>6. v[1] = Announcements!deAnnounceResourceFromCSI(v[1 - 1], list[1], answers)
  BY <1>4, <1>5
<1> QED BY <1>3, <1>4, <1>5, <1>6


\* What a resource has of the CSE, and who knows whose announced resources.
BareOf(c) == [csi |-> c, ri |-> Announcements!NotYet]
Form(c, s, to) ==
  \/ to = <<>> /\ s \in {<<>>, <<BareOf(c)>>}
  \/ \E e \in EntryN : e.csi = c /\ 1 <= e.ri /\ to = <<e>> /\ s \in {<<BareOf(c)>>, <<e>>}
Holds(all, r, to) == \A x \in all : x.lnk = r => [csi |-> x.csi, ri |-> x.ri] \in Announcements!Entries(to)
One(c, all) == \A x \in all : x.csi = c
NotBare(r, s, to) == r = "parent" /\ to = <<>> => s = <<>>

Agree(c) ==
  /\ One(c, remote)
  /\ \A r \in Others : Form(c, at[r], announcedTo[r]) /\ Holds(remote, r, announcedTo[r])
  /\ NotBare("parent", at["parent"], announcedTo["parent"])

\* The same of what a handler works on, before the resource has been announced and after it.
Level(c, w) ==
  /\ One(c, w.remote) /\ Holds(w.remote, w.r, w.to) /\ ~w.raised
  /\ \A q \in Others \ {w.r} : Holds(w.remote, q, announcedTo[q])
Ready(c, w) == Level(c, w) /\ Form(c, w.at, w.to)
AnnouncementFits(c, w) == Ready(c, w) /\ NotBare(w.r, w.at, w.to)

LEMMA BareIs == ASSUME NEW c \in Csi PROVE BareOf(c) \in EntryN /\ BareOf(c).csi = c /\ BareOf(c).ri = 0
BY DEF BareOf, EntryN, Announcements!NotYet

LEMMA FilledBare ==
  ASSUME NEW c \in Csi, NEW n \in Nat
  PROVE  AnnouncementFilled(<<BareOf(c)>>, c, n) = <<[csi |-> c, ri |-> n]>>
<1> DEFINE e == [csi |-> c, ri |-> n]
            s == <<BareOf(c)>>
<1>1. BareOf(c) \in EntryN /\ BareOf(c) = [csi |-> c, ri |-> Announcements!NotYet]
  BY BareIs DEF BareOf
<1>2. DOMAIN s = 1..1 /\ Announcements!Entries(s) = {BareOf(c)} /\ s[1] = BareOf(c)
  BY <1>1, OneEntry
<1> HIDE DEF s
<1>3. AnnouncementFilled(s, c, n) = [i \in 1..1 |-> IF s[i] = BareOf(c) THEN e ELSE s[i]]
  BY <1>1, <1>2 DEF AnnouncementFilled
<1>4. \A i \in 1..1 : s[i] = BareOf(c)
  <2>1. \A i \in 1..1 : i = 1
    OBVIOUS
  <2> QED BY <1>2, <2>1
<1> HIDE DEF e
<1>5. AnnouncementFilled(s, c, n) = [i \in 1..1 |-> e]
  BY <1>3, <1>4
<1>6. [i \in 1..1 |-> e] = <<e>>
  OBVIOUS
<1> QED BY <1>5, <1>6 DEF s, e

\* A resource that is announced now.
LEMMA CreateFits ==
  ASSUME NEW c \in Csi, NEW w, Right(w), Ready(c, w), w.to = <<>>, w.at = <<BareOf(c)>>,
         NEW pi \in Nat, NEW answers
  PROVE  /\ Ready(c, Announcements!createAnnounced(w, c, pi, answers))
         /\ Announcements!createAnnounced(w, c, pi, answers).r = w.r
         /\ c \in answers /\ (\E x \in w.remote : x.csi = c /\ x.ri = pi) =>
              Announcements!createAnnounced(w, c, pi, answers).to # <<>>
<1> DEFINE v == Announcements!createAnnounced(w, c, pi, answers)
            e == [csi |-> c, ri |-> w.ids + 1]
            new == [csi |-> c, ri |-> w.ids + 1, lnk |-> w.r, pi |-> pi]
<1>1. CASE ~(c \in answers /\ \E x \in w.remote : x.csi = c /\ x.ri = pi)
  <2>1. v = w
    BY <1>1 DEF Announcements!createAnnounced
  <2> QED BY <1>1, <2>1
<1>2. CASE c \in answers /\ \E x \in w.remote : x.csi = c /\ x.ri = pi
  <2>1. w \in WorkN /\ Used(w.at, w.ids) /\ w.ids \in Nat /\ w.r \in Others
    BY WorkFields DEF Right
  <2>2. /\ v.r = w.r /\ v.at = AnnouncementFilled(w.at, c, w.ids + 1) /\ v.to = Append(w.to, e)
        /\ v.raised = w.raised /\ v.remote = w.remote \cup {new}
    <3>1. v = Announcements!createAnnounced(w, c, pi, answers)
      OBVIOUS
    <3>2. Used(w.at, w.ids)
      BY <2>1
    <3>3. w \in WorkN
      BY <2>1
    <3> HIDE DEF v
    <3>4. c \in answers /\ \E x \in w.remote : x.csi = c /\ x.ri = pi
      BY <1>2
    <3>5. /\ v.r = w.r /\ v.at = AnnouncementFilled(w.at, c, w.ids + 1)
          /\ v.to = Append(w.to, [csi |-> c, ri |-> w.ids + 1]) /\ v.raised = w.raised
          /\ v.remote = w.remote \cup {[csi |-> c, ri |-> w.ids + 1, lnk |-> w.r, pi |-> pi]}
      BY <3>1, <3>2, <3>3, <3>4, CreatedIs
    <3> QED BY <3>5
  <2>3. e \in EntryN /\ e.csi = c /\ 1 <= e.ri
    BY <2>1 DEF EntryN
  <2>4. v.at = <<e>>
    BY <2>1, <2>2, FilledBare
  <2>5. new.csi = c /\ new.lnk = w.r /\ [csi |-> new.csi, ri |-> new.ri] = e
    OBVIOUS
  <2> HIDE DEF v, e, new
  <2>6. v.to = <<e>> /\ Announcements!Entries(v.to) = {e} /\ <<e>> # <<>>
    BY <2>2, <2>3, OneEntry, NoEntry
  <2>7. Form(c, v.at, v.to)
    BY <2>3, <2>4, <2>6 DEF Form
  <2>8. \A x \in w.remote : x.lnk # w.r
    BY NoEntry DEF Ready, Level, Holds
  <2>9. Holds(v.remote, v.r, v.to)
    BY <2>2, <2>5, <2>6, <2>8 DEF Holds
  <2>10. One(c, v.remote) /\ ~v.raised
    BY <2>2, <2>5 DEF Ready, Level, One
  <2>11. \A q \in Others \ {v.r} : Holds(v.remote, q, announcedTo[q])
    BY <2>2, <2>5 DEF Ready, Level, Holds
  <2>12. Ready(c, v)
    BY <2>7, <2>9, <2>10, <2>11 DEF Ready, Level
  <2> QED BY <2>2, <2>6, <2>12 DEF v
<1> QED BY <1>1, <1>2

\* The CSEBase of a CSE that answers is there.
LEMMA BelowBaseFits ==
  ASSUME NEW c \in Csi, NEW w, Right(w), Ready(c, w), w.to = <<>>, w.at = <<BareOf(c)>>,
         NEW answers, c \in answers
  PROVE  /\ AnnouncementFits(c, Announcements!announceBelowBase(w, c, answers))
         /\ Announcements!announceBelowBase(w, c, answers).r = w.r
<1> DEFINE w1 == Announcements!checkCSEBaseAnnouncement(w, c, answers)
            infos == Announcements!_announcedInfos(w1.base, c)
            pi == (CHOOSE e \in infos : TRUE).ri
<1>1. Right(w1) /\ SameOwn(w1, w) /\ w1.raised = w.raised /\ Announces(w1, w, c, answers)
  BY CheckRight
<1>2. Announcements!announceBelowBase(w, c, answers) =
        IF infos = {} THEN Announcements!Raise(w1) ELSE Announcements!createAnnounced(w1, c, pi, answers)
  BY DEF Announcements!announceBelowBase
<1> HIDE DEF w1
<1>3. infos # {} /\ \A e \in infos : \E x \in w1.remote : x.csi = c /\ x.ri = e.ri
  BY <1>1 DEF Announces
<1>4. PICK e \in infos : e.ri = pi
  BY <1>3
<1>5. pi \in Nat
  <2>1. w1.base \in Seq(EntryN) /\ e \in Announcements!Entries(w1.base)
    BY <1>1, WorkFields DEF Right, Announcements!_announcedInfos
  <2> QED BY <1>4, <2>1, EntriesIn DEF EntryN
<1>6. Ready(c, w1)
  <2>1. w.r \in Others /\ "base" \notin Others
    BY WorkFields DEF Right, Others
  <2>2. \A x \in w1.remote : x \in w.remote \/ (x.csi = c /\ x.lnk = "base")
    BY <1>1 DEF Announces
  <2>3. One(c, w1.remote)
    BY <2>2 DEF Ready, Level, One
  <2>4. Holds(w1.remote, w.r, w.to) /\ \A q \in Others \ {w.r} : Holds(w1.remote, q, announcedTo[q])
    BY <2>1, <2>2 DEF Ready, Level, Holds
  <2> QED BY <1>1, <2>3, <2>4 DEF Ready, Level, SameOwn
<1>7. \E x \in w1.remote : x.csi = c /\ x.ri = pi
  BY <1>3, <1>4
<1>8. Announcements!announceBelowBase(w, c, answers) = Announcements!createAnnounced(w1, c, pi, answers)
  BY <1>2, <1>3
<1> HIDE DEF infos, pi
<1>9. /\ Ready(c, Announcements!createAnnounced(w1, c, pi, answers))
         /\ Announcements!createAnnounced(w1, c, pi, answers).r = w1.r
      /\ Announcements!createAnnounced(w1, c, pi, answers).to # <<>>
  BY <1>1, <1>5, <1>6, <1>7, CreateFits DEF SameOwn
<1> QED BY <1>1, <1>8, <1>9 DEF AnnouncementFits, NotBare, SameOwn

LEMMA ToCSIFits ==
  ASSUME NEW c \in Csi, NEW w, Right(w), Ready(c, w), w.to = <<>>, w.at = <<BareOf(c)>>,
         NEW answers, c \in answers
  PROVE  /\ AnnouncementFits(c, Announcements!announceResourceToCSI(w, c, answers))
         /\ Announcements!announceResourceToCSI(w, c, answers).r = w.r
<1> DEFINE infos == Announcements!_announcedInfos(announcedTo["parent"], c)
            pi == (CHOOSE e \in infos : TRUE).ri
<1>1. ~Announcements!_isResourceAnnouncedTo(w.to, c) /\ ~w.raised
  BY NoEntry DEF Announcements!_isResourceAnnouncedTo, Announcements!_announcedInfos, Ready, Level
<1>2. CASE w.r = "child" /\ infos # {}
  <2>1. Announcements!announceResourceToCSI(w, c, answers) = Announcements!createAnnounced(w, c, pi, answers)
    BY <1>1, <1>2, Zenon DEF Announcements!announceResourceToCSI, Announcements!_isResourceAnnouncedTo
  <2>2. PICK e \in infos : e.ri = pi
    BY <1>2
  <2>3. e \in Announcements!Entries(announcedTo["parent"])
    BY DEF Announcements!_announcedInfos
  <2>4. Known("parent", announcedTo["parent"], w.remote, w.ids)
    BY <1>2 DEF Right, Others
  <2>5. pi \in Nat
    BY <2>2, <2>3, <2>4, EntriesIn DEF Known, EntryN
  <2> HIDE DEF infos, pi
  <2>6. /\ Ready(c, Announcements!createAnnounced(w, c, pi, answers))
        /\ Announcements!createAnnounced(w, c, pi, answers).r = w.r
    BY <2>5, CreateFits
  <2> QED BY <1>2, <2>1, <2>6 DEF AnnouncementFits, NotBare
<1>3. CASE w.r = "child" /\ infos = {} /\ instance
  <2>1. Announcements!announceResourceToCSI(w, c, answers) = w
    BY <1>1, <1>3, Zenon DEF Announcements!announceResourceToCSI, Announcements!_isResourceAnnouncedTo
  <2> QED BY <1>3, <2>1 DEF AnnouncementFits, NotBare
<1>4. CASE ~(w.r = "child" /\ infos # {}) /\ ~(w.r = "child" /\ instance)
  <2>1. Announcements!announceResourceToCSI(w, c, answers) = Announcements!announceBelowBase(w, c, answers)
    BY <1>1, <1>4, Zenon DEF Announcements!announceResourceToCSI, Announcements!_isResourceAnnouncedTo
  <2> QED BY <2>1, BelowBaseFits
<1> QED BY <1>2, <1>3, <1>4


(***************************************************************************)
(* Every step keeps both sides in agreement.                               *)
(***************************************************************************)

LEMMA LevelStart ==
  ASSUME NEW c \in Csi, Agree(c), NEW r \in Others, NEW s
  PROVE  Level(c, Start(r, s))
<1>1. /\ Start(r, s).r = r /\ Start(r, s).to = announcedTo[r] /\ ~Start(r, s).raised
      /\ Start(r, s).remote = remote
  BY DEF Start, Announcements!Work
<1> QED BY <1>1 DEF Level, Agree

LEMMA StoreFits ==
  ASSUME AnnouncementInv, NEW c \in Csi, Agree(c), NEW r \in Others, NEW w, w.r = r, AnnouncementFits(c, w),
         Announcements!Store(w, r, [at |-> w.at, to |-> w.to])
  PROVE  Agree(c)'
<1>1. /\ r \in Announcements!Local /\ r # "base" /\ "base" \in Announcements!Local
      /\ \A q \in Others : q \in Announcements!Local /\ q # "base"
  BY DEF Others, Announcements!Local
<1>2. at \in [Announcements!Local -> Seq(EntryN)] /\ announcedTo \in [Announcements!Local -> Seq(EntryN)]
  BY DEF AnnouncementInv, Typed
<1>3. /\ at' = [at EXCEPT ![r] = w.at] /\ announcedTo' = [announcedTo EXCEPT ![r] = w.to, !["base"] = w.base]
      /\ remote' = w.remote
  BY DEF Announcements!Store
<1>4. /\ at'[r] = w.at /\ announcedTo'[r] = w.to
      /\ \A q \in Others \ {r} : at'[q] = at[q] /\ announcedTo'[q] = announcedTo[q]
  BY <1>1, <1>2, <1>3
<1>5. ASSUME NEW q \in Others PROVE Form(c, at'[q], announcedTo'[q]) /\ Holds(remote', q, announcedTo'[q])
  BY <1>3, <1>4 DEF AnnouncementFits, Ready, Level, Agree
<1>6. NotBare("parent", at'["parent"], announcedTo'["parent"])
  BY <1>4 DEF AnnouncementFits, NotBare, Agree, Others
<1>7. One(c, remote')
  BY <1>3 DEF AnnouncementFits, Ready, Level
<1> QED BY <1>5, <1>6, <1>7 DEF Agree, Form, Holds, One, NotBare

\* What the originator can name.
LEMMA NamedOne ==
  ASSUME NEW c \in Csi, targets = {c}, NEW s \in Announcements!Named
  PROVE  Announcements!Bare(s) = <<>> \/ Announcements!Bare(s) = <<BareOf(c)>>
<1>1. Announcements!Cardinality(targets) = 1
  BY FS_Singleton, FiniteAs
<1>2. PICK m \in 0..1 : s \in [1..m -> {c}]
  BY <1>1 DEF Announcements!Named
<1>3. CASE m = 0
  <2>1. DOMAIN s = {} /\ Announcements!Bare(s) = [i \in DOMAIN s |-> BareOf(c)]
    BY <1>2, <1>3 DEF Announcements!Bare
  <2>2. [i \in {} |-> BareOf(c)] = <<>>
    OBVIOUS
  <2> QED BY <2>1, <2>2
<1>4. CASE m = 1
  <2>1. Announcements!Bare(s) = [i \in 1..1 |-> BareOf(c)]
    BY <1>2, <1>4 DEF Announcements!Bare, BareOf
  <2>2. [i \in 1..1 |-> BareOf(c)] = <<BareOf(c)>>
    OBVIOUS
  <2> QED BY <2>1, <2>2
<1> QED BY <1>3, <1>4

\* The CSEs of what it names.
LEMMA CsisOne ==
  ASSUME NEW D, NEW e \in D
  PROVE  [i \in DOMAIN <<e>> |-> <<e>>[i].csi] = <<e.csi>> /\ [i \in DOMAIN <<>> |-> <<>>[i].csi] = <<>>
<1>1. [i \in DOMAIN <<e>> |-> <<e>>[i].csi] = <<e.csi>>
  OBVIOUS
<1>2. [i \in DOMAIN <<>> |-> <<>>[i].csi] = <<>>
  OBVIOUS
<1> QED BY <1>1, <1>2

\* A resource is announced when it is created, or when it is updated and has not been announced yet.
LEMMA AnnounceFits ==
  ASSUME NEW c \in Csi, NEW w, Right(w), Ready(c, w), NEW X,
         w.to = <<>> => X = {}, \A e \in EntryN : w.to = <<e>> => c \in X
  PROVE  LET v == Announcements!announceAll(w, Announcements!Without([i \in DOMAIN w.at |-> w.at[i].csi], X), {c})
         IN  AnnouncementFits(c, v) /\ v.r = w.r
<1> DEFINE csis == [i \in DOMAIN w.at |-> w.at[i].csi]
            list == Announcements!Without(csis, X)
<1>1. csis = <<>> \/ csis = <<c>>
  BY BareIs, CsisOne DEF Ready, Level, Form
<1>2. list = IF csis = <<>> \/ c \in X THEN <<>> ELSE <<c>>
  BY <1>1, WithoutOne
<1> HIDE DEF list, csis
<1>3. CASE list = <<>>
  <2>1. Announcements!announceAll(w, list, {c}) = w
    BY <1>3, AnnounceNone
  <2>2. NotBare(w.r, w.at, w.to)
    <3>1. CASE w.to = <<>>
      <4>1. csis = <<>>
        BY <1>2, <1>3, <3>1, NoEntry
      <4>2. w.at # <<BareOf(c)>>
        BY <4>1, BareIs, CsisOne, OneEntry, NoEntry DEF csis
      <4> QED BY <3>1, <4>2, NoEntry DEF Ready, Level, Form, NotBare
    <3> QED BY <3>1 DEF NotBare
  <2> QED BY <2>1, <2>2 DEF AnnouncementFits, list, csis
<1>4. CASE list # <<>>
  <2>1. list = <<c>> /\ csis = <<c>> /\ c \notin X
    BY <1>1, <1>2, <1>4
  <2>2. Announcements!announceAll(w, list, {c}) = Announcements!announceResourceToCSI(w, c, {c})
    BY <2>1, AnnounceOne
  <2>3. w.to = <<>>
    BY <2>1 DEF Ready, Level, Form
  <2>4. w.at = <<BareOf(c)>>
    <3>1. w.at # <<>>
      BY <1>4, <1>2, CsisOne, BareIs DEF csis
    <3> QED BY <2>3, <3>1, NoEntry, OneEntry DEF Ready, Level, Form
  <2> QED BY <2>2, <2>3, <2>4, ToCSIFits DEF list, csis
<1> QED BY <1>3, <1>4

\* De-announcing leaves nothing, on both sides, whether at has been removed already or not.
Loose(c, s, to) == Form(c, s, to) \/ (s = <<>> /\ Form(c, <<BareOf(c)>>, to))

LEMMA GoneFits ==
  ASSUME NEW c \in Csi, NEW w, Right(w), Level(c, w), Loose(c, w.at, w.to)
  PROVE  LET v == Announcements!deAnnounceResource(w, {c})
         IN  /\ Ready(c, v) /\ v.r = w.r /\ v.to = <<>> /\ v.remote \subseteq w.remote
             /\ \A x \in v.remote : x.lnk # w.r
             /\ w.at # <<BareOf(c)>> => v.at = <<>>
<1> DEFINE v == Announcements!deAnnounceResource(w, {c})
<1>1. CASE w.to = <<>>
  <2>1. v = w /\ Ready(c, w)
    BY <1>1, GoneNone, NoEntry, OneEntry DEF Loose, Form, Ready
  <2>2. \A x \in w.remote : x.lnk # w.r
    BY <1>1, NoEntry DEF Level, Holds
  <2>3. w.at # <<BareOf(c)>> => w.at = <<>>
    BY <1>1, NoEntry, OneEntry DEF Loose, Form
  <2> QED BY <1>1, <2>1, <2>2, <2>3
<1>2. CASE w.to # <<>>
  <2>1. PICK e \in EntryN : e.csi = c /\ 1 <= e.ri /\ w.to = <<e>> /\ w.at \in {<<BareOf(c)>>, <<e>>, <<>>}
    BY <1>2 DEF Loose, Form
  <2>2. v = Announcements!deAnnounceResourceFromCSI(w, e, {c})
    BY <2>1, GoneOne
  <2> DEFINE X == Announcements!_announcedInfos(w.to, e.csi)
  <2>3. X = {e} /\ e \in Announcements!Entries(w.to) /\ Announcements!Entries(w.to) = {e}
    BY <2>1, OneEntry DEF Announcements!_announcedInfos
  <2>4. w \in WorkN
    BY DEF Right
  <2> HIDE DEF v, X
  <2>5. /\ v.r = w.r /\ v.raised = w.raised /\ v.remote = Announcements!RemoveRemote(w.remote, e)
        /\ v.to = Announcements!Without(w.to, X) /\ v.at = Announcements!Without(w.at, X)
    BY <2>1, <2>2, <2>4, GoneIs DEF X
  <2>6. v.to = <<>>
    BY <2>1, <2>3, <2>5, WithoutOne
  <2>7. BareOf(c) \notin X /\ BareOf(c) \in EntryN
    BY <2>1, <2>3, BareIs
  <2>8. /\ w.at = <<BareOf(c)>> => v.at = <<BareOf(c)>>
        /\ w.at # <<BareOf(c)>> => v.at = <<>>
    BY <2>1, <2>3, <2>5, <2>7, WithoutOne
  <2>9. v.remote \subseteq w.remote
    BY <2>5 DEF Announcements!RemoveRemote
  <2>10. ASSUME NEW x \in v.remote, x.lnk = w.r PROVE FALSE
    <3>1. [csi |-> x.csi, ri |-> x.ri] = e
      BY <2>3, <2>9, <2>10 DEF Level, Holds
    <3>2. x.csi = e.csi /\ x.ri = e.ri
      BY <3>1
    <3> QED BY <2>5, <2>10, <3>2 DEF Announcements!RemoveRemote
  <2>11. Form(c, v.at, v.to)
    BY <2>6, <2>8 DEF Form
  <2>12. One(c, v.remote) /\ Holds(v.remote, v.r, v.to) /\ ~v.raised
    BY <2>5, <2>9, <2>10 DEF Level, One, Holds
  <2>13. \A q \in Others \ {v.r} : Holds(v.remote, q, announcedTo[q])
    BY <2>5, <2>9 DEF Level, Holds
  <2>14. Ready(c, v)
    BY <2>11, <2>12, <2>13 DEF Ready, Level
  <2> QED BY <2>5, <2>6, <2>8, <2>9, <2>10, <2>14 DEF v
<1> QED BY <1>1, <1>2


LEMMA OneAnswer == ASSUME NEW c, reliable, targets = {c} PROVE Announcements!Answers = {{c}}
BY DEF Announcements!Answers

LEMMA CsiNone == Announcements!Csis(<<>>) = {} /\ \A D : \A e \in D : Announcements!Csis(<<e>>) = {e.csi}
<1>1. ASSUME NEW D, NEW e \in D PROVE Announcements!Csis(<<e>>) = {e.csi}
  <2>1. DOMAIN <<e>> = 1..1 /\ <<e>>[1] = e /\ 1 \in 1..1 /\ \A i \in 1..1 : i = 1
    BY OneEntry
  <2> QED BY <2>1 DEF Announcements!Csis
<1> QED BY <1>1, NoEntry

LEMMA ActivateAgrees ==
  ASSUME AnnouncementInv, NEW c \in Csi, reliable, targets = {c}, Agree(c), NEW r \in Announcements!Local,
         Announcements!activate(r)
  PROVE  Agree(c)'
<1> PICK s \in Announcements!Named, answers \in Announcements!Answers :
       LET w == Announcements!announceResource([Announcements!Work(r) EXCEPT !.at = Announcements!Bare(s)],
                                               answers)
       IN Announcements!Store(w, r, IF w.raised THEN Announcements!Nothing ELSE [at |-> w.at, to |-> w.to])
  BY Zenon DEF Announcements!activate
<1> DEFINE w0 == [Announcements!Work(r) EXCEPT !.at = Announcements!Bare(s)]
            w == Announcements!announceResource(w0, answers)
<1>1. r \in Others /\ announcedTo[r] = <<>> /\ ids \in Nat /\ targets \subseteq Csi
  BY AnnouncementConstants DEF Announcements!activate, AnnouncementInv, Typed, Unset, Others, Announcements!Local
<1>0. answers = {c}
  BY OneAnswer
<1>2. Used(Announcements!Bare(s), ids) /\ Announcements!Bare(s) \in {<<>>, <<BareOf(c)>>}
  BY <1>1, NamedIs, BareUsed, NamedOne
<1>3. Right(w0) /\ w0.r = r /\ w0.at = Announcements!Bare(s) /\ w0.to = <<>> /\ Level(c, w0)
  <2>1. w0 = Start(r, Announcements!Bare(s))
    BY DEF Start
  <2>2. Right(Start(r, Announcements!Bare(s)))
    BY <1>1, <1>2, WorkRight
  <2>3. Level(c, Start(r, Announcements!Bare(s)))
    BY <1>1, LevelStart
  <2>4. w0.r = r /\ w0.at = Announcements!Bare(s) /\ w0.to = <<>>
    BY <1>1 DEF Announcements!Work
  <2> HIDE DEF w0
  <2> QED BY <2>1, <2>2, <2>3, <2>4
<1> HIDE DEF w0
<1>4. Ready(c, w0)
  BY <1>2, <1>3 DEF Ready, Form
<1> DEFINE csis == [i \in DOMAIN w0.at |-> w0.at[i].csi]
<1>5. Announcements!Without(csis, {}) = csis
  <2>1. csis = <<>> \/ csis = <<c>>
    BY <1>2, <1>3, BareIs, CsisOne
  <2>2. Announcements!Without(<<c>>, {}) = <<c>> /\ Announcements!Without(<<>>, {}) = <<>>
    BY WithoutOne
  <2> HIDE DEF csis
  <2> QED BY <2>1, <2>2
<1>6. AnnouncementFits(c, w) /\ w.r = r
  <2>1. w = Announcements!announceAll(w0, Announcements!Without(csis, {}), {c})
    BY <1>0, <1>5, Zenon DEF Announcements!announceResource
  <2>2. w0.to = <<>> => {} = {}
    OBVIOUS
  <2>3. \A e \in EntryN : w0.to = <<e>> => c \in {}
    BY <1>3, NoEntry, OneEntry
  <2>4. /\ AnnouncementFits(c, Announcements!announceAll(w0, Announcements!Without(csis, {}), {c}))
        /\ Announcements!announceAll(w0, Announcements!Without(csis, {}), {c}).r = w0.r
    BY <1>3, <1>4, <2>2, <2>3, AnnounceFits
  <2> HIDE DEF w, csis
  <2> QED BY <1>3, <2>1, <2>4
<1>7. Announcements!Store(w, r, IF w.raised THEN Announcements!Nothing ELSE [at |-> w.at, to |-> w.to])
  BY DEF w0
<1> HIDE DEF w
<1>8. Announcements!Store(w, r, [at |-> w.at, to |-> w.to])
  BY <1>6, <1>7 DEF AnnouncementFits, Ready, Level
<1> QED BY <1>1, <1>6, <1>8, StoreFits

LEMMA UpdateAgrees ==
  ASSUME AnnouncementInv, NEW c \in Csi, reliable, targets = {c}, Agree(c), NEW r \in Announcements!Local,
         Announcements!update(r)
  PROVE  Agree(c)'
<1> PICK new \in {Announcements!Bare(s) : s \in Announcements!Named} \cup {at[r]},
         answers \in Announcements!Answers :
       LET w0 == [Announcements!Work(r) EXCEPT !.at = new]
           w == CASE new # <<>> -> Announcements!announceUpdatedResource(w0, answers)
                  [] new = <<>> /\ at[r] # <<>> -> Announcements!deAnnounceResource(w0, answers)
                  [] OTHER -> w0
       IN Announcements!Store(w, r, IF w.raised THEN w.saved ELSE [at |-> w.at, to |-> w.to])
  BY Zenon DEF Announcements!update
<1> DEFINE w0 == [Announcements!Work(r) EXCEPT !.at = new]
            w == CASE new # <<>> -> Announcements!announceUpdatedResource(w0, answers)
                   [] new = <<>> /\ at[r] # <<>> -> Announcements!deAnnounceResource(w0, answers)
                   [] OTHER -> w0
<1>1. r \in Others /\ r \in present.now /\ ids \in Nat /\ targets \subseteq Csi
  BY AnnouncementConstants DEF Announcements!update, AnnouncementInv, Typed, Others, Announcements!Local
<1>0. answers = {c}
  BY OneAnswer
<1>2. Used(new, ids) /\ new \in {at[r], <<>>, <<BareOf(c)>>}
  <2>1. CASE new = at[r]
    BY <1>1, <2>1 DEF AnnouncementInv, Linked
  <2>2. ASSUME NEW s \in Announcements!Named,
               new = Announcements!Bare(s) PROVE Used(new, ids) /\ new \in {<<>>, <<BareOf(c)>>}
    BY <1>1, <2>2, NamedIs, BareUsed, NamedOne
  <2> QED BY <2>1, <2>2
<1>3. Right(w0) /\ w0.r = r /\ w0.at = new /\ w0.to = announcedTo[r] /\ Level(c, w0)
  <2>1. w0 = Start(r, new)
    BY DEF Start
  <2>2. Right(Start(r, new))
    BY <1>1, <1>2, WorkRight
  <2>3. Level(c, Start(r, new))
    BY <1>1, LevelStart
  <2>4. w0.r = r /\ w0.at = new /\ w0.to = announcedTo[r]
    BY DEF Announcements!Work
  <2> HIDE DEF w0
  <2> QED BY <2>1, <2>2, <2>3, <2>4
<1>4. Announcements!Store(w, r, IF w.raised THEN w.saved ELSE [at |-> w.at, to |-> w.to])
  OBVIOUS
<1>5. Form(c, at[r], announcedTo[r])
  BY <1>1 DEF Agree
<1> HIDE DEF w0
<1>6. AnnouncementFits(c, w) /\ w.r = r
  <2>1. CASE new # <<>>
    <3> DEFINE csis == [i \in DOMAIN w0.at |-> w0.at[i].csi]
                X == Announcements!Csis(w0.to)
    <3>1. w = Announcements!announceAll(w0, Announcements!Without(csis, X), {c})
      BY <1>0, <2>1 DEF Announcements!announceUpdatedResource
    <3>2. Ready(c, w0)
      <4>1. Form(c, new, announcedTo[r])
        BY <1>2, <1>5, <2>1 DEF Form
      <4> QED BY <1>3, <4>1 DEF Ready
    <3>3. w0.to = <<>> => X = {}
      BY CsiNone
    <3>4. \A e \in EntryN : w0.to = <<e>> => c \in X
      <4> SUFFICES ASSUME NEW e \in EntryN, w0.to = <<e>> PROVE c \in X
        OBVIOUS
      <4>1. e.csi = c
        BY <1>3, <1>5, NoEntry, OneEntry DEF Form
      <4> QED BY <4>1, CsiNone
    <3> HIDE DEF w, X
    <3>5. /\ AnnouncementFits(c, Announcements!announceAll(w0, Announcements!Without(csis, X), {c}))
          /\ Announcements!announceAll(w0, Announcements!Without(csis, X), {c}).r = w0.r
      BY <1>3, <3>2, <3>3, <3>4, AnnounceFits
    <3> HIDE DEF csis
    <3> QED BY <1>3, <3>1, <3>5
  <2>2. CASE new = <<>> /\ at[r] # <<>>
    <3> DEFINE v == Announcements!deAnnounceResource(w0, {c})
    <3>1. w = v
      BY <1>0, <2>2
    <3>2. Loose(c, w0.at, w0.to)
      BY <1>3, <1>5, <2>2 DEF Form, Loose
    <3>3. <<>> # <<BareOf(c)>>
      BY BareIs, OneEntry, NoEntry
    <3>4. Ready(c, v) /\ v.r = w0.r /\ v.at = <<>>
      BY <1>3, <2>2, <3>2, <3>3, GoneFits
    <3> HIDE DEF v, w
    <3> QED BY <1>3, <3>1, <3>4 DEF AnnouncementFits, NotBare
  <2>3. CASE new = <<>> /\ at[r] = <<>>
    <3>1. w = w0
      BY <2>3
    <3> HIDE DEF w
    <3> QED BY <1>3, <1>5, <2>3, <3>1 DEF AnnouncementFits, Ready, NotBare
  <2> QED BY <2>1, <2>2, <2>3
<1> HIDE DEF w
<1>7. Announcements!Store(w, r, [at |-> w.at, to |-> w.to])
  BY <1>4, <1>6 DEF AnnouncementFits, Ready, Level
<1> QED BY <1>1, <1>6, <1>7, StoreFits


\* A deleted resource leaves nothing behind.
LEMMA LeftNone ==
  ASSUME AnnouncementInv, NEW c \in Csi, Agree(c), NEW s \in Others, NEW all \in SUBSET remote, Remotes(all, ids)
  PROVE  Left(s, all, {c}) \in SUBSET all /\ \A x \in Left(s, all, {c}) : x.lnk # s
<1>1. Form(c, at[s], announcedTo[s]) /\ Holds(all, s, announcedTo[s]) /\ One(c, all)
  BY DEF Agree, Holds, One
<1>2. CASE at[s] = <<>>
  <2>1. announcedTo[s] = <<>>
    BY <1>1, <1>2, BareIs, NoEntry, OneEntry DEF Form
  <2> QED BY <1>1, <1>2, <2>1, NoEntry DEF Left, Holds
<1>3. CASE at[s] # <<>>
  <2> DEFINE w == [Announcements!Work(s) EXCEPT !.remote = all]
              v == Announcements!deAnnounceResource(w, {c})
  <2>1. Right(w) /\ w.r = s /\ w.at = at[s] /\ w.to = announcedTo[s] /\ w.remote = all
    <3>1. w = With(s, all)
      BY DEF With
    <3> HIDE DEF w
    <3> QED BY <3>1, LessRight
  <2>2. ~w.raised
    BY DEF Announcements!Work
  <2>3. Left(s, all, {c}) = v.remote
    BY <1>3 DEF Left
  <2> HIDE DEF w
  <2>4. Level(c, w) /\ Loose(c, w.at, w.to)
    <3>1. \A q \in Others : Holds(all, q, announcedTo[q])
      BY DEF Agree, Holds
    <3> QED BY <1>1, <2>1, <2>2, <3>1 DEF Level, Loose
  <2>5. v.remote \subseteq w.remote /\ \A x \in v.remote : x.lnk # w.r
    BY <2>1, <2>4, GoneFits
  <2> HIDE DEF v
  <2> QED BY <2>1, <2>3, <2>5
<1> QED BY <1>2, <1>3

LEMMA DeactivateAgrees ==
  ASSUME AnnouncementInv, NEW c \in Csi, reliable, targets = {c}, Agree(c), NEW r \in Announcements!Local,
         Announcements!deactivate(r)
  PROVE  Agree(c)'
<1> DEFINE Deleted == IF r = "parent" THEN {"parent", "child"} ELSE {r}
<1>1. r \in Others /\ r \in present.now /\ Deleted \subseteq Others
  BY DEF Announcements!deactivate, Others, Announcements!Local
<1>2. PICK answers \in Announcements!Answers :
        remote' = IF r = "parent" /\ "child" \in present.now
                  THEN Left("child", Left("parent", remote, answers), answers) ELSE Left(r, remote, answers)
  BY Zenon DEF Announcements!deactivate, Left
<1>3. answers = {c}
  BY OneAnswer
<1>4. Remotes(remote, ids) /\ remote \in SUBSET remote /\ "child" \in Others /\ "parent" \in Others
  BY DEF AnnouncementInv, Linked, Others
<1>5. /\ at' = [s \in Announcements!Local |-> IF s \in Deleted THEN <<>> ELSE at[s]]
      /\ announcedTo' = [s \in Announcements!Local |-> IF s \in Deleted THEN <<>> ELSE announcedTo[s]]
  BY DEF Announcements!deactivate
<1>6. remote' \subseteq remote /\ \A x \in remote' : x.lnk \notin Deleted
  <2>1. \A q \in Others : /\ Left(q, remote, {c}) \in SUBSET remote
                          /\ \A x \in Left(q, remote, {c}) : x.lnk # q
    BY <1>4, LeftNone
  <2>2. CASE r = "parent" /\ "child" \in present.now
    <3> DEFINE all == Left("parent", remote, {c})
    <3>1. all \in SUBSET remote /\ Remotes(all, ids) /\ \A x \in all : x.lnk # "parent"
      BY <1>4, <2>1, LeftRight
    <3>2. remote' = Left("child", all, {c})
      BY <1>2, <1>3, <2>2
    <3> HIDE DEF all
    <3>3. Left("child", all, {c}) \in SUBSET all /\ \A x \in Left("child", all, {c}) : x.lnk # "child"
      BY <1>4, <3>1, LeftNone
    <3> QED BY <2>2, <3>1, <3>2, <3>3
  <2>3. CASE r = "parent" /\ "child" \notin present.now
    <3>1. remote' = Left("parent", remote, {c})
      BY <1>2, <1>3, <2>3
    <3>2. announcedTo["child"] = <<>>
      BY <2>3 DEF AnnouncementInv, Unset, Announcements!Local
    <3>3. \A x \in remote : x.lnk # "child"
      BY <1>4, <3>2, NoEntry DEF Agree, Holds
    <3> QED BY <1>4, <2>1, <2>3, <3>1, <3>3
  <2>4. CASE r # "parent"
    <3>1. remote' = Left(r, remote, {c})
      BY <1>2, <1>3, <2>4
    <3> QED BY <1>1, <2>1, <2>4, <3>1
  <2> QED BY <2>2, <2>3, <2>4
<1> HIDE DEF Deleted
<1>7. ASSUME NEW q \in Others PROVE Form(c, at'[q], announcedTo'[q]) /\ Holds(remote', q, announcedTo'[q])
  <2>1. q \in Announcements!Local
    BY DEF Others, Announcements!Local
  <2>2. CASE q \in Deleted
    BY <1>5, <1>6, <2>1, <2>2 DEF Form, Holds
  <2>3. CASE q \notin Deleted
    BY <1>5, <1>6, <2>1, <2>3 DEF Agree, Holds
  <2> QED BY <2>2, <2>3
<1>8. NotBare("parent", at'["parent"], announcedTo'["parent"])
  BY <1>5 DEF Agree, NotBare, Announcements!Local
<1>9. One(c, remote')
  BY <1>6 DEF Agree, One
<1> QED BY <1>7, <1>8, <1>9 DEF Agree, Form, Holds, One, NotBare

LEMMA ShutdownAgrees ==
  ASSUME AnnouncementInv, NEW c \in Csi, reliable, targets = {c}, Agree(c),
         Announcements!checkResourcesForUnAnnouncement
  PROVE  Agree(c)'
<1> PICK csi \in Csi, answers \in Announcements!Answers :
       \E r \in Announcements!searchAnnounceableResourcesForCSI(csi) :
       LET w == Announcements!_removeAnnouncementFromResource(
                  Announcements!deAnnounceResource(Announcements!Work(r), answers), csi)
       IN Announcements!Store(w, r, [at |-> w.at, to |-> w.to])
  BY Zenon DEF Announcements!checkResourcesForUnAnnouncement
<1> PICK r \in Announcements!searchAnnounceableResourcesForCSI(csi) :
       LET w == Announcements!_removeAnnouncementFromResource(
                  Announcements!deAnnounceResource(Announcements!Work(r), answers), csi)
       IN Announcements!Store(w, r, [at |-> w.at, to |-> w.to])
  BY Zenon
<1> DEFINE w0 == Announcements!Work(r)
            v == Announcements!deAnnounceResource(w0, {c})
            w == Announcements!_removeAnnouncementFromResource(v, csi)
<1>0. answers = {c}
  BY OneAnswer
<1>1. r \in Others /\ \E e \in Announcements!Entries(at[r]) : e.ri # Announcements!NotYet
  BY NoEntry DEF Announcements!searchAnnounceableResourcesForCSI, AnnouncementInv, Typed, Unset, Others,
       Announcements!Local
<1>2. Form(c, at[r], announcedTo[r]) /\ at[r] # <<BareOf(c)>>
  <2>1. Form(c, at[r], announcedTo[r])
    BY <1>1 DEF Agree
  <2>2. \A e \in Announcements!Entries(<<BareOf(c)>>) : e.ri = Announcements!NotYet
    BY BareIs, OneEntry DEF Announcements!NotYet
  <2> QED BY <1>1, <2>1, <2>2
<1>3. Right(w0) /\ w0.r = r /\ w0.at = at[r] /\ w0.to = announcedTo[r] /\ Level(c, w0)
  <2>1. w0 = Start(r, at[r])
    BY <1>1, WorkSame
  <2>2. Right(Start(r, at[r]))
    <3>1. Used(at[r], ids)
      BY <1>1 DEF AnnouncementInv, Linked, Others, Announcements!Local
    <3> QED BY <1>1, <3>1, WorkRight
  <2>3. Level(c, Start(r, at[r]))
    BY <1>1, LevelStart
  <2>4. w0.r = r /\ w0.at = at[r] /\ w0.to = announcedTo[r]
    BY DEF Announcements!Work
  <2> HIDE DEF w0
  <2> QED BY <2>1, <2>2, <2>3, <2>4
<1>4. Announcements!Store(w, r, [at |-> w.at, to |-> w.to])
  BY <1>0
<1> HIDE DEF w0
<1>5. Ready(c, v) /\ v.r = r /\ v.to = <<>> /\ v.at = <<>> /\ Right(v)
  <2>1. Loose(c, w0.at, w0.to)
    BY <1>2, <1>3 DEF Loose
  <2>2. Right(v)
    BY <1>3, AllGoneRight
  <2>3. Ready(c, v) /\ v.r = w0.r /\ v.to = <<>> /\ (w0.at # <<BareOf(c)>> => v.at = <<>>)
    BY <1>3, <2>1, GoneFits
  <2> HIDE DEF v
  <2> QED BY <1>2, <1>3, <2>2, <2>3
<1> HIDE DEF v
<1>6. AnnouncementFits(c, w) /\ w.r = r
  <2> DEFINE X == Announcements!_announcedInfos(v.to, csi)
  <2>1. /\ SameRest(w, v) /\ w.to = Announcements!Without(v.to, X) /\ w.at = Announcements!Without(v.at, X)
    BY <1>5, RemoveIs DEF Right
  <2>2. Announcements!Without(<<>>, X) = <<>>
    BY WithoutOne
  <2> HIDE DEF w, X
  <2>3. w.to = <<>> /\ w.at = <<>>
    BY <1>5, <2>1, <2>2
  <2> QED BY <1>5, <2>1, <2>3 DEF AnnouncementFits, Ready, Level, SameRest, NotBare
<1> HIDE DEF w
<1> QED BY <1>1, <1>4, <1>6, StoreFits

LEMMA RemovesAgrees ==
  ASSUME NEW c \in Csi, Agree(c), Announcements!RemoteRemoves
  PROVE  Agree(c)'
<1>1. remote' \subseteq remote
  BY DEF Announcements!RemoteRemoves, Announcements!RemoveRemote
<1>2. UNCHANGED <<at, announcedTo>>
  BY DEF Announcements!RemoteRemoves
<1> QED BY <1>1, <1>2 DEF Agree, Form, Holds, One, NotBare

AgreeInv == \A c \in Csi : reliable /\ targets = {c} => Agree(c)

LEMMA AgreeStep ==
  AnnouncementInv /\ AgreeInv /\ [Announcements!Next]_(Announcements!announcementVars) => AgreeInv'
<1> SUFFICES ASSUME AnnouncementInv, AgreeInv, [Announcements!Next]_(Announcements!announcementVars),
                    NEW c \in Csi, reliable', targets' = {c}
              PROVE  Agree(c)'
  BY DEF AgreeInv
<1>1. UNCHANGED <<targets, reliable>>
  BY DEF Announcements!Next, Announcements!announcementVars, Announcements!activate, Announcements!update,
       Announcements!deactivate, Announcements!checkResourcesForUnAnnouncement, Announcements!RemoteRemoves
<1>2. reliable /\ targets = {c} /\ Agree(c)
  BY <1>1 DEF AgreeInv
<1>3. CASE Announcements!Next
  BY <1>2, <1>3, ActivateAgrees, UpdateAgrees, DeactivateAgrees, ShutdownAgrees,
       RemovesAgrees DEF Announcements!Next
<1>4. CASE UNCHANGED Announcements!announcementVars
  BY <1>2, <1>4 DEF Announcements!announcementVars, Agree, Form, Holds, One, NotBare
<1> QED BY <1>3, <1>4

LEMMA AgreeInit == Announcements!Init => AgreeInv
<1> SUFFICES ASSUME Announcements!Init, NEW c \in Csi PROVE Agree(c)
  BY DEF AgreeInv
<1>1. \A r \in Announcements!Local : at[r] = <<>> /\ announcedTo[r] = <<>>
  BY DEF Announcements!Init
<1>2. remote = {} /\ Others \subseteq Announcements!Local /\ "parent" \in Announcements!Local
  BY DEF Announcements!Init, Others, Announcements!Local
<1> QED BY <1>1, <1>2 DEF Agree, Form, Holds, One, NotBare

LEMMA AnnouncementGood ==
  AnnouncementInv /\ AgreeInv => Announcements!TypeOK /\ Announcements!AnnouncementsMatch
<1> SUFFICES ASSUME AnnouncementInv, AgreeInv PROVE Announcements!TypeOK /\ Announcements!AnnouncementsMatch
  OBVIOUS
<1>1. Announcements!TypeOK
  <2>1. ids \in 0..MaxId /\ MaxId \in Nat /\ ids \in Nat
    BY AnnouncementConstants DEF AnnouncementInv, Typed
  <2>2. ASSUME NEW r \in Announcements!Local,
               NEW e \in Announcements!Entries(at[r]) \cup Announcements!Entries(announcedTo[r])
        PROVE  e \in Announcements!Entry
    <3>1. e \in EntryN /\ e.ri <= ids
      BY EntriesIn DEF AnnouncementInv, Linked, Known, Used
    <3> QED BY <2>1, <3>1 DEF EntryN, Announcements!Entry
  <2>3. ASSUME NEW x \in remote PROVE x \in Announcements!Announced
    <3>1. x \in AnnouncedN /\ 1 <= x.ri /\ x.ri <= ids /\ x.pi <= ids
      BY DEF AnnouncementInv, Linked, Remotes
    <3> QED BY <2>1, <3>1 DEF AnnouncedN, Announcements!Announced
  <2>4. \A r \in Announcements!Local : \A i, k \in DOMAIN announcedTo[r] :
          announcedTo[r][i].csi = announcedTo[r][k].csi => i = k
    BY DEF AnnouncementInv, Linked, Known, Single
  <2>5. present \in [now : SUBSET Announcements!Local, before : SUBSET Announcements!Local]
    BY DEF AnnouncementInv, Typed
  <2>6. at["base"] = <<>> /\ \A r \in Announcements!Local \ present.now : r # "base" => announcedTo[r] = <<>>
    BY DEF AnnouncementInv, Unset
  <2> QED BY <2>1, <2>2, <2>3, <2>4, <2>5, <2>6 DEF Announcements!TypeOK
<1>2. \A x, y \in remote : x.csi = y.csi /\ x.lnk = y.lnk /\ x.lnk = "base" => x = y
  BY DEF AnnouncementInv, Linked, Remotes
<1>3. instance => \A x \in remote : x.lnk = "child" =>
        \E y \in remote : y.csi = x.csi /\ y.ri = x.pi /\ y.lnk = "parent"
  BY DEF AnnouncementInv, Linked, Remotes
<1>4. ASSUME reliable, Announcements!Cardinality(targets) = 1
      PROVE  /\ \A x \in remote :
                  /\ x.lnk \in present.now
                     /\ [csi |-> x.csi, ri |-> x.ri] \in Announcements!Entries(announcedTo[x.lnk])
                  /\ \A y \in remote : x.lnk = y.lnk => x = y
             /\ Announcements!Csis(at["parent"]) = Announcements!Csis(announcedTo["parent"])
  <2>1. IsFiniteSet(targets)
    BY AnnouncementConstants, FS_Subset DEF AnnouncementInv, Typed
  <2>2. PICK c \in Csi : targets = {c}
    BY <1>4, <2>1, FS_Singleton, FiniteAs DEF AnnouncementInv, Typed
  <2>3. Agree(c)
    BY <1>4, <2>2 DEF AgreeInv
  <2>4. ASSUME NEW x \in remote
        PROVE  x.lnk \in present.now /\ [csi |-> x.csi, ri |-> x.ri] \in Announcements!Entries(announcedTo[x.lnk])
    <3>1. x.lnk \in Announcements!Local
      BY DEF AnnouncementInv, Linked, Remotes, AnnouncedN
    <3>2. CASE x.lnk = "base"
      BY <3>2 DEF AnnouncementInv, Typed, Linked, Told
    <3>3. CASE x.lnk # "base"
      <4>1. x.lnk \in Others
        BY <3>1, <3>3 DEF Announcements!Local, Others
      <4>2. [csi |-> x.csi, ri |-> x.ri] \in Announcements!Entries(announcedTo[x.lnk])
        BY <2>3, <4>1 DEF Agree, Holds
      <4>3. announcedTo[x.lnk] # <<>>
        BY <4>2, NoEntry
      <4> QED BY <3>1, <4>2, <4>3 DEF AnnouncementInv, Unset
    <3> QED BY <3>2, <3>3
  <2>5. ASSUME NEW x \in remote, NEW y \in remote, x.lnk = y.lnk PROVE x = y
    <3>1. x.csi = c /\ y.csi = c /\ x.lnk \in Announcements!Local
      BY <2>3 DEF Agree, One, AnnouncementInv, Linked, Remotes, AnnouncedN
    <3>2. CASE x.lnk = "base"
      BY <1>2, <2>5, <3>1, <3>2
    <3>3. CASE x.lnk # "base"
      <4>1. x.lnk \in Others
        BY <3>1, <3>3 DEF Announcements!Local, Others
      <4>2. /\ [csi |-> x.csi, ri |-> x.ri] \in Announcements!Entries(announcedTo[x.lnk])
            /\ [csi |-> y.csi, ri |-> y.ri] \in Announcements!Entries(announcedTo[x.lnk])
        BY <2>4, <2>5
      <4>3. PICK e \in EntryN : announcedTo[x.lnk] = <<e>>
        BY <2>3, <4>1, <4>2, NoEntry DEF Agree, Form
      <4>4. x.ri = y.ri
        BY <4>2, <4>3, OneEntry
      <4> QED BY <4>4 DEF AnnouncementInv, Linked, Remotes
    <3> QED BY <3>2, <3>3
  <2>6. Announcements!Csis(at["parent"]) = Announcements!Csis(announcedTo["parent"])
    <3>1. Form(c, at["parent"], announcedTo["parent"]) /\ NotBare("parent", at["parent"], announcedTo["parent"])
      BY <2>3 DEF Agree, Others
    <3>2. CASE announcedTo["parent"] = <<>>
      BY <3>1, <3>2 DEF NotBare
    <3>3. CASE announcedTo["parent"] # <<>>
      <4>1. PICK e \in EntryN : /\ e.csi = c /\ announcedTo["parent"] = <<e>>
                                /\ at["parent"] \in {<<BareOf(c)>>, <<e>>}
        BY <3>1, <3>3 DEF Form
      <4>2. Announcements!Csis(<<e>>) = {c} /\ Announcements!Csis(<<BareOf(c)>>) = {c}
        BY <4>1, BareIs, CsiNone
      <4> QED BY <4>1, <4>2
    <3> QED BY <3>2, <3>3
  <2> QED BY <2>4, <2>5, <2>6
<1>5. Announcements!AnnouncementsMatch
  BY <1>2, <1>3, <1>4 DEF Announcements!AnnouncementsMatch
<1> QED BY <1>1, <1>5
=============================================================================
