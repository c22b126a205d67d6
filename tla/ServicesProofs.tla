--------------------------- MODULE ServicesProofs ---------------------------
(***************************************************************************)
(* Services, for any number of threads and of resources. Windows of a      *)
(* <crs>: they have what was notified, and the counter allows what is      *)
(* sent unless it was written back stale. Containers: counters and         *)
(* instances agree. Time series: what is listed was looked at, and what is *)
(* missing is listed unless a write was stale. What is proved of actions   *)
(* and of the connected services holds where the services are composed.    *)
(***************************************************************************)
EXTENDS MCServices, ConnectedServicesProofs

------------------------------------------------------------------------------
(* The composition: a service that is looked at takes the steps of its     *)
(* module.                                                                 *)

\* The actions of the composition agree with their table, and with what is executed, unless two jobs have undone
\* a critical section, or an <action> is changed while it is executed.
THEOREM CountsAlwaysAgree == SpecOne => []CountsAgree
<1>1. Actions!Spec => []Actions!CountsAgree
  BY ServiceAssumption, Actions!CountsAlwaysAgree
<1>2. InitOne /\ service = "actions" => Actions!Init
  BY DEF InitOne
<1>3. service = "actions" /\ [NextOne]_vars => [Actions!Next]_Actions!actionVars /\ (service = "actions")'
  BY DEF NextOne, vars, actionVars, Actions!actionVars
<1>4. ~(service = "actions") /\ [NextOne]_vars => (~(service = "actions"))'
  BY DEF NextOne, vars
<1>5. Actions!CountsAgree => CountsAgree
  BY DEF CountsAgree
<1>6. ~(service = "actions") => CountsAgree
  BY DEF CountsAgree
<1>. QED
  BY <1>1, <1>2, <1>3, <1>4, <1>5, <1>6, PTL DEF SpecOne, Actions!Spec

\* What the loop over the dependencies decides is no matter of the state.
THEOREM DependenciesAlwaysDecide == SpecOne => []DependenciesDecide
<1>1. Actions!DependenciesDecide
  BY Actions!DependenciesDecided
<1>2. DependenciesDecide
  BY <1>1 DEF DependenciesDecide
<1>. QED
  BY <1>2, PTL

\* The actions of the composition are executed once in a period, unless two jobs have undone a critical section.
THEOREM OncePeriodAlways == SpecOne => []OnceInPeriod
<1>1. Actions!Spec => []Actions!OnceInPeriod
  BY ServiceAssumption, Actions!OncePeriodAlways
<1>2. InitOne /\ service = "actions" => Actions!Init
  BY DEF InitOne
<1>3. service = "actions" /\ [NextOne]_vars => [Actions!Next]_Actions!actionVars /\ (service = "actions")'
  BY DEF NextOne, vars, actionVars, Actions!actionVars
<1>4. ~(service = "actions") /\ [NextOne]_vars => (~(service = "actions"))'
  BY DEF NextOne, vars
<1>5. Actions!OnceInPeriod => OnceInPeriod
  BY DEF OnceInPeriod
<1>6. ~(service = "actions") => OnceInPeriod
  BY DEF OnceInPeriod
<1>. QED
  BY <1>1, <1>2, <1>3, <1>4, <1>5, <1>6, PTL DEF SpecOne, Actions!Spec

\* No member that is gone is listed once the jobs of the deletions have ended, and fan-outs have all answers.
THEOREM MembersAlwaysExist == SpecOne => []MembersExist
<1>1. Groups!Spec => [](Groups!MembersExist /\ Groups!AllAnswer)
  BY ConnectedAssumption, GroupMembersExist, AllMembersAnswer, PTL
<1>2. InitOne /\ service = "groups" => Groups!Init
  BY DEF InitOne
<1>3. service = "groups" /\ [NextOne]_vars => [Groups!Next]_Groups!groupVars /\ (service = "groups")'
  BY DEF NextOne, vars, groupVars, Groups!groupVars
<1>4. ~(service = "groups") /\ [NextOne]_vars => (~(service = "groups"))'
  BY DEF NextOne, vars
<1>5. Groups!MembersExist /\ Groups!AllAnswer => MembersExist
  BY DEF MembersExist
<1>6. ~(service = "groups") => MembersExist
  BY DEF MembersExist
<1>. QED
  BY <1>1, <1>2, <1>3, <1>4, <1>5, <1>6, PTL DEF SpecOne, Groups!Spec

------------------------------------------------------------------------------
(* The windows of a cross resource subscription. Where threads do not      *)
(* overlap there is one window at most.                                    *)

\* A copy of the <crs> that a thread works on.
Copies == {a \in Window!Attributes : a.there}

\* The types of what is counted, and of the threads.
WindowTypes ==
  /\ now \in Window!Time /\ crs \in Window!Attributes /\ window \in Window!Attributes /\ stale \in BOOLEAN
  /\ sent \in Nat /\ lastEvent \in [Source -> Window!Time \cup {Window!Never}]
  /\ monitor = [pc |-> monitor.pc, id |-> monitor.id, last |-> monitor.last]
  /\ monitor.pc \in Window!Checking /\ monitor.last \in BOOLEAN
  /\ object \in [read : Copies, attr : Copies]
  /\ windowRequest \in [pc : Window!Requesting, twt : Window!Twt, eem : Eem, copy : Copies]

\* The check has reduced the counter of its object, or the notifier has already written that.
Reduced ==
  \/ /\ object.attr = [object.read EXCEPT !.exc = object.read.exc - 1] /\ object.read.exc # 0
     /\ monitor.last = (object.read.exc = 1) /\ sent + crs.exc = window.exc + 1 /\ crs.exc # 0
  \/ /\ object.attr = object.read
     /\ sent + crs.exc = window.exc /\ monitor.last = (crs.exc = 0)

\* The counter of the <crs> is what is left, and the notification of the check.
Remains ==
  /\ monitor.pc # "store" => object.attr = object.read
  /\ monitor.pc \in {"idle", "retrieve", "clear"} => sent + crs.exc = window.exc /\ crs.exc # 0
  /\ monitor.pc \in {"count", "counted", "expire"} => sent + crs.exc = window.exc + 1 /\ crs.exc # 0
  /\ monitor.pc = "store" => Reduced
  /\ monitor.pc \in {"deactivate", "remove"} => sent = window.exc /\ crs.exc = 0

\* Nothing of this is so once an older copy has been written.
RunsOut ==
  window.exc # 0 /\ ~stale =>
    /\ sent <= window.exc
    /\ monitor.pc \in {"count", "counted", "expire"} => object.attr.exc # 0
    /\ crs.there => Remains

\* The twt that the windows have: an update starts the new window before it is stored.
WindowTwt == IF windowRequest.pc = "store" THEN windowRequest.twt ELSE crs.twt

\* A window of the <crs> as it is.
IsWindow(w) ==
  /\ w = [id |-> w.id, twt |-> w.twt, at |-> w.at, data |-> w.data, eem |-> w.eem]
  /\ w.at \in Nat /\ w.at <= now + Tws /\ w.twt = WindowTwt

\* There is one window at most, and none without the <crs>.
OneWindow ==
  /\ \A w \in workers : IsWindow(w) /\ crs.there
  /\ \A v, w \in workers : v = w

\* What the window has collected.
Collected(w) == w.data = {s \in Source : lastEvent[s] # Window!Never /\ lastEvent[s] + Tws >= w.at}
Filled == monitor = Window!Idle => \A w \in workers : Collected(w)

\* Nothing is kept when there is no window.
NothingSeen ==
  crs.there /\ workers = {} /\ monitor = Window!Idle /\ windowRequest.pc # "remove" => lastEvent = Window!NoEvent

\* The check is one of this window, which has ended. Its object has the twt of the <crs>.
MonitorHolds ==
  \/ monitor = Window!Idle
  \/ /\ monitor.pc # "idle" /\ handler.pc = "idle" /\ windowRequest.pc = "idle"
     /\ \A w \in workers : w.id = monitor.id /\ w.at <= now
     /\ monitor.pc # "clear" => crs.there
     /\ monitor.pc = "remove" => workers = {}

NotifierHolds ==
  \/ notifier = Window!NotSending
  \/ notifier.pc # "idle" /\ handler.pc = "idle" /\ windowRequest.pc = "idle"

ObjectHolds ==
  monitor.pc \notin {"idle", "retrieve", "clear"} \/ notifier # Window!NotSending => object.attr.twt = crs.twt

\* Who handles a notification has the <crs> as it is.
HandlerRead ==
  /\ handler.pc \in {"idle", "received", "start"}
  /\ handler.pc # "idle" => handler.sur \in Source /\ handler.twt = crs.twt /\ crs.there /\ windowRequest.pc = "idle"
  /\ handler.pc = "start" => workers = {} /\ crs.twt = "sliding"

\* A request has the <crs> as it is, and has stopped and started windows.
RequestHolds ==
  windowRequest.pc # "idle" =>
    /\ crs.there /\ windowRequest.copy.twt = crs.twt
    /\ windowRequest.pc = "start" => workers = {} /\ lastEvent = Window!NoEvent /\ windowRequest.twt = "periodic"
    /\ windowRequest.pc = "store" /\ workers # {} => windowRequest.twt \in {crs.twt, "periodic"}
    /\ windowRequest.pc = "remove" => workers = {}

\* A periodic window goes on.
PeriodicThere ==
  /\ ~rejected /\ crs.there /\ WindowTwt = "periodic"
  /\ windowRequest.pc \notin {"start", "remove"} /\ monitor.pc # "remove"
  => workers # {}

WindowSerial ==
  /\ OneWindow /\ Filled /\ NothingSeen /\ MonitorHolds /\ NotifierHolds /\ ObjectHolds
  /\ HandlerRead /\ RequestHolds /\ PeriodicThere
WindowInv == WindowTypes /\ RunsOut /\ (~overlapWindow => WindowSerial)

\* What the proofs use of the constants.
LEMMA WindowConstants == Tws \in Nat \ {0} /\ MaxExc \in Nat /\ MaxWindowTime \in Nat /\ MaxWindowTime < 100
BY ServiceAssumption DEF Window!WindowAssumption, Window!Never

\* A <crs> that differs in its counter, in what an update sets, or in being there.
LEMMA CrsFields ==
  ASSUME NEW a \in Window!Attributes
  PROVE  /\ a = [there |-> a.there, twt |-> a.twt, eem |-> a.eem, exc |-> a.exc, nse |-> a.nse]
         /\ a.there \in BOOLEAN /\ a.twt \in Window!Twt /\ a.eem \in Eem /\ a.exc \in 0..MaxExc /\ a.nse \in BOOLEAN
BY DEF Window!Attributes

LEMMA CrsCount ==
  ASSUME NEW a \in Window!Attributes, NEW n \in 0..MaxExc, NEW b, b = [a EXCEPT !.exc = n]
  PROVE  b \in Window!Attributes /\ b.there = a.there /\ b.twt = a.twt /\ b.exc = n
<1>1. b = [there |-> a.there, twt |-> a.twt, eem |-> a.eem, exc |-> n, nse |-> a.nse]
  BY CrsFields
<1> QED BY <1>1, CrsFields DEF Window!Attributes

LEMMA CrsGone ==
  ASSUME NEW a \in Window!Attributes, NEW b, b = [a EXCEPT !.there = FALSE]
  PROVE  b \in Window!Attributes /\ ~b.there /\ b.twt = a.twt /\ b.exc = a.exc
<1>a. a = [there |-> a.there, twt |-> a.twt, eem |-> a.eem, exc |-> a.exc, nse |-> a.nse]
  BY CrsFields
<1>1. b = [there |-> FALSE, twt |-> a.twt, eem |-> a.eem, exc |-> a.exc, nse |-> a.nse]
  BY <1>a
<1> QED BY <1>1, CrsFields DEF Window!Attributes

\* Who writes back what was read, if that is the <crs> still, does not change its counter.
LEMMA RunsOutKept ==
  ASSUME WindowTypes, RunsOut, UNCHANGED <<window, sent, monitor, object>>,
         ~stale' => ~stale, ~stale' /\ crs'.there => crs.there /\ crs'.exc = crs.exc
  PROVE  RunsOut'
BY DEF RunsOut, Remains, Reduced

\* The invariant holds for a <crs> that was just created.
LEMMA WindowInit == Window!Init => WindowInv
<1> SUFFICES ASSUME Window!Init PROVE WindowInv
  OBVIOUS
<1> USE WindowConstants DEF Window!Init, Window!Twt, Window!NoEvent, Window!Never
<1>c. /\ window \in Copies /\ window \in Window!Attributes /\ window.exc \in 0..MaxExc
      /\ window.twt \in Window!Twt /\ window.eem \in Eem
  <2>1. window \in Window!Attributes /\ window.there
    OBVIOUS
  <2> QED BY <2>1, CrsFields DEF Copies
<1>1. WindowTypes
  <2>1. /\ object \in [read : Copies, attr : Copies]
        /\ windowRequest \in [pc : Window!Requesting, twt : Window!Twt, eem : Eem, copy : Copies]
    BY <1>c DEF Window!NoObject, Window!NoRequest, Window!Requesting
  <2>2. monitor = [pc |-> "idle", id |-> 0, last |-> FALSE]
    BY DEF Window!Idle
  <2>3. lastEvent \in [Source -> Window!Time \cup {Window!Never}]
    OBVIOUS
  <2>4. monitor.pc \in Window!Checking /\ monitor.last \in BOOLEAN
    BY <2>2 DEF Window!Checking
  <2>5. monitor = [pc |-> monitor.pc, id |-> monitor.id, last |-> monitor.last]
    BY <2>2
  <2>6. now = 0 /\ crs = window /\ sent = 0 /\ stale = FALSE
    OBVIOUS
  <2>7. now \in Window!Time
    BY ONLY <2>6, WindowConstants DEF Window!Time
  <2>8. crs \in Window!Attributes /\ sent \in Nat /\ stale \in BOOLEAN
    BY ONLY <1>c, <2>6
  <2> HIDE DEF Window!Init
  <2> QED BY <1>c, <2>1, <2>3, <2>4, <2>5, <2>7, <2>8 DEF WindowTypes
<1>2. RunsOut
  BY <1>c DEF RunsOut, Remains, Window!NoObject, Window!Idle
<1>3. OneWindow
  BY <1>c DEF OneWindow, IsWindow, WindowTwt, Window!NoRequest, Copies
<1>4. Filled
  BY DEF Filled, Collected
<1>5. NothingSeen /\ MonitorHolds /\ NotifierHolds /\ HandlerRead
  BY DEF NothingSeen, MonitorHolds, NotifierHolds, HandlerRead, Window!Unused
<1>6. ObjectHolds /\ RequestHolds /\ PeriodicThere
  BY DEF ObjectHolds, RequestHolds, PeriodicThere, WindowTwt, Window!NoRequest, Window!Idle
<1> QED BY <1>1, <1>2, <1>3, <1>4, <1>5, <1>6 DEF WindowInv, WindowSerial

\* A notification comes in when nothing else is at work.
LEMMA HandleKeeps == ASSUME WindowInv, NEW s \in Source, Window!handleNotification(s) PROVE WindowInv'
<1> USE DEF WindowInv, Window!handleNotification
<1>1. (WindowTypes /\ RunsOut)'
  BY RunsOutKept DEF WindowTypes
<1>2. ASSUME ~overlapWindow' PROVE WindowSerial'
  BY <1>2 DEF WindowSerial, OneWindow, IsWindow, WindowTwt, Filled, Collected, NothingSeen, MonitorHolds,
       NotifierHolds, ObjectHolds, HandlerRead, RequestHolds, PeriodicThere, Window!Alone
<1> QED BY <1>1, <1>2

\* The window that takes an event has not ended: the event is one of this window.
LEMMA ReceivedKeeps ==
  ASSUME WindowInv, Window!receivedCrossResourceSubscriptionNotification PROVE WindowInv'
<1> USE WindowConstants DEF WindowInv, Window!Handled, Window!Unused
<1>f. /\ handler.pc = "received"
      /\ UNCHANGED <<now, crs, monitor, object, notifier, windowRequest, windowUpdates, sent, rejected, stale,
                     window, overlapWindow>>
  BY DEF Window!receivedCrossResourceSubscriptionNotification
<1>1. CASE Window!findWorkers(handler.twt) # {}
  <2> PICK w \in workers :
         /\ workers' = (workers \ {w}) \cup {[w EXCEPT !.data = @ \cup {handler.sur}]}
         /\ lastEvent' = [lastEvent EXCEPT ![handler.sur] = now]
         /\ handler' = Window!Unused
    BY <1>1 DEF Window!receivedCrossResourceSubscriptionNotification, Window!findWorkers, Window!Seen
  <2>1. WindowTypes' /\ RunsOut'
    BY <1>f, RunsOutKept DEF WindowTypes
  <2>2. ASSUME ~overlapWindow' PROVE WindowSerial'
    <3>1. WindowSerial
      BY <1>f, <2>2
    <3> PICK v : v = [w EXCEPT !.data = @ \cup {handler.sur}]
      OBVIOUS
    <3>2. workers' = {v} /\ IsWindow(w) /\ crs.there
      BY <3>1 DEF WindowSerial, OneWindow
    <3>3. v = [id |-> w.id, twt |-> w.twt, at |-> w.at, data |-> w.data \cup {handler.sur}, eem |-> w.eem]
      BY <3>2 DEF IsWindow
    <3>4. IsWindow(v)' /\ OneWindow'
      <4>1. v.id = w.id /\ v.twt = w.twt /\ v.at = w.at /\ v.data = w.data \cup {handler.sur} /\ v.eem = w.eem
        BY <3>3
      <4>2. v = [id |-> v.id, twt |-> v.twt, at |-> v.at, data |-> v.data, eem |-> v.eem]
        BY <3>3, <4>1
      <4>3. IsWindow(v)'
        BY <3>2, <4>1, <4>2, <1>f DEF IsWindow, WindowTwt
      <4> QED BY <3>2, <4>3, <1>f DEF OneWindow
    <3>5. monitor = Window!Idle /\ handler.sur \in Source /\ Collected(w) /\ windowRequest.pc = "idle"
      BY <3>1, <1>f DEF WindowSerial, MonitorHolds, HandlerRead, Filled, Window!Idle
    <3>6. Collected(v)'
      BY <3>2, <3>3, <3>5, <1>f DEF Collected, IsWindow, WindowTypes, Window!Time, Window!Never
    <3>7. Filled' /\ NothingSeen' /\ MonitorHolds' /\ HandlerRead' /\ PeriodicThere'
      BY <3>2, <3>5, <3>6, <1>f DEF Filled, NothingSeen, MonitorHolds, HandlerRead, PeriodicThere
    <3>8. NotifierHolds' /\ ObjectHolds' /\ RequestHolds'
      BY <3>1, <3>5, <1>f DEF WindowSerial, NotifierHolds, ObjectHolds, RequestHolds
    <3> QED BY <3>4, <3>7, <3>8 DEF WindowSerial
  <2> QED BY <2>1, <2>2
<1>2. CASE Window!findWorkers(handler.twt) = {}
  <2>1. /\ handler' = (IF handler.twt = "sliding" THEN [handler EXCEPT !.pc = "start"] ELSE Window!Unused)
        /\ UNCHANGED <<workers, lastEvent>>
    BY <1>2 DEF Window!receivedCrossResourceSubscriptionNotification
  <2>2. (WindowTypes /\ RunsOut)'
    BY <1>f, <2>1, RunsOutKept DEF WindowTypes
  <2>3. ASSUME ~overlapWindow' PROVE WindowSerial'
    <3>1. WindowSerial /\ windowRequest.pc = "idle" /\ monitor = Window!Idle /\ notifier = Window!NotSending
      BY <1>f, <2>3 DEF WindowSerial, HandlerRead, MonitorHolds, NotifierHolds
    <3>2. workers = {}
      BY <1>f, <3>1, <1>2 DEF WindowSerial, OneWindow, IsWindow, WindowTwt, HandlerRead, Window!findWorkers
    <3>3. OneWindow' /\ Filled' /\ NothingSeen' /\ MonitorHolds' /\ NotifierHolds' /\ ObjectHolds' /\ RequestHolds'
      BY <1>f, <2>1, <3>1, <3>2 DEF WindowSerial, OneWindow, Filled, NothingSeen, MonitorHolds, NotifierHolds,
           ObjectHolds, RequestHolds
    <3>4. HandlerRead' /\ PeriodicThere'
      BY <1>f, <2>1, <3>1, <3>2 DEF WindowSerial, HandlerRead, PeriodicThere, WindowTwt
    <3> QED BY <3>3, <3>4 DEF WindowSerial
  <2> QED BY <2>2, <2>3
<1> QED BY <1>1, <1>2

\* A sliding window begins with its first event, and no earlier one is counted.
LEMMA StartKeeps == ASSUME WindowInv, Window!startCRSSlidingWindow PROVE WindowInv'
<1> USE WindowConstants DEF WindowInv, Window!Handled, Window!Unused, Window!startCRSSlidingWindow, Window!Seen
<1>1. (WindowTypes /\ RunsOut)'
  BY RunsOutKept DEF WindowTypes
<1>2. ASSUME ~overlapWindow' PROVE WindowSerial'
  <2>1. WindowSerial
    BY <1>2
  <2>2. /\ workers = {} /\ crs.there /\ crs.twt = "sliding" /\ monitor = Window!Idle /\ handler.sur \in Source
        /\ lastEvent = Window!NoEvent /\ windowRequest.pc = "idle" /\ notifier = Window!NotSending
    BY <2>1 DEF WindowSerial, MonitorHolds, HandlerRead, NothingSeen, NotifierHolds
  <2> PICK w : w = Window!NewWorker("sliding", {handler.sur}, handler.eem)
    OBVIOUS
  <2>3. /\ workers' = {w} /\ w.twt = "sliding" /\ w.at = now + Tws /\ w.data = {handler.sur}
        /\ w = [id |-> w.id, twt |-> w.twt, at |-> w.at, data |-> w.data, eem |-> w.eem]
    BY <2>2 DEF Window!NewWorker
  <2>4. OneWindow'
    <3>1. WindowTwt' = "sliding" /\ now' = now /\ now \in Nat
      BY <2>2 DEF WindowTwt, WindowTypes, Window!Time
    <3>2. IsWindow(w)'
      BY <2>3, <3>1 DEF IsWindow
    <3> QED BY <2>2, <2>3, <3>2 DEF OneWindow
  <2>5. Collected(w)'
    <3>1. \A s \in Source : lastEvent'[s] = IF s = handler.sur THEN now ELSE 100
      BY <2>2 DEF Window!NoEvent, Window!Never
    <3>2. now \in Nat /\ now < 100
      BY DEF WindowTypes, Window!Time
    <3> DEFINE Within(s) == lastEvent'[s] # 100 /\ lastEvent'[s] + Tws >= w.at
    <3>3. \A s \in Source : s = handler.sur <=> Within(s)
      BY <2>3, <3>1, <3>2
    <3>4. handler.sur \in Source /\ w.data = {handler.sur}
      BY <2>2, <2>3
    <3>5. w.data = {s \in Source : Within(s)}
      <4> HIDE DEF Within
      <4> QED BY <3>3, <3>4
    <3> QED BY <3>5 DEF Collected, Window!Never
  <2>6. Filled' /\ NothingSeen' /\ MonitorHolds' /\ HandlerRead' /\ PeriodicThere'
    BY <2>2, <2>3, <2>5 DEF Filled, NothingSeen, MonitorHolds, HandlerRead, PeriodicThere
  <2>7. NotifierHolds' /\ ObjectHolds' /\ RequestHolds'
    BY <2>1, <2>2 DEF WindowSerial, NotifierHolds, ObjectHolds, RequestHolds
  <2> QED BY <2>4, <2>6, <2>7 DEF WindowSerial
<1> QED BY <1>1, <1>2

\* A check begins with the only window.
LEMMA WindowCheckKeeps == ASSUME WindowInv, Window!_crsCheckForNotification PROVE WindowInv'
<1> USE DEF WindowInv, Window!checkLeaves
<1>f. /\ monitor = Window!Idle /\ notifier = Window!NotSending /\ Window!NoOther
      /\ UNCHANGED <<now, crs, workers, object, notifier, handler, windowRequest, windowUpdates, sent, lastEvent,
                     rejected, stale, window, overlapWindow>>
  BY DEF Window!_crsCheckForNotification
<1> PICK w \in workers :
      w.at <= now /\ \E pc \in {"retrieve", "clear"} : monitor' = [pc |-> pc, id |-> w.id, last |-> FALSE]
  BY DEF Window!_crsCheckForNotification, Window!Idle
<1>1. monitor'.pc \in {"retrieve", "clear"} /\ monitor'.id = w.id /\ monitor.pc = "idle" /\ monitor' # Window!Idle
  BY <1>f DEF Window!Idle
<1>2. WindowTypes'
  BY <1>f DEF WindowTypes, Window!Checking
<1>3. RunsOut'
  BY <1>f, <1>1 DEF RunsOut, Remains
<1>4. ASSUME ~overlapWindow' PROVE WindowSerial'
  <2>1. WindowSerial /\ handler.pc = "idle" /\ windowRequest.pc = "idle" /\ crs.there
    BY <1>f, <1>4 DEF Window!NoOther, WindowSerial, OneWindow
  <2>2. OneWindow' /\ Filled' /\ NothingSeen' /\ NotifierHolds' /\ ObjectHolds' /\ HandlerRead' /\ RequestHolds'
    BY <1>f, <1>1, <2>1 DEF WindowSerial, OneWindow, IsWindow, WindowTwt, Filled, NothingSeen, NotifierHolds,
         ObjectHolds, HandlerRead, RequestHolds
  <2>3. MonitorHolds' /\ PeriodicThere'
    BY <1>f, <1>1, <2>1 DEF WindowSerial, OneWindow, MonitorHolds, PeriodicThere
  <2> QED BY <2>2, <2>3 DEF WindowSerial
<1> QED BY <1>2, <1>3, <1>4

\* A step of a check or of its notifier that leaves the window alone.
LEMMA CheckSerial ==
  ASSUME WindowSerial, UNCHANGED <<workers, lastEvent, Window!checkLeaves>>,
         crs'.twt = crs.twt, crs'.there = crs.there,
         monitor # Window!Idle => monitor' # Window!Idle /\ monitor'.pc # "idle" /\ monitor'.id = monitor.id,
         monitor = Window!Idle => monitor' = monitor,
         monitor'.pc \in {"idle", "clear"} \/ crs.there,
         monitor'.pc = "remove" <=> monitor.pc = "remove",
         NotifierHolds', ObjectHolds'
  PROVE  WindowSerial'
<1> USE DEF Window!checkLeaves
<1>1. OneWindow' /\ Filled' /\ NothingSeen' /\ HandlerRead' /\ RequestHolds'
  BY DEF WindowSerial, OneWindow, IsWindow, WindowTwt, Filled, Collected, NothingSeen, HandlerRead, RequestHolds
<1>2. MonitorHolds' /\ PeriodicThere'
  BY DEF WindowSerial, MonitorHolds, PeriodicThere, WindowTwt
<1> QED BY <1>1, <1>2 DEF WindowSerial

\* The fields of what a check has.
LEMMA CheckFields ==
  ASSUME WindowTypes
  PROVE  /\ object = [read |-> object.read, attr |-> object.attr]
         /\ object.read \in Copies /\ object.attr \in Copies
         /\ object.read.exc \in 0..MaxExc /\ object.attr.exc \in 0..MaxExc
         /\ object.attr \in Window!Attributes /\ object.attr.there
         /\ crs.exc \in 0..MaxExc /\ window.exc \in 0..MaxExc /\ sent \in Nat
         /\ crs.there => crs \in Copies
         /\ \A pc : [monitor EXCEPT !.pc = pc] = [pc |-> pc, id |-> monitor.id, last |-> monitor.last]
<1>1. /\ object.read \in Window!Attributes /\ object.read.there /\ object.attr \in Window!Attributes
      /\ object.attr.there /\ object.read \in Copies /\ object.attr \in Copies
      /\ object = [read |-> object.read, attr |-> object.attr]
  BY DEF WindowTypes, Copies
<1>2. crs \in Window!Attributes /\ window \in Window!Attributes /\ sent \in Nat
  BY DEF WindowTypes
<1>3. \A pc : [monitor EXCEPT !.pc = pc] = [pc |-> pc, id |-> monitor.id, last |-> monitor.last]
  BY DEF WindowTypes
<1>4. crs.there => crs \in Copies
  BY <1>2 DEF Copies
<1> QED BY <1>1, <1>2, <1>3, <1>4, CrsFields

\* The notification is sent for the <crs> that was read.
LEMMA WindowSendKeeps == ASSUME WindowInv, Window!sendNotificationWithDict PROVE WindowInv'
<1> USE DEF WindowInv
<1>f. /\ monitor.pc = "retrieve"
      /\ UNCHANGED <<crs, workers, lastEvent, stale, Window!checkLeaves>>
  BY DEF Window!sendNotificationWithDict
<1>t. WindowTypes
  OBVIOUS
<1>1. CASE crs.there
  <2>1. /\ object' = [read |-> crs, attr |-> crs] /\ sent' = sent + 1
        /\ notifier' = (IF crs.nse THEN [pc |-> "reload", left |-> 2] ELSE Window!NotSending)
        /\ monitor' = [monitor EXCEPT !.pc = IF crs.nse THEN "count" ELSE "expire"]
    BY <1>1 DEF Window!sendNotificationWithDict, Window!Go
  <2>2. /\ monitor'.pc \in {"count", "expire"} /\ monitor'.id = monitor.id /\ monitor'.last = monitor.last
        /\ monitor' = [pc |-> monitor'.pc, id |-> monitor'.id, last |-> monitor'.last]
        /\ object'.read = crs /\ object'.attr = crs /\ object' \in [read : Copies, attr : Copies]
    BY <2>1, <1>t, <1>1, CheckFields
  <2>3. WindowTypes'
    BY <1>f, <2>1, <2>2 DEF WindowTypes, Window!Checking, Window!checkLeaves
  <2>4. RunsOut'
    <3>1. crs.exc \in Nat /\ sent \in Nat /\ window.exc \in Nat
      BY CheckFields, <1>t, WindowConstants
    <3> QED BY <1>f, <1>1, <2>1, <2>2, <3>1 DEF RunsOut, Remains, Window!checkLeaves
  <2>5. ASSUME ~overlapWindow' PROVE WindowSerial'
    <3>1. WindowSerial /\ monitor # Window!Idle
      BY <1>f, <2>5 DEF Window!checkLeaves, Window!Idle
    <3>2. NotifierHolds' /\ ObjectHolds'
      BY <1>f, <2>1, <2>2, <3>1 DEF WindowSerial, MonitorHolds, NotifierHolds, ObjectHolds, Window!checkLeaves
    <3>3. monitor' # Window!Idle
      BY <2>2 DEF Window!Idle
    <3> QED BY <1>1, <1>f, <2>2, <3>1, <3>2, <3>3, CheckSerial
  <2> QED BY <2>3, <2>4, <2>5
<1>2. CASE ~crs.there
  <2>1. UNCHANGED <<object, sent, notifier>> /\ monitor' = [monitor EXCEPT !.pc = "clear"]
    BY <1>2 DEF Window!sendNotificationWithDict, Window!Go
  <2>2. /\ monitor'.pc = "clear" /\ monitor'.id = monitor.id /\ monitor'.last = monitor.last
        /\ monitor' = [pc |-> monitor'.pc, id |-> monitor'.id, last |-> monitor'.last]
    BY <2>1, <1>t, CheckFields
  <2>3. WindowTypes' /\ RunsOut'
    BY <1>f, <1>2, <2>1, <2>2 DEF WindowTypes, Window!Checking, Window!checkLeaves, RunsOut, Remains
  <2>4. ASSUME ~overlapWindow' PROVE WindowSerial'
    BY <1>f, <1>2, <2>4 DEF WindowSerial, MonitorHolds, Window!checkLeaves, Window!Idle
  <2> QED BY <2>3, <2>4
<1> QED BY <1>1, <1>2

\* What reading the <crs> again does to the object.
LEMMA ReloadFacts ==
  ASSUME WindowTypes, Window!dbReloadDict, UNCHANGED crs
  PROVE  /\ crs.there /\ object'.read = crs /\ object'.attr = crs /\ object' \in [read : Copies, attr : Copies]
         /\ stale' \in BOOLEAN /\ (~stale' => ~stale /\ object.attr = object.read)
BY CheckFields DEF Window!dbReloadDict, WindowTypes

\* What writing the object does. Unless it was stale it makes the <crs> what the object is.
LEMMA StoreFacts ==
  ASSUME WindowTypes, Window!dbUpdate
  PROVE  /\ crs.there /\ crs' = object.attr /\ crs'.there /\ crs' \in Window!Attributes
         /\ object'.read = object.attr /\ object'.attr = object.attr /\ object' \in [read : Copies, attr : Copies]
         /\ stale' \in BOOLEAN /\ (~stale' => ~stale /\ crs = object.read)
<1>1. object' = [read |-> object.attr, attr |-> object.attr]
  BY CheckFields DEF Window!dbUpdate
<1> QED BY <1>1, CheckFields DEF Window!dbUpdate, Window!Written, WindowTypes

\* Counting events changes nothing else.
LEMMA CountKeeps == ASSUME WindowInv, Window!countNotificationEvents PROVE WindowInv'
<1> USE DEF WindowInv
<1>f. UNCHANGED <<workers, notifier, sent, lastEvent, Window!checkLeaves>>
  BY DEF Window!countNotificationEvents
<1>t. WindowTypes
  OBVIOUS
<1>1. CASE monitor.pc = "count" /\ Window!dbReloadDict /\ Window!Go("counted") /\ UNCHANGED crs
  <2>1. /\ monitor'.pc = "counted" /\ monitor'.id = monitor.id /\ monitor'.last = monitor.last
        /\ monitor' = [pc |-> monitor'.pc, id |-> monitor'.id, last |-> monitor'.last]
    BY <1>1, <1>t, CheckFields DEF Window!Go
  <2>2. WindowTypes' /\ RunsOut'
    BY <1>f, <1>1, <2>1, <1>t, ReloadFacts DEF WindowTypes, Window!Checking, Window!checkLeaves, RunsOut, Remains
  <2>3. ASSUME ~overlapWindow' PROVE WindowSerial'
    <3>1. WindowSerial /\ monitor # Window!Idle /\ monitor' # Window!Idle
      BY <1>f, <1>1, <2>1, <2>3 DEF Window!checkLeaves, Window!Idle
    <3>2. NotifierHolds' /\ ObjectHolds'
      BY <1>f, <1>1, <1>t, <3>1, ReloadFacts DEF WindowSerial, NotifierHolds, ObjectHolds, Window!checkLeaves
    <3> QED BY <1>1, <1>f, <1>t, <2>1, <3>1, <3>2, CheckSerial, ReloadFacts
  <2> QED BY <2>2, <2>3
<1>2. CASE monitor.pc = "counted" /\ Window!dbUpdate /\ Window!Go("expire")
  <2>1. /\ monitor'.pc = "expire" /\ monitor'.id = monitor.id /\ monitor'.last = monitor.last
        /\ monitor' = [pc |-> monitor'.pc, id |-> monitor'.id, last |-> monitor'.last]
    BY <1>2, <1>t, CheckFields DEF Window!Go
  <2>2. WindowTypes'
    BY <1>f, <1>2, <2>1, <1>t, StoreFacts DEF WindowTypes, Window!Checking, Window!checkLeaves
  <2>3. RunsOut'
    BY <1>f, <1>2, <2>1, <1>t, StoreFacts DEF RunsOut, Remains, Window!checkLeaves
  <2>4. ASSUME ~overlapWindow' PROVE WindowSerial'
    <3>1. WindowSerial /\ monitor # Window!Idle /\ monitor' # Window!Idle
      BY <1>f, <1>2, <2>1, <2>4 DEF Window!checkLeaves, Window!Idle
    <3>2. crs'.twt = crs.twt
      BY <1>2, <1>t, <3>1, StoreFacts DEF WindowSerial, ObjectHolds
    <3>3. NotifierHolds' /\ ObjectHolds'
      BY <1>f, <1>2, <1>t, <3>1, <3>2, StoreFacts DEF WindowSerial, NotifierHolds, ObjectHolds, Window!checkLeaves
    <3>4. crs.there /\ crs'.there
      BY <1>2, <1>t, StoreFacts
    <3> QED BY <1>2, <1>f, <2>1, <3>1, <3>2, <3>3, <3>4, CheckSerial
  <2> QED BY <2>2, <2>3, <2>4
<1> QED BY <1>1, <1>2 DEF Window!countNotificationEvents

\* The notifier counts with the object of the check: a change that the check has made is written, or lost.
LEMMA NotifierKeeps == ASSUME WindowInv, Window!countSentReceivedNotification PROVE WindowInv'
<1> USE DEF WindowInv
<1>f. UNCHANGED <<monitor, workers, sent, lastEvent, Window!checkLeaves>> /\ notifier.pc # "idle"
  BY DEF Window!countSentReceivedNotification
<1>t. WindowTypes /\ notifier # Window!NotSending
  BY <1>f DEF Window!NotSending
<1>1. CASE Window!dbReloadDict /\ UNCHANGED crs /\ notifier' = [notifier EXCEPT !.pc = "write"] /\ notifier.pc = "reload"
  <2>1. WindowTypes'
    BY <1>f, <1>1, <1>t, ReloadFacts DEF WindowTypes, Window!checkLeaves
  <2>2. RunsOut'
    <3> SUFFICES ASSUME window.exc # 0, ~stale' PROVE RunsOut'
      BY <1>f DEF RunsOut, Window!checkLeaves
    <3>1. ~stale /\ object.attr = object.read /\ crs.there /\ object'.attr = crs /\ object'.read = crs
      BY <1>1, <1>t, ReloadFacts
    <3>2. object.attr.exc \in Nat /\ object.read.exc \in Nat
      BY <1>t, CheckFields, WindowConstants
    <3>3. monitor.pc = "store" => object.attr = object.read /\ sent + crs.exc = window.exc /\ monitor.last = (crs.exc = 0)
      <4> SUFFICES ASSUME monitor.pc = "store",
                          object.attr = [object.read EXCEPT !.exc = object.read.exc - 1], object.read.exc # 0
                   PROVE  FALSE
        BY <3>1 DEF RunsOut, Remains, Reduced
      <4>1. object.read.exc - 1 \in 0..MaxExc /\ object.read \in Window!Attributes
        BY <1>t, CheckFields, WindowConstants DEF Copies
      <4>2. object.attr.exc = object.read.exc - 1
        BY <4>1, CrsCount
      <4>3. object.attr.exc = object.read.exc
        BY <3>1
      <4> HIDE DEF WindowInv
      <4> QED BY <3>2, <4>2, <4>3
    <3>4. Remains'
      BY <1>f, <1>1, <3>1, <3>3 DEF RunsOut, Remains, Reduced, Window!checkLeaves
    <3> QED BY <1>f, <1>1, <3>1, <3>4 DEF RunsOut, Remains, Window!checkLeaves
  <2>3. ASSUME ~overlapWindow' PROVE WindowSerial'
    <3>1. WindowSerial
      BY <1>f, <2>3 DEF Window!checkLeaves
    <3>2. notifier'.pc # "idle" /\ handler.pc = "idle" /\ windowRequest.pc = "idle"
      BY <1>1, <1>t, <3>1 DEF WindowSerial, NotifierHolds
    <3>3. NotifierHolds' /\ ObjectHolds'
      BY <1>f, <1>1, <1>t, <3>2, ReloadFacts DEF NotifierHolds, ObjectHolds, Window!checkLeaves
    <3> QED BY <1>1, <1>f, <1>t, <3>1, <3>3, CheckSerial, ReloadFacts DEF WindowSerial, MonitorHolds
  <2> QED BY <2>1, <2>2, <2>3
<1>2. CASE /\ Window!dbUpdate
           /\ notifier' = IF notifier.left = 1 THEN Window!NotSending ELSE [pc |-> "reload", left |-> 1]
  <2>1. WindowTypes'
    BY <1>f, <1>2, <1>t, StoreFacts DEF WindowTypes, Window!checkLeaves
  <2>2. RunsOut'
    <3> SUFFICES ASSUME window.exc # 0, ~stale' PROVE RunsOut'
      BY <1>f DEF RunsOut, Window!checkLeaves
    <3>1. /\ ~stale /\ crs = object.read /\ crs.there /\ crs' = object.attr
          /\ object'.attr = object.attr /\ object'.read = object.attr
      BY <1>2, <1>t, StoreFacts
    <3>2. object.read.exc \in Nat /\ sent \in Nat /\ window.exc \in Nat
      BY <1>t, CheckFields, WindowConstants
    <3>3. CASE object.attr = object.read
      BY <1>f, <3>1, <3>2, <3>3 DEF RunsOut, Remains, Reduced, Window!checkLeaves
    <3>4. CASE object.attr # object.read
      <4>1. /\ monitor.pc = "store" /\ object.attr = [object.read EXCEPT !.exc = object.read.exc - 1]
            /\ object.read.exc # 0 /\ monitor.last = (object.read.exc = 1) /\ sent + crs.exc = window.exc + 1
        BY <3>1, <3>4 DEF RunsOut, Remains, Reduced
      <4>2. object.read.exc - 1 \in 0..MaxExc /\ object.read \in Window!Attributes
        BY <1>t, <4>1, CheckFields, WindowConstants DEF Copies
      <4>3. crs'.exc = crs.exc - 1
        BY <3>1, <4>1, <4>2, CrsCount
      <4>4. Reduced'
        <5>1. sent' + crs'.exc = window'.exc /\ monitor'.last = (crs'.exc = 0)
          BY <1>f, <3>1, <3>2, <4>1, <4>3 DEF Window!checkLeaves
        <5> QED BY <3>1, <5>1 DEF Reduced
      <4> QED BY <1>f, <3>1, <4>1, <4>4 DEF RunsOut, Remains, Window!checkLeaves
    <3> QED BY <3>3, <3>4
  <2>3. ASSUME ~overlapWindow' PROVE WindowSerial'
    <3>1. WindowSerial
      BY <1>f, <2>3 DEF Window!checkLeaves
    <3>2. handler.pc = "idle" /\ windowRequest.pc = "idle" /\ crs'.twt = crs.twt
      BY <1>2, <1>t, <3>1, StoreFacts DEF WindowSerial, NotifierHolds, ObjectHolds
    <3>3. NotifierHolds' /\ ObjectHolds'
      BY <1>f, <1>2, <1>t, <3>1, <3>2, StoreFacts
         DEF NotifierHolds, ObjectHolds, Window!checkLeaves, Window!NotSending
    <3> QED BY <1>2, <1>f, <1>t, <3>1, <3>2, <3>3, CheckSerial, StoreFacts DEF WindowSerial, MonitorHolds
  <2> QED BY <2>1, <2>2, <2>3
<1>3. CASE ~crs.there /\ notifier' = Window!NotSending /\ UNCHANGED <<crs, object, stale>>
  <2>1. WindowTypes' /\ RunsOut'
    BY <1>f, <1>3, RunsOutKept DEF WindowTypes, Window!checkLeaves
  <2>2. ASSUME ~overlapWindow' PROVE WindowSerial'
    <3>1. WindowSerial
      BY <1>f, <2>2 DEF Window!checkLeaves
    <3>2. NotifierHolds' /\ ObjectHolds'
      BY <1>f, <1>3, <3>1 DEF WindowSerial, NotifierHolds, ObjectHolds
    <3> QED BY <1>3, <1>f, <3>1, <3>2, CheckSerial DEF WindowSerial, MonitorHolds, Window!Idle
  <2> QED BY <2>1, <2>2
<1> QED BY <1>1, <1>2, <1>3 DEF Window!countSentReceivedNotification

\* The counter of the object is reduced, if there is one.
LEMMA ReduceKeeps == ASSUME WindowInv, Window!reduceExc PROVE WindowInv'
<1> USE DEF WindowInv
<1>f. /\ monitor.pc = "expire"
      /\ UNCHANGED <<crs, workers, notifier, sent, lastEvent, stale, Window!checkLeaves>>
  BY DEF Window!reduceExc
<1>t. WindowTypes
  OBVIOUS
<1>1. CASE object.attr.exc = 0
  <2>1. UNCHANGED object /\ monitor' = [monitor EXCEPT !.pc = "clear"]
    BY <1>1 DEF Window!reduceExc, Window!Go
  <2>2. /\ monitor'.pc = "clear" /\ monitor'.id = monitor.id /\ monitor'.last = monitor.last
        /\ monitor' = [pc |-> monitor'.pc, id |-> monitor'.id, last |-> monitor'.last]
    BY <2>1, <1>t, CheckFields
  <2>3. WindowTypes' /\ RunsOut'
    BY <1>f, <1>1, <2>1, <2>2 DEF WindowTypes, Window!Checking, Window!checkLeaves, RunsOut, Remains
  <2>4. ASSUME ~overlapWindow' PROVE WindowSerial'
    <3>1. WindowSerial /\ monitor # Window!Idle /\ monitor' # Window!Idle
      BY <1>f, <2>2, <2>4 DEF Window!checkLeaves, Window!Idle
    <3>2. NotifierHolds' /\ ObjectHolds'
      BY <1>f, <2>1, <2>2, <3>1 DEF WindowSerial, NotifierHolds, ObjectHolds, Window!checkLeaves
    <3> QED BY <1>f, <2>2, <3>1, <3>2, CheckSerial
  <2> QED BY <2>3, <2>4
<1>2. CASE object.attr.exc # 0
  <2> DEFINE reduced == [object.attr EXCEPT !.exc = object.attr.exc - 1]
  <2>1. /\ object' = [object EXCEPT !.attr = reduced]
        /\ monitor' = [monitor EXCEPT !.pc = "store", !.last = object.attr.exc = 1]
    BY <1>2 DEF Window!reduceExc
  <2>2. /\ monitor' = [pc |-> "store", id |-> monitor.id, last |-> object.attr.exc = 1]
        /\ object' = [read |-> object.read, attr |-> reduced]
    BY <2>1, <1>t, CheckFields DEF WindowTypes
  <2>3. /\ monitor'.pc = "store" /\ monitor'.id = monitor.id /\ monitor'.last = (object.attr.exc = 1)
        /\ monitor' = [pc |-> monitor'.pc, id |-> monitor'.id, last |-> monitor'.last]
        /\ object'.read = object.read /\ object'.attr = reduced
    BY <2>2
  <2>4. object.attr.exc - 1 \in 0..MaxExc /\ object.attr \in Window!Attributes /\ object.attr.there
    BY <1>2, <1>t, CheckFields, WindowConstants
  <2>5. reduced \in Window!Attributes /\ reduced.there /\ reduced.twt = object.attr.twt
    BY <2>4, CrsCount
  <2>6. object' \in [read : Copies, attr : Copies]
    BY <2>2, <2>5, <1>t, CheckFields DEF Copies
  <2>7. WindowTypes'
    BY <1>f, <1>t, <2>3, <2>6 DEF WindowTypes, Window!Checking, Window!checkLeaves
  <2>8. RunsOut'
    <3> SUFFICES ASSUME window.exc # 0, ~stale PROVE RunsOut'
      BY <1>f DEF RunsOut, Window!checkLeaves
    <3>1. sent <= window.exc
          /\ (crs.there => object.attr = object.read /\ sent + crs.exc = window.exc + 1 /\ crs.exc # 0)
      BY <1>f DEF RunsOut, Remains
    <3>2. crs.there => /\ object'.attr = [object'.read EXCEPT !.exc = object'.read.exc - 1]
                       /\ object'.read.exc # 0 /\ monitor'.last = (object'.read.exc = 1)
      BY <1>2, <2>3, <3>1
    <3>3. crs.there => Reduced'
      BY <1>f, <3>1, <3>2 DEF Reduced, Window!checkLeaves
    <3> QED BY <1>f, <2>3, <3>1, <3>3 DEF RunsOut, Remains, Window!checkLeaves
  <2>9. ASSUME ~overlapWindow' PROVE WindowSerial'
    <3>1. WindowSerial /\ monitor # Window!Idle /\ monitor' # Window!Idle
      BY <1>f, <2>3, <2>9 DEF Window!checkLeaves, Window!Idle
    <3>2. crs.there
      BY <1>f, <3>1 DEF WindowSerial, MonitorHolds
    <3>3. NotifierHolds' /\ ObjectHolds'
      BY <1>f, <2>3, <2>5, <3>1 DEF WindowSerial, NotifierHolds, ObjectHolds, Window!checkLeaves
    <3> QED BY <1>f, <2>3, <3>1, <3>2, <3>3, CheckSerial
  <2> QED BY <2>7, <2>8, <2>9
<1> QED BY <1>1, <1>2

\* Unless the object was stale, the counter of the <crs> has become what is left.
LEMMA StoreKeeps == ASSUME WindowInv, Window!storeExc PROVE WindowInv'
<1> USE DEF WindowInv
<1>f. /\ monitor.pc = "store" /\ Window!dbUpdate
      /\ UNCHANGED <<workers, notifier, sent, lastEvent, Window!checkLeaves>>
  BY DEF Window!storeExc
<1>t. WindowTypes
  OBVIOUS
<1>1. monitor' = [monitor EXCEPT !.pc = IF monitor.last THEN "deactivate" ELSE "clear"]
  BY DEF Window!storeExc, Window!Go
<1>2. /\ monitor'.pc = (IF monitor.last THEN "deactivate" ELSE "clear")
      /\ monitor'.id = monitor.id /\ monitor'.last = monitor.last
      /\ monitor' = [pc |-> monitor'.pc, id |-> monitor'.id, last |-> monitor'.last]
  BY <1>1, <1>t, CheckFields
<1>3. WindowTypes'
  BY <1>f, <1>t, <1>2, StoreFacts DEF WindowTypes, Window!Checking, Window!checkLeaves
<1>4. RunsOut'
  <2> SUFFICES ASSUME window.exc # 0, ~stale' PROVE RunsOut'
    BY <1>f DEF RunsOut, Window!checkLeaves
  <2>1. /\ ~stale /\ crs = object.read /\ crs.there /\ crs' = object.attr
        /\ object'.attr = object.attr /\ object'.read = object.attr
    BY <1>f, <1>t, StoreFacts
  <2>2. object.read.exc \in Nat /\ sent \in Nat /\ window.exc \in Nat
    BY <1>t, CheckFields, WindowConstants
  <2>3. Reduced /\ sent <= window.exc
    BY <1>f, <2>1 DEF RunsOut, Remains
  <2>4. sent + crs'.exc = window.exc /\ monitor.last = (crs'.exc = 0)
    <3>1. CASE object.attr = object.read
      <4>1. ASSUME object.attr = [object.read EXCEPT !.exc = object.read.exc - 1], object.read.exc # 0 PROVE FALSE
        <5>1. object.read.exc - 1 \in 0..MaxExc /\ object.read \in Window!Attributes
          BY <1>t, <4>1, CheckFields, WindowConstants DEF Copies
        <5>2. object.attr.exc = object.read.exc - 1
          BY <4>1, <5>1, CrsCount
        <5>3. object.attr.exc = object.read.exc
          BY <3>1
        <5> QED BY <2>2, <5>2, <5>3
      <4>2. sent + crs.exc = window.exc /\ monitor.last = (crs.exc = 0)
        BY <2>3, <4>1 DEF Reduced
      <4> QED BY <2>1, <3>1, <4>2
    <3>2. CASE object.attr # object.read
      <4>1. /\ object.attr = [object.read EXCEPT !.exc = object.read.exc - 1]
            /\ object.read.exc # 0 /\ monitor.last = (object.read.exc = 1) /\ sent + crs.exc = window.exc + 1
        BY <2>3, <3>2 DEF Reduced
      <4>2. object.read.exc - 1 \in 0..MaxExc /\ object.read \in Window!Attributes
        BY <1>t, <4>1, CheckFields, WindowConstants DEF Copies
      <4>3. crs'.exc = crs.exc - 1
        BY <2>1, <4>1, <4>2, CrsCount
      <4>4. monitor.last = (crs'.exc = 0)
        BY <2>1, <2>2, <4>1, <4>3
      <4> QED BY <2>1, <2>2, <4>1, <4>3, <4>4
    <3> QED BY <3>1, <3>2
  <2>5. crs'.exc \in Nat
    BY <1>t, <2>1, CheckFields, WindowConstants
  <2>6. Remains'
    <3>1. sent' + crs'.exc = window'.exc /\ object'.attr = object'.read
      BY <1>f, <2>1, <2>4 DEF Window!checkLeaves
    <3>2. CASE monitor.last
      <4>1. crs'.exc = 0 /\ sent + crs'.exc = window.exc /\ sent \in Nat /\ window.exc \in Nat
        BY <2>2, <2>4, <3>2
      <4>2. sent' = window'.exc /\ crs'.exc = 0
        BY <1>f, <4>1 DEF Window!checkLeaves
      <4>3. monitor'.pc = "deactivate"
        BY <1>2, <3>2
      <4> HIDE DEF WindowInv
      <4> QED BY ONLY <3>1, <4>2, <4>3 DEF Remains
    <3>3. CASE ~monitor.last
      BY <1>2, <2>4, <3>1, <3>3 DEF Remains
    <3> QED BY <3>2, <3>3
  <2> QED BY <1>f, <1>2, <2>1, <2>3, <2>6 DEF RunsOut, Window!checkLeaves
<1>5. ASSUME ~overlapWindow' PROVE WindowSerial'
  <2>1. WindowSerial /\ monitor # Window!Idle /\ monitor' # Window!Idle
    BY <1>f, <1>2, <1>5 DEF Window!checkLeaves, Window!Idle
  <2>2. crs'.twt = crs.twt /\ crs.there /\ crs'.there
    BY <1>f, <1>t, <2>1, StoreFacts DEF WindowSerial, ObjectHolds
  <2>3. NotifierHolds' /\ ObjectHolds'
    BY <1>f, <1>t, <2>1, <2>2, StoreFacts DEF WindowSerial, NotifierHolds, ObjectHolds, Window!checkLeaves
  <2> QED BY <1>f, <1>2, <2>1, <2>2, <2>3, CheckSerial
<1> QED BY <1>3, <1>4, <1>5

\* The last notification deletes the <crs> and its window, from within the check.
LEMMA WindowExpireKeeps == ASSUME WindowInv, Window!deleteLocalResource PROVE WindowInv'
<1> USE DEF WindowInv
<1>f. UNCHANGED <<object, notifier, sent, lastEvent, stale, Window!checkLeaves>>
  BY DEF Window!deleteLocalResource
<1>t. WindowTypes
  OBVIOUS
<1>1. CASE /\ monitor.pc = "deactivate" /\ workers' = Window!Others(object.attr.twt)
           /\ Window!Go("remove") /\ UNCHANGED crs
  <2>1. /\ monitor'.pc = "remove" /\ monitor'.id = monitor.id /\ monitor'.last = monitor.last
        /\ monitor' = [pc |-> monitor'.pc, id |-> monitor'.id, last |-> monitor'.last]
    BY <1>1, <1>t, CheckFields DEF Window!Go
  <2>2. WindowTypes' /\ RunsOut'
    BY <1>f, <1>1, <2>1 DEF WindowTypes, Window!Checking, Window!checkLeaves, RunsOut, Remains
  <2>3. ASSUME ~overlapWindow' PROVE WindowSerial'
    <3>1. WindowSerial /\ monitor # Window!Idle /\ monitor' # Window!Idle
      BY <1>f, <1>1, <2>1, <2>3 DEF Window!checkLeaves, Window!Idle
    <3>2. crs.there /\ handler.pc = "idle" /\ windowRequest.pc = "idle" /\ object.attr.twt = crs.twt
      BY <1>1, <3>1 DEF WindowSerial, MonitorHolds, ObjectHolds
    <3>3. workers' = {}
      BY <1>1, <3>1, <3>2 DEF Window!Others, WindowSerial, OneWindow, IsWindow, WindowTwt
    <3>4. OneWindow' /\ Filled' /\ NothingSeen' /\ MonitorHolds' /\ PeriodicThere'
      BY <1>f, <1>1, <2>1, <3>1, <3>2, <3>3
         DEF OneWindow, Filled, NothingSeen, MonitorHolds, PeriodicThere, Window!checkLeaves
    <3>5. NotifierHolds' /\ ObjectHolds' /\ HandlerRead' /\ RequestHolds'
      BY <1>f, <1>1, <3>1, <3>2
         DEF WindowSerial, NotifierHolds, ObjectHolds, HandlerRead, RequestHolds, Window!checkLeaves
    <3> QED BY <3>4, <3>5 DEF WindowSerial
  <2> QED BY <2>2, <2>3
<1>2. CASE /\ monitor.pc = "remove" /\ crs' = [crs EXCEPT !.there = FALSE]
           /\ Window!Go("clear") /\ UNCHANGED workers
  <2>1. /\ monitor'.pc = "clear" /\ monitor'.id = monitor.id /\ monitor'.last = monitor.last
        /\ monitor' = [pc |-> monitor'.pc, id |-> monitor'.id, last |-> monitor'.last]
    BY <1>2, <1>t, CheckFields DEF Window!Go
  <2>2. crs' \in Window!Attributes /\ ~crs'.there /\ crs'.twt = crs.twt
    BY <1>2, <1>t, CrsGone DEF WindowTypes
  <2>3. WindowTypes' /\ RunsOut'
    BY <1>f, <1>2, <2>1, <2>2 DEF WindowTypes, Window!Checking, Window!checkLeaves, RunsOut
  <2>4. ASSUME ~overlapWindow' PROVE WindowSerial'
    <3>1. WindowSerial /\ monitor # Window!Idle /\ monitor' # Window!Idle
      BY <1>f, <1>2, <2>1, <2>4 DEF Window!checkLeaves, Window!Idle
    <3>2. workers = {} /\ handler.pc = "idle" /\ windowRequest.pc = "idle"
      BY <1>2, <3>1 DEF WindowSerial, MonitorHolds
    <3>3. OneWindow' /\ Filled' /\ NothingSeen' /\ MonitorHolds' /\ PeriodicThere'
      BY <1>f, <1>2, <2>1, <2>2, <3>1, <3>2
         DEF OneWindow, Filled, NothingSeen, MonitorHolds, PeriodicThere, Window!checkLeaves
    <3>4. NotifierHolds' /\ ObjectHolds' /\ HandlerRead' /\ RequestHolds'
      BY <1>f, <1>2, <2>2, <3>1, <3>2
         DEF WindowSerial, NotifierHolds, ObjectHolds, HandlerRead, RequestHolds, Window!checkLeaves
    <3> QED BY <3>3, <3>4 DEF WindowSerial
  <2> QED BY <2>3, <2>4
<1> QED BY <1>1, <1>2 DEF Window!deleteLocalResource

\* A window that has ended is emptied, and what was seen is forgotten.
LEMMA MonitorKeeps == ASSUME WindowInv, Window!_crsWindowMonitor PROVE WindowInv'
<1> USE WindowConstants DEF WindowInv
<1>f. /\ monitor.pc = "clear" /\ monitor' = Window!Idle /\ lastEvent' = Window!NoEvent
      /\ UNCHANGED <<crs, object, notifier, sent, stale, Window!checkLeaves>> 
  BY DEF Window!_crsWindowMonitor
<1>r. workers' = {IF w.id = monitor.id THEN [w EXCEPT !.data = {}, !.at = @ + Tws] ELSE w :
                    w \in {v \in workers : v.id # monitor.id \/ v.twt = "periodic"}}
  BY DEF Window!_crsWindowMonitor, Window!Rescheduled
<1>1. WindowTypes'
  <2>1. monitor'.pc = "idle" /\ monitor'.last = FALSE
        /\ monitor' = [pc |-> monitor'.pc, id |-> monitor'.id, last |-> monitor'.last]
    BY <1>f DEF Window!Idle
  <2> QED BY <1>f, <2>1 DEF WindowTypes, Window!NoEvent, Window!Checking, Window!checkLeaves
<1>2. RunsOut'
  BY <1>f DEF RunsOut, Remains, Window!Idle, Window!checkLeaves
<1>3. ASSUME ~overlapWindow' PROVE WindowSerial'
  <2>1. WindowSerial /\ handler.pc = "idle" /\ windowRequest.pc = "idle" /\ monitor # Window!Idle
    BY <1>f, <1>3 DEF WindowSerial, MonitorHolds, Window!Idle, Window!checkLeaves
  <2>2. ASSUME NEW v \in workers'
        PROVE  \E w \in workers : /\ w.twt = "periodic"
                                  /\ v = [w EXCEPT !.data = {}, !.at = @ + Tws]
    <3> PICK w \in workers : /\ w.id # monitor.id \/ w.twt = "periodic"
                             /\ v = IF w.id = monitor.id THEN [w EXCEPT !.data = {}, !.at = @ + Tws] ELSE w
      BY <1>r
    <3>1. w.id = monitor.id
      BY <1>f, <2>1 DEF WindowSerial, MonitorHolds
    <3> QED BY <3>1
  <2>3. ASSUME NEW w \in workers, w.twt = "periodic" PROVE workers' # {}
    BY <1>r, <2>3
  <2>4. ASSUME NEW v \in workers'
        PROVE  IsWindow(v)' /\ Collected(v)' /\ crs.there
    <3> PICK w \in workers : w.twt = "periodic" /\ v = [w EXCEPT !.data = {}, !.at = @ + Tws]
      BY <2>2
    <3>1. IsWindow(w) /\ crs.there /\ w.at <= now
      BY <1>f, <2>1 DEF WindowSerial, OneWindow, MonitorHolds
    <3>2. v = [id |-> w.id, twt |-> w.twt, at |-> w.at + Tws, data |-> {}, eem |-> w.eem]
      BY <3>1 DEF IsWindow
    <3>3. IsWindow(v)'
      <4>1. /\ v.id = w.id /\ v.twt = crs.twt /\ v.at = w.at + Tws /\ v.data = {} /\ v.eem = w.eem
            /\ w.at \in Nat /\ now \in Nat
        BY <2>1, <3>1, <3>2 DEF IsWindow, WindowTwt, WindowTypes, Window!Time
      <4>2. v = [id |-> v.id, twt |-> v.twt, at |-> v.at, data |-> v.data, eem |-> v.eem]
        BY <3>2, <4>1
      <4>3. v.at \in Nat /\ v.at <= now + Tws
        BY <3>1, <4>1
      <4> QED BY <2>1, <4>1, <4>2, <4>3, <1>f DEF IsWindow, WindowTwt, Window!checkLeaves
    <3>4. Collected(v)'
      BY <3>2, <1>f DEF Collected, Window!NoEvent
    <3> QED BY <3>1, <3>3, <3>4
  <2>5. \A v, w \in workers' : v = w
    BY <2>1, <2>2 DEF WindowSerial, OneWindow
  <2>6. OneWindow' /\ Filled'
    BY <2>4, <2>5, <1>f DEF OneWindow, Filled
  <2>7. PeriodicThere'
    BY <1>f, <2>1, <2>3 DEF PeriodicThere, WindowSerial, OneWindow, IsWindow, WindowTwt, Window!checkLeaves
  <2>8. NothingSeen' /\ MonitorHolds' /\ HandlerRead' /\ NotifierHolds' /\ ObjectHolds' /\ RequestHolds'
    BY <1>f, <2>1 DEF NothingSeen, MonitorHolds, HandlerRead, NotifierHolds, ObjectHolds, RequestHolds,
         WindowSerial, Window!checkLeaves, Window!Idle
  <2> QED BY <2>6, <2>7, <2>8 DEF WindowSerial
<1> QED BY <1>1, <1>2, <1>3

\* A check fails only where something else has removed the <crs>.
LEMMA CheckFailKeeps == ASSUME WindowInv, Window!checkFails PROVE WindowInv'
<1> USE DEF WindowInv
<1>f. /\ monitor.pc \in {"count", "counted", "store"} /\ ~crs.there /\ monitor' = Window!Idle
      /\ UNCHANGED <<crs, object, notifier, sent, lastEvent, stale, Window!checkLeaves>>
  BY DEF Window!checkFails
<1>1. WindowTypes'
  <2>1. monitor'.pc = "idle" /\ monitor'.last = FALSE
        /\ monitor' = [pc |-> monitor'.pc, id |-> monitor'.id, last |-> monitor'.last]
    BY <1>f DEF Window!Idle
  <2> QED BY <1>f, <2>1 DEF WindowTypes, Window!Checking, Window!checkLeaves
<1>2. RunsOut'
  BY <1>f DEF RunsOut, Window!Idle, Window!checkLeaves
<1>3. ASSUME ~overlapWindow' PROVE FALSE
  BY <1>f, <1>3 DEF WindowSerial, MonitorHolds, Window!Idle, Window!checkLeaves
<1> QED BY <1>1, <1>2, <1>3

\* An UPDATE reads the <crs>.
LEMMA WindowUpdateKeeps ==
  ASSUME WindowInv, NEW new \in BOOLEAN, NEW twt \in Window!Twt, NEW eem \in Eem, Window!update(new, twt, eem)
  PROVE  WindowInv'
<1> USE DEF WindowInv, Window!requestLeaves
<1>f. /\ Window!Alone /\ crs.there /\ (~new => twt = crs.twt) /\ windowRequest.pc = "idle"
      /\ windowRequest' = [pc |-> IF new THEN "stop" ELSE "store", twt |-> twt, eem |-> eem, copy |-> crs]
      /\ UNCHANGED <<crs, workers, lastEvent, rejected, stale, Window!requestLeaves>>
  BY DEF Window!update
<1>1. WindowTypes'
  <2>1. crs \in Copies
    BY <1>f, CheckFields
  <2> QED BY <1>f, <2>1 DEF WindowTypes, Window!Requesting
<1>2. RunsOut'
  BY <1>f, RunsOutKept
<1>3. ASSUME ~overlapWindow' PROVE WindowSerial'
  <2>1. WindowSerial /\ monitor = Window!Idle /\ handler.pc = "idle" /\ notifier = Window!NotSending
    BY <1>f, <1>3 DEF Window!Alone
  <2>2. windowRequest'.pc \in {"stop", "store"} /\ windowRequest'.copy = crs
        /\ WindowTwt' = crs.twt /\ WindowTwt = crs.twt /\ (windowRequest'.pc = "store" => windowRequest'.twt = crs.twt)
    BY <1>f DEF WindowTwt
  <2>3. OneWindow' /\ Filled' /\ NothingSeen' /\ PeriodicThere'
    BY <1>f, <2>1, <2>2 DEF WindowSerial, OneWindow, IsWindow, Filled, Collected, NothingSeen, PeriodicThere
  <2>4. MonitorHolds' /\ NotifierHolds' /\ ObjectHolds' /\ HandlerRead' /\ RequestHolds'
    BY <1>f, <2>1, <2>2 DEF WindowSerial, MonitorHolds, NotifierHolds, ObjectHolds, HandlerRead, RequestHolds
  <2> QED BY <2>3, <2>4 DEF WindowSerial
<1> QED BY <1>1, <1>2, <1>3

\* While a request is handled nothing else is at work.
LEMMA RequestAlone ==
  ASSUME WindowSerial, windowRequest.pc # "idle"
  PROVE  /\ monitor = Window!Idle /\ handler.pc = "idle" /\ notifier = Window!NotSending
         /\ crs.there /\ windowRequest.copy.twt = crs.twt
BY DEF WindowSerial, MonitorHolds, NotifierHolds, HandlerRead, RequestHolds

\* The fields of a request that goes on.
LEMMA RequestFields ==
  ASSUME WindowTypes, NEW pc \in Window!Requesting, windowRequest' = [windowRequest EXCEPT !.pc = pc]
  PROVE  /\ windowRequest'.pc = pc /\ windowRequest'.twt = windowRequest.twt
         /\ windowRequest'.eem = windowRequest.eem /\ windowRequest'.copy = windowRequest.copy
         /\ windowRequest' \in [pc : Window!Requesting, twt : Window!Twt, eem : Eem, copy : Copies]
BY DEF WindowTypes

\* A request that has ended.
LEMMA NoRequestFields ==
  ASSUME WindowTypes, window.there
  PROVE  /\ Window!NoRequest.pc = "idle"
         /\ Window!NoRequest \in [pc : Window!Requesting, twt : Window!Twt, eem : Eem, copy : Copies]
<1>1. window \in Copies /\ window.twt \in Window!Twt /\ window.eem \in Eem
  BY CrsFields DEF WindowTypes, Copies
<1> QED BY <1>1 DEF Window!NoRequest, Window!Requesting

\* No window is left once that of the twt has been stopped.
LEMMA StopKeeps == ASSUME WindowInv, Window!stopWindow PROVE WindowInv'
<1> USE DEF WindowInv, Window!requestLeaves
<1>f. /\ windowRequest.pc = "stop" /\ workers' = Window!Others(windowRequest.copy.twt)
      /\ lastEvent' = Window!NoEvent
      /\ UNCHANGED <<crs, windowUpdates, rejected, stale, Window!requestLeaves>>
      /\ windowRequest' = [windowRequest EXCEPT !.pc = IF windowRequest.twt = "periodic" THEN "start" ELSE "store"]
  BY DEF Window!stopWindow, Window!Goes
<1>1. /\ windowRequest'.pc = (IF windowRequest.twt = "periodic" THEN "start" ELSE "store")
      /\ windowRequest'.twt = windowRequest.twt /\ windowRequest'.copy = windowRequest.copy
      /\ windowRequest' \in [pc : Window!Requesting, twt : Window!Twt, eem : Eem, copy : Copies]
  BY <1>f, RequestFields DEF Window!Requesting
<1>2. WindowTypes' /\ RunsOut'
  BY <1>f, <1>1, RunsOutKept DEF WindowTypes, Window!NoEvent
<1>3. ASSUME ~overlapWindow' PROVE WindowSerial'
  <2>1. WindowSerial /\ monitor = Window!Idle /\ handler.pc = "idle" /\ notifier = Window!NotSending
        /\ crs.there /\ windowRequest.copy.twt = crs.twt
    BY <1>f, <1>3, RequestAlone
  <2>2. workers' = {}
    BY <1>f, <2>1 DEF Window!Others, WindowSerial, OneWindow, IsWindow, WindowTwt
  <2>3. windowRequest.twt \in {"periodic", "sliding"}
    BY DEF WindowTypes, Window!Twt
  <2>4. OneWindow' /\ Filled' /\ NothingSeen' /\ PeriodicThere'
    BY <1>f, <1>1, <2>1, <2>2, <2>3 DEF OneWindow, Filled, NothingSeen, PeriodicThere, WindowTwt
  <2>5. MonitorHolds' /\ NotifierHolds' /\ ObjectHolds' /\ HandlerRead' /\ RequestHolds'
    BY <1>f, <1>1, <2>1, <2>2 DEF WindowSerial, MonitorHolds, NotifierHolds, ObjectHolds, HandlerRead, RequestHolds
  <2> QED BY <2>4, <2>5 DEF WindowSerial
<1> QED BY <1>2, <1>3

\* The new window is of the new twt.
LEMMA StartPeriodicKeeps == ASSUME WindowInv, Window!startCRSPeriodicWindow PROVE WindowInv'
<1> USE DEF WindowInv, Window!requestLeaves
<1>f. /\ windowRequest.pc = "start"
      /\ workers' = workers \cup {Window!NewWorker("periodic", {}, "allPresent")}
      /\ windowRequest' = [windowRequest EXCEPT !.pc = "store"]
      /\ UNCHANGED <<crs, windowUpdates, lastEvent, rejected, stale, Window!requestLeaves>>
  BY DEF Window!startCRSPeriodicWindow, Window!Goes
<1>1. /\ windowRequest'.pc = "store" /\ windowRequest'.twt = windowRequest.twt
      /\ windowRequest'.copy = windowRequest.copy
      /\ windowRequest' \in [pc : Window!Requesting, twt : Window!Twt, eem : Eem, copy : Copies]
  BY <1>f, RequestFields DEF Window!Requesting
<1>2. WindowTypes' /\ RunsOut'
  BY <1>f, <1>1, RunsOutKept DEF WindowTypes
<1>3. ASSUME ~overlapWindow' PROVE WindowSerial'
  <2>1. WindowSerial /\ monitor = Window!Idle /\ handler.pc = "idle" /\ notifier = Window!NotSending
        /\ crs.there /\ windowRequest.copy.twt = crs.twt
    BY <1>f, <1>3, RequestAlone
  <2>2. workers = {} /\ lastEvent = Window!NoEvent /\ windowRequest.twt = "periodic"
    BY <1>f, <2>1 DEF WindowSerial, RequestHolds
  <2> PICK w : w = Window!NewWorker("periodic", {}, "allPresent")
    OBVIOUS
  <2>3. /\ w.twt = "periodic" /\ w.at = now + Tws /\ w.data = {} /\ workers' = {w}
        /\ w = [id |-> w.id, twt |-> w.twt, at |-> w.at, data |-> w.data, eem |-> w.eem]
    BY <1>f, <2>2 DEF Window!NewWorker
  <2>4. WindowTwt' = "periodic" /\ now' = now /\ now \in Nat
    BY <1>f, <1>1, <2>2, WindowConstants DEF WindowTwt, WindowTypes, Window!Time
  <2>5. IsWindow(w)' /\ Collected(w)'
    BY <1>f, <2>2, <2>3, <2>4, WindowConstants DEF IsWindow, Collected, Window!NoEvent
  <2>6. OneWindow' /\ Filled' /\ NothingSeen' /\ PeriodicThere'
    BY <1>f, <1>1, <2>1, <2>3, <2>5 DEF OneWindow, Filled, NothingSeen, PeriodicThere
  <2>7. MonitorHolds' /\ NotifierHolds' /\ ObjectHolds' /\ HandlerRead' /\ RequestHolds'
    BY <1>f, <1>1, <2>1, <2>2 DEF WindowSerial, MonitorHolds, NotifierHolds, ObjectHolds, HandlerRead, RequestHolds
  <2> QED BY <2>6, <2>7 DEF WindowSerial
<1> QED BY <1>2, <1>3

\* A refused update has left no window of the other twt, but it may have stopped the one of the <crs>.
LEMMA RefusedKeeps == ASSUME WindowInv, window.there, Window!validateUpdate PROVE WindowInv'
<1> USE DEF WindowInv, Window!requestLeaves
<1>f. /\ windowRequest.pc = "store" /\ windowRequest.twt = "sliding" /\ rejected' = TRUE
      /\ windowRequest' = Window!NoRequest
      /\ UNCHANGED <<crs, workers, windowUpdates, lastEvent, stale, Window!requestLeaves>>
  BY DEF Window!validateUpdate, Window!validate, Window!Answered
<1>1. /\ windowRequest'.pc = "idle"
      /\ windowRequest' \in [pc : Window!Requesting, twt : Window!Twt, eem : Eem, copy : Copies]
  BY <1>f, NoRequestFields
<1>2. WindowTypes' /\ RunsOut'
  BY <1>f, <1>1, RunsOutKept DEF WindowTypes
<1>3. ASSUME ~overlapWindow' PROVE WindowSerial'
  <2>1. WindowSerial /\ monitor = Window!Idle /\ handler.pc = "idle" /\ notifier = Window!NotSending /\ crs.there
    BY <1>f, <1>3, RequestAlone
  <2>2. workers # {} => WindowTwt = crs.twt /\ WindowTwt' = crs.twt
    BY <1>f, <1>1, <2>1 DEF WindowSerial, RequestHolds, WindowTwt
  <2>3. OneWindow' /\ Filled' /\ NothingSeen' /\ PeriodicThere'
    BY <1>f, <1>1, <2>1, <2>2 DEF WindowSerial, OneWindow, IsWindow, Filled, Collected, NothingSeen, PeriodicThere
  <2>4. MonitorHolds' /\ NotifierHolds' /\ ObjectHolds' /\ HandlerRead' /\ RequestHolds'
    BY <1>f, <1>1, <2>1 DEF WindowSerial, MonitorHolds, NotifierHolds, ObjectHolds, HandlerRead, RequestHolds
  <2> QED BY <2>3, <2>4 DEF WindowSerial
<1> QED BY <1>2, <1>3

\* What was read is written with the changes of the request: unless it was stale, the counter is as before.
LEMMA StoreUpdateKeeps == ASSUME WindowInv, window.there, Window!storeUpdate PROVE WindowInv'
<1> USE DEF WindowInv, Window!requestLeaves
<1>f. UNCHANGED <<workers, windowUpdates, lastEvent, rejected, Window!requestLeaves>>
  BY DEF Window!storeUpdate
<1>c. /\ windowRequest.copy \in Window!Attributes /\ windowRequest.copy.there /\ windowRequest.twt \in Window!Twt
      /\ windowRequest.eem \in Eem /\ stale \in BOOLEAN
  BY DEF WindowTypes, Copies
<1> DEFINE copy == [there |-> windowRequest.copy.there, twt |-> windowRequest.twt, eem |-> windowRequest.eem,
                     exc |-> windowRequest.copy.exc, nse |-> windowRequest.copy.nse]
<1>1. CASE /\ windowRequest.pc = "store" /\ Window!Written(copy, windowRequest.copy)
           /\ windowRequest' = [windowRequest EXCEPT !.pc = "storeAgain", !.copy = copy]
  <2>1. copy \in Window!Attributes /\ copy.there /\ copy.twt = windowRequest.twt /\ copy.exc = windowRequest.copy.exc
    BY <1>c DEF Window!Attributes
  <2> HIDE DEF copy
  <2>2. /\ crs.there /\ crs' = copy /\ stale' \in BOOLEAN
        /\ (~stale' => ~stale /\ crs.exc = windowRequest.copy.exc)
    BY <1>1, <1>c DEF Window!Written
  <2>3. /\ windowRequest'.pc = "storeAgain" /\ windowRequest'.copy = copy
        /\ windowRequest' \in [pc : Window!Requesting, twt : Window!Twt, eem : Eem, copy : Copies]
    BY <1>1, <2>1 DEF WindowTypes, Copies, Window!Requesting
  <2>4. WindowTypes' /\ RunsOut'
    BY <1>f, <2>1, <2>2, <2>3, RunsOutKept DEF WindowTypes
  <2>5. ASSUME ~overlapWindow' PROVE WindowSerial'
    <3>1. WindowSerial /\ monitor = Window!Idle /\ handler.pc = "idle" /\ notifier = Window!NotSending
      BY <1>f, <1>1, <2>5, RequestAlone
    <3>2. WindowTwt' = WindowTwt /\ crs'.there /\ crs'.twt = windowRequest'.copy.twt
      BY <1>1, <2>1, <2>2, <2>3 DEF WindowTwt
    <3>3. OneWindow' /\ Filled' /\ NothingSeen' /\ PeriodicThere'
      BY <1>f, <1>1, <2>2, <2>3, <3>1, <3>2
         DEF WindowSerial, OneWindow, IsWindow, Filled, Collected, NothingSeen, PeriodicThere
    <3>4. MonitorHolds' /\ NotifierHolds' /\ ObjectHolds' /\ HandlerRead' /\ RequestHolds'
      BY <1>f, <2>3, <3>1, <3>2
         DEF WindowSerial, MonitorHolds, NotifierHolds, ObjectHolds, HandlerRead, RequestHolds, Window!Idle
    <3> QED BY <3>3, <3>4 DEF WindowSerial
  <2> QED BY <2>4, <2>5
<1>2. CASE /\ windowRequest.pc = "storeAgain" /\ Window!Written(windowRequest.copy, windowRequest.copy)
           /\ windowRequest' = Window!NoRequest
  <2>1. /\ crs.there /\ crs' = windowRequest.copy /\ stale' \in BOOLEAN
        /\ (~stale' => ~stale /\ crs.exc = windowRequest.copy.exc)
    BY <1>2, <1>c DEF Window!Written
  <2>2. /\ windowRequest'.pc = "idle"
        /\ windowRequest' \in [pc : Window!Requesting, twt : Window!Twt, eem : Eem, copy : Copies]
    BY <1>2, NoRequestFields
  <2>3. WindowTypes' /\ RunsOut'
    BY <1>c, <1>f, <2>1, <2>2, RunsOutKept DEF WindowTypes
  <2>4. ASSUME ~overlapWindow' PROVE WindowSerial'
    <3>1. WindowSerial /\ monitor = Window!Idle /\ handler.pc = "idle" /\ notifier = Window!NotSending
          /\ windowRequest.copy.twt = crs.twt
      BY <1>f, <1>2, <2>4, RequestAlone
    <3>2. WindowTwt' = WindowTwt /\ crs'.there /\ crs'.twt = crs.twt
      BY <1>2, <1>c, <2>1, <2>2, <3>1 DEF WindowTwt
    <3>3. OneWindow' /\ Filled' /\ NothingSeen' /\ PeriodicThere'
      BY <1>f, <1>2, <2>1, <2>2, <3>1, <3>2
         DEF WindowSerial, OneWindow, IsWindow, Filled, Collected, NothingSeen, PeriodicThere
    <3>4. MonitorHolds' /\ NotifierHolds' /\ ObjectHolds' /\ HandlerRead' /\ RequestHolds'
      BY <1>f, <2>2, <3>1, <3>2
         DEF WindowSerial, MonitorHolds, NotifierHolds, ObjectHolds, HandlerRead, RequestHolds, Window!Idle
    <3> QED BY <3>3, <3>4 DEF WindowSerial
  <2> QED BY <2>3, <2>4
<1> QED BY <1>1, <1>2 DEF Window!storeUpdate, Window!Answered

\* An update fails only where something else has removed the <crs>.
LEMMA UpdateFailKeeps == ASSUME WindowInv, window.there, Window!updateFails PROVE WindowInv'
<1> USE DEF WindowInv, Window!requestLeaves
<1>f. /\ windowRequest.pc # "idle" /\ ~crs.there /\ windowRequest' = Window!NoRequest
      /\ UNCHANGED <<crs, workers, windowUpdates, lastEvent, rejected, stale, Window!requestLeaves>>
  BY DEF Window!updateFails, Window!Answered
<1>1. windowRequest' \in [pc : Window!Requesting, twt : Window!Twt, eem : Eem, copy : Copies]
  BY <1>f, NoRequestFields
<1>2. WindowTypes' /\ RunsOut'
  BY <1>f, <1>1, RunsOutKept DEF WindowTypes
<1>3. ASSUME ~overlapWindow' PROVE FALSE
  BY <1>f, <1>3, RequestAlone
<1> QED BY <1>2, <1>3

\* A DELETE reads the <crs>.
LEMMA WindowDeleteKeeps == ASSUME WindowInv, Window!delete PROVE WindowInv'
<1> USE DEF WindowInv, Window!requestLeaves
<1>f. /\ Window!Alone /\ crs.there /\ windowRequest.pc = "idle"
      /\ windowRequest' = [Window!NoRequest EXCEPT !.pc = "deactivate", !.copy = crs]
      /\ UNCHANGED <<crs, workers, windowUpdates, lastEvent, rejected, stale, Window!requestLeaves>>
  BY DEF Window!delete
<1>1. /\ windowRequest'.pc = "deactivate" /\ windowRequest'.copy = crs
      /\ windowRequest' \in [pc : Window!Requesting, twt : Window!Twt, eem : Eem, copy : Copies]
  <2>1. windowRequest' = [pc |-> "deactivate", twt |-> window.twt, eem |-> window.eem, copy |-> crs]
    BY <1>f DEF Window!NoRequest
  <2>2. crs \in Copies /\ window.twt \in Window!Twt /\ window.eem \in Eem
    BY <1>f, CheckFields, CrsFields DEF WindowTypes
  <2> QED BY <2>1, <2>2 DEF Window!Requesting
<1>2. WindowTypes' /\ RunsOut'
  BY <1>f, <1>1, RunsOutKept DEF WindowTypes
<1>3. ASSUME ~overlapWindow' PROVE WindowSerial'
  <2>1. WindowSerial /\ monitor = Window!Idle /\ handler.pc = "idle" /\ notifier = Window!NotSending
    BY <1>f, <1>3 DEF Window!Alone
  <2>2. WindowTwt' = WindowTwt
    BY <1>f, <1>1 DEF WindowTwt
  <2>3. OneWindow' /\ Filled' /\ NothingSeen' /\ PeriodicThere'
    BY <1>f, <1>1, <2>1, <2>2 DEF WindowSerial, OneWindow, IsWindow, Filled, Collected, NothingSeen, PeriodicThere
  <2>4. MonitorHolds' /\ NotifierHolds' /\ ObjectHolds' /\ HandlerRead' /\ RequestHolds'
    BY <1>f, <1>1, <2>1 DEF WindowSerial, MonitorHolds, NotifierHolds, ObjectHolds, HandlerRead, RequestHolds
  <2> QED BY <2>3, <2>4 DEF WindowSerial
<1> QED BY <1>2, <1>3

\* It stops the window.
LEMMA WindowDeactivateKeeps == ASSUME WindowInv, Window!deactivate PROVE WindowInv'
<1> USE DEF WindowInv, Window!requestLeaves
<1>f. /\ windowRequest.pc = "deactivate" /\ workers' = Window!Others(windowRequest.copy.twt)
      /\ windowRequest' = [windowRequest EXCEPT !.pc = "remove"]
      /\ UNCHANGED <<crs, windowUpdates, lastEvent, rejected, stale, Window!requestLeaves>>
  BY DEF Window!deactivate, Window!Goes
<1>1. /\ windowRequest'.pc = "remove" /\ windowRequest'.copy = windowRequest.copy
      /\ windowRequest' \in [pc : Window!Requesting, twt : Window!Twt, eem : Eem, copy : Copies]
  BY <1>f, RequestFields DEF Window!Requesting
<1>2. WindowTypes' /\ RunsOut'
  BY <1>f, <1>1, RunsOutKept DEF WindowTypes
<1>3. ASSUME ~overlapWindow' PROVE WindowSerial'
  <2>1. WindowSerial /\ monitor = Window!Idle /\ handler.pc = "idle" /\ notifier = Window!NotSending
        /\ crs.there /\ windowRequest.copy.twt = crs.twt
    BY <1>f, <1>3, RequestAlone
  <2>2. workers' = {}
    BY <1>f, <2>1 DEF Window!Others, WindowSerial, OneWindow, IsWindow, WindowTwt
  <2>3. OneWindow' /\ Filled' /\ NothingSeen' /\ PeriodicThere'
    BY <1>f, <1>1, <2>1, <2>2 DEF OneWindow, Filled, NothingSeen, PeriodicThere
  <2>4. MonitorHolds' /\ NotifierHolds' /\ ObjectHolds' /\ HandlerRead' /\ RequestHolds'
    BY <1>f, <1>1, <2>1, <2>2 DEF WindowSerial, MonitorHolds, NotifierHolds, ObjectHolds, HandlerRead, RequestHolds
  <2> QED BY <2>3, <2>4 DEF WindowSerial
<1> QED BY <1>2, <1>3

\* No window outlives its <crs>.
LEMMA WindowRemoveKeeps == ASSUME WindowInv, window.there, Window!dbDelete PROVE WindowInv'
<1> USE DEF WindowInv, Window!requestLeaves
<1>f. /\ windowRequest.pc = "remove" /\ crs' = [crs EXCEPT !.there = FALSE] /\ windowRequest' = Window!NoRequest
      /\ UNCHANGED <<workers, windowUpdates, lastEvent, rejected, stale, Window!requestLeaves>>
  BY DEF Window!dbDelete, Window!Answered
<1>1. /\ windowRequest'.pc = "idle" /\ crs' \in Window!Attributes /\ ~crs'.there /\ crs'.twt = crs.twt
      /\ windowRequest' \in [pc : Window!Requesting, twt : Window!Twt, eem : Eem, copy : Copies]
  BY <1>f, NoRequestFields, CrsGone DEF WindowTypes
<1>2. WindowTypes' /\ RunsOut'
  BY <1>f, <1>1, RunsOutKept DEF WindowTypes
<1>3. ASSUME ~overlapWindow' PROVE WindowSerial'
  <2>1. WindowSerial /\ monitor = Window!Idle /\ handler.pc = "idle" /\ notifier = Window!NotSending
    BY <1>f, <1>3, RequestAlone
  <2>2. workers' = {}
    BY <1>f, <2>1 DEF WindowSerial, RequestHolds
  <2>3. OneWindow' /\ Filled' /\ NothingSeen' /\ PeriodicThere'
    BY <1>f, <1>1, <2>2 DEF OneWindow, Filled, NothingSeen, PeriodicThere
  <2>4. MonitorHolds' /\ NotifierHolds' /\ ObjectHolds' /\ HandlerRead' /\ RequestHolds'
    BY <1>f, <1>1, <2>1 DEF WindowSerial, MonitorHolds, NotifierHolds, ObjectHolds, HandlerRead, RequestHolds
  <2> QED BY <2>3, <2>4 DEF WindowSerial
<1> QED BY <1>2, <1>3

\* A window ends at most its length from now.
LEMMA WindowTickKeeps == ASSUME WindowInv, Window!Tick PROVE WindowInv'
<1> USE WindowConstants DEF WindowInv, Window!Tick
<1>1. (WindowTypes /\ RunsOut)'
  BY RunsOutKept DEF WindowTypes, Window!Time
<1>2. ASSUME ~overlapWindow' PROVE WindowSerial'
  <2>1. OneWindow' /\ Filled' /\ NothingSeen' /\ MonitorHolds' /\ HandlerRead' /\ PeriodicThere'
    BY <1>2 DEF WindowSerial, OneWindow, IsWindow, WindowTwt, Filled, Collected, NothingSeen, MonitorHolds,
         HandlerRead, PeriodicThere, WindowTypes, Window!Time
  <2>2. NotifierHolds' /\ ObjectHolds' /\ RequestHolds'
    BY <1>2 DEF WindowSerial, NotifierHolds, ObjectHolds, RequestHolds
  <2> QED BY <2>1, <2>2 DEF WindowSerial
<1> QED BY <1>1, <1>2

\* The invariant holds in every reachable state.
LEMMA WindowInvariant == Window!Spec => []WindowInv
<1> DEFINE Inv == WindowInv /\ window.there
<1>1. Inv /\ [Window!Next]_Window!windowVars => Inv'
  <2>1. Inv /\ UNCHANGED Window!windowVars => Inv'
    <3> SUFFICES ASSUME Inv, UNCHANGED Window!windowVars PROVE Inv'
      OBVIOUS
    <3>1. WindowTypes' /\ RunsOut'
      BY RunsOutKept DEF Window!windowVars, WindowInv, WindowTypes
    <3>2. WindowSerial => WindowSerial'
      BY DEF Window!windowVars, WindowSerial, OneWindow, IsWindow, WindowTwt, Filled, Collected, NothingSeen,
           MonitorHolds, NotifierHolds, ObjectHolds, HandlerRead, RequestHolds, PeriodicThere
    <3> QED BY <3>1, <3>2 DEF Window!windowVars, WindowInv
  <2>2. Inv /\ Window!Next => WindowInv'
    <3> SUFFICES ASSUME WindowInv, window.there, Window!Next PROVE WindowInv'
      OBVIOUS
    <3>1. CASE \E s \in Source : Window!handleNotification(s)
      BY <3>1, HandleKeeps
    <3>2. CASE Window!receivedCrossResourceSubscriptionNotification \/ Window!startCRSSlidingWindow
      BY <3>2, ReceivedKeeps, StartKeeps
    <3>3. CASE \/ Window!_crsCheckForNotification \/ Window!sendNotificationWithDict
               \/ Window!countNotificationEvents \/ Window!countSentReceivedNotification
      BY <3>3, WindowCheckKeeps, WindowSendKeeps, CountKeeps, NotifierKeeps
    <3>4. CASE Window!reduceExc \/ Window!storeExc \/ Window!deleteLocalResource
      BY <3>4, ReduceKeeps, StoreKeeps, WindowExpireKeeps
    <3>5. CASE Window!_crsWindowMonitor \/ Window!checkFails
      BY <3>5, MonitorKeeps, CheckFailKeeps
    <3>6. CASE \E new \in BOOLEAN, twt \in Window!Twt, eem \in Eem : Window!update(new, twt, eem)
      BY <3>6, WindowUpdateKeeps
    <3>7. CASE Window!stopWindow \/ Window!startCRSPeriodicWindow \/ Window!validateUpdate
      BY <3>7, StopKeeps, StartPeriodicKeeps, RefusedKeeps
    <3>8. CASE Window!storeUpdate \/ Window!updateFails
      BY <3>8, StoreUpdateKeeps, UpdateFailKeeps
    <3>9. CASE Window!delete \/ Window!deactivate \/ Window!dbDelete \/ Window!Tick
      BY <3>9, WindowDeleteKeeps, WindowDeactivateKeeps, WindowRemoveKeeps, WindowTickKeeps
    <3> QED BY <3>1, <3>2, <3>3, <3>4, <3>5, <3>6, <3>7, <3>8, <3>9 DEF Window!Next
  <2>3. Window!Next => window' = window
    BY DEF Window!Next, Window!handleNotification, Window!receivedCrossResourceSubscriptionNotification,
         Window!startCRSSlidingWindow, Window!_crsCheckForNotification, Window!sendNotificationWithDict,
         Window!countNotificationEvents, Window!countSentReceivedNotification, Window!reduceExc, Window!storeExc,
         Window!deleteLocalResource, Window!_crsWindowMonitor, Window!checkFails, Window!update,
         Window!stopWindow, Window!startCRSPeriodicWindow, Window!validateUpdate, Window!storeUpdate,
         Window!updateFails, Window!delete, Window!deactivate, Window!dbDelete, Window!Tick,
         Window!checkLeaves, Window!requestLeaves
  <2> QED BY <2>1, <2>2, <2>3
<1>2. Window!Init => Inv
  BY WindowInit DEF Window!Init
<1>3. Inv => WindowInv
  OBVIOUS
<1> QED BY <1>1, <1>2, <1>3, PTL DEF Window!Spec

\* Where threads do not overlap, a window has exactly the subscriptions that have notified the <crs> since
\* it began, there is one for a <crs> at most, and none without; a periodic one goes on. And whatever requests
\* and notifiers run beside the checks, a <crs> with an expiration counter is gone with its last notification,
\* unless an older copy was written over it (CRS.handleNotification, CRS.update, _crsCheckForNotification).
THEOREM WindowAlwaysExact == SpecOne => []WindowExact
<1>1. Window!Spec => []WindowInv
  BY WindowInvariant
<1>2. InitOne /\ service = "window" => Window!Init
  BY DEF InitOne
<1>3. service = "window" /\ [NextOne]_vars => [Window!Next]_Window!windowVars /\ (service = "window")'
  BY DEF NextOne, vars, windowVars, Window!windowVars
<1>4. ~(service = "window") /\ [NextOne]_vars => (~(service = "window"))'
  BY DEF NextOne, vars
<1>5. WindowInv => WindowExact
  <2> SUFFICES ASSUME WindowInv, service = "window"
               PROVE  Window!ExpiresExactly /\ (Window!AtRest => Window!WindowExact)
    BY DEF WindowExact, Window!WindowExact
  <2>e. Window!ExpiresExactly
    BY DEF WindowInv, RunsOut, Remains, Window!ExpiresExactly, Window!Idle
  <2> SUFFICES ASSUME Window!AtRest PROVE Window!WindowExact
    BY <2>e
  <2>1. WindowSerial /\ monitor = Window!Idle
    BY DEF Window!AtRest, WindowInv
  <2>2. \A w \in workers : Collected(w)
    BY <2>1 DEF WindowSerial, Filled
  <2>3. \A v, w \in workers : w.twt = crs.twt /\ v = w /\ crs.there
    BY <2>1 DEF WindowSerial, OneWindow, IsWindow, WindowTwt, Window!AtRest
  <2>4. ~rejected /\ crs.there /\ crs.twt = "periodic" => workers # {}
    BY <2>1 DEF WindowSerial, PeriodicThere, WindowTwt, Window!AtRest, Window!Idle
  <2> QED BY <2>2, <2>3, <2>4 DEF Window!WindowExact, Collected
<1>6. ~(service = "window") => WindowExact
  BY DEF WindowExact
<1>. QED
  BY <1>1, <1>2, <1>3, <1>4, <1>5, <1>6, PTL DEF SpecOne, Window!Spec

\* Where peers reconnect and requests come one after the other: when nothing is being done for a peer, it
\* is associated with the connection it has opened, which is known and open, and no connection that a request
\* has opened is left (WebSocketServer.sendWSRequest, handleIncomingConnection).
THEOREM ConnectionsAlwaysMatch == SpecOne => []ConnectionsMatch
<1>1. Sockets!Spec => []SocketInv
  BY SocketInvariant
<1>2. InitOne /\ service = "sockets" => Sockets!Init
  BY DEF InitOne
<1>3. service = "sockets" /\ [NextOne]_vars => [Sockets!Next]_Sockets!wsVars /\ (service = "sockets")'
  BY DEF NextOne, vars, socketVars, Sockets!wsVars
<1>4. ~(service = "sockets") /\ [NextOne]_vars => (~(service = "sockets"))'
  BY DEF NextOne, vars
<1>5. SocketInv => ConnectionsMatch
  <2> SUFFICES ASSUME SocketSerial, NEW p \in Peer, Sockets!AtRest(p)
               PROVE  /\ associatedConnections[p] # None => associatedConnections[p] \in open \cap wsConnections
                      /\ \A c \in (open \cap knownPeer) \ deletedConnections :
                           peer[c] = p => associatedConnections[p] = c
                      /\ \A c \in open : peer[c] = p => loop[c] # "cse"
    BY DEF SocketInv, ConnectionsMatch, Sockets!ConnectionsMatch
  <2>1. /\ \A s \in Sender : requester[s].to # p
        /\ \A c \in WS : peer[c] = p => loop[c] = "ended" \/ (loop[c] \in {"receiving", "cse"} /\ c \in open)
    BY DEF Sockets!AtRest
  <2>2. \A s \in Sender : Temporary(s) => peer[requester[s].ws] # p
    BY <2>1 DEF SocketSerial, Requests, Request, Temporary
  <2>3. \A c \in open : c \in WS /\ InUse(c) /\ (peer[c] = p => loop[c] = "receiving")
    BY <2>1, <2>2 DEF SocketSerial, SocketTypes, Connections, Connection, InUse, TemporaryUsed
  <2>4. associatedConnections[p] # None => associatedConnections[p] \in open \cap wsConnections
    <3> SUFFICES ASSUME associatedConnections[p] # None
                 PROVE  associatedConnections[p] \in open \cap wsConnections
      OBVIOUS
    <3>1. Association(p, associatedConnections[p]) /\ associatedConnections[p] \in WS
      BY DEF SocketSerial, SocketTypes, Associated
    <3>2. loop[associatedConnections[p]] = "receiving"
      BY <2>2, <3>1 DEF Association, Temporary
    <3> QED BY <2>1, <3>1, <3>2 DEF Association
  <2> QED BY <2>3, <2>4 DEF SocketSerial, KnownAssociated
<1>6. ~(service = "sockets") => ConnectionsMatch
  BY DEF ConnectionsMatch
<1>. QED
  BY <1>1, <1>2, <1>3, <1>4, <1>5, <1>6, PTL DEF SpecOne, Sockets!Spec
-----------------------------------------------------------------------------
(***************************************************************************)
(* Containers. The size of a set of instances is the number of elements of *)
(* a set that stands for their bytes: that is how a sum, which is defined  *)
(* by recursion, can be reasoned about.                                    *)
(***************************************************************************)
\* A set of numbers has a least one.
LEMMA Least == ASSUME NEW S \in SUBSET Nat, S # {} PROVE \E x \in S : \A y \in S : x <= y
<1> DEFINE Less == {pair \in Nat \X Nat : pair[1] < pair[2]}
<1>1. IsWellFoundedOn(Less, Nat)
  BY NatLessThanWellFounded DEF OpToRel
<1>2. PICK x \in S : \A y \in S : <<y, x>> \notin Less
  BY <1>1, WFMin
<1>3. \A y \in S : <<y, x>> \in Nat \X Nat /\ <<y, x>>[1] = y /\ <<y, x>>[2] = x
  BY <1>2
<1>4. \A y \in S : ~(y < x)
  BY <1>2, <1>3
<1> QED BY <1>4

\* The bytes of an instance are a set, and those of instances are disjoint: to add sizes is to count bytes.
Unit(c) == {c} \X (1..Size[c])
Units(S) == UNION {Unit(c) : c \in S}

\* Cardinality, as the containers' module has it.
LEMMA SameCount ==
  ASSUME NEW S PROVE Instances!Cardinality(S) = Cardinality(S) /\ (Instances!IsFiniteSet(S) <=> IsFiniteSet(S))
<1>1. Instances!Cardinality(S) = Cardinality(S)
  BY Zenon DEF Instances!Cardinality, Cardinality
<1>2. Instances!IsFiniteSet(S) <=> IsFiniteSet(S)
  BY Zenon DEF Instances!IsFiniteSet, IsFiniteSet
<1> QED BY <1>1, <1>2

LEMMA InstanceFacts ==
  /\ IsFiniteSet(Cin) /\ \E n \in Nat : Cin = 1..n
  /\ \A S \in SUBSET Cin : IsFiniteSet(S) /\ Cardinality(S) \in Nat
  /\ \A c \in Cin : Size[c] \in Nat
<1>1. IsFiniteSet(Cin) /\ Cardinality(Cin) \in Nat /\ Cin = 1..Cardinality(Cin)
  BY ServiceAssumption, SameCount, FS_CardinalityType DEF ServiceAssumption, Instances!ContainerAssumption
<1>2. \A S \in SUBSET Cin : IsFiniteSet(S) /\ Cardinality(S) \in Nat
  BY <1>1, FS_Subset, FS_CardinalityType
<1> QED BY <1>1, <1>2, ServiceAssumption DEF ServiceAssumption, Instances!ContainerAssumption

LEMMA UnitSize == ASSUME NEW c \in Cin PROVE IsFiniteSet(Unit(c)) /\ Cardinality(Unit(c)) = Size[c]
<1> DEFINE f == [i \in 1..Size[c] |-> <<c, i>>]
<1>1. Size[c] \in Nat
  BY InstanceFacts
<1>2. IsFiniteSet(1..Size[c]) /\ Cardinality(1..Size[c]) = Size[c]
  <2>1. \A n \in Nat : IsFiniteSet(1..n) /\ Cardinality(1..n) = n
    BY FS_Interval
  <2> QED BY <1>1, <2>1
<1>3. f \in Bijection(1..Size[c], Unit(c))
  <2>1. \A i \in 1..Size[c] : f[i] = <<c, i>> /\ <<c, i>> \in Unit(c)
    BY DEF Unit
  <2>2. f \in [1..Size[c] -> Unit(c)]
    BY <2>1
  <2>3. \A i, j \in 1..Size[c] : f[i] = f[j] => i = j
    BY <2>1
  <2>4. \A u \in Unit(c) : \E i \in 1..Size[c] : f[i] = u
    BY <2>1 DEF Unit
  <2> HIDE DEF f
  <2> QED BY <2>2, <2>3, <2>4 DEF Bijection, Injection, Surjection, IsInjective
<1> QED BY <1>2, <1>3, FS_Bijection DEF ExistsBijection

LEMMA UnitsFinite == ASSUME NEW S \in SUBSET Cin PROVE IsFiniteSet(Units(S)) /\ Cardinality(Units(S)) \in Nat
<1> DEFINE T == {Unit(c) : c \in S}
           f == [c \in S |-> Unit(c)]
<1>1. f \in Surjection(S, T)
  BY DEF Surjection
<1>2. IsFiniteSet(T)
  BY <1>1, InstanceFacts, FS_Surjection
<1>3. \A U \in T : IsFiniteSet(U)
  BY UnitSize
<1>4. IsFiniteSet(Units(S))
  BY <1>2, <1>3, FS_UNION DEF Units
<1> QED BY <1>4, FS_CardinalityType

LEMMA UnitsAdd ==
  ASSUME NEW S \in SUBSET Cin, NEW c \in Cin \ S
  PROVE  Cardinality(Units(S \cup {c})) = Size[c] + Cardinality(Units(S))
<1>1. Units(S \cup {c}) = Units(S) \cup Unit(c) /\ Units(S) \cap Unit(c) = {}
  BY DEF Units, Unit
<1>2. IsFiniteSet(Units(S)) /\ IsFiniteSet(Unit(c)) /\ Cardinality(Unit(c)) = Size[c]
  BY UnitsFinite, UnitSize
<1>3. Cardinality(Units(S) \cap Unit(c)) = 0
  BY <1>1, FS_EmptySet
<1>4. Cardinality(Units(S) \cup Unit(c)) = Cardinality(Units(S)) + Size[c] - Cardinality(Units(S) \cap Unit(c))
  BY <1>2, FS_Union
<1>5. Cardinality(Units(S)) \in Nat /\ Size[c] \in Nat
  BY UnitsFinite, InstanceFacts
<1>6. Cardinality(Units(S) \cup Unit(c)) = Size[c] + Cardinality(Units(S))
  BY <1>3, <1>4, <1>5
<1> QED BY <1>1, <1>6, Zenon

\* A function that adds up sizes.
SumOn(S, g) ==
  g = [s \in SUBSET S |-> IF s = {} THEN 0 ELSE LET x == CHOOSE x \in s : TRUE IN Size[x] + g[s \ {x}]]

LEMMA BytesSum == ASSUME NEW S PROVE Instances!Bytes(S) = (CHOOSE g : SumOn(S, g))[S]
BY Zenon DEF Instances!Bytes, Instances!MapThenSumSet, Instances!MapThenFoldSet, SumOn

LEMMA SumUnits ==
  ASSUME NEW S \in SUBSET Cin, NEW g, SumOn(S, g)
  PROVE  \A T \in SUBSET S : g[T] = Cardinality(Units(T))
<1> DEFINE Wrong == {T \in SUBSET S : g[T] # Cardinality(Units(T))}
           Sizes == {Cardinality(T) : T \in Wrong}
<1> SUFFICES ASSUME Wrong # {} PROVE FALSE
  OBVIOUS
<1>1. Sizes \subseteq Nat /\ Sizes # {}
  BY InstanceFacts
<1>2. PICK n \in Sizes : \A m \in Sizes : n <= m
  BY <1>1, Least
<1>3. PICK T \in Wrong : Cardinality(T) = n
  OBVIOUS
<1>4. T # {}
  <2> SUFFICES ASSUME T = {} PROVE FALSE
    OBVIOUS
  <2>1. g[T] = 0
    BY DEF SumOn
  <2>2. Units(T) = {}
    BY DEF Units
  <2> QED BY <2>1, <2>2, <1>3, FS_EmptySet
<1> DEFINE x == CHOOSE x \in T : TRUE
<1>5. x \in T /\ g[T] = Size[x] + g[T \ {x}]
  BY <1>3, <1>4 DEF SumOn
<1>6. Cardinality(T \ {x}) = n - 1 /\ T \ {x} \in SUBSET S
  BY <1>3, <1>5, FS_RemoveElement, InstanceFacts
<1>7. g[T \ {x}] = Cardinality(Units(T \ {x}))
  <2>1. T \ {x} \notin Wrong
    <3> SUFFICES ASSUME T \ {x} \in Wrong PROVE FALSE
      OBVIOUS
    <3>1. n - 1 \in Sizes
      BY <1>6
    <3>2. n \in Nat
      BY <1>1
    <3> HIDE DEF Sizes
    <3> QED BY <1>2, <3>1, <3>2
  <2> QED BY <2>1, <1>6
<1>8. Cardinality(Units((T \ {x}) \cup {x})) = Size[x] + Cardinality(Units(T \ {x}))
  BY <1>3, <1>5, UnitsAdd
<1>9. (T \ {x}) \cup {x} = T
  BY <1>5
<1> QED BY <1>3, <1>5, <1>7, <1>8, <1>9

LEMMA UnitsSum == ASSUME NEW S \in SUBSET Cin PROVE \E g : SumOn(S, g)
<1> DEFINE g == [s \in SUBSET S |-> Cardinality(Units(s))]
<1>1. ASSUME NEW s \in SUBSET S
      PROVE  g[s] = IF s = {} THEN 0 ELSE LET x == CHOOSE x \in s : TRUE IN Size[x] + g[s \ {x}]
  <2>1. CASE s = {}
    <3>1. Units(s) = {}
      BY <2>1 DEF Units
    <3> QED BY <2>1, <3>1, FS_EmptySet
  <2>2. CASE s # {}
    <3> DEFINE x == CHOOSE x \in s : TRUE
    <3>1. x \in s /\ (s \ {x}) \cup {x} = s
      BY <2>2
    <3>2. Cardinality(Units((s \ {x}) \cup {x})) = Size[x] + Cardinality(Units(s \ {x}))
      BY <3>1, UnitsAdd
    <3>3. s \ {x} \in SUBSET S
      OBVIOUS
    <3> QED BY <2>2, <3>1, <3>2, <3>3
  <2> QED BY <2>1, <2>2
<1>2. SumOn(S, g)
  BY <1>1, Zenon DEF SumOn
<1> QED BY <1>2

\* The size of a set of instances is the number of their bytes.
LEMMA BytesUnits == ASSUME NEW S \in SUBSET Cin PROVE Instances!Bytes(S) = Cardinality(Units(S))
<1>1. SumOn(S, CHOOSE g : SumOn(S, g))
  BY UnitsSum
<1> QED BY <1>1, SumUnits, BytesSum

\* What Bytes and Cardinality are.
LEMMA BytesFacts ==
  /\ Instances!Bytes({}) = 0
  /\ \A S \in SUBSET Cin : Instances!Bytes(S) \in Nat
  /\ \A S \in SUBSET Cin : \A c \in Cin \ S : Instances!Bytes(S \cup {c}) = Instances!Bytes(S) + Size[c]
  /\ \A S \in SUBSET Cin : \A T \in SUBSET S : Instances!Bytes(T) <= Instances!Bytes(S)
<1>1. Instances!Bytes({}) = 0
  <2>1. Units({}) = {}
    BY DEF Units
  <2> QED BY <2>1, BytesUnits, FS_EmptySet
<1>2. \A S \in SUBSET Cin : Instances!Bytes(S) \in Nat
  BY BytesUnits, UnitsFinite
<1>3. ASSUME NEW S \in SUBSET Cin,
             NEW c \in Cin \ S PROVE Instances!Bytes(S \cup {c}) = Instances!Bytes(S) + Size[c]
  <2>1. Instances!Bytes(S \cup {c}) = Size[c] + Instances!Bytes(S)
    BY BytesUnits, UnitsAdd
  <2> QED BY <2>1, <1>2, InstanceFacts
<1>4. ASSUME NEW S \in SUBSET Cin, NEW T \in SUBSET S PROVE Instances!Bytes(T) <= Instances!Bytes(S)
  <2>1. Units(T) \in SUBSET Units(S)
    BY DEF Units
  <2> QED BY <2>1, BytesUnits, UnitsFinite, FS_Subset
<1> QED BY <1>1, <1>2, <1>3, <1>4

LEMMA CountFacts ==
  /\ Instances!Cardinality({}) = 0
  /\ \A S \in SUBSET Cin : Instances!Cardinality(S) \in Nat
  /\ \A S \in SUBSET Cin : \A c \in Cin \ S : Instances!Cardinality(S \cup {c}) = Instances!Cardinality(S) + 1
  /\ \A S \in SUBSET Cin : \A T \in SUBSET S : Instances!Cardinality(T) <= Instances!Cardinality(S)
<1>1. /\ Cardinality({}) = 0
      /\ \A S \in SUBSET Cin : Cardinality(S) \in Nat
      /\ \A S \in SUBSET Cin : \A c \in Cin \ S : Cardinality(S \cup {c}) = Cardinality(S) + 1
      /\ \A S \in SUBSET Cin : \A T \in SUBSET S : Cardinality(T) <= Cardinality(S)
  BY InstanceFacts, FS_EmptySet, FS_AddElement, FS_Subset
<1> QED BY <1>1, SameCount

-----------------------------------------------------------------------------
Made == {"activate", "reload", "tag", "store", "reloadParent", "added"}
Named == {"insert", "link", "remove", "removeLink", "removed"} \cup Made

\* What a thread has at hand: instances that were created.
Fits(f, n) ==
  f = Instances!Idle \/ /\ f \in Instances!State /\ f.cins \subseteq 1..n /\ f.cin \in 0..n
                        /\ f.pc \in Named => f.cin # 0

\* The counters are those of a set of instances, which is within the limits.
Exact(obj, S) == obj.cni = Instances!Cardinality(S) /\ obj.cbs = Instances!Bytes(S)
Whole(obj, S) == Exact(obj, S) /\ ~Instances!Exceeds(obj, S)

\* What a request that is alone finds, and has, at each of its steps: c, s and l are the container, the stored
\* and the listed instances.
AtHand(f, c, s, l) ==
  /\ f.pc \in {"insert", "removed"} => f.cin \notin s
  /\ f.pc \in Made \cup {"remove"} => f.cin \in s
  /\ f.pc \in {"insert", "remove", "rewrite", "updated"} => Whole(c, s)
  /\ f.pc = "link" => s = l \cup {f.cin} /\ f.cin \notin l /\ Exact(c, l)
  /\ f.pc \in Made => Exact(c, s \ {f.cin})
  /\ f.pc = "removeLink" => l = s \cup {f.cin} /\ f.cin \notin s /\ Whole(c, l)
  /\ f.pc = "removed" => Whole(c, s \cup {f.cin})
  /\ f.pc \in {"fetch", "evict"} => f.cins = s
  /\ f.pc = "unlink" => f.cins # {} /\ l = f.cins /\ s = f.cins \ {Instances!Min(f.cins)}
  /\ f.pc = "write" => Whole(f.obj, s)
  /\ f.pc \in {"tag", "added", "remove", "removeLink", "removed", "rewrite", "updated"} => f.obj = c
  /\ f.pc \notin {"link", "removeLink", "unlink"} => l = s

ByItself ==
  /\ \A t, u \in Thread : request[t] # Instances!Idle /\ request[u] # Instances!Idle => t = u
  /\ \A t \in Thread : request[t] # Instances!Idle => AtHand(request[t], cnt, stored, listed)
  /\ (\A t \in Thread : request[t] = Instances!Idle) => Whole(cnt, stored) /\ listed = stored

ContainerInv ==
  /\ cnt \in Instances!Attributes /\ last \in Cin \cup {0} /\ overlapContainer \in BOOLEAN
  /\ stored \subseteq 1..last /\ listed \subseteq 1..last
  /\ request \in [Thread -> {Instances!Idle} \cup Instances!State]
  /\ \A t \in Thread : Fits(request[t], last)
  /\ ~overlapContainer => ByItself

LEMMA InvType == ContainerInv => Instances!TypeOK /\ 1..last \in SUBSET Cin /\ last \in Nat
<1> SUFFICES ASSUME ContainerInv PROVE Instances!TypeOK /\ 1..last \in SUBSET Cin /\ last \in Nat
  OBVIOUS
<1>1. PICK n \in Nat : Cin = 1..n
  BY InstanceFacts
<1>2. last \in 0..n
  BY <1>1 DEF ContainerInv
<1>3. 1..last \in SUBSET Cin /\ last \in Nat
  BY <1>1, <1>2
<1> QED BY <1>3 DEF ContainerInv, Instances!TypeOK

\* A thread goes on, and is alone if requests do not overlap.
LEMMA RequestGoesOn ==
  ASSUME ContainerInv, NEW t \in Thread, NEW g, request' = [request EXCEPT ![t] = g],
         overlapContainer' = overlapContainer,
         cnt' \in Instances!Attributes, last' \in Cin \cup {0}, last' \in Nat, last <= last',
         stored' \subseteq 1..last', listed' \subseteq 1..last', Fits(g, last'),
         ~overlapContainer => /\ request[t] # Instances!Idle \/ \A u \in Thread : request[u] = Instances!Idle
                              /\ g # Instances!Idle => AtHand(g, cnt', stored', listed')
                              /\ g = Instances!Idle => Whole(cnt', stored') /\ listed' = stored'
  PROVE  ContainerInv'
<1>1. last \in Nat
  BY InvType
<1>2. g \in {Instances!Idle} \cup Instances!State
      /\ request' \in [Thread -> {Instances!Idle} \cup Instances!State]
  BY DEF ContainerInv, Fits
<1>3. \A u \in Thread : request'[u] = IF u = t THEN g ELSE request[u]
  BY DEF ContainerInv
<1>4. \A u \in Thread : Fits(request'[u], last')
  <2> SUFFICES ASSUME NEW u \in Thread, u # t PROVE Fits(request[u], last')
    BY <1>3
  <2>1. Fits(request[u], last) /\ 1..last \subseteq 1..last' /\ 0..last \subseteq 0..last'
    BY <1>1 DEF ContainerInv
  <2> QED BY <2>1 DEF Fits
<1>5. ~overlapContainer => ByItself'
  <2> SUFFICES ASSUME ~overlapContainer PROVE ByItself'
    OBVIOUS
  <2>1. \A u \in Thread : u # t => request'[u] = Instances!Idle
    BY <1>3 DEF ContainerInv, ByItself
  <2>2. request'[t] = g
    BY <1>3
  <2>3. g # Instances!Idle => AtHand(g, cnt', stored', listed')
    OBVIOUS
  <2>4. g = Instances!Idle => Whole(cnt', stored') /\ listed' = stored'
    OBVIOUS
  <2> QED BY <2>1, <2>2, <2>3, <2>4 DEF ByItself
<1> QED BY <1>2, <1>4, <1>5 DEF ContainerInv

LEMMA ContainerInit == Instances!Init => ContainerInv
<1> SUFFICES ASSUME Instances!Init PROVE ContainerInv
  OBVIOUS
<1>1. cnt \in Instances!Attributes /\ Whole(cnt, {})
  <2>1. cnt.cni = 0 /\ cnt.cbs = 0 /\ cnt.mni \in Mni /\ cnt \in Instances!Attributes
    BY DEF Instances!Init, Instances!Attributes
  <2>2. cnt.mni # None => cnt.mni \in Nat
    BY <2>1, ServiceAssumption DEF ServiceAssumption, Instances!ContainerAssumption
  <2>3. Mbs # None => Mbs \in Nat
    BY ServiceAssumption DEF ServiceAssumption, Instances!ContainerAssumption
  <2> QED BY <2>1, <2>2, <2>3, BytesFacts, CountFacts DEF Whole, Exact, Instances!Exceeds
<1>2. overlapContainer \in BOOLEAN
  BY ServiceAssumption DEF Instances!Init, ServiceAssumption, Instances!ContainerAssumption
<1> QED BY <1>1, <1>2 DEF Instances!Init, ContainerInv, Fits, ByItself

\* What the counters are after an instance is added, and after one is removed.
Plus(obj, c) == [obj EXCEPT !.cni = @ + 1, !.cbs = @ + Size[c]]
Minus(obj, c) == [obj EXCEPT !.cni = @ - 1, !.cbs = @ - Size[c]]

LEMMA PlusExact ==
  ASSUME NEW obj \in Instances!Attributes, NEW S \in SUBSET Cin, NEW c \in Cin
  PROVE  /\ Plus(obj, c) \in Instances!Attributes
         /\ c \in S /\ Exact(obj, S \ {c}) => Exact(Plus(obj, c), S)
<1>1. obj.cni \in Int /\ obj.cbs \in Int /\ Size[c] \in Int
  BY InstanceFacts DEF Instances!Attributes
<1>2. Plus(obj, c) \in Instances!Attributes /\ Plus(obj, c).cni = obj.cni + 1
      /\ Plus(obj, c).cbs = obj.cbs + Size[c]
  <2> DEFINE x == obj.cni + 1
             y == obj.cbs + Size[c]
             o == [obj EXCEPT !.cni = x, !.cbs = y]
  <2>1. x \in Int /\ y \in Int
    BY <1>1
  <2>2. Plus(obj, c) = o
    BY Zenon DEF Plus
  <2> HIDE DEF x, y
  <2>3. o \in Instances!Attributes
    BY <2>1, Zenon DEF Instances!Attributes
  <2>4. o.cni = x /\ o.cbs = y
    BY <2>1 DEF Instances!Attributes
  <2> QED BY <2>2, <2>3, <2>4, Zenon DEF x, y
<1>3. ASSUME c \in S, Exact(obj, S \ {c}) PROVE Exact(Plus(obj, c), S)
  <2>1. (S \ {c}) \cup {c} = S /\ S \ {c} \in SUBSET Cin /\ c \in Cin \ (S \ {c})
    BY <1>3
  <2>2. Instances!Cardinality(S) = Instances!Cardinality(S \ {c}) + 1
        /\ Instances!Bytes(S) = Instances!Bytes(S \ {c}) + Size[c]
    BY <2>1, CountFacts, BytesFacts
  <2> QED BY <1>2, <1>3, <2>2 DEF Exact
<1> QED BY <1>2, <1>3

LEMMA Fewer ==
  ASSUME NEW obj \in Instances!Attributes, NEW S \in SUBSET Cin, NEW T \in SUBSET S, ~Instances!Exceeds(obj, S)
  PROVE  ~Instances!Exceeds(obj, T)
<1>1. Instances!Cardinality(T) <= Instances!Cardinality(S) /\ Instances!Cardinality(T) \in Nat
      /\ Instances!Cardinality(S) \in Nat
  BY CountFacts
<1>2. Instances!Bytes(T) <= Instances!Bytes(S) /\ Instances!Bytes(T) \in Nat /\ Instances!Bytes(S) \in Nat
  BY BytesFacts
<1>3. (obj.mni # None => obj.mni \in Nat) /\ (Mbs # None => Mbs \in Nat)
  BY ServiceAssumption DEF ServiceAssumption, Instances!ContainerAssumption,
     Instances!Attributes
<1> QED BY <1>1, <1>2, <1>3 DEF Instances!Exceeds

LEMMA MinusWhole ==
  ASSUME NEW obj \in Instances!Attributes, NEW S \in SUBSET Cin, NEW c \in Cin
  PROVE  /\ Minus(obj, c) \in Instances!Attributes
         /\ c \notin S /\ Whole(obj, S \cup {c}) => Whole(Minus(obj, c), S)
<1>3. obj.cni \in Int /\ obj.cbs \in Int /\ Size[c] \in Int
  BY InstanceFacts DEF Instances!Attributes
<1>4. Minus(obj, c) \in Instances!Attributes /\ Minus(obj, c).cni = obj.cni - 1
      /\ Minus(obj, c).cbs = obj.cbs - Size[c]
      /\ Minus(obj, c).mni = obj.mni
  <2> DEFINE x == obj.cni - 1
             y == obj.cbs - Size[c]
  <2>1. x \in Int /\ y \in Int
    BY <1>3
  <2>2. Minus(obj, c) = [obj EXCEPT !.cni = x, !.cbs = y]
    BY Zenon DEF Minus
  <2> HIDE DEF x, y
  <2> DEFINE o == [obj EXCEPT !.cni = x, !.cbs = y]
  <2>4. o \in Instances!Attributes
    BY <2>1, Zenon DEF Instances!Attributes
  <2>5. o.cni = x /\ o.cbs = y /\ o.mni = obj.mni
    BY <2>1 DEF Instances!Attributes
  <2> HIDE DEF o
  <2>3. Minus(obj, c) \in Instances!Attributes /\ Minus(obj, c).cni = x /\ Minus(obj, c).cbs = y
        /\ Minus(obj, c).mni = obj.mni
    BY <2>2, <2>4, <2>5, Zenon DEF o
  <2> QED BY <2>3 DEF x, y
<1>5. ASSUME c \notin S, Whole(obj, S \cup {c}) PROVE Whole(Minus(obj, c), S)
  <2>1. S \cup {c} \in SUBSET Cin /\ S \in SUBSET (S \cup {c})
    OBVIOUS
  <2>2. Instances!Cardinality(S \cup {c}) = Instances!Cardinality(S) + 1
        /\ Instances!Bytes(S \cup {c}) = Instances!Bytes(S) + Size[c]
        /\ Instances!Cardinality(S) \in Nat /\ Instances!Bytes(S) \in Nat
    BY <1>5, CountFacts, BytesFacts
  <2>3. ~Instances!Exceeds(obj, S)
    BY <1>5, <2>1, Fewer DEF Whole
  <2> QED BY <1>3, <1>4, <1>5, <2>2, <2>3 DEF Whole, Exact, Instances!Exceeds
<1> QED BY <1>4, <1>5

\* What is known of a request that is at work.
LEMMA AtWork ==
  ASSUME ContainerInv, NEW t \in Thread, request[t].pc # "idle"
  PROVE  /\ request[t] # Instances!Idle /\ request[t] \in Instances!State /\ Fits(request[t], last)
         /\ request[t].pc \in Named => request[t].cin \in 1..last /\ request[t].cin \in Cin
         /\ ~overlapContainer => AtHand(request[t], cnt, stored, listed)
<1>1. request[t] # Instances!Idle
  BY DEF Instances!Idle
<1>2. request[t] \in Instances!State /\ Fits(request[t], last)
  BY <1>1 DEF ContainerInv
<1>3. request[t].pc \in Named => request[t].cin \in 1..last
  BY <1>1, <1>2, InvType DEF Fits
<1>4. ~overlapContainer => AtHand(request[t], cnt, stored, listed)
  BY <1>1 DEF ContainerInv, ByItself
<1> QED BY <1>1, <1>2, <1>3, <1>4, InvType

\* A new instance is the one numbered last.
LEMMA InstanceKeeps ==
  ASSUME ContainerInv, NEW t \in Thread, Instances!childWillBeAdded(t), overlapContainer' = overlapContainer
  PROVE  ContainerInv'
<1> DEFINE g == [op |-> "create", pc |-> "insert", cin |-> last + 1, obj |-> cnt, cins |-> {}]
<1>1. last \in Nat /\ last' = last + 1 /\ last' \in Cin /\ last' \in Nat /\ last <= last'
  BY InvType DEF Instances!childWillBeAdded
<1>2. 1..last \subseteq 1..last' /\ last' \notin 1..last /\ last' \in 1..last' /\ last' # 0
  BY <1>1
<1>3. request' = [request EXCEPT ![t] = g] /\ UNCHANGED <<cnt, stored, listed>>
  BY DEF Instances!childWillBeAdded, Instances!Begin
<1>4. g \in Instances!State
  BY <1>1, ServiceAssumption DEF Instances!childWillBeAdded, Instances!MayStart, ContainerInv,
       Instances!State, Instances!Pc, ServiceAssumption, Instances!ContainerAssumption
<1>5. Fits(g, last')
  BY <1>1, <1>2, <1>4 DEF Fits
<1>6. ~overlapContainer => \A u \in Thread : request[u] = Instances!Idle
  BY DEF Instances!childWillBeAdded, Instances!MayStart
<1>7. ~overlapContainer => AtHand(g, cnt', stored', listed')
  <2>1. last' \notin stored
    BY <1>2 DEF ContainerInv
  <2> QED BY <1>1, <1>3, <1>6, <2>1 DEF ContainerInv, ByItself, AtHand, Made
<1>8. g # Instances!Idle
  BY DEF Instances!Idle
<1>9. stored' \subseteq 1..last' /\ listed' \subseteq 1..last' /\ cnt' \in Instances!Attributes
  BY <1>2, <1>3 DEF ContainerInv
<1> HIDE DEF g
<1> QED BY <1>1, <1>3, <1>5, <1>6, <1>7, <1>8, <1>9, RequestGoesOn

\* A request that is at work does its next step.
LEMMA StepKeeps ==
  ASSUME ContainerInv, NEW t \in Thread, request[t].pc # "idle", NEW g, g # Instances!Idle, Fits(g, last),
         request' = [request EXCEPT ![t] = g], overlapContainer' = overlapContainer, last' = last,
         cnt' \in Instances!Attributes, stored' \subseteq 1..last, listed' \subseteq 1..last,
         ~overlapContainer => AtHand(g, cnt', stored', listed')
  PROVE  ContainerInv'
<1>1. last \in Nat /\ last \in Cin \cup {0}
  BY InvType DEF ContainerInv
<1>2. /\ last' \in Cin \cup {0} /\ last' \in Nat /\ last <= last'
      /\ stored' \subseteq 1..last' /\ listed' \subseteq 1..last' /\ Fits(g, last')
  BY <1>1
<1>3. request[t] # Instances!Idle
  BY AtWork
<1> QED BY <1>2, <1>3, RequestGoesOn

\* A request ends.
LEMMA FinishKeeps ==
  ASSUME ContainerInv, NEW t \in Thread, request[t].pc # "idle", Instances!Finish(t),
         overlapContainer' = overlapContainer, last' = last, cnt' \in Instances!Attributes,
         stored' \subseteq 1..last, listed' \subseteq 1..last,
         ~overlapContainer => Whole(cnt', stored') /\ listed' = stored'
  PROVE  ContainerInv'
<1>1. last \in Nat /\ last \in Cin \cup {0} /\ Fits(Instances!Idle, last)
  BY InvType DEF ContainerInv, Fits
<1>2. request' = [request EXCEPT ![t] = Instances!Idle]
  BY DEF Instances!Finish
<1>3. /\ last' \in Cin \cup {0} /\ last' \in Nat /\ last <= last'
      /\ stored' \subseteq 1..last' /\ listed' \subseteq 1..last' /\ Fits(Instances!Idle, last')
  BY <1>1
<1>4. request[t] # Instances!Idle
  BY AtWork
<1> QED BY <1>2, <1>3, <1>4, RequestGoesOn

\* What a request that goes on has.
Same(g, f) == g.op = f.op /\ g.cin = f.cin /\ g.obj = f.obj /\ g.cins = f.cins

LEMMA GoesTo ==
  ASSUME ContainerInv, NEW t \in Thread, request[t].pc # "idle", NEW pc \in Instances!Pc, Instances!Goto(t, pc),
         pc \in Named => request[t].pc \in Named
  PROVE  \E g \in Instances!State : /\ g.pc = pc /\ Same(g, request[t])
                                    /\ request' = [request EXCEPT ![t] = g] /\ g # Instances!Idle
                                       /\ Fits(g, last)
<1> DEFINE f == request[t]
           g == [f EXCEPT !.pc = pc]
<1>1. f \in Instances!State /\ Fits(f, last) /\ f # Instances!Idle
      /\ request \in [Thread -> {Instances!Idle} \cup Instances!State]
  BY AtWork DEF ContainerInv
<1>2. g \in Instances!State /\ g.pc = pc /\ Same(g, f)
  BY <1>1 DEF Instances!State, Same
<1>3. g # Instances!Idle /\ Fits(g, last)
  BY <1>1, <1>2 DEF Instances!Idle, Instances!Pc, Fits, Same
<1>4. request' = [request EXCEPT ![t] = g]
  BY <1>1 DEF Instances!Goto
<1> HIDE DEF g
<1> QED BY <1>2, <1>3, <1>4

\* The creation of an instance in the two tables.
LEMMA CreateKeeps ==
  ASSUME ContainerInv, NEW t \in Thread, Instances!createResource(t), overlapContainer' = overlapContainer
  PROVE  ContainerInv'
<1>1. CASE Instances!At(t, "insert")
  <2>1. /\ stored' = stored \cup {request[t].cin} /\ Instances!Goto(t, "link")
           /\ UNCHANGED <<cnt, listed, last>>
    BY <1>1 DEF Instances!createResource, Instances!At
  <2>2. request[t].pc = "insert"
    BY <1>1 DEF Instances!At
  <2>3. /\ request[t] \in Instances!State /\ request[t].cin \in 1..last /\ request[t].cins \subseteq 1..last
        /\ ~overlapContainer => AtHand(request[t], cnt, stored, listed)
    BY <2>2, AtWork DEF Named, Fits
  <2>4. PICK g \in Instances!State : /\ g.pc = "link" /\ Same(g, request[t])
                                     /\ request' = [request EXCEPT ![t] = g] /\ g # Instances!Idle
                                        /\ Fits(g, last)
    BY <2>1, <2>2, GoesTo DEF Instances!Pc, Named, Made
  <2>5. ~overlapContainer => AtHand(g, cnt', stored', listed')
    BY <2>1, <2>2, <2>3, <2>4 DEF AtHand, Made, Whole, Same
  <2>6. stored' \subseteq 1..last /\ listed' \subseteq 1..last /\ cnt' \in Instances!Attributes
    BY <2>1, <2>3 DEF ContainerInv
  <2> QED BY <2>1, <2>2, <2>4, <2>5, <2>6, StepKeeps
<1>2. CASE Instances!At(t, "link")
  <2>1. /\ listed' = listed \cup {request[t].cin} /\ Instances!Goto(t, "activate")
           /\ UNCHANGED <<cnt, stored, last>>
    BY <1>2 DEF Instances!createResource, Instances!At
  <2>2. request[t].pc = "link"
    BY <1>2 DEF Instances!At
  <2>3. /\ request[t] \in Instances!State /\ request[t].cin \in 1..last /\ request[t].cins \subseteq 1..last
        /\ ~overlapContainer => AtHand(request[t], cnt, stored, listed)
    BY <2>2, AtWork DEF Named, Fits
  <2>4. PICK g \in Instances!State : /\ g.pc = "activate" /\ Same(g, request[t])
                                     /\ request' = [request EXCEPT ![t] = g] /\ g # Instances!Idle
                                        /\ Fits(g, last)
    BY <2>1, <2>2, GoesTo DEF Instances!Pc, Named, Made
  <2>5. ~overlapContainer => AtHand(g, cnt', stored', listed')
    <3>1. ~overlapContainer => stored = listed \cup {g.cin} /\ g.cin \notin listed /\ Exact(cnt, listed)
      BY <2>2, <2>3, <2>4 DEF AtHand, Same
    <3>2. ~overlapContainer => stored \ {g.cin} = listed
      BY <3>1
    <3> QED BY <2>1, <2>4, <3>1, <3>2 DEF AtHand, Made, Same
  <2>6. stored' \subseteq 1..last /\ listed' \subseteq 1..last /\ cnt' \in Instances!Attributes
    BY <2>1, <2>3 DEF ContainerInv
  <2> QED BY <2>1, <2>2, <2>4, <2>5, <2>6, StepKeeps
<1> QED BY <1>1, <1>2 DEF Instances!createResource

\* The instance is written again.
LEMMA UpdateResourceKeeps ==
  ASSUME ContainerInv, NEW t \in Thread, Instances!updateResource(t), overlapContainer' = overlapContainer
  PROVE  ContainerInv'
<1>1. request[t].pc \in {"activate", "store"} /\ UNCHANGED <<cnt, stored, listed, last>>
  BY DEF Instances!updateResource, Instances!At
<1>2. ~overlapContainer => AtHand(request[t], cnt, stored, listed)
  BY <1>1, AtWork
<1>3. cnt' \in Instances!Attributes /\ stored' \subseteq 1..last /\ listed' \subseteq 1..last
  BY <1>1 DEF ContainerInv
<1>4. CASE request[t].cin \in stored
  <2> DEFINE pc == IF Instances!At(t, "activate") THEN "reload" ELSE "reloadParent"
  <2>1. Instances!Goto(t, pc) /\ pc \in {"reload", "reloadParent"}
    BY <1>4 DEF Instances!updateResource
  <2> HIDE DEF pc
  <2>2. PICK g \in Instances!State : /\ g.pc = pc /\ Same(g, request[t])
                                     /\ request' = [request EXCEPT ![t] = g] /\ g # Instances!Idle
                                        /\ Fits(g, last)
    BY <1>1, <2>1, GoesTo DEF Instances!Pc, Named, Made
  <2>3. ~overlapContainer => AtHand(g, cnt', stored', listed')
    BY <1>1, <1>2, <2>1, <2>2 DEF AtHand, Made, Same
  <2> QED BY <1>1, <1>3, <2>2, <2>3, StepKeeps
<1>5. CASE request[t].cin \notin stored
  <2>1. Instances!Finish(t) /\ overlapContainer
    BY <1>1, <1>2, <1>5 DEF Instances!updateResource, AtHand, Made
  <2> QED BY <1>1, <1>3, <2>1, FinishKeeps
<1> QED BY <1>4, <1>5

\* The container is read again.
LEMMA ReloadKeeps ==
  ASSUME ContainerInv, NEW t \in Thread, Instances!dbReload(t), overlapContainer' = overlapContainer
  PROVE  ContainerInv'
<1> DEFINE f == request[t]
           g == [f EXCEPT !.obj = cnt, !.pc = IF Instances!At(t, "reload") THEN "tag" ELSE "added"]
<1>1. f.pc \in {"reload", "reloadParent"} /\ UNCHANGED <<cnt, stored, listed, last>>
  BY DEF Instances!dbReload, Instances!At
<1>2. /\ f \in Instances!State /\ Fits(f, last) /\ (~overlapContainer => AtHand(f, cnt, stored, listed))
      /\ request \in [Thread -> {Instances!Idle} \cup Instances!State] /\ f # Instances!Idle
  BY <1>1, AtWork DEF ContainerInv
<1>3. cnt' \in Instances!Attributes /\ stored' \subseteq 1..last /\ listed' \subseteq 1..last
      /\ cnt \in Instances!Attributes
  BY <1>1 DEF ContainerInv
<1>4. g \in Instances!State /\ g.pc \in {"tag", "added"} /\ g.op = f.op /\ g.cin = f.cin /\ g.obj = cnt
      /\ g.cins = f.cins
  BY <1>2, <1>3 DEF Instances!State, Instances!Pc
<1>5. request' = [request EXCEPT ![t] = g]
  BY <1>2 DEF Instances!dbReload
<1> HIDE DEF g
<1>6. g # Instances!Idle /\ Fits(g, last)
  BY <1>1, <1>2, <1>4 DEF Instances!Idle, Fits, Named, Made
<1>7. ~overlapContainer => AtHand(g, cnt', stored', listed')
  BY <1>1, <1>2, <1>4 DEF AtHand, Made
<1> QED BY <1>1, <1>3, <1>5, <1>6, <1>7, StepKeeps

\* The stateTag is incremented.
LEMMA TagType ==
  ASSUME NEW obj \in Instances!Attributes
  PROVE  /\ [obj EXCEPT !.st = @ + 1] \in Instances!Attributes
         /\ \A S : /\ Exact([obj EXCEPT !.st = @ + 1], S) <=> Exact(obj, S)
                   /\ Whole([obj EXCEPT !.st = @ + 1], S) <=> Whole(obj, S)
BY DEF Instances!Attributes, Exact, Whole, Instances!Exceeds

LEMMA ActivateKeeps ==
  ASSUME ContainerInv, NEW t \in Thread, Instances!activate(t), overlapContainer' = overlapContainer
  PROVE  ContainerInv'
<1>1. request[t].pc = "tag" /\ Instances!Goto(t, "store") /\ UNCHANGED <<stored, listed, last>>
  BY DEF Instances!activate, Instances!At
<1>2. ~overlapContainer => AtHand(request[t], cnt, stored, listed)
  BY <1>1, AtWork
<1>3. cnt' = [request[t].obj EXCEPT !.st = @ + 1] /\ request[t].obj \in Instances!Attributes
  BY <1>1, AtWork DEF Instances!activate, Instances!Write, Instances!State
<1>4. cnt' \in Instances!Attributes /\ stored' \subseteq 1..last /\ listed' \subseteq 1..last
  BY <1>1, <1>3, TagType DEF ContainerInv
<1>5. PICK g \in Instances!State : /\ g.pc = "store" /\ Same(g, request[t])
                                   /\ request' = [request EXCEPT ![t] = g] /\ g # Instances!Idle
                                      /\ Fits(g, last)
  BY <1>1, GoesTo DEF Instances!Pc, Named, Made
<1>6. ~overlapContainer => AtHand(g, cnt', stored', listed')
  <2> SUFFICES ASSUME ~overlapContainer PROVE AtHand(g, cnt', stored', listed')
    OBVIOUS
  <2>1. /\ Exact(cnt, stored \ {request[t].cin}) /\ request[t].cin \in stored /\ listed = stored
        /\ request[t].obj = cnt
    BY <1>1, <1>2 DEF AtHand, Made
  <2>2. Exact(cnt', stored \ {request[t].cin})
    BY <1>3, <2>1, TagType
  <2> QED BY <1>1, <1>5, <2>1, <2>2 DEF AtHand, Made, Same
<1> QED BY <1>1, <1>4, <1>5, <1>6, StepKeeps

\* The instance is counted.
LEMMA AddedKeeps ==
  ASSUME ContainerInv, NEW t \in Thread, Instances!instanceAdded(t), overlapContainer' = overlapContainer
  PROVE  ContainerInv'
<1> DEFINE f == request[t]
           obj == Plus(f.obj, f.cin)
           g == [f EXCEPT !.obj = obj, !.pc = IF Instances!Limited(obj) THEN "list" ELSE "rewrite"]
<1>1. /\ f.pc = "added" /\ cnt' = obj /\ UNCHANGED <<stored, listed, last>>
      /\ request' = [request EXCEPT ![t].obj = obj, ![t].pc = IF Instances!Limited(obj) THEN "list" ELSE "rewrite"]
  BY DEF Instances!instanceAdded, Instances!At, Instances!Write, Plus
<1>2. /\ f \in Instances!State /\ Fits(f, last) /\ (~overlapContainer => AtHand(f, cnt, stored, listed))
      /\ request \in [Thread -> {Instances!Idle} \cup Instances!State] /\ f # Instances!Idle
         /\ f.obj \in Instances!Attributes /\ f.cin \in Cin
  BY <1>1, AtWork DEF ContainerInv, Instances!State, Named, Made
<1>3. stored \in SUBSET Cin
  BY InvType DEF Instances!TypeOK
<1>4. obj \in Instances!Attributes
  BY <1>2, <1>3, PlusExact
<1>5. ~overlapContainer => Exact(obj, stored) /\ listed = stored
  <2> SUFFICES ASSUME ~overlapContainer PROVE Exact(obj, stored) /\ listed = stored
    OBVIOUS
  <2>1. f.cin \in stored /\ Exact(f.obj, stored \ {f.cin}) /\ listed = stored
    BY <1>1, <1>2 DEF AtHand, Made
  <2> QED BY <1>2, <1>3, <2>1, PlusExact
<1> HIDE DEF obj
<1>6. cnt' \in Instances!Attributes /\ stored' \subseteq 1..last /\ listed' \subseteq 1..last
  BY <1>1, <1>4 DEF ContainerInv
<1>7. /\ g \in Instances!State /\ g.pc = IF Instances!Limited(obj) THEN "list" ELSE "rewrite"
      /\ g.op = f.op /\ g.cin = f.cin /\ g.obj = obj /\ g.cins = f.cins
  BY <1>2, <1>4 DEF Instances!State, Instances!Pc
<1>8. request' = [request EXCEPT ![t] = g]
  BY <1>1, <1>2
<1> HIDE DEF g
<1>9. g # Instances!Idle /\ Fits(g, last)
  BY <1>1, <1>2, <1>7 DEF Instances!Idle, Fits, Named, Made
<1>10. ~overlapContainer => AtHand(g, cnt', stored', listed')
  BY <1>1, <1>5, <1>7 DEF AtHand, Made, Whole, Instances!Exceeds, Instances!Limited
<1> QED BY <1>1, <1>6, <1>8, <1>9, <1>10, StepKeeps

\* The instances are listed, and fetched.
LEMMA ListKeeps ==
  ASSUME ContainerInv, NEW t \in Thread, Instances!directChildResources(t), overlapContainer' = overlapContainer
  PROVE  ContainerInv'
<1>1. request[t].pc \in {"list", "fetch"} /\ UNCHANGED <<cnt, stored, listed, last>>
  BY DEF Instances!directChildResources, Instances!At
<1>2. ~overlapContainer => AtHand(request[t], cnt, stored, listed)
  BY <1>1, AtWork
<1>3. cnt' \in Instances!Attributes /\ stored' \subseteq 1..last /\ listed' \subseteq 1..last
  BY <1>1 DEF ContainerInv
<1>4. CASE request[t].pc = "list"
  <2> DEFINE f == request[t]
             g == [f EXCEPT !.cins = listed, !.pc = "fetch"]
  <2>1. f \in Instances!State /\ Fits(f, last)
        /\ request \in [Thread -> {Instances!Idle} \cup Instances!State] /\ f # Instances!Idle
    BY <1>1, AtWork DEF ContainerInv
  <2>2. listed \in SUBSET Cin /\ listed \subseteq 1..last
    BY InvType DEF Instances!TypeOK, ContainerInv
  <2>3. g \in Instances!State /\ g.pc = "fetch" /\ g.cin = f.cin /\ g.cins = listed
    BY <2>1, <2>2 DEF Instances!State, Instances!Pc
  <2>4. request' = [request EXCEPT ![t] = g]
    BY <1>4, <2>1 DEF Instances!directChildResources, Instances!At
  <2> HIDE DEF g
  <2>5. g # Instances!Idle /\ Fits(g, last)
    BY <2>1, <2>2, <2>3 DEF Instances!Idle, Fits, Named, Made
  <2>6. ~overlapContainer => AtHand(g, cnt', stored', listed')
    BY <1>1, <1>2, <1>4, <2>3 DEF AtHand, Made
  <2> QED BY <1>1, <1>3, <2>4, <2>5, <2>6, StepKeeps
<1>5. CASE request[t].pc = "fetch" /\ request[t].cins \subseteq stored
  <2>1. Instances!Goto(t, "evict")
    BY <1>5 DEF Instances!directChildResources, Instances!At
  <2>2. PICK g \in Instances!State : /\ g.pc = "evict" /\ Same(g, request[t])
                                     /\ request' = [request EXCEPT ![t] = g] /\ g # Instances!Idle
                                        /\ Fits(g, last)
    BY <1>1, <2>1, GoesTo DEF Instances!Pc, Named, Made
  <2>3. ~overlapContainer => AtHand(g, cnt', stored', listed')
    BY <1>1, <1>2, <1>5, <2>2 DEF AtHand, Made, Same
  <2> QED BY <1>1, <1>3, <2>2, <2>3, StepKeeps
<1>6. CASE request[t].pc = "fetch" /\ ~(request[t].cins \subseteq stored)
  <2>1. Instances!Finish(t) /\ overlapContainer
    BY <1>2, <1>6 DEF Instances!directChildResources, Instances!At, AtHand
  <2> QED BY <1>1, <1>3, <2>1, FinishKeeps
<1> QED BY <1>1, <1>4, <1>5, <1>6

\* The oldest of some instances is one of them, and without instances no limit is exceeded.
LEMMA MinIn ==
  ASSUME NEW S \in SUBSET Cin, S # {}
  PROVE  Instances!Min(S) \in S /\ \A y \in S : Instances!Min(S) <= y
<1>1. S \in SUBSET Nat
  BY InstanceFacts
<1>2. \E x \in S : \A y \in S : x <= y
  BY <1>1, Least
<1> QED BY <1>2 DEF Instances!Min

LEMMA NoneLeft == ASSUME NEW obj \in Instances!Attributes PROVE ~Instances!Exceeds(obj, {})
<1>1. (obj.mni # None => obj.mni \in Nat) /\ (Mbs # None => Mbs \in Nat)
  BY ServiceAssumption DEF ServiceAssumption, Instances!ContainerAssumption,
     Instances!Attributes
<1> QED BY <1>1, BytesFacts, CountFacts DEF Instances!Exceeds

\* The oldest instances are removed, and the counters set from what is left.
LEMMA EvictKeeps ==
  ASSUME ContainerInv, NEW t \in Thread, Instances!_validateChildren(t), overlapContainer' = overlapContainer
  PROVE  ContainerInv'
<1> DEFINE f == request[t]
<1>1. f.pc \in {"evict", "unlink", "write"} /\ last' = last
  BY DEF Instances!_validateChildren, Instances!At
<1>2. /\ f \in Instances!State /\ Fits(f, last) /\ (~overlapContainer => AtHand(f, cnt, stored, listed))
      /\ request \in [Thread -> {Instances!Idle} \cup Instances!State] /\ f # Instances!Idle
         /\ f.obj \in Instances!Attributes
      /\ f.cins \in SUBSET Cin /\ f.cins \subseteq 1..last
  BY <1>1, AtWork DEF ContainerInv, Instances!State, Fits
<1>3. cnt \in Instances!Attributes /\ stored \subseteq 1..last /\ listed \subseteq 1..last
  BY DEF ContainerInv
<1>4. CASE f.pc = "evict" /\ Instances!Exceeds(f.obj, f.cins) /\ Instances!Oldest(t) \in stored
  <2>1. /\ Instances!Goto(t, "unlink") /\ stored' = stored \ {Instances!Oldest(t)} /\ UNCHANGED <<cnt, listed>>
    BY <1>4 DEF Instances!_validateChildren, Instances!At, Instances!Goto
  <2>2. PICK g \in Instances!State : /\ g.pc = "unlink" /\ Same(g, f)
                                     /\ request' = [request EXCEPT ![t] = g] /\ g # Instances!Idle
                                        /\ Fits(g, last)
    BY <1>1, <2>1, GoesTo DEF Instances!Pc, Named, Made
  <2>3. f.cins # {}
    BY <1>2, <1>4, NoneLeft
  <2>4. ~overlapContainer => f.cins = stored /\ listed = stored
    BY <1>2, <1>4 DEF AtHand
  <2>5. ~overlapContainer => AtHand(g, cnt', stored', listed')
    BY <2>1, <2>2, <2>3, <2>4 DEF AtHand, Made, Same, Instances!Oldest
  <2>6. cnt' \in Instances!Attributes /\ stored' \subseteq 1..last /\ listed' \subseteq 1..last
    BY <1>3, <2>1
  <2> QED BY <1>1, <2>2, <2>5, <2>6, StepKeeps
<1>5. CASE f.pc = "evict" /\ Instances!Exceeds(f.obj, f.cins) /\ Instances!Oldest(t) \notin stored
  <2> DEFINE g == [f EXCEPT !.cins = Instances!Drop(t)]
  <2>1. /\ request' = [request EXCEPT ![t].cins = Instances!Drop(t)]
        /\ stored' = stored \ {Instances!Oldest(t)} /\ UNCHANGED <<cnt, listed>>
    BY <1>5 DEF Instances!_validateChildren, Instances!At
  <2>2. f.cins # {} /\ Instances!Oldest(t) \in f.cins
    BY <1>2, <1>5, NoneLeft, MinIn DEF Instances!Oldest
  <2>3. overlapContainer
    BY <1>2, <1>5, <2>2 DEF AtHand, ContainerInv
  <2>4. Instances!Drop(t) \in SUBSET Cin /\ Instances!Drop(t) \subseteq 1..last
    BY <1>2 DEF Instances!Drop
  <2>5. request' = [request EXCEPT ![t] = g]
    BY <1>2, <2>1
  <2>6. g \in Instances!State /\ g.pc = "evict" /\ g.cin = f.cin /\ g.cins = Instances!Drop(t)
    BY <1>2, <1>5, <2>4 DEF Instances!State
  <2> HIDE DEF g
  <2>7. g # Instances!Idle /\ Fits(g, last)
    BY <1>2, <2>4, <2>6 DEF Instances!Idle, Fits, Named, Made
  <2>8. cnt' \in Instances!Attributes /\ stored' \subseteq 1..last /\ listed' \subseteq 1..last
    BY <1>3, <2>1
  <2> QED BY <1>1, <2>3, <2>5, <2>7, <2>8, StepKeeps
<1>6. CASE f.pc = "unlink"
  <2> DEFINE g == [f EXCEPT !.cins = Instances!Drop(t), !.pc = "evict"]
  <2>1. /\ request' = [request EXCEPT ![t].cins = Instances!Drop(t), ![t].pc = "evict"]
        /\ listed' = listed \ {Instances!Oldest(t)} /\ UNCHANGED <<cnt, stored>>
    BY <1>6 DEF Instances!_validateChildren, Instances!At
  <2>2. Instances!Drop(t) \in SUBSET Cin /\ Instances!Drop(t) \subseteq 1..last
    BY <1>2 DEF Instances!Drop
  <2>3. request' = [request EXCEPT ![t] = g]
    BY <1>2, <2>1
  <2>4. g \in Instances!State /\ g.pc = "evict" /\ g.cin = f.cin /\ g.cins = Instances!Drop(t)
    BY <1>2, <2>2 DEF Instances!State, Instances!Pc
  <2> HIDE DEF g
  <2>5. g # Instances!Idle /\ Fits(g, last)
    BY <1>2, <2>2, <2>4 DEF Instances!Idle, Fits, Named, Made
  <2>6. ~overlapContainer => f.cins # {} /\ listed = f.cins /\ stored = f.cins \ {Instances!Min(f.cins)}
    BY <1>2, <1>6 DEF AtHand
  <2>7. ~overlapContainer => Instances!Drop(t) = stored /\ listed' = stored'
    BY <2>1, <2>6 DEF Instances!Drop, Instances!Oldest
  <2>8. ~overlapContainer => AtHand(g, cnt', stored', listed')
    BY <2>1, <2>4, <2>7 DEF AtHand, Made
  <2>9. cnt' \in Instances!Attributes /\ stored' \subseteq 1..last /\ listed' \subseteq 1..last
    BY <1>3, <2>1
  <2> QED BY <1>1, <2>3, <2>5, <2>8, <2>9, StepKeeps
<1>7. CASE f.pc = "evict" /\ ~Instances!Exceeds(f.obj, f.cins)
  <2> DEFINE n == Instances!Cardinality(f.cins)
             b == Instances!Bytes(f.cins)
             o == [f.obj EXCEPT !.cni = n, !.cbs = b]
             g == [f EXCEPT !.pc = "write", !.obj = o]
  <2>1. /\ request' = [request EXCEPT ![t].pc = "write", ![t].obj.cni = n, ![t].obj.cbs = b]
        /\ UNCHANGED <<cnt, stored, listed>>
    BY <1>7 DEF Instances!_validateChildren, Instances!At
  <2>2. n \in Int /\ b \in Int
    BY <1>2, CountFacts, BytesFacts
  <2> HIDE DEF n, b
  <2>3. o \in Instances!Attributes
    BY <1>2, <2>2, Zenon DEF Instances!Attributes
  <2>4. o.cni = n /\ o.cbs = b /\ o.mni = f.obj.mni
    BY <1>2, <2>2 DEF Instances!Attributes
  <2>5. request' = [request EXCEPT ![t] = g]
    BY <1>2, <2>1 DEF Instances!State, Instances!Attributes
  <2> HIDE DEF o
  <2>6. g \in Instances!State /\ g.pc = "write" /\ g.cin = f.cin /\ g.cins = f.cins /\ g.obj = o
    BY <1>2, <2>3 DEF Instances!State, Instances!Pc
  <2> HIDE DEF g
  <2>7. g # Instances!Idle /\ Fits(g, last)
    BY <1>2, <2>6 DEF Instances!Idle, Fits, Named, Made
  <2>8. Whole(o, f.cins)
    BY <1>7, <2>4 DEF Whole, Exact, Instances!Exceeds, n, b
  <2>9. ~overlapContainer => AtHand(g, cnt', stored', listed')
    BY <1>2, <1>7, <2>1, <2>6, <2>8 DEF AtHand, Made
  <2>10. cnt' \in Instances!Attributes /\ stored' \subseteq 1..last /\ listed' \subseteq 1..last
    BY <1>3, <2>1
  <2> QED BY <1>1, <2>5, <2>7, <2>9, <2>10, StepKeeps
<1>8. CASE f.pc = "write"
  <2>1. cnt' = f.obj /\ UNCHANGED <<stored, listed>>
    BY <1>8 DEF Instances!_validateChildren, Instances!At, Instances!Write
  <2>2. cnt' \in Instances!Attributes /\ stored' \subseteq 1..last /\ listed' \subseteq 1..last
    BY <1>2, <1>3, <2>1
  <2>3. ~overlapContainer => Whole(cnt', stored') /\ listed' = stored'
    BY <1>2, <1>8, <2>1 DEF AtHand
  <2>4. CASE f.op = "update"
    <3>1. Instances!Goto(t, "rewrite")
      BY <1>8, <2>4 DEF Instances!_validateChildren, Instances!At
    <3>2. PICK g \in Instances!State : /\ g.pc = "rewrite" /\ Same(g, f)
                                       /\ request' = [request EXCEPT ![t] = g] /\ g # Instances!Idle
                                          /\ Fits(g, last)
      BY <1>1, <3>1, GoesTo DEF Instances!Pc, Named, Made
    <3>3. ~overlapContainer => AtHand(g, cnt', stored', listed')
      BY <2>1, <2>3, <3>2 DEF AtHand, Made, Same
    <3> QED BY <1>1, <2>2, <3>2, <3>3, StepKeeps
  <2>5. CASE f.op # "update"
    <3>1. Instances!Finish(t)
      BY <1>8, <2>5 DEF Instances!_validateChildren, Instances!At
    <3> QED BY <1>1, <2>2, <2>3, <3>1, FinishKeeps
  <2> QED BY <2>4, <2>5
<1> QED BY <1>1, <1>4, <1>5, <1>6, <1>7, <1>8

\* The object is written once more.
LEMMA DbUpdateKeeps ==
  ASSUME ContainerInv, NEW t \in Thread, Instances!dbUpdate(t), overlapContainer' = overlapContainer
  PROVE  ContainerInv'
<1> DEFINE f == request[t]
<1>1. f.pc = "rewrite" /\ cnt' = f.obj /\ UNCHANGED <<stored, listed, last>>
  BY DEF Instances!dbUpdate, Instances!At, Instances!Write
<1>2. f \in Instances!State /\ f.obj \in Instances!Attributes
      /\ (~overlapContainer => AtHand(f, cnt, stored, listed))
  BY <1>1, AtWork DEF Instances!State
<1>3. cnt' \in Instances!Attributes /\ stored' \subseteq 1..last /\ listed' \subseteq 1..last
  BY <1>1, <1>2 DEF ContainerInv
<1>4. ~overlapContainer => Whole(cnt', stored') /\ listed' = stored'
  BY <1>1, <1>2 DEF AtHand
<1>5. CASE f.op = "update"
  <2>1. Instances!Goto(t, "updated")
    BY <1>5 DEF Instances!dbUpdate
  <2>2. PICK g \in Instances!State : /\ g.pc = "updated" /\ Same(g, f)
                                     /\ request' = [request EXCEPT ![t] = g] /\ g # Instances!Idle
                                        /\ Fits(g, last)
    BY <1>1, <2>1, GoesTo DEF Instances!Pc, Named, Made
  <2>3. ~overlapContainer => AtHand(g, cnt', stored', listed')
    BY <1>1, <1>4, <2>2 DEF AtHand, Made, Same
  <2> QED BY <1>1, <1>3, <2>2, <2>3, StepKeeps
<1>6. CASE f.op # "update"
  <2>1. Instances!Finish(t)
    BY <1>6 DEF Instances!dbUpdate
  <2> QED BY <1>1, <1>3, <1>4, <2>1, FinishKeeps
<1> QED BY <1>5, <1>6

\* UPDATE of maxNrOfInstances.
LEMMA LimitKeeps ==
  ASSUME ContainerInv, NEW t \in Thread, NEW m \in Mni, Instances!processUpdateRequest(t, m),
         overlapContainer' = overlapContainer
  PROVE  ContainerInv'
<1> DEFINE obj == [cnt EXCEPT !.mni = m]
           pc == IF Instances!Limited(obj) THEN "list" ELSE "write"
           g == [op |-> "update", pc |-> pc, cin |-> 0, obj |-> obj, cins |-> {}]
<1>1. /\ request' = [request EXCEPT ![t] = g] /\ UNCHANGED <<cnt, stored, listed, last>>
         /\ Instances!MayStart(t, "update")
  BY DEF Instances!processUpdateRequest, Instances!Begin
<1>2. obj \in Instances!Attributes /\ obj.cni = cnt.cni /\ obj.cbs = cnt.cbs
  BY DEF ContainerInv, Instances!Attributes
<1>3. ~overlapContainer => \A u \in Thread : request[u] = Instances!Idle
  BY <1>1 DEF Instances!MayStart
<1>4. ~overlapContainer => Exact(obj, stored) /\ listed = stored
  BY <1>2, <1>3 DEF ContainerInv, ByItself, Whole, Exact
<1>5. pc \in {"list", "write"} /\ (pc = "write" => ~Instances!Limited(obj))
  OBVIOUS
<1> HIDE DEF obj, pc
<1>6. "update" \in Op
  BY <1>1, ServiceAssumption DEF Instances!MayStart, ServiceAssumption, Instances!ContainerAssumption
<1>7. g \in Instances!State /\ g.pc = pc /\ g.cin = 0 /\ g.cins = {} /\ g.obj = obj
  BY <1>2, <1>5, <1>6 DEF Instances!State, Instances!Pc
<1>8. g # Instances!Idle
  BY DEF Instances!Idle
<1> HIDE DEF g
<1>9. last \in Nat /\ last \in Cin \cup {0} /\ last' = last
  BY <1>1, InvType DEF ContainerInv
<1>10. Fits(g, last')
  BY <1>5, <1>7, <1>9 DEF Fits, Named, Made
<1>11. ~overlapContainer => AtHand(g, cnt', stored', listed')
  BY <1>1, <1>4, <1>5, <1>7 DEF AtHand, Made, Whole, Instances!Exceeds, Instances!Limited
<1>12. /\ last' \in Cin \cup {0} /\ last' \in Nat /\ last <= last' /\ cnt' \in Instances!Attributes
       /\ stored' \subseteq 1..last' /\ listed' \subseteq 1..last'
  BY <1>1, <1>9 DEF ContainerInv
<1> QED BY <1>1, <1>3, <1>8, <1>10, <1>11, <1>12, RequestGoesOn

LEMMA UpdatedKeeps ==
  ASSUME ContainerInv, NEW t \in Thread, Instances!update(t), overlapContainer' = overlapContainer
  PROVE  ContainerInv'
<1> DEFINE f == request[t]
<1>1. f.pc = "updated" /\ cnt' = [f.obj EXCEPT !.st = @ + 1] /\ UNCHANGED <<stored, listed, last>>
      /\ Instances!Finish(t)
  BY DEF Instances!update, Instances!At, Instances!Write
<1>2. f \in Instances!State /\ f.obj \in Instances!Attributes
      /\ (~overlapContainer => AtHand(f, cnt, stored, listed))
  BY <1>1, AtWork DEF Instances!State
<1>3. cnt' \in Instances!Attributes
  BY <1>1, <1>2, TagType
<1>4. ~overlapContainer => Whole(f.obj, stored) /\ listed = stored
  BY <1>1, <1>2 DEF AtHand, Made
<1>5. ~overlapContainer => Whole(cnt', stored') /\ listed' = stored'
  BY <1>1, <1>2, <1>4, TagType
<1>6. stored' \subseteq 1..last /\ listed' \subseteq 1..last
  BY <1>1 DEF ContainerInv
<1> QED BY <1>1, <1>3, <1>5, <1>6, FinishKeeps

\* DELETE of an instance.
LEMMA DeleteKeeps ==
  ASSUME ContainerInv, NEW t \in Thread, NEW c \in stored, Instances!deleteLocalResource(t, c),
         overlapContainer' = overlapContainer
  PROVE  ContainerInv'
<1> DEFINE g == [op |-> "delete", pc |-> "remove", cin |-> c, obj |-> cnt, cins |-> {}]
<1>1. /\ request' = [request EXCEPT ![t] = g] /\ UNCHANGED <<cnt, stored, listed, last>>
         /\ Instances!MayStart(t, "delete")
  BY DEF Instances!deleteLocalResource, Instances!Begin
<1>2. ~overlapContainer => \A u \in Thread : request[u] = Instances!Idle
  BY <1>1 DEF Instances!MayStart
<1>3. ~overlapContainer => Whole(cnt, stored) /\ listed = stored
  BY <1>2 DEF ContainerInv, ByItself
<1>4. "delete" \in Op
  BY <1>1, ServiceAssumption DEF Instances!MayStart, ServiceAssumption, Instances!ContainerAssumption
<1>5. last \in Nat /\ last \in Cin \cup {0} /\ last' = last /\ c \in 1..last /\ c \in Cin
      /\ cnt \in Instances!Attributes
  BY <1>1, InvType DEF ContainerInv
<1>6. g \in Instances!State /\ g.pc = "remove" /\ g.cin = c /\ g.cins = {} /\ g.obj = cnt
  BY <1>4, <1>5 DEF Instances!State, Instances!Pc
<1>7. g # Instances!Idle
  BY DEF Instances!Idle
<1> HIDE DEF g
<1>8. Fits(g, last')
  BY <1>5, <1>6 DEF Fits, Named, Made
<1>9. ~overlapContainer => AtHand(g, cnt', stored', listed')
  BY <1>1, <1>3, <1>6 DEF AtHand, Made
<1>10. /\ last' \in Cin \cup {0} /\ last' \in Nat /\ last <= last' /\ cnt' \in Instances!Attributes
       /\ stored' \subseteq 1..last' /\ listed' \subseteq 1..last'
  BY <1>1, <1>5 DEF ContainerInv
<1> QED BY <1>1, <1>2, <1>7, <1>8, <1>9, <1>10, RequestGoesOn

LEMMA DeleteResourceKeeps ==
  ASSUME ContainerInv, NEW t \in Thread, Instances!deleteResource(t), overlapContainer' = overlapContainer
  PROVE  ContainerInv'
<1> DEFINE f == request[t]
<1>1. f.pc \in {"remove", "removeLink"} /\ UNCHANGED <<cnt, last>>
  BY DEF Instances!deleteResource, Instances!At
<1>2. /\ f \in Instances!State /\ f.cin \in Cin /\ f.cin \in 1..last
         /\ (~overlapContainer => AtHand(f, cnt, stored, listed))
  BY <1>1, AtWork DEF Named
<1>3. cnt \in Instances!Attributes /\ stored \subseteq 1..last /\ listed \subseteq 1..last
  BY DEF ContainerInv
<1>4. CASE f.pc = "remove"
  <2> DEFINE pc == IF f.cin \in stored THEN "removeLink" ELSE "removed"
  <2>1. Instances!Goto(t, pc) /\ stored' = stored \ {f.cin} /\ listed' = listed
    BY <1>4 DEF Instances!deleteResource, Instances!At
  <2>2. pc \in {"removeLink", "removed"} /\ (f.cin \in stored => pc = "removeLink")
    OBVIOUS
  <2> HIDE DEF pc
  <2>3. PICK g \in Instances!State : /\ g.pc = pc /\ Same(g, f)
                                     /\ request' = [request EXCEPT ![t] = g] /\ g # Instances!Idle
                                        /\ Fits(g, last)
    BY <1>1, <2>1, <2>2, GoesTo DEF Instances!Pc, Named, Made
  <2>4. ~overlapContainer => f.cin \in stored /\ listed = stored /\ Whole(cnt, stored) /\ f.obj = cnt
    BY <1>2, <1>4 DEF AtHand
  <2>5. ~overlapContainer => listed' = stored' \cup {f.cin} /\ f.cin \notin stored' /\ Whole(cnt', listed')
        /\ pc = "removeLink"
    BY <1>1, <2>1, <2>2, <2>4
  <2>6. ~overlapContainer => AtHand(g, cnt', stored', listed')
    BY <1>1, <2>3, <2>4, <2>5 DEF AtHand, Made, Same
  <2>7. cnt' \in Instances!Attributes /\ stored' \subseteq 1..last /\ listed' \subseteq 1..last
    BY <1>1, <1>3, <2>1
  <2> QED BY <1>1, <2>3, <2>6, <2>7, StepKeeps
<1>5. CASE f.pc = "removeLink"
  <2>1. Instances!Goto(t, "removed") /\ listed' = listed \ {f.cin} /\ stored' = stored
    BY <1>5 DEF Instances!deleteResource, Instances!At
  <2>3. PICK g \in Instances!State : /\ g.pc = "removed" /\ Same(g, f)
                                     /\ request' = [request EXCEPT ![t] = g] /\ g # Instances!Idle
                                        /\ Fits(g, last)
    BY <1>1, <2>1, GoesTo DEF Instances!Pc, Named, Made
  <2>4. ~overlapContainer => listed = stored \cup {f.cin} /\ f.cin \notin stored /\ Whole(cnt, listed)
        /\ f.obj = cnt
    BY <1>2, <1>5 DEF AtHand
  <2>5. ~overlapContainer => listed' = stored' /\ f.cin \notin stored' /\ Whole(cnt', stored' \cup {f.cin})
    BY <1>1, <2>1, <2>4
  <2>6. ~overlapContainer => AtHand(g, cnt', stored', listed')
    BY <1>1, <2>3, <2>4, <2>5 DEF AtHand, Made, Same
  <2>7. cnt' \in Instances!Attributes /\ stored' \subseteq 1..last /\ listed' \subseteq 1..last
    BY <1>1, <1>3, <2>1
  <2> QED BY <1>1, <2>3, <2>6, <2>7, StepKeeps
<1> QED BY <1>1, <1>4, <1>5

LEMMA RemovedKeeps ==
  ASSUME ContainerInv, NEW t \in Thread, Instances!instanceRemoved(t), overlapContainer' = overlapContainer
  PROVE  ContainerInv'
<1> DEFINE f == request[t]
           obj == Minus(f.obj, f.cin)
           g == [f EXCEPT !.obj = obj, !.pc = "rewrite"]
<1>1. /\ f.pc = "removed" /\ cnt' = obj /\ UNCHANGED <<stored, listed, last>>
      /\ request' = [request EXCEPT ![t].obj = obj, ![t].pc = "rewrite"]
  BY DEF Instances!instanceRemoved, Instances!At, Instances!Write, Minus
<1>2. /\ f \in Instances!State /\ Fits(f, last) /\ (~overlapContainer => AtHand(f, cnt, stored, listed))
      /\ request \in [Thread -> {Instances!Idle} \cup Instances!State] /\ f # Instances!Idle
         /\ f.obj \in Instances!Attributes /\ f.cin \in Cin
  BY <1>1, AtWork DEF ContainerInv, Instances!State, Named, Made
<1>3. stored \in SUBSET Cin
  BY InvType DEF Instances!TypeOK
<1>4. obj \in Instances!Attributes
  BY <1>2, <1>3, MinusWhole
<1>5. ~overlapContainer => Whole(obj, stored) /\ listed = stored
  <2> SUFFICES ASSUME ~overlapContainer PROVE Whole(obj, stored) /\ listed = stored
    OBVIOUS
  <2>1. f.cin \notin stored /\ Whole(f.obj, stored \cup {f.cin}) /\ listed = stored
    BY <1>1, <1>2 DEF AtHand, Made
  <2> QED BY <1>2, <1>3, <2>1, MinusWhole
<1> HIDE DEF obj
<1>6. cnt' \in Instances!Attributes /\ stored' \subseteq 1..last /\ listed' \subseteq 1..last
  BY <1>1, <1>4 DEF ContainerInv
<1>7. /\ g \in Instances!State /\ g.pc = "rewrite" /\ g.cin = f.cin /\ g.obj = obj /\ g.cins = f.cins
  BY <1>2, <1>4 DEF Instances!State, Instances!Pc
<1>8. request' = [request EXCEPT ![t] = g]
  BY <1>1, <1>2
<1> HIDE DEF g
<1>9. g # Instances!Idle /\ Fits(g, last)
  BY <1>1, <1>2, <1>7 DEF Instances!Idle, Fits, Named, Made
<1>10. ~overlapContainer => AtHand(g, cnt', stored', listed')
  BY <1>1, <1>5, <1>7 DEF AtHand, Made
<1> QED BY <1>1, <1>6, <1>8, <1>9, <1>10, StepKeeps

\* Every step keeps the invariant.
LEMMA ContainerInductive == ContainerInv /\ [Instances!Next]_(Instances!vars) => ContainerInv'
<1> SUFFICES ASSUME ContainerInv, [Instances!Next]_(Instances!vars) PROVE ContainerInv'
  OBVIOUS
<1>1. CASE Instances!Next
  <2>1. PICK t \in Thread : \/ Instances!Step(t) \/ Instances!childWillBeAdded(t)
                            \/ \E m \in Mni : Instances!processUpdateRequest(t, m)
                            \/ \E c \in stored : Instances!deleteLocalResource(t, c)
    BY <1>1 DEF Instances!Next
  <2>2. overlapContainer' = overlapContainer
    BY <1>1 DEF Instances!Next
  <2>3. CASE \/ Instances!createResource(t) \/ Instances!updateResource(t)
             \/ Instances!dbReload(t) \/ Instances!activate(t) \/ Instances!instanceAdded(t)
    BY <2>2, <2>3, CreateKeeps, UpdateResourceKeeps, ReloadKeeps, ActivateKeeps, AddedKeeps
  <2>4. CASE \/ Instances!directChildResources(t) \/ Instances!_validateChildren(t)
             \/ Instances!dbUpdate(t) \/ Instances!update(t)
    BY <2>2, <2>4, ListKeeps, EvictKeeps, DbUpdateKeeps, UpdatedKeeps
  <2>5. CASE \/ Instances!deleteResource(t) \/ Instances!instanceRemoved(t)
             \/ Instances!childWillBeAdded(t)
    BY <2>2, <2>5, DeleteResourceKeeps, RemovedKeeps, InstanceKeeps
  <2>6. CASE \E m \in Mni : Instances!processUpdateRequest(t, m)
    BY <2>2, <2>6, LimitKeeps
  <2>7. CASE \E c \in stored : Instances!deleteLocalResource(t, c)
    BY <2>2, <2>7, DeleteKeeps
  <2> QED BY <2>1, <2>3, <2>4, <2>5, <2>6, <2>7 DEF Instances!Step
<1>2. CASE UNCHANGED Instances!vars
  BY <1>2 DEF Instances!vars, ContainerInv, ByItself
<1> QED BY <1>1, <1>2

LEMMA InvExact == ContainerInv => Instances!CountsExact
<1> SUFFICES ASSUME ContainerInv, Instances!AtRest
             PROVE  /\ listed = stored /\ cnt.cni = Instances!Cardinality(stored)
                    /\ cnt.cbs = Instances!Bytes(stored)
                    /\ cnt.mni # None => Instances!Cardinality(stored) <= cnt.mni
                    /\ Mbs # None => Instances!Bytes(stored) <= Mbs
  BY DEF Instances!CountsExact
<1>1. Whole(cnt, stored) /\ listed = stored
  BY DEF ContainerInv, ByItself, Instances!AtRest
<1>2. stored \in SUBSET Cin /\ cnt \in Instances!Attributes
  BY InvType DEF Instances!TypeOK
<1>3. Instances!Cardinality(stored) \in Nat /\ Instances!Bytes(stored) \in Nat
  BY <1>2, CountFacts, BytesFacts
<1>4. (cnt.mni # None => cnt.mni \in Nat) /\ (Mbs # None => Mbs \in Nat)
  BY <1>2, ServiceAssumption DEF ServiceAssumption, Instances!ContainerAssumption,
     Instances!Attributes
<1> QED BY <1>1, <1>3, <1>4 DEF Whole, Exact, Instances!Exceeds

\* A step changes only what its own thread is doing.
LEMMA OneThread ==
  ASSUME ContainerInv, Instances!Next
  PROVE  \E t \in Thread : /\ \A u \in Thread \ {t} : request'[u] = request[u]
                           /\ Instances!At(t, "evict") /\ stored' # stored =>
                                Instances!Exceeds(request[t].obj, request[t].cins)
                                /\ stored' = stored \ {Instances!Oldest(t)}
<1>1. PICK t \in Thread : \/ Instances!Step(t) \/ Instances!childWillBeAdded(t)
                          \/ \E m \in Mni : Instances!processUpdateRequest(t, m)
                          \/ \E c \in stored : Instances!deleteLocalResource(t, c)
  BY DEF Instances!Next
<1>2. request \in [Thread -> {Instances!Idle} \cup Instances!State]
  BY DEF ContainerInv
<1>3. \A u \in Thread \ {t} : request'[u] = request[u]
  <2>1. CASE \/ Instances!createResource(t) \/ Instances!updateResource(t)
             \/ Instances!activate(t) \/ Instances!dbUpdate(t) \/ Instances!update(t) \/ Instances!deleteResource(t)
    BY <1>2, <2>1 DEF Instances!createResource, Instances!updateResource, Instances!activate,
         Instances!dbUpdate, Instances!update, Instances!deleteResource, Instances!Goto, Instances!Finish
  <2>2. CASE Instances!dbReload(t) \/ Instances!instanceAdded(t) \/ Instances!directChildResources(t)
    BY <1>2, <2>2 DEF Instances!dbReload, Instances!instanceAdded, Instances!directChildResources,
         Instances!Goto, Instances!Finish
  <2>3. CASE Instances!_validateChildren(t) \/ Instances!instanceRemoved(t)
    BY <1>2, <2>3 DEF Instances!_validateChildren, Instances!instanceRemoved, Instances!Goto, Instances!Finish
  <2>4. CASE \/ Instances!childWillBeAdded(t) \/ \E m \in Mni : Instances!processUpdateRequest(t, m)
             \/ \E c \in stored : Instances!deleteLocalResource(t, c)
    BY <1>2, <2>4 DEF Instances!childWillBeAdded, Instances!processUpdateRequest,
         Instances!deleteLocalResource, Instances!Begin
  <2> QED BY <1>1, <2>1, <2>2, <2>3, <2>4 DEF Instances!Step
<1>4. ASSUME Instances!At(t, "evict"), stored' # stored
      PROVE  Instances!Exceeds(request[t].obj, request[t].cins) /\ stored' = stored \ {Instances!Oldest(t)}
  <2>1. request[t] # Instances!Idle
    BY <1>4 DEF Instances!At, Instances!Idle
  <2>2. ~Instances!MayStart(t, "create") /\ ~Instances!MayStart(t, "update") /\ ~Instances!MayStart(t, "delete")
    BY <2>1 DEF Instances!MayStart
  <2>3. Instances!_validateChildren(t)
    BY <1>1, <1>4, <2>2 DEF Instances!Step, Instances!createResource, Instances!updateResource,
         Instances!dbReload, Instances!activate, Instances!instanceAdded,
       Instances!directChildResources, Instances!dbUpdate, Instances!update, Instances!deleteResource,
       Instances!instanceRemoved, Instances!At,
       Instances!childWillBeAdded, Instances!processUpdateRequest, Instances!deleteLocalResource
  <2> QED BY <1>4, <2>3 DEF Instances!_validateChildren, Instances!At
<1> QED BY <1>3, <1>4

LEMMA KeptNewest ==
  ASSUME ContainerInv, Instances!Next, NEW t \in Thread, NEW c \in Cin, Instances!At(t, "evict"),
         c \in stored \ stored',
         request'[t] # request[t]
  PROVE  \/ request[t].obj.mni # None /\ Instances!Cardinality(c..last) > request[t].obj.mni
         \/ Mbs # None /\ Instances!Bytes(c..last) > Mbs
<1> DEFINE f == request[t]
<1>1. Instances!Exceeds(f.obj, f.cins) /\ c = Instances!Min(f.cins)
  BY OneThread DEF Instances!Oldest
<1>2. f.obj \in Instances!Attributes /\ f.cins \in SUBSET Cin /\ f.cins \subseteq 1..last
  BY AtWork DEF Instances!At, Instances!State, Fits
<1>3. \A y \in f.cins : c <= y
  BY <1>1, <1>2, NoneLeft, MinIn
<1>4. c..last \in SUBSET Cin
  <2>1. 1..last \in SUBSET Cin /\ last \in Nat /\ c \in Nat /\ c >= 1
    BY InvType, InstanceFacts
  <2> QED BY <2>1
<1>5. f.cins \in SUBSET (c..last)
  <2>1. last \in Nat /\ c \in Nat
    BY InvType, InstanceFacts
  <2> QED BY <1>2, <1>3, <2>1
<1>6. /\ Instances!Cardinality(f.cins) <= Instances!Cardinality(c..last)
         /\ Instances!Bytes(f.cins) <= Instances!Bytes(c..last)
      /\ Instances!Cardinality(f.cins) \in Nat /\ Instances!Cardinality(c..last) \in Nat
         /\ Instances!Bytes(f.cins) \in Nat /\ Instances!Bytes(c..last) \in Nat
  BY <1>4, <1>5, CountFacts, BytesFacts
<1>7. (f.obj.mni # None => f.obj.mni \in Nat) /\ (Mbs # None => Mbs \in Nat)
  BY <1>2, ServiceAssumption DEF ServiceAssumption, Instances!ContainerAssumption,
     Instances!Attributes
<1> QED BY <1>1, <1>6, <1>7 DEF Instances!Exceeds

\* The invariant holds in every reachable state.
LEMMA ContainerInvariant == SpecOne => [](service = "instances" => ContainerInv)
<1>1. InitOne => (service = "instances" => ContainerInv)
  BY ContainerInit DEF InitOne
<1>2. (service = "instances" => ContainerInv) /\ [NextOne]_vars => (service = "instances" => ContainerInv)'
  <2> SUFFICES ASSUME service = "instances" => ContainerInv, [NextOne]_vars, service' = "instances"
               PROVE  ContainerInv'
    OBVIOUS
  <2>1. service = "instances" /\ (Instances!Next \/ UNCHANGED Instances!vars)
    BY DEF NextOne, vars, instanceVars, Instances!vars
  <2> QED BY <2>1, ContainerInductive
<1> QED BY <1>1, <1>2, PTL DEF SpecOne

\* Where requests to a container come one after the other: between them currentNrOfInstances and currentByteSize
\* are those of the instances, which are in both tables and within the limits, for any number of instances of any
\* size (ContainerResource.instanceAdded, instanceRemoved, _validateChildren).
THEOREM CountsAlwaysExact == SpecOne => []CountsExact
<1>1. (service = "instances" => ContainerInv) => CountsExact
  BY InvExact DEF CountsExact
<1> QED BY <1>1, ContainerInvariant, PTL

\* Whatever overlaps: an instance is evicted only when it and those created after it exceed a limit
\* (ContainerResource._validateChildren).
THEOREM NewestAlwaysKept == SpecOne => NewestKept
<1> DEFINE Kept == \A t \in Thread, c \in Cin :
             Instances!At(t, "evict") /\ c \in stored \ stored' /\ request'[t] # request[t] =>
               \/ request[t].obj.mni # None /\ Instances!Cardinality(c..last) > request[t].obj.mni
               \/ Mbs # None /\ Instances!Bytes(c..last) > Mbs
<1>1. (service = "instances" => ContainerInv) /\ [NextOne]_vars => [Kept]_(Instances!vars)
  <2> SUFFICES ASSUME service = "instances" => ContainerInv, [NextOne]_vars, ~ UNCHANGED Instances!vars
               PROVE  Kept
    OBVIOUS
  <2>1. ContainerInv /\ Instances!Next
    BY DEF NextOne, vars, instanceVars, Instances!vars
  <2> QED BY <2>1, KeptNewest
<1> QED BY <1>1, ContainerInvariant, PTL DEF NewestKept, Instances!NewestKept, SpecOne
-----------------------------------------------------------------------------
(***************************************************************************)
(* Time series. The monitor, the missing data list and the window of a     *)
(* subscription, for any period, tolerance and detection time, any length  *)
(* of the list and any number of instances.                                *)
(***************************************************************************)

Disturbed(kind) == kind \in disturbed

\* Detection is on, and has started.
Detecting == known /\ rts.running

\* What each step may rely on.
Shape ==
  /\ seriesMonitor.pc = "idle" => seriesMonitor = Series!Idle
  /\ seriesMonitor.pc = "note" => seriesMonitor.copy # <<>>
  /\ IF arrival.pc = "idle" THEN arrival = Series!NoArrival ELSE arrival.dgt \in tsi
  /\ mdd = "deleted" => ~known /\ arrival = Series!NoArrival
  /\ arrival.pc \in {"validated", "starting", "noted"} => mdd = "on"
  /\ arrival.pc = "starting" => ~Series!Late
  /\ arrival.pc = "noted" => Detecting

\* There is one monitor, the one the <timeSeries> knows of. It is started before the <timeSeries> knows it.
Monitored ==
  /\ seriesMonitor # Series!Idle => actors = {}
  /\ \A x, y \in actors : x = y
  /\ arrival.pc = "starting" => ~Detecting /\ seriesMonitor = Series!Idle /\ actors = {Series!Detection}
  /\ mdd # "deleted" /\ ~Detecting /\ arrival.pc # "starting" => actors = {} /\ seriesMonitor = Series!Idle
  /\ mdd = "off" => ~Detecting
  /\ mdd # "deleted" /\ Detecting /\ seriesMonitor = Series!Idle =>
       actors = IF rts.actor = Series!NoTime THEN {} ELSE {rts.actor}

\* The first K expected times, those of them for which no instance has come, and instances that have been handed over.
Expected(K) == {first + k * Pei : k \in 1..K}
Seen == IF arrival.pc = "idle" THEN tsi ELSE tsi \ {arrival.dgt}
Absent(K) == {e \in Expected(K) : \A d \in Seen : ~Series!InRange(d, e)}

\* The list names what is in S, in order; and the last ones of it.
Within(s, S) == Series!Increasing(s) /\ \A i \in DOMAIN s : s[i] \in S
Lists(s, S) ==
  /\ Within(s, S)
  /\ \A e \in S : \/ \E i \in DOMAIN s : s[i] = e
                  \/ Len(s) = Mdn /\ \A i \in DOMAIN s : e < s[i]

\* An instance for the expected time has come if, and only if, the monitor has it at hand.
SeriesAtHand(none, dgt) ==
  /\ none => \A d \in Seen : ~Series!InRange(d, rts.expectedDgt)
  /\ ~none => dgt \in Seen /\ Series!InRange(dgt, rts.expectedDgt)

\* The list and its copies in a period, of which L have been looked at.
Copied(L) ==
  /\ Within(mdlt, Expected(L))
  /\ arrival.pc \in {"reloaded", "added"} => Within(arrival.copy, Expected(L))
  /\ seriesMonitor.copy # <<>> => Within(seriesMonitor.copy[1], Expected(L))

Accurate(K) ==
  /\ \A d \in Seen : d <= rts.expectedDgt + Peid
  /\ seriesMonitor.pc = "idle" => SeriesAtHand(rts.dgt = <<>>, Head(rts.dgt)) /\ Lists(mdlt, Absent(K - 1))
  /\ seriesMonitor.pc # "idle" => rts.dgt = <<>>
  /\ seriesMonitor.pc = "compare" =>
       SeriesAtHand(seriesMonitor.dgt = Series!NoTime, seriesMonitor.dgt) /\ Lists(mdlt, Absent(K - 1))
  /\ seriesMonitor.pc = "note" => SeriesAtHand(TRUE, 0) /\ Lists(mdlt, Absent(K - 1))
  /\ seriesMonitor.pc = "advance" => Lists(mdlt, Absent(K))

\* K periods have begun since the first instance.
Current(K) ==
  /\ rts.expectedDgt = first + K * Pei /\ rts.pei = Pei
  /\ ~Disturbed("late") => Copied(IF seriesMonitor.pc = "advance" THEN K ELSE K - 1)
  /\ disturbed = {} => Accurate(K)

Started == first # 0 => Detecting /\ mdd = "on" /\ \E K \in Nat \ {0} : Current(K)
NotStarted ==
  first = 0 => /\ ~Detecting
               /\ mdd = "on" => mdlt = <<>> /\ (arrival.pc \in {"reloaded", "added"} => arrival.copy = <<>>)

\* What is told of a window: its points are missing since it was opened, and within its duration.
NotedBy(time) == \A i \in DOMAIN md.missingDataList : md.missingDataList[i] + Mdt <= time
WindowTold ==
  /\ \A i \in DOMAIN md.missingDataList :
       /\ md.timeWindowEndTimestamp <= md.missingDataList[i] + Dur + Mdt
       /\ md.missingDataList[i] + Mdt < md.timeWindowEndTimestamp
  /\ NotedBy(seriesNow)
  /\ arrival.pc # "idle" => arrival.ct <= seriesNow /\ (~Detecting => NotedBy(arrival.ct))
  /\ mdd # "deleted" /\ Detecting =>
       /\ rts.pei = Pei /\ rts.missingDataDetectionTime = rts.expectedDgt + Mdt
       /\ rts.actor # Series!NoTime => NotedBy(rts.missingDataDetectionTime)
       /\ seriesMonitor.pc = "idle" /\ rts.actor # Series!NoTime => rts.actor = rts.missingDataDetectionTime
  /\ mdd # "deleted" /\ seriesMonitor.pc # "idle" =>
       /\ rts.actor # Series!NoTime /\ rts.missingDataDetectionTime <= seriesNow /\ rts.dgt = <<>>
       /\ md.missingDataList # <<>> => md.timeWindowEndTimestamp > rts.missingDataDetectionTime

Periodic == mdd # "deleted" => Started /\ NotStarted

SeriesInv ==
  /\ Series!TypeOK /\ Shape
  /\ ~Disturbed("early") => Monitored /\ Periodic
  /\ ~Disturbed("during") /\ ~Disturbed("early") => WindowTold

(* The lists.                                                              *)

LEMMA SeriesConstants ==
  /\ Pei \in Nat /\ Pei > 0 /\ Peid \in Nat /\ Mdt \in Nat /\ Mdn \in Nat /\ Mdn > 0 /\ Dur \in Nat /\ Dur > 0
  /\ Num \subseteq Nat \ {0} /\ MaxSeriesTime \in Nat /\ MaxSeriesTime > 0 /\ MaxInstance \in Nat
     /\ MaxUpdate \in Nat
  /\ 2 * Peid <= Pei /\ Peid < Mdt /\ Series!NoTime = -1 /\ Series!NoTime \notin Nat
BY ServiceAssumption DEF ServiceAssumption, Series!SeriesAssumption, Series!NoTime

LEMMA Empty == <<>> \in Seq(Nat) /\ Len(<<>>) = 0
OBVIOUS

LEMMA AddedType ==
  ASSUME NEW s \in Seq(Nat), Len(s) <= Mdn, NEW e \in Nat
  PROVE  Series!addDgtToMdlt(s, e) \in Seq(Nat) /\ Len(Series!addDgtToMdlt(s, e)) <= Mdn
BY SeriesConstants DEF Series!addDgtToMdlt

LEMMA AddedLists ==
  ASSUME NEW s \in Seq(Nat), Len(s) <= Mdn, NEW e \in Nat, NEW S \in SUBSET Nat, Lists(s, S), \A d \in S : d < e
  PROVE  Lists(Series!addDgtToMdlt(s, e), S \cup {e})
<1>1. \A i \in DOMAIN s : s[i] \in S /\ s[i] \in Nat /\ s[i] < e
  BY DEF Lists, Within, Series!Increasing
<1>2. CASE Len(s) < Mdn
  <2>1. Series!addDgtToMdlt(s, e) = Append(s, e)
    BY <1>2, SeriesConstants DEF Series!addDgtToMdlt
  <2>2. /\ DOMAIN Append(s, e) = 1..(Len(s) + 1) /\ Append(s, e)[Len(s) + 1] = e
        /\ \A i \in DOMAIN s : i \in DOMAIN Append(s, e) /\ Append(s, e)[i] = s[i]
        /\ \A i \in DOMAIN Append(s, e) : i \in DOMAIN s \/ i = Len(s) + 1
        /\ DOMAIN s = 1..Len(s) /\ Len(s) \in Nat
    OBVIOUS
  <2>3. \A i, j \in DOMAIN Append(s, e) : i < j => Append(s, e)[i] < Append(s, e)[j]
    BY <1>1, <2>2 DEF Lists, Within, Series!Increasing
  <2>4. \A i \in DOMAIN Append(s, e) : Append(s, e)[i] \in S \cup {e}
    BY <1>1, <2>2
  <2>5. ASSUME NEW d \in S \cup {e} PROVE \E i \in DOMAIN Append(s, e) : Append(s, e)[i] = d
    <3>1. CASE d \in S
      <4>1. Len(s) # Mdn
        BY <1>2, SeriesConstants
      <4>2. PICK i \in DOMAIN s : s[i] = d
        BY <3>1, <4>1 DEF Lists, Within, Series!Increasing
      <4> QED BY <2>2, <4>2
    <3>2. CASE d = e
      BY <2>2, <3>2
    <3> QED BY <3>1, <3>2
  <2>6. Lists(Append(s, e), S \cup {e})
    BY <2>3, <2>4, <2>5, Zenon DEF Lists, Within, Series!Increasing
  <2> QED BY <2>1, <2>6
<1>3. CASE Len(s) = Mdn
  <2> PICK a : a = Append(Tail(s), e)
    OBVIOUS
  <2>1. Series!addDgtToMdlt(s, e) = a /\ s # <<>> /\ Len(s) \in Nat /\ Len(s) >= 1 /\ DOMAIN s = 1..Len(s)
    BY <1>3, SeriesConstants DEF Series!addDgtToMdlt
  <2>2. /\ DOMAIN a = 1..Len(s) /\ a[Len(s)] = e /\ Len(a) = Len(s)
        /\ \A i \in 1..(Len(s) - 1) : a[i] = s[i + 1]
    BY <2>1
  <2>3. \A i \in DOMAIN a : i = Len(s) \/ (i \in 1..(Len(s) - 1) /\ i + 1 \in DOMAIN s)
    BY <2>1, <2>2
  <2>4. \A i, j \in DOMAIN a : i < j => a[i] < a[j]
    <3> SUFFICES ASSUME NEW i \in DOMAIN a, NEW j \in DOMAIN a, i < j PROVE a[i] < a[j]
      OBVIOUS
    <3>1. i \in 1..(Len(s) - 1) /\ a[i] = s[i + 1] /\ i + 1 \in DOMAIN s /\ j \in 1..Len(s)
      BY <2>1, <2>2, <2>3
    <3>2. CASE j = Len(s)
      BY <1>1, <2>2, <3>1, <3>2
    <3>3. CASE j # Len(s)
      <4>1. a[j] = s[j + 1] /\ j + 1 \in DOMAIN s /\ i + 1 < j + 1
        <5>1. j \in 1..(Len(s) - 1)
          BY <2>1, <3>1, <3>3
        <5>2. a[j] = s[j + 1]
          BY <2>2, <5>1
        <5>3. j + 1 \in DOMAIN s
          BY <2>1, <5>1
        <5>4. i \in Nat /\ j \in Nat
          BY <3>1, <5>1
        <5> QED BY <5>2, <5>3, <5>4
      <4> QED BY <3>1, <4>1 DEF Lists, Within, Series!Increasing
    <3> QED BY <3>2, <3>3
  <2>5. \A i \in DOMAIN a : a[i] \in S \cup {e}
    BY <1>1, <2>2, <2>3
  <2>6. ASSUME NEW d \in S \cup {e}, ~\E i \in DOMAIN a : a[i] = d
        PROVE  \A i \in DOMAIN a : d < a[i]
    <3>1. d \in S /\ d \in Nat /\ d < e
      BY <2>1, <2>2, <2>6
    <3>2. \A j \in DOMAIN s : j # 1 => s[j] # d
      <4> SUFFICES ASSUME NEW j \in DOMAIN s, j # 1, s[j] = d PROVE FALSE
        OBVIOUS
      <4>1. j - 1 \in 1..(Len(s) - 1) /\ a[j - 1] = s[j - 1 + 1] /\ j - 1 + 1 = j /\ j - 1 \in DOMAIN a
        BY <2>1, <2>2
      <4> QED BY <2>6, <4>1
    <3>3. d = s[1] \/ \A j \in DOMAIN s : d < s[j]
      BY <3>1, <3>2 DEF Lists, Within, Series!Increasing
    <3>4. \A j \in DOMAIN s : j # 1 => d < s[j]
      <4>1. CASE d = s[1]
        <5>1. 1 \in DOMAIN s /\ \A j \in DOMAIN s : j # 1 => 1 < j
          BY <2>1
        <5> QED BY <4>1, <5>1 DEF Lists, Within, Series!Increasing
      <4> QED BY <3>3, <4>1
    <3> QED BY <2>1, <2>2, <2>3, <3>1, <3>4
  <2>7. Lists(a, S \cup {e})
    BY <1>3, <2>2, <2>4, <2>5, <2>6, Zenon DEF Lists, Within, Series!Increasing
  <2> QED BY <2>1, <2>7
<1> QED BY <1>2, <1>3, SeriesConstants

\* Lists that name nothing else, in order, and one more time at their end.
LEMMA WithinMore == ASSUME NEW s, NEW S, NEW T, Within(s, S), S \subseteq T PROVE Within(s, T)
BY DEF Within

LEMMA AddedWithin ==
  ASSUME NEW s \in Seq(Nat), Len(s) <= Mdn, NEW e \in Nat, NEW S \in SUBSET Nat, Within(s, S), \A d \in S : d < e
  PROVE  Within(Series!addDgtToMdlt(s, e), S \cup {e})
<1>1. \A i \in DOMAIN s : s[i] \in S /\ s[i] \in Nat /\ s[i] < e
  BY DEF Within
<1>2. \A i, j \in DOMAIN s : i < j => s[i] < s[j]
  BY DEF Within, Series!Increasing
<1>0. ASSUME Len(s) >= Mdn PROVE Tail(s) \in Seq(Nat)
  <2>1. s # <<>>
    BY <1>0, SeriesConstants
  <2> QED BY <2>1
<1> PICK r \in Seq(Nat) : r = IF Len(s) >= Mdn THEN Tail(s) ELSE s
  BY <1>0
<1>3. Series!addDgtToMdlt(s, e) = Append(r, e)
  BY DEF Series!addDgtToMdlt
<1>4. /\ \A i \in DOMAIN r : r[i] \in S /\ r[i] < e
      /\ \A i, j \in DOMAIN r : i < j => r[i] < r[j]
  <2>1. CASE r = s
    BY <1>1, <1>2, <2>1
  <2>2. CASE r = Tail(s) /\ Len(s) >= Mdn
    <3>1. \A i \in DOMAIN r : i \in Nat /\ i + 1 \in DOMAIN s /\ r[i] = s[i + 1]
      BY <2>2, SeriesConstants
    <3> QED BY <1>1, <1>2, <3>1
  <2> QED BY <2>1, <2>2
<1>5. /\ DOMAIN Append(r, e) = 1..(Len(r) + 1) /\ Append(r, e)[Len(r) + 1] = e
      /\ \A i \in DOMAIN r : Append(r, e)[i] = r[i]
      /\ DOMAIN r = 1..Len(r) /\ Len(r) \in Nat
  OBVIOUS
<1>6. \A i \in DOMAIN Append(r, e) : Append(r, e)[i] \in S \cup {e}
  BY <1>4, <1>5
<1>7. ASSUME NEW i \in DOMAIN Append(r, e), NEW j \in DOMAIN Append(r, e), i < j
      PROVE  Append(r, e)[i] < Append(r, e)[j]
  <2>1. i \in DOMAIN r /\ (j \in DOMAIN r \/ j = Len(r) + 1)
    BY <1>5, <1>7
  <2> QED BY <1>4, <1>5, <1>7, <2>1
<1> QED BY <1>3, <1>6, <1>7 DEF Within, Series!Increasing

LEMMA ListsWithin == ASSUME NEW s, NEW S, Lists(s, S) PROVE Within(s, S)
BY DEF Lists

\* The expected times.
LEMMA Periods ==
  ASSUME NEW k \in Nat, NEW K \in Nat
  PROVE  /\ k * Pei \in Nat /\ K * Pei \in Nat /\ (K + 1) * Pei = K * Pei + Pei
         /\ k < K => k * Pei + Pei <= K * Pei
         /\ K # 0 => (K - 1) * Pei = K * Pei - Pei /\ K * Pei >= Pei
         /\ (K * Pei) \div Pei = K
<1> PICK p \in Nat \ {0} : p = Pei
  BY SeriesConstants
<1>1. k * p \in Nat /\ K * p \in Nat /\ (K + 1) * p = K * p + p /\ (K # 0 => (K - 1) * p = K * p - p /\ K * p >= p)
  OBVIOUS
<1>2. k < K => k * p + p <= K * p
  <2> SUFFICES ASSUME k < K PROVE k * p + p <= K * p
    OBVIOUS
  <2>1. (K - k) * p = K * p - k * p /\ (K - k) * p >= p
    OBVIOUS
  <2> QED BY <1>1, <2>1
<1>3. (K * p) \div p = K
  OBVIOUS
<1> QED BY <1>1, <1>2, <1>3

LEMMA ExpectedGrow ==
  ASSUME NEW K \in Nat \ {0}, first \in Nat
  PROVE  /\ Expected(K) = Expected(K - 1) \cup {first + K * Pei}
         /\ first + K * Pei \in Nat /\ first + K * Pei >= first + Pei
         /\ Expected(K - 1) \subseteq Nat
         /\ \A e \in Expected(K - 1) : e \in Nat /\ e + Pei <= first + K * Pei
<1>1. 1..K = (1..(K - 1)) \cup {K}
  OBVIOUS
<1>2. Expected(K) = Expected(K - 1) \cup {first + K * Pei}
  BY <1>1 DEF Expected
<1>3. first + K * Pei \in Nat /\ first + K * Pei >= first + Pei
  BY Periods, SeriesConstants
<1>4. ASSUME NEW e \in Expected(K - 1) PROVE e \in Nat /\ e + Pei <= first + K * Pei
  <2>1. PICK k \in 1..(K - 1) : e = first + k * Pei
    BY DEF Expected
  <2>2. k \in Nat /\ k < K /\ K \in Nat
    OBVIOUS
  <2>3. k * Pei + Pei <= K * Pei /\ k * Pei \in Nat /\ K * Pei \in Nat
    BY <2>2, Periods
  <2> QED BY <2>1, <2>3, SeriesConstants
<1> QED BY <1>2, <1>3, <1>4

\* When nothing has come for the expected time it is missing, and else nothing more is.
LEMMA AbsentGrow ==
  ASSUME NEW K \in Nat \ {0}, first \in Nat
  PROVE  /\ (\A d \in Seen : ~Series!InRange(d, first + K * Pei)) => Absent(K) = Absent(K - 1) \cup {first + K * Pei}
         /\ (\E d \in Seen : Series!InRange(d, first + K * Pei)) => Absent(K) = Absent(K - 1)
         /\ Absent(K - 1) \subseteq Nat /\ \A e \in Absent(K - 1) : e < first + K * Pei
<1>1. Expected(K) = Expected(K - 1) \cup {first + K * Pei}
  BY ExpectedGrow
<1>2. Expected(K - 1) \subseteq Nat /\ \A e \in Expected(K - 1) : e < first + K * Pei
  <2> PICK latest \in Nat : latest = first + K * Pei
    BY ExpectedGrow
  <2>1. \A e \in Expected(K - 1) : e \in Nat /\ e + Pei <= latest
    BY ExpectedGrow
  <2>2. \A e \in Expected(K - 1) : e \in Nat /\ e < latest
    BY <2>1, SeriesConstants
  <2> QED BY <2>2
<1> QED BY <1>1, <1>2 DEF Absent


(* The steps.                                                              *)

LEMMA NotDue == ASSUME NEW e \in Nat, e >= Pei PROVE ~Series!InRange(Series!NoTime, e)
BY SeriesConstants DEF Series!InRange

LEMMA SeriesFields ==
  ASSUME Series!TypeOK
  PROVE  /\ rts.expectedDgt \in Nat /\ rts.missingDataDetectionTime \in Nat /\ rts.pei \in {0, Pei}
         /\ rts.actor \in Nat \cup {Series!NoTime} /\ rts.running \in BOOLEAN
         /\ rts.dgt # <<>> => rts.dgt = <<Head(rts.dgt)>> /\ Head(rts.dgt) \in Series!Time
         /\ seriesNow \in Nat /\ first \in Nat /\ Series!Time \subseteq Nat /\ tsi \subseteq Nat /\ tsi \subseteq 1..MaxSeriesTime
         /\ seriesMonitor.dgt \in Series!Time \cup {Series!NoTime} /\ seriesMonitor.copy \in Seq(Seq(Nat))
         /\ seriesMonitor.pc \in {"idle", "compare", "note", "advance"}
         /\ seriesMonitor.copy # <<>> => /\ seriesMonitor.copy = <<seriesMonitor.copy[1]>>
                                         /\ seriesMonitor.copy[1] \in Seq(Nat) /\ Len(seriesMonitor.copy[1]) <= Mdn
         /\ arrival.dgt \in Nat /\ arrival.ct \in Nat /\ arrival.copy \in Seq(Nat) /\ Len(arrival.copy) <= Mdn
         /\ md.timeWindowEndTimestamp \in Nat \cup {Series!NoTime} /\ md.missingDataList \in Seq(Nat)
         /\ num \in Nat /\ mdlt \in Seq(Nat) /\ Len(mdlt) <= Mdn
<1>1. Series!Time \subseteq Nat
  BY SeriesConstants DEF Series!Time
<1>2. rts.dgt \in {<<>>} \cup {<<t>> : t \in Series!Time}
  BY DEF Series!TypeOK, Series!LastTSInstance
<1>3. rts.dgt # <<>> => rts.dgt = <<Head(rts.dgt)>> /\ Head(rts.dgt) \in Series!Time
  BY <1>2
<1>4. tsi \subseteq Nat /\ tsi \subseteq 1..MaxSeriesTime /\ num \in Nat
  BY SeriesConstants DEF Series!TypeOK
<1>5. seriesMonitor.copy \in Seq(Seq(Nat)) /\ Len(seriesMonitor.copy) <= 1
      /\ \A i \in DOMAIN seriesMonitor.copy : Len(seriesMonitor.copy[i]) <= Mdn
  BY DEF Series!TypeOK, Series!MonitorRun
<1>6. seriesMonitor.copy # <<>> => /\ seriesMonitor.copy = <<seriesMonitor.copy[1]>>
                                   /\ seriesMonitor.copy[1] \in Seq(Nat) /\ Len(seriesMonitor.copy[1]) <= Mdn
  BY <1>5
<1> QED BY <1>1, <1>3, <1>4, <1>5, <1>6 DEF Series!TypeOK, Series!LastTSInstance, Series!MissingData,
          Series!MonitorRun, Series!Arrival

\* An instance on its way, up to what is kept of it.
LEMMA ArrivalTypes ==
  ASSUME Series!TypeOK,
         \/ \E dgt \in 1..MaxSeriesTime : Series!createLocalResource(dgt)
         \/ Series!dbReload \/ Series!instanceAdded \/ Series!validate \/ Series!noteLate
  PROVE  Series!TypeOK'
<1>0. Series!NoArrival \in Series!Arrival /\ Len(Series!NoArrival.copy) <= Mdn
  <2>1. 0 \in Series!Time
    BY SeriesConstants DEF Series!Time
  <2> QED BY <2>1, Empty, SeriesConstants DEF Series!NoArrival, Series!Arrival
<1>1. ASSUME NEW dgt \in 1..MaxSeriesTime, Series!createLocalResource(dgt) PROVE Series!TypeOK'
  <2>1. dgt \in Series!Time /\ seriesNow \in Series!Time
    BY SeriesConstants DEF Series!Time, Series!TypeOK
  <2>2. arrival' \in Series!Arrival /\ Len(arrival'.copy) <= Mdn
    <3>1. arrival' = [pc |-> "stored", dgt |-> dgt, ct |-> seriesNow, copy |-> <<>>]
      BY <1>1 DEF Series!createLocalResource
    <3> QED BY <2>1, <3>1, Empty, SeriesConstants DEF Series!Arrival
  <2>3. /\ UNCHANGED <<seriesNow, mdd, mdlt, known, rts, first, actors, seriesMonitor, seriesSub, md, seriesUpdates,
                       num, disturbed>>
        /\ tsi' = tsi \cup {dgt}
    BY <1>1 DEF Series!createLocalResource
  <2> QED BY <2>2, <2>3 DEF Series!TypeOK
<1>2. ASSUME Series!dbReload \/ Series!instanceAdded \/ Series!validate \/ Series!noteLate PROVE Series!TypeOK'
  <2>1. UNCHANGED <<seriesNow, tsi, mdd, known, rts, first, actors, seriesMonitor, seriesSub, md, seriesUpdates, num>>
    BY <1>2 DEF Series!dbReload, Series!instanceAdded, Series!validate, Series!noteLate
  <2>2. mdlt' \in Seq(Nat) /\ Len(mdlt') <= Mdn
    <3>1. CASE Series!noteLate
      <4>1. mdlt' = Series!addDgtToMdlt(arrival.copy, arrival.dgt)
        BY <3>1 DEF Series!noteLate, Series!dbUpdate
      <4> QED BY <4>1, SeriesFields, AddedType
    <3>2. CASE ~Series!noteLate
      BY <1>2, <3>2, SeriesFields DEF Series!dbReload, Series!instanceAdded, Series!validate, Series!dbUpdate
    <3> QED BY <3>1, <3>2
  <2>3. disturbed' \subseteq Series!Disturbances
    BY <1>2 DEF Series!TypeOK, Series!dbReload, Series!instanceAdded, Series!validate, Series!noteLate, Series!dbUpdate,
         Series!Disturbances
  <2>4. arrival' \in Series!Arrival /\ Len(arrival'.copy) <= Mdn
    <3>1. CASE Series!dbReload
      BY <3>1, SeriesFields DEF Series!dbReload, Series!TypeOK, Series!Arrival
    <3>2. CASE ~Series!dbReload
      BY <1>0, <1>2, <3>2 DEF Series!instanceAdded, Series!validate, Series!noteLate, Series!TypeOK, Series!Arrival
    <3> QED BY <3>1, <3>2
  <2> QED BY <2>1, <2>2, <2>3, <2>4 DEF Series!TypeOK
<1> QED BY <1>1, <1>2

\* The object of a series.
LEMMA FillTypes ==
  ASSUME Series!TypeOK, NEW actor \in Nat \cup {Series!NoTime}, Series!fillInstance(actor)
  PROVE  /\ known' = TRUE /\ rts' \in Series!LastTSInstance /\ first' \in Series!Time /\ first' = arrival.dgt
         /\ rts'.dgt = <<>> /\ rts'.expectedDgt = arrival.dgt + Pei /\ rts'.pei = Pei
         /\ rts'.missingDataDetectionTime = arrival.dgt + Pei + Mdt /\ rts'.actor = actor /\ rts'.running = TRUE
         /\ arrival' = Series!NoArrival /\ arrival' \in Series!Arrival /\ Len(arrival'.copy) <= Mdn
         /\ disturbed \subseteq disturbed' /\ disturbed' \subseteq Series!Disturbances
         /\ ~Disturbed("unexpected")' => \A d \in tsi : d <= arrival.dgt
<1>1. arrival.dgt \in Nat /\ arrival.dgt \in Series!Time
  BY SeriesFields DEF Series!TypeOK, Series!Arrival
<1>2. arrival.dgt + Pei \in Nat /\ arrival.dgt + Pei + Mdt \in Nat
  BY <1>1, SeriesConstants
<1>3. rts' = [dgt |-> <<>>, expectedDgt |-> arrival.dgt + Pei, missingDataDetectionTime |-> arrival.dgt + Pei + Mdt,
              pei |-> Pei, actor |-> actor, running |-> TRUE]
  BY DEF Series!fillInstance, Series!FirstInstance
<1>4. rts' \in Series!LastTSInstance
  BY <1>2, <1>3 DEF Series!LastTSInstance
<1>5. Series!NoArrival \in Series!Arrival /\ Len(Series!NoArrival.copy) <= Mdn
  <2>1. 0 \in Series!Time
    BY SeriesConstants DEF Series!Time
  <2> QED BY <2>1, Empty, SeriesConstants DEF Series!NoArrival, Series!Arrival
<1>6. disturbed \subseteq disturbed' /\ disturbed' \subseteq Series!Disturbances
  BY DEF Series!fillInstance, Series!TypeOK, Series!Disturbances
<1>7. ASSUME ~Disturbed("unexpected")', NEW d \in tsi PROVE d <= arrival.dgt
  <2>1. ~(d > arrival.dgt)
    BY <1>7 DEF Series!fillInstance, Disturbed
  <2> QED BY <1>1, <2>1, SeriesFields
<1> QED BY <1>1, <1>3, <1>4, <1>5, <1>6, <1>7 DEF Series!fillInstance

LEMMA StartTypes ==
  ASSUME Series!TypeOK, Series!startDetection \/ Series!prepareInstance
  PROVE  Series!TypeOK'
<1>0. Series!Detection \in Nat
  <2>1. arrival.dgt \in Nat
    BY SeriesFields
  <2> QED BY <2>1, SeriesConstants DEF Series!Detection
<1>1. UNCHANGED <<seriesNow, tsi, mdd, mdlt, seriesMonitor, seriesSub, md, seriesUpdates, num>>
      /\ (actors' = actors \/ actors' = actors \cup {Series!Detection})
  BY DEF Series!startDetection, Series!prepareInstance
<1>2. actors' \subseteq Nat
  BY <1>0, <1>1 DEF Series!TypeOK
<1>3. CASE \E actor \in Nat \cup {Series!NoTime} : Series!fillInstance(actor)
  BY <1>1, <1>2, <1>3, FillTypes DEF Series!TypeOK
<1>4. CASE UNCHANGED <<known, rts, first, disturbed>> /\ arrival' = [arrival EXCEPT !.pc = "starting"]
  <2>1. arrival' \in Series!Arrival /\ Len(arrival'.copy) <= Mdn
    BY <1>4 DEF Series!TypeOK, Series!Arrival
  <2> QED BY <1>1, <1>2, <1>4, <2>1 DEF Series!TypeOK
<1> QED BY <1>0, <1>3, <1>4 DEF Series!startDetection, Series!prepareInstance

LEMMA AddTypes == ASSUME Series!TypeOK, Series!addDgt PROVE Series!TypeOK'
<1>1. rts' = [rts EXCEPT !.dgt = <<arrival.dgt>>] /\ arrival' = Series!NoArrival
  BY DEF Series!addDgt
<1>2. rts' \in Series!LastTSInstance
  BY <1>1 DEF Series!TypeOK, Series!LastTSInstance, Series!Arrival
<1>3. arrival' \in Series!Arrival /\ Len(arrival'.copy) <= Mdn
  <2>1. 0 \in Series!Time
    BY SeriesConstants DEF Series!Time
  <2> QED BY <1>1, <2>1, Empty, SeriesConstants DEF Series!NoArrival, Series!Arrival
<1>4. disturbed' \subseteq Series!Disturbances
  BY DEF Series!addDgt, Series!TypeOK, Series!Disturbances
<1> QED BY <1>2, <1>3, <1>4 DEF Series!addDgt, Series!TypeOK

\* The window with one more point.
LEMMA WindowType ==
  ASSUME Series!TypeOK
  PROVE  Series!checkSubscriptions(Series!addMissingData) \in Series!MissingData
<1>1. Series!addMissingData \in Series!MissingData
  <2>1. rts.missingDataDetectionTime + Dur \in Nat /\ Append(md.missingDataList, rts.expectedDgt) \in Seq(Nat)
    BY SeriesFields, SeriesConstants
  <2> QED BY <2>1, SeriesFields DEF Series!addMissingData, Series!MissingData
<1> PICK data \in Series!MissingData : data = Series!addMissingData
  BY <1>1
<1>2. Series!checkSubscriptions(data) \in Series!MissingData
  BY Empty DEF Series!checkSubscriptions, Series!MissingData
<1> QED BY <1>2

LEMMA MonitorTypes ==
  ASSUME Series!TypeOK, Shape, Series!timeSeriesMonitor \/ Series!compareDgt \/ Series!noteMissing \/ Series!nextDgt
  PROVE  Series!TypeOK'
<1>0. Series!Idle \in Series!MonitorRun /\ Len(Series!Idle.copy) <= 1
      /\ \A i \in DOMAIN Series!Idle.copy : Len(Series!Idle.copy[i]) <= Mdn
  <2> DEFINE e == <<>>
  <2>1. e \in Seq(Seq(Nat)) /\ Len(e) <= 1 /\ \A i \in DOMAIN e : Len(e[i]) <= Mdn
    OBVIOUS
  <2> HIDE DEF e
  <2>2. Series!Idle.copy = e
    BY DEF Series!Idle, e
  <2> QED BY <2>1, <2>2 DEF Series!Idle, Series!MonitorRun, e
<1>1. CASE Series!timeSeriesMonitor
  <2>1. /\ UNCHANGED <<seriesNow, tsi, mdd, mdlt, known, first, arrival, seriesSub, seriesUpdates, num>>
        /\ actors' \subseteq actors
    BY <1>1 DEF Series!timeSeriesMonitor
  <2>2. rts' \in Series!LastTSInstance
    BY <1>1 DEF Series!timeSeriesMonitor, Series!TypeOK, Series!LastTSInstance
  <2>3. md' \in Series!MissingData
    <3>1. Series!NoData \in Series!MissingData
      BY Empty DEF Series!NoData, Series!MissingData
    <3>2. md' = md \/ md' = Series!NoData
      BY <1>1 DEF Series!timeSeriesMonitor
    <3> QED BY <3>1, <3>2 DEF Series!TypeOK
  <2>4. seriesMonitor' \in Series!MonitorRun /\ Len(seriesMonitor'.copy) <= 1
        /\ \A i \in DOMAIN seriesMonitor'.copy : Len(seriesMonitor'.copy[i]) <= Mdn
    <3>1. CASE known
      <4>1. seriesMonitor' = [pc |-> "compare", dgt |-> IF rts.dgt = <<>> THEN Series!NoTime ELSE Head(rts.dgt),
                              copy |-> <<>>]
        BY <1>1, <3>1 DEF Series!timeSeriesMonitor
      <4>2. (IF rts.dgt = <<>> THEN Series!NoTime ELSE Head(rts.dgt)) \in Series!Time \cup {Series!NoTime}
        BY SeriesFields
      <4>3. Series!Idle.copy = <<>>
        BY DEF Series!Idle
      <4> QED BY <1>0, <4>1, <4>2, <4>3 DEF Series!MonitorRun
    <3>2. CASE ~known
      BY <1>1, <3>2 DEF Series!timeSeriesMonitor, Series!TypeOK
    <3> QED BY <3>1, <3>2
  <2>5. disturbed' \subseteq Series!Disturbances
    BY <1>1 DEF Series!timeSeriesMonitor, Series!TypeOK, Series!Disturbances
  <2> QED BY <2>1, <2>2, <2>3, <2>4, <2>5 DEF Series!TypeOK
<1>2. CASE Series!compareDgt
  <2>1. UNCHANGED <<seriesNow, tsi, mdd, mdlt, known, rts, first, actors, arrival, seriesSub, md, seriesUpdates, num,
                    disturbed>>
    BY <1>2 DEF Series!compareDgt
  <2>2. \/ seriesMonitor' = [seriesMonitor EXCEPT !.pc = "advance"] \/ seriesMonitor' = [seriesMonitor EXCEPT !.pc = "note"]
        \/ seriesMonitor' = Series!Idle \/ seriesMonitor' = [seriesMonitor EXCEPT !.pc = "note", !.copy = <<mdlt>>]
    BY <1>2 DEF Series!compareDgt
  <2>3. <<mdlt>> \in Seq(Seq(Nat)) /\ Len(<<mdlt>>) <= 1 /\ \A i \in DOMAIN <<mdlt>> : Len(<<mdlt>>[i]) <= Mdn
    <3>1. mdlt \in Seq(Nat) /\ Len(mdlt) <= Mdn
      BY SeriesFields
    <3> QED BY <3>1
  <2>4. seriesMonitor' \in Series!MonitorRun /\ Len(seriesMonitor'.copy) <= 1
        /\ \A i \in DOMAIN seriesMonitor'.copy : Len(seriesMonitor'.copy[i]) <= Mdn
    <3>1. CASE seriesMonitor' = Series!Idle
      BY <1>0, <3>1
    <3>2. CASE seriesMonitor' = [seriesMonitor EXCEPT !.pc = "note", !.copy = <<mdlt>>]
      BY <2>3, <3>2 DEF Series!TypeOK, Series!MonitorRun
    <3>3. CASE seriesMonitor' = [seriesMonitor EXCEPT !.pc = "advance"] \/ seriesMonitor' = [seriesMonitor EXCEPT !.pc = "note"]
      BY <3>3 DEF Series!TypeOK, Series!MonitorRun
    <3> QED BY <2>2, <3>1, <3>2, <3>3
  <2> QED BY <2>1, <2>4 DEF Series!TypeOK
<1>3. CASE Series!noteMissing
  <2>1. UNCHANGED <<seriesNow, tsi, mdd, known, rts, first, actors, arrival, seriesSub, seriesUpdates, num>>
    BY <1>3 DEF Series!noteMissing
  <2>2. md' \in Series!MissingData
    BY <1>3, WindowType DEF Series!noteMissing, Series!TypeOK
  <2>3. disturbed' \subseteq Series!Disturbances
    BY <1>3 DEF Series!noteMissing, Series!dbUpdate, Series!TypeOK, Series!Disturbances
  <2>4. CASE mdd = "deleted"
    BY <1>0, <1>3, <2>1, <2>2, <2>3, <2>4 DEF Series!noteMissing, Series!TypeOK
  <2>5. CASE mdd # "deleted"
    <3> PICK list : list = Series!addDgtToMdlt(seriesMonitor.copy[1], rts.expectedDgt)
      OBVIOUS
    <3>1. mdlt' = list /\ seriesMonitor' = [seriesMonitor EXCEPT !.pc = "advance", !.copy = <<list>>]
      BY <1>3, <2>5 DEF Series!noteMissing, Series!dbUpdate
    <3>2. list \in Seq(Nat) /\ Len(list) <= Mdn
      <4>1. seriesMonitor.copy # <<>>
        BY <1>3 DEF Series!noteMissing, Shape
      <4> QED BY <4>1, SeriesFields, AddedType
    <3>3. <<list>> \in Seq(Seq(Nat)) /\ Len(<<list>>) <= 1 /\ \A i \in DOMAIN <<list>> : Len(<<list>>[i]) <= Mdn
      BY <3>2
    <3>4. seriesMonitor' \in Series!MonitorRun /\ Len(seriesMonitor'.copy) <= 1
          /\ \A i \in DOMAIN seriesMonitor'.copy : Len(seriesMonitor'.copy[i]) <= Mdn
      BY <3>1, <3>3 DEF Series!TypeOK, Series!MonitorRun
    <3> QED BY <2>1, <2>2, <2>3, <3>1, <3>2, <3>4 DEF Series!TypeOK
  <2> QED BY <2>4, <2>5
<1>4. CASE Series!nextDgt
  <2>1. UNCHANGED <<seriesNow, tsi, mdd, mdlt, known, first, arrival, seriesSub, md, seriesUpdates, num, disturbed>>
    BY <1>4 DEF Series!nextDgt
  <2>2. rts.expectedDgt + rts.pei \in Nat /\ rts.missingDataDetectionTime + rts.pei \in Nat
    <3>1. rts.expectedDgt \in Nat /\ rts.missingDataDetectionTime \in Nat /\ rts.pei \in Nat
      BY SeriesFields, SeriesConstants
    <3> QED BY <3>1
  <2>3. CASE rts.dgt # <<>>
    <3>1. /\ seriesMonitor' = [seriesMonitor EXCEPT !.pc = "compare", !.dgt = Head(rts.dgt)] /\ actors' = actors
          /\ rts' = [rts EXCEPT !.dgt = <<>>, !.expectedDgt = rts.expectedDgt + rts.pei]
      BY <1>4, <2>3 DEF Series!nextDgt
    <3>2. rts' \in Series!LastTSInstance
      BY <2>2, <3>1 DEF Series!TypeOK, Series!LastTSInstance
    <3>3. Head(rts.dgt) \in Series!Time
      BY <2>3, SeriesFields
    <3>4. seriesMonitor' \in Series!MonitorRun /\ seriesMonitor'.copy = seriesMonitor.copy
      BY <3>1, <3>3 DEF Series!TypeOK, Series!MonitorRun
    <3> QED BY <2>1, <3>1, <3>2, <3>4 DEF Series!TypeOK
  <2>4. CASE rts.dgt = <<>>
    <3> PICK time \in Nat : time = rts.missingDataDetectionTime + rts.pei
      BY <2>2
    <3>1. /\ seriesMonitor' = Series!Idle /\ actors' = actors \cup {time}
          /\ rts' = [rts EXCEPT !.expectedDgt = rts.expectedDgt + rts.pei, !.missingDataDetectionTime = time,
                               !.actor = time]
      BY <1>4, <2>4 DEF Series!nextDgt
    <3>2. rts' \in Series!LastTSInstance /\ actors' \subseteq Nat
      BY <2>2, <3>1 DEF Series!TypeOK, Series!LastTSInstance
    <3> QED BY <1>0, <2>1, <3>1, <3>2 DEF Series!TypeOK
  <2> QED BY <2>3, <2>4
<1> QED BY <1>1, <1>2, <1>3, <1>4

LEMMA RequestTypes ==
  ASSUME Series!TypeOK,
         \/ Series!Tick \/ (\E on \in BOOLEAN : Series!update(on))
         \/ Series!deactivate \/ Series!addSubscription \/ Series!removeSubscription
  PROVE  Series!TypeOK'
<1>1. CASE Series!Tick
  <2>1. seriesNow' \in Series!Time
    <3>1. seriesNow \in Nat /\ seriesNow < MaxSeriesTime /\ seriesNow' = seriesNow + 1
      BY <1>1, SeriesFields DEF Series!Tick
    <3> QED BY <3>1, SeriesConstants DEF Series!Time
  <2> QED BY <1>1, <2>1 DEF Series!Tick, Series!TypeOK
<1>2. ASSUME NEW on \in BOOLEAN, Series!update(on) PROVE Series!TypeOK'
  <2>1. UNCHANGED <<seriesNow, tsi, known, seriesMonitor, arrival, seriesSub, md, num, disturbed>>
    BY <1>2 DEF Series!update
  <2>2. seriesUpdates' \in 0..MaxUpdate
    <3>1. seriesUpdates \in 0..MaxUpdate /\ seriesUpdates < MaxUpdate /\ seriesUpdates' = seriesUpdates + 1
      BY <1>2 DEF Series!update, Series!TypeOK
    <3>2. MaxUpdate \in Nat
      BY SeriesConstants
    <3> QED BY <3>1, <3>2
  <2>3. mdlt' \in Seq(Nat) /\ Len(mdlt') <= Mdn
    <3>1. mdlt' = mdlt \/ mdlt' = <<>>
      BY <1>2 DEF Series!update
    <3>2. mdlt \in Seq(Nat) /\ Len(mdlt) <= Mdn
      BY SeriesFields
    <3>3. <<>> \in Seq(Nat) /\ Len(<<>>) <= Mdn
      BY Empty, SeriesConstants
    <3> QED BY <3>1, <3>2, <3>3
  <2>4. rts' \in Series!LastTSInstance
    BY <1>2 DEF Series!update, Series!TypeOK, Series!LastTSInstance
  <2>5. mdd' \in {"on", "off", "deleted"} /\ actors' \subseteq Nat /\ first' \in Series!Time
    <3>1. 0 \in Series!Time
      BY SeriesConstants DEF Series!Time
    <3> QED BY <1>2, <3>1 DEF Series!update, Series!TypeOK, Series!stopActor
  <2> QED BY <2>1, <2>2, <2>3, <2>4, <2>5 DEF Series!TypeOK
<1>3. CASE Series!deactivate
  BY <1>3 DEF Series!deactivate, Series!stopActor, Series!TypeOK
<1>4. CASE Series!addSubscription \/ Series!removeSubscription
  <2>1. Series!NoData \in Series!MissingData
    BY Empty DEF Series!NoData, Series!MissingData
  <2>2. Series!NoInstance \in Series!LastTSInstance
    <3>1. 0 \in Series!Time /\ 0 \in Nat
      BY SeriesConstants DEF Series!Time
    <3> QED BY <3>1 DEF Series!NoInstance, Series!LastTSInstance
  <2>3. rts' \in Series!LastTSInstance
    BY <1>4, <2>2 DEF Series!addSubscription, Series!removeSubscription, Series!TypeOK
  <2> QED BY <1>4, <2>1, <2>3 DEF Series!addSubscription, Series!removeSubscription, Series!TypeOK
<1> QED BY <1>1, <1>2, <1>3, <1>4

\* What is known while detection goes on.
LEMMA CurrentPeriod ==
  ASSUME Series!TypeOK, Periodic, mdd # "deleted", Detecting
  PROVE  /\ first # 0 /\ first \in Nat /\ mdd = "on"
         /\ \E K \in Nat \ {0} :
              /\ Current(K) /\ rts.expectedDgt = first + K * Pei /\ rts.pei = Pei
              /\ rts.expectedDgt \in Nat /\ rts.expectedDgt >= Pei
<1>1. first # 0 /\ first \in Nat /\ mdd = "on" /\ \E K \in Nat \ {0} : Current(K)
  BY SeriesFields DEF Periodic, Started, NotStarted
<1>2. PICK K \in Nat \ {0} : Current(K)
  BY <1>1
<1>3. rts.expectedDgt = first + K * Pei /\ rts.pei = Pei
  BY <1>2 DEF Current
<1>4. rts.expectedDgt \in Nat /\ rts.expectedDgt >= Pei
  <2>1. PICK e \in Nat : e = first + K * Pei /\ e >= first + Pei
    BY <1>1, ExpectedGrow
  <2> QED BY <1>1, <1>3, <2>1, SeriesConstants
<1> QED BY <1>1, <1>2, <1>3, <1>4

\* Disturbances are not forgotten.
LEMMA StillUndisturbed ==
  ASSUME disturbed \subseteq disturbed', NEW kind, ~Disturbed(kind)'
  PROVE  ~Disturbed(kind)
BY DEF Disturbed

\* What is written of an instance on its way is what was read for it.
LEMMA ArrivalKeeps ==
  ASSUME SeriesInv, Series!TypeOK', Shape', disturbed \subseteq disturbed',
         UNCHANGED <<seriesNow, mdd, known, rts, first, actors, seriesMonitor, seriesSub, md, seriesUpdates, num>>,
         arrival.pc # "starting", arrival'.pc # "starting",
         arrival'.pc # "idle" => arrival'.ct = seriesNow \/ (arrival.pc # "idle" /\ arrival'.ct = arrival.ct),
         mdd = "on" => \/ mdlt' = mdlt \/ (arrival.pc \in {"reloaded", "added"} /\ mdlt' = arrival.copy)
                       \/ (Disturbed("late")' /\ Detecting),
         arrival'.pc \in {"reloaded", "added"} =>
           arrival'.copy = mdlt \/ (arrival.pc \in {"reloaded", "added"} /\ arrival'.copy = arrival.copy),
         disturbed' = {} => mdlt' = mdlt,
         mdd = "on" => Seen' = Seen
  PROVE  SeriesInv'
<1>1. Series!TypeOK /\ Shape
  BY DEF SeriesInv
<1>2. Detecting' = Detecting /\ \A K : Expected(K)' = Expected(K)
  BY DEF Detecting, Expected
<1>3. ASSUME ~Disturbed("early")' PROVE Monitored' /\ Periodic'
  <2>1. Monitored /\ Periodic
    BY <1>3, StillUndisturbed DEF SeriesInv
  <2>2. Monitored'
    BY <1>2, <2>1 DEF Monitored
  <2>3. ASSUME mdd # "deleted", first # 0 PROVE Detecting /\ mdd = "on" /\ \E K \in Nat \ {0} : Current(K)'
    <3>1. Detecting /\ mdd = "on"
      BY <2>1, <2>3 DEF Periodic, Started
    <3>2. PICK K \in Nat \ {0} : Current(K)
      BY <2>1, <2>3 DEF Periodic, Started
    <3>3. ASSUME ~Disturbed("late")', NEW L, Copied(L) PROVE Copied(L)'
      BY <1>2, <3>1, <3>3 DEF Copied
    <3>4. ASSUME disturbed' = {}, Accurate(K) PROVE Accurate(K)'
      <4>1. Seen' = Seen /\ mdlt' = mdlt
        BY <3>1, <3>4
      <4>2. Absent(K)' = Absent(K) /\ Absent(K - 1)' = Absent(K - 1)
        BY <1>2, <4>1 DEF Absent
      <4> QED BY <3>4, <4>1, <4>2 DEF Accurate, SeriesAtHand
    <3>5. disturbed' = {} => disturbed = {}
      OBVIOUS
    <3> DEFINE looked == IF seriesMonitor.pc = "advance" THEN K ELSE K - 1
    <3>6. rts'.expectedDgt = first' + K * Pei /\ rts'.pei = Pei
      BY <3>2 DEF Current
    <3>7. ~Disturbed("late")' => Copied(looked)'
      <4>1. ~Disturbed("late")' => Copied(looked)
        BY <3>2, StillUndisturbed DEF Current
      <4>2. looked' = looked
        OBVIOUS
      <4> HIDE DEF looked
      <4> QED BY <3>3, <4>1, <4>2
    <3>8. disturbed' = {} => Accurate(K)'
      BY <3>2, <3>4, <3>5 DEF Current
    <3>9. Current(K)'
      BY <3>6, <3>7, <3>8 DEF Current
    <3> QED BY <3>1, <3>9
  <2>4. Started' \/ mdd = "deleted"
    BY <1>2, <2>3 DEF Started
  <2>5. NotStarted' \/ mdd = "deleted"
    BY <1>2, <2>1 DEF NotStarted, Periodic
  <2> QED BY <2>2, <2>4, <2>5 DEF Periodic
<1>4. ASSUME ~Disturbed("early")', ~Disturbed("during")' PROVE WindowTold'
  <2>1. WindowTold
    BY <1>4, StillUndisturbed DEF SeriesInv
  <2>2. arrival'.pc # "idle" => arrival'.ct <= seriesNow' /\ (~Detecting' => NotedBy(arrival.ct)')
    <3> SUFFICES ASSUME arrival'.pc # "idle" PROVE arrival'.ct <= seriesNow /\ (~Detecting => NotedBy(arrival.ct)')
      BY <1>2
    <3>1. CASE arrival'.ct = seriesNow
      BY <2>1, <3>1, <1>1, SeriesFields DEF WindowTold, NotedBy
    <3>2. CASE arrival.pc # "idle" /\ arrival'.ct = arrival.ct
      BY <2>1, <3>2 DEF WindowTold, NotedBy
    <3> QED BY <3>1, <3>2
  <2> QED BY <1>2, <2>1, <2>2 DEF WindowTold, NotedBy
<1> QED BY <1>3, <1>4 DEF SeriesInv

\* An instance on its way.
LEMMA ArrivalShape ==
  ASSUME Series!TypeOK, Shape,
         \/ \E dgt \in 1..MaxSeriesTime : Series!createLocalResource(dgt)
         \/ Series!dbReload \/ Series!instanceAdded \/ Series!validate \/ Series!noteLate
  PROVE  /\ Shape' /\ disturbed \subseteq disturbed' /\ arrival.pc # "starting" /\ arrival'.pc # "starting"
         /\ arrival'.pc # "idle" => arrival'.ct = seriesNow \/ (arrival.pc # "idle" /\ arrival'.ct = arrival.ct)
         /\ mdd = "on" => Seen' = Seen
         /\ disturbed' = {} => mdlt' = mdlt
<1>1. ASSUME NEW dgt \in 1..MaxSeriesTime, Series!createLocalResource(dgt)
      PROVE  /\ Shape' /\ arrival = Series!NoArrival /\ arrival'.pc = "stored" /\ arrival'.ct = seriesNow
             /\ Seen' = Seen /\ mdlt' = mdlt /\ disturbed' = disturbed
  BY <1>1 DEF Series!createLocalResource, Shape, Seen, Series!NoArrival, Detecting
<1>2. ASSUME Series!dbReload \/ Series!instanceAdded \/ Series!validate \/ Series!noteLate
      PROVE  /\ Shape' /\ disturbed \subseteq disturbed' /\ arrival.pc \notin {"starting", "idle"} /\ arrival'.pc # "starting"
             /\ arrival'.pc # "idle" => arrival'.ct = arrival.ct
             /\ mdd = "on" => Seen' = Seen
             /\ disturbed' = {} => mdlt' = mdlt
  <2>1. /\ UNCHANGED <<seriesMonitor, tsi, mdd, known, rts>> /\ arrival.pc \in {"stored", "reloaded", "added", "validated"}
        /\ disturbed \subseteq disturbed'
    BY <1>2 DEF Series!dbReload, Series!instanceAdded, Series!validate, Series!noteLate, Series!dbUpdate
  <2>2. \/ arrival' = Series!NoArrival /\ mdd # "on"
        \/ /\ arrival'.pc \in {"reloaded", "added", "validated", "noted"} /\ arrival'.dgt = arrival.dgt
           /\ arrival'.ct = arrival.ct /\ (arrival'.pc \in {"validated", "noted"} => mdd = "on")
           /\ arrival'.pc = "noted" => known /\ rts.running
    BY <1>2 DEF Series!dbReload, Series!instanceAdded, Series!validate, Series!noteLate, Series!TypeOK, Series!Arrival,
         Shape
  <2>3. mdd # "deleted"
    BY <2>1 DEF Shape, Series!NoArrival
  <2>4. Shape'
    BY <2>1, <2>2, <2>3 DEF Shape, Series!NoArrival, Detecting
  <2>5. mdd = "on" => Seen' = Seen
    BY <2>1, <2>2 DEF Seen
  <2>6. disturbed' = {} => mdlt' = mdlt
    BY <1>2 DEF Series!dbReload, Series!instanceAdded, Series!validate, Series!noteLate, Series!dbUpdate
  <2> QED BY <2>1, <2>2, <2>4, <2>5, <2>6 DEF Series!NoArrival
<1> QED BY <1>1, <1>2 DEF Series!NoArrival

LEMMA SeriesOnItsWayKeeps ==
  ASSUME SeriesInv,
         \/ \E dgt \in 1..MaxSeriesTime : Series!createLocalResource(dgt)
         \/ Series!dbReload \/ Series!instanceAdded \/ Series!validate \/ Series!noteLate
  PROVE  SeriesInv'
<1>1. Series!TypeOK /\ Shape /\ Series!TypeOK'
  BY ArrivalTypes DEF SeriesInv
<1>2. UNCHANGED <<seriesNow, mdd, known, rts, first, actors, seriesMonitor, seriesSub, md, seriesUpdates, num>>
  BY DEF Series!createLocalResource, Series!dbReload, Series!instanceAdded, Series!validate, Series!noteLate
<1>3. /\ mdd = "on" => \/ mdlt' = mdlt \/ (arrival.pc \in {"reloaded", "added"} /\ mdlt' = arrival.copy)
                       \/ (Disturbed("late")' /\ Detecting)
      /\ arrival'.pc \in {"reloaded", "added"} =>
           arrival'.copy = mdlt \/ (arrival.pc \in {"reloaded", "added"} /\ arrival'.copy = arrival.copy)
  <2>1. CASE \E dgt \in 1..MaxSeriesTime : Series!createLocalResource(dgt)
    BY <2>1 DEF Series!createLocalResource
  <2>2. CASE Series!dbReload
    BY <1>1, <2>2 DEF Series!dbReload, Series!TypeOK, Series!Arrival
  <2>3. CASE Series!instanceAdded \/ Series!validate
    <3>1. arrival.pc \in {"reloaded", "added"} /\ mdlt' = arrival.copy
      BY <2>3 DEF Series!instanceAdded, Series!validate, Series!dbUpdate
    <3>2. arrival' = [arrival EXCEPT !.pc = "added"] \/ arrival' = [arrival EXCEPT !.pc = "validated"]
          \/ arrival' = Series!NoArrival
      BY <2>3 DEF Series!instanceAdded, Series!validate
    <3>3. arrival'.pc \in {"reloaded", "added"} => arrival'.copy = arrival.copy
      BY <1>1, <3>2 DEF Series!TypeOK, Series!Arrival, Series!NoArrival
    <3> QED BY <3>1, <3>3
  <2>4. CASE Series!noteLate
    <3>1. Disturbed("late")' /\ Detecting /\ arrival' = [arrival EXCEPT !.pc = "noted"]
      BY <2>4 DEF Series!noteLate, Series!dbUpdate, Disturbed, Detecting
    <3> QED BY <1>1, <3>1 DEF Series!TypeOK, Series!Arrival
  <2> QED BY <2>1, <2>2, <2>3, <2>4
<1> QED BY <1>1, <1>2, <1>3, ArrivalShape, ArrivalKeeps

\* The object of a first instance is filled.
LEMMA SeriesFillKeeps ==
  ASSUME SeriesInv, Series!TypeOK', NEW actor \in Nat \cup {Series!NoTime}, Series!fillInstance(actor), ~Detecting,
         \/ actor = Series!NoTime /\ arrival.pc = "validated"
         \/ actor = Series!Detection /\ arrival.pc = "starting",
         UNCHANGED <<seriesNow, tsi, mdd, mdlt, actors, seriesMonitor, seriesSub, md, seriesUpdates, num>>
  PROVE  SeriesInv'
<1>1. Series!TypeOK /\ Shape
  BY DEF SeriesInv
<1>2. /\ known' = TRUE /\ first' = arrival.dgt /\ rts'.dgt = <<>> /\ rts'.expectedDgt = arrival.dgt + Pei /\ rts'.pei = Pei
      /\ rts'.missingDataDetectionTime = arrival.dgt + Pei + Mdt /\ rts'.actor = actor /\ rts'.running = TRUE
      /\ arrival' = Series!NoArrival /\ disturbed \subseteq disturbed'
      /\ ~Disturbed("unexpected")' => \A d \in tsi : d <= arrival.dgt
  BY <1>1, FillTypes
<1>3. /\ mdd = "on" /\ arrival.dgt \in tsi /\ arrival.dgt \in Nat \ {0} /\ arrival'.pc = "idle" /\ Detecting'
      /\ Seen' = tsi
  <2>1. mdd = "on" /\ arrival.dgt \in tsi /\ arrival'.pc = "idle"
    BY <1>1, <1>2 DEF Shape, Series!NoArrival
  <2>2. arrival.dgt \in 1..MaxSeriesTime
    BY <1>1, <2>1, SeriesFields
  <2> QED BY <1>2, <2>1, <2>2 DEF Detecting, Seen
<1>4. Shape'
  BY <1>1, <1>2, <1>3 DEF Shape
<1>5. ASSUME ~Disturbed("early")' PROVE Monitored' /\ Periodic'
  <2>1. Monitored /\ Periodic
    BY <1>2, <1>5, StillUndisturbed DEF SeriesInv
  <2>2. seriesMonitor = Series!Idle /\ seriesMonitor.pc = "idle" /\ seriesMonitor.copy = <<>>
        /\ actors = IF actor = Series!NoTime THEN {} ELSE {actor}
    <3>1. actor = Series!Detection => actor # Series!NoTime
      BY <1>3, SeriesConstants DEF Series!Detection
    <3> QED BY <1>3, <2>1, <3>1 DEF Monitored, Series!Idle
  <2>3. Monitored'
    BY <1>2, <1>3, <2>1, <2>2 DEF Monitored
  <2>4. first = 0 /\ mdlt = <<>>
    BY <1>3, <2>1 DEF Periodic, Started, NotStarted
  <2>5. Expected(0)' = {} /\ Absent(0)' = {} /\ Within(<<>>, {}) /\ Lists(<<>>, {})
    BY DEF Expected, Absent, Within, Lists, Series!Increasing
  <2>6. rts'.expectedDgt = first' + 1 * Pei /\ 1 - 1 = 0
    BY <1>2, SeriesConstants
  <2>7. Copied(0)'
    BY <1>3, <2>2, <2>4, <2>5 DEF Copied
  <2>8. ASSUME disturbed' = {} PROVE Accurate(1)'
    <3>1. ASSUME NEW d \in tsi PROVE d <= rts'.expectedDgt + Peid /\ ~Series!InRange(d, rts'.expectedDgt)
      <4>1. d \in Nat /\ d <= arrival.dgt
        BY <1>1, <1>2, <2>8, <3>1, SeriesFields DEF Disturbed
      <4> QED BY <1>2, <1>3, <4>1, SeriesConstants DEF Series!InRange
    <3>2. SeriesAtHand(rts.dgt = <<>>, Head(rts.dgt))'
      BY <1>2, <1>3, <3>1 DEF SeriesAtHand
    <3>3. Lists(mdlt, Absent(1 - 1))'
      BY <2>4, <2>5, <2>6
    <3> QED BY <1>3, <2>2, <3>1, <3>2, <3>3 DEF Accurate
  <2>9. Current(1)'
    BY <1>2, <2>2, <2>6, <2>7, <2>8 DEF Current
  <2>10. Started' /\ NotStarted'
    BY <1>2, <1>3, <2>9 DEF Started, NotStarted
  <2> QED BY <2>3, <2>10 DEF Periodic
<1>6. ASSUME ~Disturbed("early")', ~Disturbed("during")' PROVE WindowTold'
  <2>1. WindowTold /\ Monitored
    BY <1>2, <1>6, StillUndisturbed DEF SeriesInv
  <2>2. seriesMonitor.pc = "idle"
    BY <1>3, <2>1 DEF Monitored, Series!Idle
  <2>3. ASSUME actor # Series!NoTime PROVE NotedBy(rts'.missingDataDetectionTime)
    <3>1. arrival.pc = "starting" /\ ~(Series!Detection < arrival.ct) /\ NotedBy(arrival.ct)
      BY <1>1, <2>1, <2>3 DEF Shape, WindowTold, Series!Late
    <3>2. arrival.ct \in Nat /\ rts'.missingDataDetectionTime \in Nat /\ arrival.ct <= rts'.missingDataDetectionTime
      <4>1. arrival.ct \in Nat /\ Series!Detection \in Nat /\ rts'.missingDataDetectionTime = Series!Detection
        <5>1. arrival.ct \in Nat
          BY <1>1, SeriesFields
        <5>2. Series!Detection \in Nat
          BY <1>3, SeriesConstants DEF Series!Detection
        <5> QED BY <1>2, <5>1, <5>2 DEF Series!Detection
      <4> QED BY <3>1, <4>1
    <3>3. \A i \in DOMAIN md.missingDataList : md.missingDataList[i] + Mdt \in Nat
      <4>1. md.missingDataList \in Seq(Nat) /\ Mdt \in Nat
        BY <1>1, SeriesFields, SeriesConstants
      <4> QED BY <4>1
    <3> QED BY <3>1, <3>2, <3>3 DEF NotedBy
  <2>4. rts'.missingDataDetectionTime = rts'.expectedDgt + Mdt /\ (actor # Series!NoTime => actor = rts'.missingDataDetectionTime)
    <3>1. actor # Series!NoTime => actor = arrival.dgt + Pei + Mdt
      BY DEF Series!Detection
    <3> QED BY <1>2, <3>1
  <2>5. rts'.actor # Series!NoTime => NotedBy(rts.missingDataDetectionTime)'
    BY <1>2, <2>3 DEF NotedBy
  <2>6. NotedBy(seriesNow)'
    BY <2>1 DEF WindowTold, NotedBy
  <2> QED BY <1>2, <1>3, <2>1, <2>2, <2>4, <2>5, <2>6 DEF WindowTold
<1> QED BY <1>4, <1>5, <1>6 DEF SeriesInv

LEMMA SeriesStartKeeps == ASSUME SeriesInv, Series!startDetection \/ Series!prepareInstance PROVE SeriesInv'
<1>1. Series!TypeOK /\ Shape /\ Series!TypeOK'
  BY StartTypes DEF SeriesInv
<1>2. Series!Detection \in Nat
  <2>1. arrival.dgt \in Nat
    BY <1>1, SeriesFields
  <2> QED BY <2>1, SeriesConstants DEF Series!Detection
<1>3. CASE Series!startDetection /\ Series!Late
  BY <1>1, <1>3, SeriesFillKeeps DEF Series!startDetection, Detecting
<1>4. CASE Series!startDetection /\ ~Series!Late
  <2>1. /\ arrival.pc = "validated" /\ ~Detecting /\ actors' = actors \cup {Series!Detection}
        /\ arrival' = [arrival EXCEPT !.pc = "starting"]
        /\ UNCHANGED <<seriesNow, tsi, mdd, mdlt, known, rts, first, seriesMonitor, seriesSub, md, seriesUpdates, num,
                       disturbed>>
    BY <1>4 DEF Series!startDetection, Detecting
  <2>2. /\ arrival'.pc = "starting" /\ arrival'.dgt = arrival.dgt /\ arrival'.ct = arrival.ct
        /\ Series!Detection' = Series!Detection /\ ~Series!Late' /\ Seen' = Seen /\ mdd = "on"
    BY <1>1, <1>4, <2>1 DEF Series!TypeOK, Series!Arrival, Series!Detection, Series!Late, Seen, Shape
  <2>3. Shape'
    BY <1>1, <2>1, <2>2 DEF Shape, Detecting
  <2>4. ASSUME ~Disturbed("early")' PROVE Monitored' /\ Periodic'
    <3>1. Monitored /\ Periodic
      BY <2>1, <2>4 DEF SeriesInv, Disturbed
    <3>2. actors = {} /\ seriesMonitor = Series!Idle
      BY <2>1, <2>2, <3>1 DEF Monitored
    <3>3. Monitored'
      BY <2>1, <2>2, <3>1, <3>2 DEF Monitored, Detecting
    <3>4. first = 0 /\ ~Detecting' /\ mdlt = <<>>
      BY <2>1, <2>2, <3>1 DEF Periodic, Started, NotStarted, Detecting
    <3> QED BY <2>1, <2>2, <3>3, <3>4 DEF Periodic, Started, NotStarted
  <2>5. ASSUME ~Disturbed("early")', ~Disturbed("during")' PROVE WindowTold'
    <3>1. WindowTold
      BY <2>1, <2>5 DEF SeriesInv, Disturbed
    <3> QED BY <2>1, <2>2, <3>1 DEF WindowTold, NotedBy, Detecting
  <2> QED BY <1>1, <2>3, <2>4, <2>5 DEF SeriesInv
<1>5. CASE Series!prepareInstance
  <2>1. arrival.pc = "starting" /\ Series!fillInstance(Series!Detection)
        /\ UNCHANGED <<seriesNow, tsi, mdd, mdlt, actors, seriesMonitor, seriesSub, md, seriesUpdates, num>>
    BY <1>5 DEF Series!prepareInstance
  <2>2. CASE ~Detecting
    BY <1>1, <1>2, <2>1, <2>2, SeriesFillKeeps
  <2>3. CASE Detecting
    <3>1. Disturbed("early")
      BY <2>1, <2>3 DEF SeriesInv, Monitored
    <3>2. /\ known' = TRUE /\ arrival' = Series!NoArrival /\ disturbed \subseteq disturbed' /\ mdd = "on"
      BY <1>1, <1>2, <2>1, FillTypes DEF Shape
    <3>3. Disturbed("early")'
      BY <3>1, <3>2 DEF Disturbed
    <3>4. Shape'
      BY <1>1, <2>1, <3>2 DEF Shape, Series!NoArrival
    <3> QED BY <1>1, <3>3, <3>4 DEF SeriesInv
  <2> QED BY <2>2, <2>3
<1> QED BY <1>3, <1>4, <1>5

\* An instance is kept for the monitor.
LEMMA SeriesAddKeeps == ASSUME SeriesInv, Series!addDgt PROVE SeriesInv'
<1>1. Series!TypeOK /\ Shape /\ Series!TypeOK'
  BY AddTypes DEF SeriesInv
<1>2. /\ arrival.pc \in {"validated", "noted"} /\ Detecting /\ arrival' = Series!NoArrival
      /\ UNCHANGED <<seriesNow, tsi, mdd, mdlt, known, first, actors, seriesMonitor, seriesSub, md, seriesUpdates, num>>
      /\ disturbed \subseteq disturbed'
  BY <1>1 DEF Series!addDgt, Shape, Detecting
<1>3. /\ arrival'.pc = "idle" /\ mdd = "on" /\ arrival.dgt \in tsi
      /\ Seen = tsi \ {arrival.dgt} /\ Seen' = tsi
  BY <1>1, <1>2 DEF Shape, Seen, Series!NoArrival
<1>4. /\ rts'.dgt = <<arrival.dgt>> /\ rts'.dgt # <<>> /\ Head(rts'.dgt) = arrival.dgt
      /\ rts'.expectedDgt = rts.expectedDgt /\ rts'.missingDataDetectionTime = rts.missingDataDetectionTime
      /\ rts'.pei = rts.pei /\ rts'.actor = rts.actor /\ rts'.running = rts.running
  BY <1>1 DEF Series!addDgt, Series!TypeOK, Series!LastTSInstance
<1>5. Shape' /\ Detecting'
  BY <1>1, <1>2, <1>3, <1>4 DEF Shape, Detecting
<1>6. ASSUME ~Disturbed("early")' PROVE Monitored' /\ Periodic'
  <2>1. Monitored /\ Periodic
    BY <1>2, <1>6, StillUndisturbed DEF SeriesInv
  <2>2. Monitored'
    BY <1>2, <1>3, <1>4, <1>5, <2>1 DEF Monitored
  <2>3. first # 0 /\ first \in Nat
    BY <1>1, <1>2, <1>3, <2>1, CurrentPeriod
  <2>4. PICK K \in Nat \ {0} : Current(K) /\ rts.expectedDgt = first + K * Pei /\ rts.pei = Pei
    BY <1>1, <1>2, <1>3, <2>1, CurrentPeriod
  <2>5. \A L : Expected(L)' = Expected(L)
    BY <1>2 DEF Expected
  <2> DEFINE looked == IF seriesMonitor.pc = "advance" THEN K ELSE K - 1
  <2>6. ~Disturbed("late")' => Copied(looked)'
    <3>1. ~Disturbed("late")' => Copied(looked)
      BY <1>2, <2>4, StillUndisturbed DEF Current
    <3>2. looked' = looked
      BY <1>2
    <3> HIDE DEF looked
    <3> QED BY <1>2, <1>3, <2>5, <3>1, <3>2 DEF Copied
  <2>7. ASSUME disturbed' = {} PROVE Accurate(K)'
    <3>1. disturbed = {} /\ seriesMonitor = Series!Idle /\ rts.dgt = <<>> /\ Series!IsExpected(arrival.dgt)
      BY <1>2, <2>7 DEF Series!addDgt
    <3>2. Series!InRange(arrival.dgt, rts.expectedDgt)
      BY <2>4, <3>1, SeriesConstants DEF Series!IsExpected
    <3>3. seriesMonitor.pc = "idle" /\ Accurate(K)
      BY <2>4, <3>1 DEF Current, Series!Idle
    <3> PICK E \in Nat : E = rts.expectedDgt
      BY <1>1, SeriesFields
    <3>4. Absent(K - 1)' = Absent(K - 1)
      <4>1. ASSUME NEW e \in Expected(K - 1) PROVE ~Series!InRange(arrival.dgt, e)
        <5>1. e \in Nat /\ e + Pei <= E
          BY <2>3, <2>4, ExpectedGrow
        <5>2. arrival.dgt \in Nat
          BY <1>1, SeriesFields
        <5> QED BY <3>2, <5>1, <5>2, SeriesConstants DEF Series!InRange
      <4> QED BY <1>3, <2>5, <4>1 DEF Absent
    <3>5. ASSUME NEW d \in tsi PROVE d <= E + Peid
      <4>1. CASE d = arrival.dgt
        BY <3>2, <4>1 DEF Series!InRange
      <4>2. CASE d # arrival.dgt
        BY <1>3, <3>3, <4>2 DEF Accurate
      <4> QED BY <4>1, <4>2
    <3>6. SeriesAtHand(rts.dgt = <<>>, Head(rts.dgt))'
      BY <1>3, <1>4, <3>2 DEF SeriesAtHand
    <3>7. Lists(mdlt, Absent(K - 1))'
      BY <1>2, <3>3, <3>4 DEF Accurate
    <3> QED BY <1>2, <1>3, <1>4, <3>3, <3>5, <3>6, <3>7 DEF Accurate
  <2>8. Current(K)'
    BY <1>2, <1>4, <2>4, <2>6, <2>7 DEF Current
  <2>9. Started' /\ NotStarted'
    BY <1>2, <1>3, <1>5, <2>3, <2>8 DEF Started, NotStarted
  <2> QED BY <2>2, <2>9 DEF Periodic
<1>7. ASSUME ~Disturbed("early")', ~Disturbed("during")' PROVE WindowTold'
  <2>1. WindowTold
    BY <1>2, <1>7, StillUndisturbed DEF SeriesInv
  <2>2. seriesMonitor = Series!Idle /\ seriesMonitor.pc = "idle"
    BY <1>7 DEF Series!addDgt, Disturbed, Series!Idle
  <2> QED BY <1>2, <1>3, <1>4, <1>5, <2>1, <2>2 DEF WindowTold, NotedBy
<1> QED BY <1>1, <1>5, <1>6, <1>7 DEF SeriesInv

\* A run starts.
LEMMA SeriesMonitorKeeps == ASSUME SeriesInv, Series!timeSeriesMonitor PROVE SeriesInv'
<1>1. Series!TypeOK /\ Shape
  BY DEF SeriesInv
<1>2. /\ seriesMonitor = Series!Idle /\ seriesMonitor.pc = "idle" /\ disturbed \subseteq disturbed'
      /\ UNCHANGED <<seriesNow, tsi, mdd, mdlt, known, first, arrival, seriesSub, seriesUpdates, num>>
      /\ \E time \in actors : time <= seriesNow /\ actors' = actors \ {time}
      /\ md' = md \/ md' = Series!NoData
  BY DEF Series!timeSeriesMonitor, Series!Idle
<1>3. Series!TypeOK'
  BY <1>1, MonitorTypes
<1>4. CASE ~known
  <2>1. UNCHANGED <<rts, md, seriesMonitor>>
    BY <1>4 DEF Series!timeSeriesMonitor
  <2>2. Shape'
    BY <1>1, <1>2, <2>1 DEF Shape, Detecting, Series!Late, Series!Detection
  <2>3. ASSUME ~Disturbed("early")' PROVE mdd = "deleted" /\ Monitored'
    <3>1. Monitored /\ arrival.pc # "starting"
      BY <1>2, <2>3, StillUndisturbed DEF SeriesInv, Series!timeSeriesMonitor, Disturbed
    <3>2. mdd = "deleted"
      BY <1>2, <1>4, <3>1 DEF Monitored, Detecting
    <3> QED BY <1>2, <2>1, <3>1, <3>2 DEF Monitored, Detecting
  <2>4. ASSUME ~Disturbed("early")', ~Disturbed("during")' PROVE WindowTold'
    <3>1. WindowTold
      BY <1>2, <2>4, StillUndisturbed DEF SeriesInv
    <3> QED BY <1>2, <2>1, <3>1 DEF WindowTold, NotedBy, Detecting
  <2> QED BY <1>2, <1>3, <2>2, <2>3, <2>4 DEF SeriesInv, Periodic
<1>5. CASE known
  <2>1. /\ rts' = [rts EXCEPT !.dgt = <<>>]
        /\ seriesMonitor' = [pc |-> "compare", dgt |-> IF rts.dgt = <<>> THEN Series!NoTime ELSE Head(rts.dgt),
                             copy |-> <<>>]
    BY <1>5 DEF Series!timeSeriesMonitor
  <2>2. /\ rts'.dgt = <<>> /\ rts'.expectedDgt = rts.expectedDgt /\ rts'.pei = rts.pei /\ rts'.running = rts.running
        /\ rts'.missingDataDetectionTime = rts.missingDataDetectionTime /\ rts'.actor = rts.actor
        /\ seriesMonitor'.pc = "compare" /\ seriesMonitor'.copy = <<>> /\ seriesMonitor' # Series!Idle
        /\ seriesMonitor'.dgt = (IF rts.dgt = <<>> THEN Series!NoTime ELSE Head(rts.dgt))
        /\ Detecting' = Detecting /\ mdd # "deleted"
    BY <1>1, <1>2, <1>5, <2>1 DEF Series!TypeOK, Series!LastTSInstance, Series!Idle, Detecting, Shape
  <2>3. Shape'
    BY <1>1, <1>2, <2>2 DEF Shape, Series!Late, Series!Detection
  <2>4. ASSUME ~Disturbed("early")' PROVE Monitored /\ Periodic /\ arrival.pc # "starting" /\ Detecting
    <3>1. Monitored /\ Periodic /\ arrival.pc # "starting"
      BY <1>2, <2>4, StillUndisturbed DEF SeriesInv, Series!timeSeriesMonitor, Disturbed
    <3> QED BY <1>2, <2>2, <3>1 DEF Monitored
  <2>5. ASSUME ~Disturbed("early")' PROVE Monitored'
    BY <1>2, <2>2, <2>4, <2>5 DEF Monitored
  <2>6. ASSUME ~Disturbed("early")' PROVE Started' /\ NotStarted'
    <3>1. first # 0 /\ mdd = "on"
      BY <1>1, <2>2, <2>4, <2>6, CurrentPeriod
    <3>2. PICK K \in Nat \ {0} : Current(K)
      BY <1>1, <2>2, <2>4, <2>6, CurrentPeriod
    <3>3. Expected(K - 1)' = Expected(K - 1) /\ Absent(K - 1)' = Absent(K - 1) /\ Seen' = Seen
      BY <1>2 DEF Expected, Absent, Seen
    <3>4. ~Disturbed("late")' => Copied(K - 1)'
      <4>1. ~Disturbed("late")' => Copied(K - 1)
        BY <1>2, <3>2, StillUndisturbed DEF Current
      <4> QED BY <1>2, <2>2, <3>3, <4>1 DEF Copied
    <3>5. ASSUME disturbed' = {} PROVE Accurate(K)'
      <4>1. Accurate(K)
        BY <1>2, <3>2, <3>5 DEF Current
      <4>2. rts.dgt # <<>> => Head(rts.dgt) # Series!NoTime
        BY <1>1, SeriesFields, SeriesConstants
      <4>3. SeriesAtHand(seriesMonitor.dgt = Series!NoTime, seriesMonitor.dgt)' /\ Lists(mdlt, Absent(K - 1))'
        BY <1>2, <2>2, <3>3, <4>1, <4>2 DEF Accurate, SeriesAtHand
      <4> QED BY <1>2, <2>2, <3>3, <4>1, <4>3 DEF Accurate
    <3>6. Current(K)'
      BY <1>2, <2>2, <3>2, <3>4, <3>5 DEF Current
    <3> QED BY <1>2, <2>2, <2>4, <2>6, <3>1, <3>6 DEF Started, NotStarted
  <2>7. ASSUME ~Disturbed("early")', ~Disturbed("during")' PROVE WindowTold'
    <3>1. WindowTold /\ Monitored /\ Detecting
      BY <1>2, <2>4, <2>7, StillUndisturbed DEF SeriesInv
    <3>2. rts.actor # Series!NoTime /\ actors = {rts.actor}
      BY <1>2, <2>2, <3>1 DEF Monitored
    <3>3. rts.missingDataDetectionTime <= seriesNow
      BY <1>2, <2>2, <3>1, <3>2 DEF WindowTold
    <3>4. md'.missingDataList # <<>> => md' = md /\ md.timeWindowEndTimestamp > rts.missingDataDetectionTime
      <4> SUFFICES ASSUME md'.missingDataList # <<>>
                   PROVE  md' = md /\ md.timeWindowEndTimestamp > rts.missingDataDetectionTime
        OBVIOUS
      <4>1. md' # Series!NoData /\ md' = md
        BY <1>2 DEF Series!NoData
      <4>2. md.timeWindowEndTimestamp = Series!NoTime \/ ~(md.timeWindowEndTimestamp <= rts.missingDataDetectionTime)
        BY <1>5, <4>1 DEF Series!timeSeriesMonitor
      <4>3. 1 \in DOMAIN md.missingDataList /\ md.missingDataList[1] \in Nat
        <5>1. PICK points \in Seq(Nat) : points = md.missingDataList
          BY <1>1, SeriesFields
        <5>2. points # <<>>
          BY <4>1, <5>1
        <5>3. 1 \in DOMAIN points /\ points[1] \in Nat
          BY <5>2
        <5> QED BY <5>1, <5>3
      <4>4. md.timeWindowEndTimestamp # Series!NoTime
        BY <3>1, <4>3, SeriesConstants DEF WindowTold
      <4> QED BY <1>1, <4>1, <4>2, <4>4, SeriesFields
    <3>5. DOMAIN md'.missingDataList = {} \/ md' = md
      BY <1>2 DEF Series!NoData
    <3>6. \A i \in DOMAIN md'.missingDataList :
            /\ md'.timeWindowEndTimestamp <= md'.missingDataList[i] + Dur + Mdt
            /\ md'.missingDataList[i] + Mdt < md'.timeWindowEndTimestamp
            /\ md'.missingDataList[i] + Mdt <= seriesNow
            /\ md'.missingDataList[i] + Mdt <= rts.missingDataDetectionTime
      BY <2>2, <3>1, <3>2, <3>5 DEF WindowTold, NotedBy
    <3> QED BY <1>2, <2>2, <3>1, <3>2, <3>3, <3>4, <3>6 DEF WindowTold, NotedBy
  <2> QED BY <1>3, <2>3, <2>4, <2>5, <2>6, <2>7 DEF SeriesInv, Periodic
<1> QED BY <1>4, <1>5

\* A dgt is compared with the one that is expected.
LEMMA SeriesCompareKeeps == ASSUME SeriesInv, Series!compareDgt PROVE SeriesInv'
<1>1. Series!TypeOK /\ Shape
  BY DEF SeriesInv
<1>2. /\ seriesMonitor.pc = "compare" /\ seriesMonitor # Series!Idle
      /\ UNCHANGED <<seriesNow, tsi, mdd, mdlt, known, rts, first, actors, arrival, seriesSub, md, seriesUpdates, num, disturbed>>
  BY DEF Series!compareDgt, Series!Idle
<1>3. Series!TypeOK' /\ Detecting' = Detecting /\ Seen' = Seen /\ (\A L : Expected(L)' = Expected(L) /\ Absent(L)' = Absent(L))
  BY <1>1, <1>2, MonitorTypes DEF Detecting, Seen, Expected, Absent
<1>4. \/ Series!IsExpected(seriesMonitor.dgt) /\ seriesMonitor'.pc = "advance" /\ seriesMonitor'.copy = seriesMonitor.copy
      \/ seriesMonitor' = Series!Idle /\ mdd = "deleted"
      \/ /\ ~Series!IsExpected(seriesMonitor.dgt) /\ seriesMonitor'.pc = "note" /\ seriesMonitor'.copy # <<>>
         /\ seriesMonitor'.copy = seriesMonitor.copy \/ seriesMonitor'.copy = <<mdlt>>
  <2>1. \/ Series!IsExpected(seriesMonitor.dgt) /\ seriesMonitor' = [seriesMonitor EXCEPT !.pc = "advance"]
        \/ /\ ~Series!IsExpected(seriesMonitor.dgt) /\ seriesMonitor.copy # <<>>
           /\ seriesMonitor' = [seriesMonitor EXCEPT !.pc = "note"]
        \/ seriesMonitor' = Series!Idle /\ mdd = "deleted"
        \/ /\ ~Series!IsExpected(seriesMonitor.dgt)
           /\ seriesMonitor' = [seriesMonitor EXCEPT !.pc = "note", !.copy = <<mdlt>>]
    BY DEF Series!compareDgt
  <2>2. seriesMonitor \in Series!MonitorRun
    BY <1>1 DEF Series!TypeOK
  <2>3. ASSUME seriesMonitor' = [seriesMonitor EXCEPT !.pc = "note", !.copy = <<mdlt>>]
        PROVE  seriesMonitor'.pc = "note" /\ seriesMonitor'.copy = <<mdlt>> /\ seriesMonitor'.copy # <<>>
    BY <2>2, <2>3 DEF Series!MonitorRun
  <2>4. ASSUME NEW pc, seriesMonitor' = [seriesMonitor EXCEPT !.pc = pc]
        PROVE  seriesMonitor'.pc = pc /\ seriesMonitor'.copy = seriesMonitor.copy
    BY <2>2, <2>4 DEF Series!MonitorRun
  <2> QED BY <2>1, <2>3, <2>4
<1>5. Shape'
  BY <1>1, <1>2, <1>3, <1>4 DEF Shape, Series!Idle, Series!Late, Series!Detection
<1>6. seriesMonitor' # Series!Idle \/ mdd = "deleted"
  BY <1>4 DEF Series!Idle
<1>7. ASSUME ~Disturbed("early")' PROVE Monitored'
  <2>1. Monitored
    BY <1>2, <1>7 DEF SeriesInv, Disturbed
  <2> QED BY <1>2, <1>3, <1>6, <2>1 DEF Monitored
<1>8. ASSUME ~Disturbed("early")', mdd # "deleted" PROVE Started' /\ NotStarted'
  <2>1. Monitored /\ Periodic
    BY <1>2, <1>8 DEF SeriesInv, Disturbed
  <2>2. Detecting
    BY <1>2, <1>8, <2>1 DEF Monitored
  <2>3. first # 0 /\ first \in Nat /\ mdd = "on"
    BY <1>1, <1>8, <2>1, <2>2, CurrentPeriod
  <2>4. PICK K \in Nat \ {0} : /\ Current(K) /\ rts.expectedDgt = first + K * Pei /\ rts.pei = Pei
                               /\ rts.expectedDgt \in Nat /\ rts.expectedDgt >= Pei
    BY <1>1, <1>8, <2>1, <2>2, CurrentPeriod
  <2>5. Expected(K - 1) \subseteq Expected(K)
    BY <2>3, ExpectedGrow
  <2>6. ASSUME ~Disturbed("late"), NEW L \in {K - 1, K} PROVE Copied(L)'
    <3>1. Copied(K - 1)
      BY <1>2, <2>4, <2>6 DEF Current
    <3>2. Within(mdlt, Expected(K - 1)) /\ (seriesMonitor'.copy # <<>> => Within(seriesMonitor'.copy[1], Expected(K - 1)))
          /\ (arrival.pc \in {"reloaded", "added"} => Within(arrival.copy, Expected(K - 1)))
      BY <1>4, <3>1 DEF Copied, Series!Idle
    <3>3. Expected(K - 1) \subseteq Expected(L)
      BY <2>5
    <3>4. Within(mdlt, Expected(L)) /\ (seriesMonitor'.copy # <<>> => Within(seriesMonitor'.copy[1], Expected(L)))
          /\ (arrival.pc \in {"reloaded", "added"} => Within(arrival.copy, Expected(L)))
      BY <3>2, <3>3, WithinMore
    <3> QED BY <1>2, <1>3, <3>4 DEF Copied
  <2>7. ASSUME disturbed = {} PROVE Accurate(K)'
    <3>1. Accurate(K)
      BY <2>4, <2>7 DEF Current
    <3>2. rts.dgt = <<>> /\ (\A d \in Seen : d <= rts.expectedDgt + Peid)
          /\ SeriesAtHand(seriesMonitor.dgt = Series!NoTime, seriesMonitor.dgt) /\ Lists(mdlt, Absent(K - 1))
      BY <1>2, <3>1 DEF Accurate
    <3>3. CASE Series!IsExpected(seriesMonitor.dgt) /\ seriesMonitor'.pc = "advance"
      <4>1. Series!InRange(seriesMonitor.dgt, rts.expectedDgt)
        BY <2>4, <3>3, SeriesConstants DEF Series!IsExpected
      <4>2. seriesMonitor.dgt # Series!NoTime
        BY <2>4, <4>1, NotDue
      <4>3. \E d \in Seen : Series!InRange(d, first + K * Pei)
        BY <2>4, <3>2, <4>2 DEF SeriesAtHand
      <4>4. Absent(K) = Absent(K - 1)
        BY <2>3, <4>3, AbsentGrow
      <4> QED BY <1>2, <1>3, <3>2, <3>3, <4>4 DEF Accurate
    <3>4. CASE ~Series!IsExpected(seriesMonitor.dgt) /\ seriesMonitor'.pc = "note"
      <4>1. ~Series!InRange(seriesMonitor.dgt, rts.expectedDgt)
        BY <2>4, <3>4, SeriesConstants DEF Series!IsExpected
      <4>2. SeriesAtHand(TRUE, 0)
        BY <3>2, <4>1 DEF SeriesAtHand
      <4>3. SeriesAtHand(TRUE, 0)'
        BY <1>2, <1>3, <4>2 DEF SeriesAtHand
      <4> QED BY <1>2, <1>3, <3>2, <3>4, <4>3 DEF Accurate
    <3> QED BY <1>4, <1>8, <3>3, <3>4
  <2>8. Current(K)'
    <3>1. ~Disturbed("late")' => Copied(K - 1)' /\ Copied(K)'
      BY <1>2, <2>6 DEF Disturbed
    <3>2. (disturbed' = {} => Accurate(K)') /\ rts'.expectedDgt = first' + K * Pei /\ rts'.pei = Pei
      BY <1>2, <2>4, <2>7
    <3>3. CASE seriesMonitor'.pc = "advance"
      BY <3>1, <3>2, <3>3 DEF Current
    <3>4. CASE seriesMonitor'.pc # "advance"
      BY <3>1, <3>2, <3>4 DEF Current
    <3> QED BY <3>3, <3>4
  <2> QED BY <1>2, <1>3, <2>2, <2>3, <2>8 DEF Started, NotStarted
<1>9. ASSUME ~Disturbed("early")', ~Disturbed("during")' PROVE WindowTold'
  <2>1. WindowTold
    BY <1>2, <1>9 DEF SeriesInv, Disturbed
  <2>2. seriesMonitor.pc # "idle" /\ (seriesMonitor'.pc = "idle" => mdd = "deleted")
    BY <1>2, <1>4
  <2> QED BY <1>2, <1>3, <2>1, <2>2 DEF WindowTold, NotedBy
<1> QED BY <1>2, <1>3, <1>5, <1>7, <1>8, <1>9 DEF SeriesInv, Periodic


\* A point that is missing comes into the window.
LEMMA NoteWindow ==
  ASSUME Series!TypeOK, WindowTold, mdd # "deleted", seriesMonitor.pc # "idle", Detecting,
         md' = Series!checkSubscriptions(Series!addMissingData),
         UNCHANGED <<seriesNow, mdd, known, rts, arrival>>, seriesMonitor'.pc # "idle"
  PROVE  WindowTold'
<1> PICK points \in Seq(Nat) : points = md.missingDataList
  BY SeriesFields
<1> PICK E \in Nat : E = rts.expectedDgt
  BY SeriesFields
<1> PICK end : end = IF points = <<>> THEN E + Mdt + Dur ELSE md.timeWindowEndTimestamp
  OBVIOUS
<1>1. rts.missingDataDetectionTime = E + Mdt /\ E + Mdt <= seriesNow /\ NotedBy(E + Mdt) /\ rts.actor # Series!NoTime
  BY DEF WindowTold
<1>2. Series!addMissingData = [timeWindowEndTimestamp |-> end, missingDataList |-> Append(points, E)]
  BY <1>1 DEF Series!addMissingData
<1>3. end \in Int /\ E + Mdt < end
  <2>1. CASE points = <<>>
    BY <2>1, SeriesConstants
  <2>2. CASE points # <<>>
    <3>1. end \in Nat \cup {Series!NoTime}
      BY <2>2, SeriesFields
    <3>2. end > E + Mdt
      BY <1>1, <2>2 DEF WindowTold
    <3> QED BY <3>1, <3>2, SeriesConstants
  <2> QED BY <2>1, <2>2
<1>4. \A i \in DOMAIN points : points[i] \in Nat /\ end <= points[i] + Dur + Mdt /\ points[i] + Mdt <= E + Mdt
  <2>1. \A i \in DOMAIN points : points[i] \in Nat /\ points # <<>>
    OBVIOUS
  <2> QED BY <1>1, <2>1 DEF WindowTold, NotedBy
<1>5. end <= E + Dur + Mdt
  <2>1. CASE points = <<>>
    BY <2>1, SeriesConstants
  <2>2. CASE points # <<>>
    <3>1. 1 \in DOMAIN points
      BY <2>2
    <3>2. PICK point \in Nat : end <= point + Dur + Mdt /\ point + Mdt <= E + Mdt
      BY <1>4, <3>1
    <3>3. Dur \in Nat /\ Mdt \in Nat
      BY SeriesConstants
    <3> QED BY <1>3, <3>2, <3>3
  <2> QED BY <2>1, <2>2
<1>6. md'.missingDataList = <<>> \/ (md'.missingDataList = Append(points, E) /\ md'.timeWindowEndTimestamp = end)
  BY <1>2 DEF Series!checkSubscriptions
<1>7. ASSUME NEW i \in DOMAIN md'.missingDataList
      PROVE  LET point == md'.missingDataList[i] IN
             /\ md'.timeWindowEndTimestamp <= point + Dur + Mdt /\ point + Mdt < md'.timeWindowEndTimestamp
             /\ point + Mdt <= E + Mdt /\ point + Mdt <= seriesNow
  <2>1. md'.missingDataList = Append(points, E) /\ md'.timeWindowEndTimestamp = end
    BY <1>6
  <2> PICK point : point = md'.missingDataList[i]
    OBVIOUS
  <2>2. point = E \/ \E j \in DOMAIN points : point = points[j]
    BY <2>1
  <2>3. point \in Nat /\ end <= point + Dur + Mdt /\ point + Mdt <= E + Mdt
    <3>1. CASE point = E
      BY <1>5, <3>1, SeriesConstants
    <3>2. CASE \E j \in DOMAIN points : point = points[j]
      BY <1>4, <3>2
    <3> QED BY <2>2, <3>1, <3>2
  <2>4. point + Mdt < end /\ point + Mdt <= seriesNow
    <3>1. seriesNow \in Nat /\ Mdt \in Nat
      BY SeriesFields, SeriesConstants
    <3> QED BY <1>1, <1>3, <2>3, <3>1
  <2> QED BY <2>1, <2>3, <2>4
<1>8. md'.missingDataList # <<>> => md'.timeWindowEndTimestamp > E + Mdt
  BY <1>3, <1>6
<1>9. Detecting'
  BY DEF Detecting
<1> QED BY <1>1, <1>7, <1>8, <1>9 DEF WindowTold, NotedBy

\* A time that is missing is noted.
LEMMA SeriesNoteKeeps == ASSUME SeriesInv, Series!noteMissing PROVE SeriesInv'
<1>1. Series!TypeOK /\ Shape
  BY DEF SeriesInv
<1>2. /\ seriesMonitor.pc = "note" /\ seriesMonitor # Series!Idle /\ seriesMonitor.copy # <<>>
      /\ UNCHANGED <<seriesNow, tsi, mdd, known, rts, first, actors, arrival, seriesSub, seriesUpdates, num>>
      /\ disturbed \subseteq disturbed'
  BY <1>1 DEF Series!noteMissing, Series!Idle, Shape, Series!dbUpdate
<1>3. Series!TypeOK' /\ Detecting' = Detecting /\ Seen' = Seen /\ (\A L : Expected(L)' = Expected(L) /\ Absent(L)' = Absent(L))
  BY <1>1, <1>2, MonitorTypes DEF Detecting, Seen, Expected, Absent
<1>4. CASE mdd = "deleted"
  <2>1. seriesMonitor' = Series!Idle /\ UNCHANGED <<mdlt, md, disturbed>>
    BY <1>4 DEF Series!noteMissing
  <2>2. Shape'
    BY <1>1, <1>2, <1>3, <2>1 DEF Shape, Series!Idle, Series!Late, Series!Detection
  <2>3. ASSUME ~Disturbed("early")' PROVE Monitored'
    <3>1. Monitored
      BY <2>1, <2>3 DEF SeriesInv, Disturbed
    <3> QED BY <1>2, <1>3, <1>4, <2>1, <3>1 DEF Monitored
  <2>4. ASSUME ~Disturbed("early")', ~Disturbed("during")' PROVE WindowTold'
    <3>1. WindowTold
      BY <2>1, <2>4 DEF SeriesInv, Disturbed
    <3> QED BY <1>2, <1>3, <1>4, <2>1, <3>1 DEF WindowTold, NotedBy
  <2> QED BY <1>2, <1>3, <1>4, <2>2, <2>3, <2>4 DEF SeriesInv, Periodic
<1>5. CASE mdd # "deleted"
  <2> PICK list : list = Series!addDgtToMdlt(seriesMonitor.copy[1], rts.expectedDgt)
    OBVIOUS
  <2>1. /\ mdlt' = list /\ seriesMonitor' = [seriesMonitor EXCEPT !.pc = "advance", !.copy = <<list>>]
        /\ disturbed' = {} => seriesMonitor.copy[1] = mdlt
        /\ md' = md \/ md' = Series!checkSubscriptions(Series!addMissingData)
    BY <1>5 DEF Series!noteMissing, Series!dbUpdate
  <2>2. seriesMonitor'.pc = "advance" /\ seriesMonitor'.copy = <<list>> /\ seriesMonitor' # Series!Idle
    BY <1>1, <2>1 DEF Series!TypeOK, Series!MonitorRun, Series!Idle
  <2>3. Shape'
    BY <1>1, <1>2, <1>3, <2>2 DEF Shape, Series!Late, Series!Detection
  <2>4. ASSUME ~Disturbed("early")' PROVE Monitored /\ Periodic /\ Detecting /\ Monitored'
    <3>1. Monitored /\ Periodic
      BY <1>2, <2>4, StillUndisturbed DEF SeriesInv
    <3> QED BY <1>2, <1>3, <1>5, <2>2, <3>1 DEF Monitored
  <2>5. ASSUME ~Disturbed("early")' PROVE Started' /\ NotStarted'
    <3>1. first # 0 /\ first \in Nat /\ mdd = "on"
      BY <1>1, <1>5, <2>4, <2>5, CurrentPeriod
    <3>2. PICK K \in Nat \ {0} : /\ Current(K) /\ rts.expectedDgt = first + K * Pei /\ rts.pei = Pei
                                 /\ rts.expectedDgt \in Nat
      BY <1>1, <1>5, <2>4, <2>5, CurrentPeriod
    <3>3. /\ Expected(K) = Expected(K - 1) \cup {rts.expectedDgt} /\ Expected(K - 1) \in SUBSET Nat
          /\ \A d \in Expected(K - 1) : d < rts.expectedDgt
      <4>1. \A d \in Expected(K - 1) : d \in Nat /\ d + Pei <= rts.expectedDgt
        BY <3>1, <3>2, ExpectedGrow
      <4>2. Expected(K - 1) \in SUBSET Nat /\ \A d \in Expected(K - 1) : d < rts.expectedDgt
        BY <3>2, <4>1, SeriesConstants
      <4> QED BY <3>1, <3>2, <4>2, ExpectedGrow
    <3>4. seriesMonitor.copy[1] \in Seq(Nat) /\ Len(seriesMonitor.copy[1]) <= Mdn
      BY <1>1, <1>2, SeriesFields
    <3>5. ASSUME ~Disturbed("late")' PROVE Copied(K)'
      <4>1. Copied(K - 1)
        BY <1>2, <3>2, <3>5, StillUndisturbed DEF Current
      <4>2. Within(seriesMonitor.copy[1], Expected(K - 1))
            /\ (arrival.pc \in {"reloaded", "added"} => Within(arrival.copy, Expected(K - 1)))
        BY <1>2, <4>1 DEF Copied
      <4>3. Within(list, Expected(K))
        BY <3>2, <3>3, <3>4, <4>2, AddedWithin
      <4>4. arrival.pc \in {"reloaded", "added"} => Within(arrival.copy, Expected(K))
        BY <3>3, <4>2, WithinMore
      <4>5. seriesMonitor'.copy[1] = list
        BY <2>2
      <4> QED BY <1>2, <1>3, <2>1, <4>3, <4>4, <4>5 DEF Copied
    <3>6. ASSUME disturbed' = {} PROVE Accurate(K)'
      <4>1. Accurate(K)
        BY <1>2, <3>2, <3>6 DEF Current
      <4>2. /\ rts.dgt = <<>> /\ (\A d \in Seen : d <= rts.expectedDgt + Peid) /\ Lists(mdlt, Absent(K - 1))
            /\ \A d \in Seen : ~Series!InRange(d, rts.expectedDgt)
        BY <1>2, <4>1 DEF Accurate, SeriesAtHand
      <4>3. Absent(K) = Absent(K - 1) \cup {rts.expectedDgt} /\ Absent(K - 1) \in SUBSET Nat
            /\ \A d \in Absent(K - 1) : d < rts.expectedDgt
        BY <3>1, <3>2, <4>2, AbsentGrow
      <4>4. Lists(list, Absent(K))
        BY <2>1, <3>2, <3>4, <3>6, <4>2, <4>3, AddedLists
      <4> QED BY <1>2, <1>3, <2>1, <2>2, <4>2, <4>4 DEF Accurate
    <3>7. Current(K)'
      BY <1>2, <2>2, <3>2, <3>5, <3>6 DEF Current
    <3> QED BY <1>2, <1>3, <2>4, <2>5, <3>1, <3>7 DEF Started, NotStarted
  <2>6. ASSUME ~Disturbed("early")', ~Disturbed("during")' PROVE WindowTold'
    <3>1. WindowTold /\ Detecting
      BY <1>2, <2>4, <2>6, StillUndisturbed DEF SeriesInv
    <3>2. CASE md' = md
      BY <1>2, <1>3, <2>2, <3>1, <3>2 DEF WindowTold, NotedBy
    <3>3. CASE md' = Series!checkSubscriptions(Series!addMissingData)
      BY <1>1, <1>2, <1>5, <2>2, <3>1, <3>3, NoteWindow
    <3> QED BY <2>1, <3>2, <3>3
  <2> QED BY <1>2, <1>3, <2>3, <2>4, <2>5, <2>6 DEF SeriesInv, Periodic
<1> QED BY <1>4, <1>5

\* The next period.
LEMMA SeriesNextKeeps == ASSUME SeriesInv, Series!nextDgt PROVE SeriesInv'
<1>1. Series!TypeOK /\ Shape
  BY DEF SeriesInv
<1>2. /\ seriesMonitor.pc = "advance" /\ seriesMonitor # Series!Idle
      /\ UNCHANGED <<seriesNow, tsi, mdd, mdlt, known, first, arrival, seriesSub, md, seriesUpdates, num, disturbed>>
  BY DEF Series!nextDgt, Series!Idle
<1>3. Series!TypeOK' /\ Seen' = Seen /\ (\A L : Expected(L)' = Expected(L) /\ Absent(L)' = Absent(L))
  BY <1>1, <1>2, MonitorTypes DEF Seen, Expected, Absent
<1> PICK E \in Nat : E = rts.expectedDgt
  BY <1>1, SeriesFields
<1> PICK time \in Nat : time = rts.missingDataDetectionTime + rts.pei
  BY <1>1, SeriesFields, SeriesConstants
<1>4. rts'.expectedDgt = E + rts.pei /\ rts'.pei = rts.pei /\ rts'.running = rts.running /\ rts'.dgt = <<>>
  <2>1. CASE rts.dgt # <<>>
    BY <1>1, <2>1 DEF Series!nextDgt, Series!TypeOK, Series!LastTSInstance
  <2>2. CASE rts.dgt = <<>>
    BY <1>1, <2>2 DEF Series!nextDgt, Series!TypeOK, Series!LastTSInstance
  <2> QED BY <2>1, <2>2
<1>5. Detecting' = Detecting
  BY <1>2, <1>4 DEF Detecting
<1>6. \/ /\ rts.dgt # <<>> /\ seriesMonitor'.pc = "compare" /\ seriesMonitor'.copy = seriesMonitor.copy
         /\ seriesMonitor' # Series!Idle /\ actors' = actors
      \/ /\ rts.dgt = <<>> /\ seriesMonitor' = Series!Idle /\ seriesMonitor'.pc = "idle" /\ seriesMonitor'.copy = <<>>
         /\ actors' = actors \cup {time} /\ rts'.actor = time /\ rts'.missingDataDetectionTime = time
  <2>1. CASE rts.dgt # <<>>
    <3>1. seriesMonitor' = [seriesMonitor EXCEPT !.pc = "compare", !.dgt = Head(rts.dgt)] /\ actors' = actors
      BY <2>1 DEF Series!nextDgt
    <3> QED BY <1>1, <2>1, <3>1 DEF Series!TypeOK, Series!MonitorRun, Series!Idle
  <2>2. CASE rts.dgt = <<>>
    <3>1. seriesMonitor' = Series!Idle /\ actors' = actors \cup {time}
      BY <2>2 DEF Series!nextDgt
    <3>2. rts'.actor = time /\ rts'.missingDataDetectionTime = time
      BY <1>1, <2>2 DEF Series!nextDgt, Series!TypeOK, Series!LastTSInstance
    <3> QED BY <2>2, <3>1, <3>2 DEF Series!Idle
  <2> QED BY <2>1, <2>2
<1>7. Shape'
  BY <1>1, <1>2, <1>5, <1>6 DEF Shape, Series!Late, Series!Detection
<1>8. ASSUME ~Disturbed("early")' PROVE Monitored /\ Periodic /\ Monitored'
  <2>1. Monitored /\ Periodic
    BY <1>2, <1>8 DEF SeriesInv, Disturbed
  <2>2. actors = {} /\ (mdd # "deleted" => Detecting)
    BY <1>2, <2>1 DEF Monitored
  <2>3. time # Series!NoTime
    BY SeriesConstants
  <2>4. arrival.pc # "starting"
    BY <1>2, <2>1 DEF Monitored
  <2> QED BY <1>2, <1>5, <1>6, <2>1, <2>2, <2>3, <2>4 DEF Monitored
<1>9. ASSUME ~Disturbed("early")', mdd # "deleted" PROVE Started' /\ NotStarted'
  <2>1. Detecting
    BY <1>2, <1>8, <1>9 DEF Monitored
  <2>2. first # 0 /\ first \in Nat /\ mdd = "on"
    BY <1>1, <1>8, <1>9, <2>1, CurrentPeriod
  <2>3. PICK K \in Nat \ {0} : Current(K) /\ E = first + K * Pei /\ rts.pei = Pei
    BY <1>1, <1>8, <1>9, <2>1, CurrentPeriod
  <2>4. E + Pei = first + (K + 1) * Pei /\ K + 1 - 1 = K /\ K + 1 \in Nat \ {0}
    <3>1. (K + 1) * Pei = K * Pei + Pei /\ K * Pei \in Nat
      BY Periods
    <3> QED BY <2>2, <2>3, <3>1, SeriesConstants
  <2>5. seriesMonitor'.pc # "advance" /\ (seriesMonitor'.copy # <<>> => seriesMonitor'.copy = seriesMonitor.copy)
    BY <1>6
  <2>6. ~Disturbed("late")' => Copied(K)'
    <3>1. ~Disturbed("late")' => Copied(K)
      BY <1>2, <2>3 DEF Current, Disturbed
    <3> QED BY <1>2, <1>3, <2>5, <3>1 DEF Copied
  <2>7. ASSUME disturbed' = {} PROVE Accurate(K + 1)'
    <3>1. Accurate(K)
      BY <1>2, <2>3, <2>7 DEF Current
    <3>2. rts.dgt = <<>> /\ (\A d \in Seen : d <= E + Peid) /\ Lists(mdlt, Absent(K)) /\ seriesMonitor'.pc = "idle"
      BY <1>2, <1>6, <3>1 DEF Accurate
    <3>3. ASSUME NEW d \in Seen PROVE d <= (E + Pei) + Peid /\ ~Series!InRange(d, E + Pei)
      <4>1. d \in Nat /\ d <= E + Peid
        BY <1>1, <3>2, SeriesFields DEF Seen
      <4> QED BY <4>1, SeriesConstants DEF Series!InRange
    <3>4. SeriesAtHand(rts.dgt = <<>>, Head(rts.dgt))'
      BY <1>3, <1>4, <2>3, <3>3 DEF SeriesAtHand
    <3>5. Lists(mdlt, Absent(K + 1 - 1))'
      BY <1>2, <1>3, <2>4, <3>2
    <3> QED BY <1>3, <1>4, <2>3, <3>2, <3>3, <3>4, <3>5 DEF Accurate
  <2>8. rts'.expectedDgt = first' + (K + 1) * Pei /\ rts'.pei = Pei
    BY <1>2, <1>4, <2>3, <2>4
  <2>9. Current(K + 1)'
    BY <2>4, <2>5, <2>6, <2>7, <2>8 DEF Current
  <2> QED BY <1>2, <1>5, <2>1, <2>2, <2>4, <2>9 DEF Started, NotStarted
<1>10. ASSUME ~Disturbed("early")', ~Disturbed("during")' PROVE WindowTold'
  <2>1. WindowTold /\ (mdd # "deleted" => Detecting)
    BY <1>2, <1>8, <1>10 DEF SeriesInv, Disturbed, Monitored
  <2>2. CASE mdd = "deleted"
    BY <1>2, <1>5, <2>1, <2>2 DEF WindowTold, NotedBy
  <2>3. CASE mdd # "deleted"
    <3>1. /\ rts.pei = Pei /\ rts.missingDataDetectionTime = E + Mdt /\ rts.actor # Series!NoTime /\ rts.dgt = <<>>
          /\ NotedBy(rts.missingDataDetectionTime) /\ Detecting
      BY <1>2, <2>1, <2>3 DEF WindowTold
    <3>2. time = (E + Pei) + Mdt /\ rts.missingDataDetectionTime <= time
      BY <3>1, SeriesConstants
    <3>3. NotedBy(time)
      <4>1. \A i \in DOMAIN md.missingDataList : md.missingDataList[i] + Mdt \in Nat
        <5>1. md.missingDataList \in Seq(Nat) /\ Mdt \in Nat
          BY <1>1, SeriesFields, SeriesConstants
        <5> QED BY <5>1
      <4>2. rts.missingDataDetectionTime \in Nat
        BY <1>1, SeriesFields
      <4>3. ASSUME NEW i \in DOMAIN md.missingDataList PROVE md.missingDataList[i] + Mdt <= time
        <5>1. md.missingDataList[i] + Mdt <= rts.missingDataDetectionTime
          BY <3>1 DEF NotedBy
        <5> QED BY <3>2, <4>1, <4>2, <5>1
      <4> QED BY <4>3 DEF NotedBy
    <3>4. /\ seriesMonitor'.pc = "idle" /\ rts'.actor = time /\ rts'.missingDataDetectionTime = time
          /\ rts'.expectedDgt = E + Pei /\ rts'.pei = Pei
      BY <1>4, <1>6, <3>1
    <3> QED BY <1>2, <1>5, <2>1, <2>3, <3>1, <3>2, <3>3, <3>4 DEF WindowTold, NotedBy
  <2> QED BY <2>2, <2>3
<1> QED BY <1>2, <1>3, <1>7, <1>8, <1>9, <1>10 DEF SeriesInv, Periodic

\* Steps that leave the detection alone.
LEMMA Aside ==
  ASSUME Monitored, Periodic, mdd # "deleted",
         UNCHANGED <<tsi, mdd, mdlt, first, actors, seriesMonitor, arrival, disturbed>>,
         Detecting' = Detecting, Detecting => rts' = rts
  PROVE  Monitored' /\ Periodic'
<1>1. Series!Detection' = Series!Detection
  BY DEF Series!Detection
<1>2. Monitored'
  BY <1>1 DEF Monitored
<1>3. ASSUME first # 0 PROVE mdd = "on" /\ Detecting /\ \E K \in Nat \ {0} : Current(K)'
  <2>1. Detecting /\ mdd = "on" /\ rts' = rts
    BY <1>3 DEF Periodic, Started
  <2>2. PICK K \in Nat \ {0} : Current(K)
    BY <1>3 DEF Periodic, Started
  <2>3. (\A L : Absent(L)' = Absent(L) /\ Expected(L)' = Expected(L)) /\ Seen' = Seen
    BY DEF Absent, Expected, Seen
  <2>4. Accurate(K) => Accurate(K)'
    BY <2>1, <2>3 DEF Accurate, SeriesAtHand
  <2>5. \A L : Copied(L) => Copied(L)'
    BY <2>3 DEF Copied
  <2>6. Current(K)'
    BY <2>1, <2>2, <2>4, <2>5 DEF Current, Disturbed
  <2> QED BY <2>1, <2>6
<1>4. Started' /\ NotStarted'
  BY <1>3 DEF Started, NotStarted, Periodic
<1> QED BY <1>2, <1>4 DEF Periodic

LEMMA TimeKeeps == ASSUME SeriesInv, Series!Tick PROVE SeriesInv'
<1>1. Series!TypeOK /\ Shape /\ Series!TypeOK'
  BY RequestTypes DEF SeriesInv
<1>2. /\ seriesMonitor = Series!Idle /\ seriesMonitor.pc = "idle" /\ seriesNow' = seriesNow + 1
      /\ UNCHANGED <<tsi, mdd, mdlt, known, rts, first, actors, seriesMonitor, arrival, seriesSub, md, disturbed>>
  BY DEF Series!Tick, Series!Idle
<1>3. Shape' /\ Detecting' = Detecting
  BY <1>1, <1>2 DEF Shape, Detecting, Series!Late, Series!Detection
<1>4. ASSUME ~Disturbed("early")' PROVE Monitored' /\ Periodic'
  <2>1. Monitored /\ Periodic
    BY <1>2, <1>4 DEF SeriesInv, Disturbed
  <2>2. CASE mdd # "deleted"
    BY <1>2, <1>3, <2>1, <2>2, Aside
  <2>3. CASE mdd = "deleted"
    BY <1>2, <1>3, <2>1, <2>3 DEF Monitored, Periodic, Series!Detection
  <2> QED BY <2>2, <2>3
<1>5. ASSUME ~Disturbed("early")', ~Disturbed("during")' PROVE WindowTold'
  <2>1. WindowTold
    BY <1>2, <1>5 DEF SeriesInv, Disturbed
  <2>2. NotedBy(seriesNow')
    <3>1. ASSUME NEW i \in DOMAIN md.missingDataList PROVE md.missingDataList[i] + Mdt <= seriesNow'
      <4>1. PICK point \in Nat : point = md.missingDataList[i]
        <5>1. md.missingDataList \in Seq(Nat)
          BY <1>1, SeriesFields
        <5> QED BY <5>1
      <4>2. point + Mdt <= seriesNow /\ seriesNow \in Nat /\ Mdt \in Nat
        BY <1>1, <2>1, <4>1, SeriesFields, SeriesConstants DEF WindowTold, NotedBy
      <4> QED BY <1>2, <4>1, <4>2
    <3> QED BY <3>1 DEF NotedBy
  <2>3. NotedBy(seriesNow)' /\ (\A time : NotedBy(time) => NotedBy(time)')
    BY <1>2, <2>2 DEF NotedBy
  <2>4. arrival.pc # "idle" => arrival.ct <= seriesNow'
    BY <1>1, <1>2, <2>1, SeriesFields DEF WindowTold
  <2> QED BY <1>2, <1>3, <2>1, <2>3, <2>4 DEF WindowTold, NotedBy
<1> QED BY <1>1, <1>3, <1>4, <1>5 DEF SeriesInv

LEMMA SwitchKeeps == ASSUME SeriesInv, NEW on \in BOOLEAN, Series!update(on) PROVE SeriesInv'
<1>1. Series!TypeOK /\ Shape /\ Series!TypeOK'
  BY RequestTypes DEF SeriesInv
<1>2. /\ seriesMonitor = Series!Idle /\ arrival = Series!NoArrival /\ mdd # "deleted" /\ mdd' # "deleted" /\ first' = 0
      /\ UNCHANGED <<seriesNow, tsi, known, seriesMonitor, arrival, md, disturbed>>
      /\ mdd' = "on" => mdlt' = <<>>
      /\ IF known THEN rts' = [rts EXCEPT !.running = FALSE] ELSE rts' = rts
      /\ actors' = IF known /\ rts.actor # Series!NoTime THEN actors \ {rts.actor} ELSE actors
  BY DEF Series!update, Series!Alone, Series!stopActor
<1>3. ~Detecting' /\ seriesMonitor.pc = "idle" /\ arrival.pc = "idle"
  BY <1>1, <1>2 DEF Detecting, Series!TypeOK, Series!LastTSInstance, Series!Idle, Series!NoArrival
<1>4. Shape'
  BY <1>1, <1>2, <1>3 DEF Shape
<1>5. ASSUME ~Disturbed("early")' PROVE Monitored' /\ Periodic'
  <2>1. Monitored
    BY <1>2, <1>5 DEF SeriesInv, Disturbed
  <2>2. actors' = {}
    <3>1. CASE Detecting
      BY <1>2, <2>1, <3>1 DEF Monitored, Detecting
    <3>2. CASE ~Detecting
      BY <1>2, <1>3, <2>1, <3>2 DEF Monitored
    <3> QED BY <3>1, <3>2
  <2>3. Monitored'
    BY <1>2, <1>3, <2>2 DEF Monitored
  <2> QED BY <1>2, <1>3, <2>3 DEF Periodic, Started, NotStarted
<1>6. ASSUME ~Disturbed("early")', ~Disturbed("during")' PROVE WindowTold'
  <2>1. WindowTold
    BY <1>2, <1>6 DEF SeriesInv, Disturbed
  <2> QED BY <1>2, <1>3, <2>1 DEF WindowTold, NotedBy
<1> QED BY <1>1, <1>4, <1>5, <1>6 DEF SeriesInv

LEMMA SeriesDeactivateKeeps == ASSUME SeriesInv, Series!deactivate PROVE SeriesInv'
<1>1. Series!TypeOK /\ Shape /\ Series!TypeOK'
  BY RequestTypes DEF SeriesInv
<1>2. /\ arrival = Series!NoArrival /\ arrival.pc = "idle" /\ mdd' = "deleted" /\ ~known' /\ actors' \subseteq actors
      /\ UNCHANGED <<seriesNow, tsi, mdlt, rts, first, seriesMonitor, arrival, md, disturbed>>
  BY DEF Series!deactivate, Series!stopActor, Series!NoArrival
<1>3. Shape' /\ ~Detecting'
  BY <1>1, <1>2 DEF Shape, Detecting
<1>4. ASSUME ~Disturbed("early")' PROVE Monitored' /\ Periodic'
  <2>1. Monitored
    BY <1>2, <1>4 DEF SeriesInv, Disturbed
  <2> QED BY <1>2, <1>3, <2>1 DEF Monitored, Periodic
<1>5. ASSUME ~Disturbed("early")', ~Disturbed("during")' PROVE WindowTold'
  <2>1. WindowTold
    BY <1>2, <1>5 DEF SeriesInv, Disturbed
  <2> QED BY <1>2, <2>1 DEF WindowTold, NotedBy
<1> QED BY <1>1, <1>3, <1>4, <1>5 DEF SeriesInv

LEMMA SubscribeKeeps ==
  ASSUME SeriesInv, Series!addSubscription \/ Series!removeSubscription
  PROVE  SeriesInv'
<1>1. Series!TypeOK /\ Shape /\ Series!TypeOK'
  BY RequestTypes DEF SeriesInv
<1>2. /\ seriesMonitor = Series!Idle /\ arrival = Series!NoArrival /\ mdd # "deleted" /\ md' = Series!NoData
      /\ UNCHANGED <<seriesNow, tsi, mdd, mdlt, first, actors, seriesMonitor, arrival, disturbed>>
  BY DEF Series!addSubscription, Series!removeSubscription, Series!Alone
<1>3. /\ Detecting' = Detecting /\ (Detecting => rts' = rts)
      /\ seriesMonitor.pc = "idle" /\ arrival.pc = "idle"
  <2>1. CASE Series!removeSubscription
    BY <1>2, <2>1 DEF Series!removeSubscription, Detecting, Series!Idle, Series!NoArrival
  <2>2. CASE Series!addSubscription /\ known
    BY <1>2, <2>2 DEF Series!addSubscription, Detecting, Series!Idle, Series!NoArrival
  <2>3. CASE Series!addSubscription /\ ~known
    BY <1>2, <2>3 DEF Series!addSubscription, Detecting, Series!NoInstance, Series!Idle, Series!NoArrival
  <2> QED BY <2>1, <2>2, <2>3
<1>4. Shape'
  BY <1>1, <1>2, <1>3 DEF Shape
<1>5. ASSUME ~Disturbed("early")' PROVE Monitored' /\ Periodic'
  <2>1. Monitored /\ Periodic
    BY <1>2, <1>5 DEF SeriesInv, Disturbed
  <2> QED BY <1>2, <1>3, <2>1, Aside
<1>6. ASSUME ~Disturbed("early")', ~Disturbed("during")' PROVE WindowTold'
  <2>1. WindowTold
    BY <1>2, <1>6 DEF SeriesInv, Disturbed
  <2>2. DOMAIN md'.missingDataList = {}
    BY <1>2 DEF Series!NoData
  <2> QED BY <1>2, <1>3, <2>1, <2>2 DEF WindowTold, NotedBy
<1> QED BY <1>1, <1>4, <1>5, <1>6 DEF SeriesInv

(* Theorems.                                                               *)

LEMMA SeriesInit == Series!Init => SeriesInv
<1> SUFFICES ASSUME Series!Init PROVE SeriesInv
  OBVIOUS
<1>1. Series!TypeOK
  <2>1. 0 \in Series!Time /\ 1 \in Series!Time /\ 0 \in 0..MaxUpdate /\ 0 \in Nat
    BY SeriesConstants DEF Series!Time
  <2>2. Series!NoInstance \in Series!LastTSInstance
    BY <2>1 DEF Series!NoInstance, Series!LastTSInstance
  <2>3. Series!NoData \in Series!MissingData
    BY Empty DEF Series!NoData, Series!MissingData
  <2>4. Series!NoArrival \in Series!Arrival /\ Len(Series!NoArrival.copy) <= Mdn
    BY <2>1, Empty, SeriesConstants DEF Series!NoArrival, Series!Arrival
  <2>5. Series!Idle \in Series!MonitorRun /\ Len(Series!Idle.copy) <= 1
        /\ \A i \in DOMAIN Series!Idle.copy : Len(Series!Idle.copy[i]) <= Mdn
    <3> DEFINE e == <<>>
    <3>1. e \in Seq(Seq(Nat)) /\ Len(e) <= 1 /\ \A i \in DOMAIN e : Len(e[i]) <= Mdn
      OBVIOUS
    <3> HIDE DEF e
    <3>2. Series!Idle.copy = e
      BY DEF Series!Idle, e
    <3> QED BY <3>1, <3>2 DEF Series!Idle, Series!MonitorRun, e
  <2>6. mdlt \in Seq(Nat) /\ Len(mdlt) <= Mdn
    BY Empty, SeriesConstants DEF Series!Init
  <2>7. seriesNow \in Series!Time /\ tsi \subseteq 1..MaxSeriesTime /\ first \in Series!Time /\ actors \subseteq Nat
    BY <2>1 DEF Series!Init
  <2>8. rts \in Series!LastTSInstance /\ md \in Series!MissingData
    BY <2>2, <2>3, Zenon DEF Series!Init
  <2>9. seriesMonitor = Series!Idle /\ arrival = Series!NoArrival
    BY DEF Series!Init
  <2>10. /\ mdd \in {"on", "off", "deleted"} /\ known \in BOOLEAN /\ seriesSub \in BOOLEAN
         /\ seriesUpdates \in 0..MaxUpdate /\ num \in Num \cup {0} /\ disturbed \subseteq Series!Disturbances
    BY <2>1 DEF Series!Init
  <2> QED BY <2>4, <2>5, <2>6, <2>7, <2>8, <2>9, <2>10 DEF Series!TypeOK
<1>2. arrival = Series!NoArrival /\ arrival.pc = "idle" /\ seriesMonitor = Series!Idle /\ seriesMonitor.pc = "idle"
      /\ ~Detecting /\ first = 0 /\ mdlt = <<>> /\ mdd = "on" /\ actors = {} /\ md.missingDataList = <<>>
  BY DEF Series!Init, Series!NoArrival, Series!Idle, Detecting, Series!NoData
<1>3. Shape /\ Monitored /\ Periodic /\ WindowTold
  BY <1>2 DEF Shape, Monitored, Periodic, Started, NotStarted, WindowTold, NotedBy
<1> QED BY <1>1, <1>3 DEF SeriesInv

LEMMA SeriesStutter == ASSUME SeriesInv, UNCHANGED Series!seriesVars PROVE SeriesInv'
<1>1. UNCHANGED <<seriesNow, tsi, mdd, mdlt, known, rts, first, actors, seriesMonitor, arrival, seriesSub, md,
                  seriesUpdates, num, disturbed>>
  BY DEF Series!seriesVars
<1>2. Series!TypeOK' /\ Shape' /\ Detecting' = Detecting
  BY <1>1 DEF SeriesInv, Series!TypeOK, Shape, Detecting, Series!Late, Series!Detection
<1>3. ASSUME ~Disturbed("early")' PROVE Monitored' /\ Periodic'
  <2>1. Monitored /\ Periodic
    BY <1>1, <1>3 DEF SeriesInv, Disturbed
  <2>2. CASE mdd # "deleted"
    BY <1>1, <1>2, <2>1, <2>2, Aside
  <2>3. CASE mdd = "deleted"
    BY <1>1, <1>2, <2>1, <2>3 DEF Monitored, Periodic, Series!Detection
  <2> QED BY <2>2, <2>3
<1>4. ASSUME ~Disturbed("early")', ~Disturbed("during")' PROVE WindowTold'
  <2>1. WindowTold
    BY <1>1, <1>4 DEF SeriesInv, Disturbed
  <2> QED BY <1>1, <1>2, <2>1 DEF WindowTold, NotedBy
<1> QED BY <1>2, <1>3, <1>4 DEF SeriesInv

LEMMA SeriesStep == SeriesInv /\ [Series!Next]_(Series!seriesVars) => SeriesInv'
<1> SUFFICES ASSUME SeriesInv, [Series!Next]_(Series!seriesVars) PROVE SeriesInv'
  OBVIOUS
<1>1. CASE \/ \E dgt \in 1..MaxSeriesTime : Series!createLocalResource(dgt)
           \/ Series!dbReload \/ Series!instanceAdded \/ Series!validate \/ Series!noteLate
  BY <1>1, SeriesOnItsWayKeeps
<1>2. CASE Series!startDetection \/ Series!prepareInstance
  BY <1>2, SeriesStartKeeps
<1>3. CASE Series!addDgt
  BY <1>3, SeriesAddKeeps
<1>4. CASE Series!timeSeriesMonitor
  BY <1>4, SeriesMonitorKeeps
<1>5. CASE Series!compareDgt
  BY <1>5, SeriesCompareKeeps
<1>6. CASE Series!noteMissing
  BY <1>6, SeriesNoteKeeps
<1>7. CASE Series!nextDgt
  BY <1>7, SeriesNextKeeps
<1>8. CASE Series!Tick
  BY <1>8, TimeKeeps
<1>9. CASE \E on \in BOOLEAN : Series!update(on)
  BY <1>9, SwitchKeeps
<1>10. CASE Series!deactivate
  BY <1>10, SeriesDeactivateKeeps
<1>11. CASE Series!addSubscription \/ Series!removeSubscription
  BY <1>11, SubscribeKeeps
<1>12. CASE UNCHANGED Series!seriesVars
  BY <1>12, SeriesStutter
<1> QED BY <1>1, <1>2, <1>3, <1>4, <1>5, <1>6, <1>7, <1>8, <1>9, <1>10, <1>11, <1>12 DEF Series!Next

\* The periods that have been looked at are the first ones.
LEMMA CheckedExpected ==
  ASSUME NEW K \in Nat \ {0}, first \in Nat, rts.expectedDgt = first + K * Pei
  PROVE  Series!Checked = Expected(K - 1) /\ (arrival.pc = "idle" => Series!Missing = Absent(K - 1))
<1>1. (rts.expectedDgt - first) \div Pei = K
  <2>1. K * Pei \in Nat /\ (K * Pei) \div Pei = K
    BY Periods
  <2>2. rts.expectedDgt - first = K * Pei
    BY <2>1
  <2> QED BY <2>1, <2>2
<1>2. Series!Checked = Expected(K - 1)
  BY <1>1 DEF Series!Checked, Expected
<1> QED BY <1>2 DEF Series!Missing, Absent, Seen

LEMMA MissingNow == SeriesInv => Series!MissingExact
<1> SUFFICES ASSUME SeriesInv PROVE Series!MissingExact
  OBVIOUS
<1>0. Series!TypeOK /\ Shape
  BY DEF SeriesInv
<1>1. ASSUME ~Disturbed("early"), first # 0, mdd = "on"
      PROVE  \E K \in Nat \ {0} : Current(K) /\ Series!Checked = Expected(K - 1)
                                  /\ (arrival.pc = "idle" => Series!Missing = Absent(K - 1))
  <2>1. PICK K \in Nat \ {0} : Current(K)
    BY <1>1 DEF SeriesInv, Periodic, Started
  <2>2. rts.expectedDgt = first + K * Pei /\ first \in Nat
    BY <1>0, <2>1, SeriesFields DEF Current
  <2> QED BY <2>1, <2>2, CheckedExpected
<1>2. ASSUME disturbed \cap {"late", "early"} = {}, first # 0, mdd = "on", seriesMonitor = Series!Idle
      PROVE  Series!Increasing(mdlt) /\ \A i \in DOMAIN mdlt : mdlt[i] \in Series!Checked
  <2>1. ~Disturbed("early") /\ ~Disturbed("late") /\ seriesMonitor.pc = "idle"
    BY <1>2 DEF Disturbed, Series!Idle
  <2>2. PICK K \in Nat \ {0} : Current(K) /\ Series!Checked = Expected(K - 1)
    BY <1>1, <1>2, <2>1
  <2> QED BY <2>1, <2>2 DEF Current, Copied, Within
<1>3. ASSUME disturbed = {}, first # 0, mdd = "on", seriesMonitor = Series!Idle, arrival = Series!NoArrival
      PROVE  Lists(mdlt, Series!Missing)
  <2>1. ~Disturbed("early") /\ seriesMonitor.pc = "idle" /\ arrival.pc = "idle"
    BY <1>3 DEF Disturbed, Series!Idle, Series!NoArrival
  <2>2. PICK K \in Nat \ {0} : Current(K) /\ Series!Missing = Absent(K - 1)
    BY <1>1, <1>3, <2>1
  <2> QED BY <1>3, <2>1, <2>2 DEF Current, Accurate
<1>4. ASSUME disturbed \cap {"during", "early"} = {},
             NEW i \in DOMAIN md.missingDataList, NEW j \in DOMAIN md.missingDataList
      PROVE  md.missingDataList[j] - md.missingDataList[i] < Dur
  <2>1. WindowTold
    BY <1>4 DEF SeriesInv, Disturbed
  <2> PICK end \in Int : end = md.timeWindowEndTimestamp
    BY <1>0, SeriesFields, SeriesConstants
  <2>2. md.missingDataList[i] \in Nat /\ md.missingDataList[j] \in Nat
    <3>1. PICK points \in Seq(Nat) : points = md.missingDataList
      BY <1>0, SeriesFields
    <3> QED BY <3>1
  <2>3. end <= md.missingDataList[i] + Dur + Mdt /\ md.missingDataList[j] + Mdt < end
    BY <2>1 DEF WindowTold
  <2> QED BY <2>2, <2>3, SeriesConstants
<1> QED BY <1>2, <1>3, <1>4 DEF Series!MissingExact, Lists, Within

\* Cardinality, as the module has it.
LEMMA SeriesCount == ASSUME NEW S PROVE Series!Cardinality(S) = Cardinality(S)
BY Zenon DEF Series!Cardinality, Cardinality

LEMMA OneNow == SeriesInv => Series!OneMonitor
<1> SUFFICES ASSUME SeriesInv, ~Disturbed("early") PROVE
      /\ Series!Cardinality(actors) + (IF seriesMonitor = Series!Idle THEN 0 ELSE 1) <= 1
      /\ mdd = "off" => actors = {} /\ seriesMonitor = Series!Idle
      /\ known /\ rts.running /\ rts.actor # Series!NoTime => actors # {} \/ seriesMonitor # Series!Idle
  BY DEF Series!OneMonitor, Disturbed
<1>0. Monitored /\ Shape
  BY DEF SeriesInv
<1>1. Series!Cardinality(actors) + (IF seriesMonitor = Series!Idle THEN 0 ELSE 1) <= 1
  <2>1. CASE actors = {}
    BY <2>1, FS_EmptySet, SeriesCount
  <2>2. CASE actors # {}
    <3>1. PICK time : actors = {time}
      BY <1>0, <2>2 DEF Monitored
    <3>2. Series!Cardinality(actors) = 1
      BY <3>1, FS_Singleton, SeriesCount
    <3> QED BY <1>0, <2>2, <3>2 DEF Monitored
  <2> QED BY <2>1, <2>2
<1>2. mdd = "off" => actors = {} /\ seriesMonitor = Series!Idle
  BY <1>0 DEF Monitored, Shape
<1>3. known /\ rts.running /\ rts.actor # Series!NoTime => actors # {} \/ seriesMonitor # Series!Idle
  BY <1>0 DEF Monitored, Detecting, Shape
<1> QED BY <1>1, <1>2, <1>3

\* The invariant holds in every reachable state.
LEMMA SeriesInvariant == SpecOne => [](service = "series" => SeriesInv)
<1>1. InitOne => (service = "series" => SeriesInv)
  BY SeriesInit DEF InitOne
<1>2. (service = "series" => SeriesInv) /\ [NextOne]_vars => (service = "series" => SeriesInv)'
  <2> SUFFICES ASSUME service = "series" => SeriesInv, [NextOne]_vars, service' = "series"
               PROVE  SeriesInv'
    OBVIOUS
  <2>1. service = "series" /\ (Series!Next \/ UNCHANGED Series!seriesVars)
    BY DEF NextOne, vars, seriesVars, Series!seriesVars
  <2> QED BY <2>1, SeriesStep
<1> QED BY <1>1, <1>2, PTL DEF SpecOne

\* Instances, runs of the monitor, updates and the deletion come in any order, and each write of the <timeSeries> is
\* one of a copy that may be old. A <timeSeries> has one monitor at most, the one it knows of, and goes on being
\* monitored, unless the first run finds an object that is not filled. Its missing data list names periods that have
\* been looked at, once and in order, unless an instance was too old; and exactly those without an instance, the last
\* mdn of them, when each instance was handed over in its period and no newer list was overwritten. The points in a
\* window of the subscription lie within its duration (TimeSeriesManager.timeSeriesMonitor, updateTimeSeries,
\* pauseMonitoringTimeSeries; TS.childAdded, addDgtToMdlt).
THEOREM MissingAlwaysExact == SpecOne => []MissingExact
<1>1. (service = "series" => SeriesInv) => MissingExact
  BY MissingNow, OneNow DEF MissingExact
<1> QED BY <1>1, SeriesInvariant, PTL

(***************************************************************************)
(* Announcements.                                                          *)
(***************************************************************************)

\* The invariant holds in every reachable state.
LEMMA AnnouncementInvariant == SpecOne => [](service = "announcements" => AnnouncementInv /\ AgreeInv)
<1>1. InitOne => (service = "announcements" => AnnouncementInv /\ AgreeInv)
  BY AnnouncementInit, AgreeInit DEF InitOne
<1>2. (service = "announcements" => AnnouncementInv /\ AgreeInv) /\ [NextOne]_vars
      => (service = "announcements" => AnnouncementInv /\ AgreeInv)'
  <2> SUFFICES ASSUME service = "announcements" => AnnouncementInv /\ AgreeInv, [NextOne]_vars,
                      service' = "announcements"
               PROVE  AnnouncementInv' /\ AgreeInv'
    OBVIOUS
  <2>1. service = "announcements" /\ (Announcements!Next \/ UNCHANGED Announcements!announcementVars)
    BY DEF NextOne, vars, announcementVars, Announcements!announcementVars
  <2> QED BY <2>1, AnnouncementStep, AgreeStep
<1> QED BY <1>1, <1>2, PTL DEF SpecOne

\* A CSE has one announced CSEBase, whatever is lost or removed, and an announced instance is below its
\* container. With one remote CSE that answers both sides agree: what is announced there has an original, that
\* knows it, and is announced once, and a resource below the CSEBase is announced where its at attribute says
\* (AnnouncementManager.announceResourceToCSI, checkCSEBaseAnnouncement, deAnnounceResource and
\* announceUpdatedResource).
THEOREM AnnouncementsAlwaysMatch == SpecOne => []AnnouncementsMatch
<1>1. (service = "announcements" => AnnouncementInv /\ AgreeInv) => AnnouncementsMatch
  BY AnnouncementGood DEF AnnouncementsMatch
<1> QED BY <1>1, AnnouncementInvariant, PTL
=============================================================================
