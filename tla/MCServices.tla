----------------------------- MODULE MCServices -----------------------------
(* Services of the CSE, containers and web sockets, which share no state: each is a specification of its  *)
(* own, and each behaviour is one of a single service, while the others stay in an initial state.         *)
EXTENDS ConnectedServices, TLC

CONSTANTS
  Pei, Peid, Mdt, Mdn, Dur, Num, MaxSeriesTime, MaxInstance,
  Source, Eem, Tws, MaxExc, MaxWindowTime,
  Action, Semaphore, Ecp, ecpPeriodicDefault, ecpContinuousDefault, MaxActionTime, MaxChange,
  Cin, Size, Mni, Mbs, Op, OverlapOp, MaxSt,
  a1

VARIABLES
  service,  \* never changes
  seriesNow, tsi, mdd, mdlt, known, rts, first, actors, seriesMonitor, seriesSub, md, seriesUpdates, num,
  arrival, disturbed,
  now, crs, workers, monitor, object, notifier, handler, windowRequest, windowUpdates, sent, lastEvent, rejected, stale,
  window, overlapWindow,
  actr, repr, _semaphores, value, raced, thread, clock, changes, executions, executed, times, overlapAction,
  cnt, stored, listed, last, request, overlapContainer

seriesVars == <<seriesNow, tsi, mdd, mdlt, known, rts, first, actors, seriesMonitor, seriesSub, md,
                seriesUpdates, num, arrival, disturbed>>
windowVars == <<now, crs, workers, monitor, object, notifier, handler, windowRequest, windowUpdates, sent,
                lastEvent, rejected, stale, window, overlapWindow>>
actionVars == <<actr, repr, _semaphores, value, raced, thread, clock, changes, executions, executed, times, overlapAction>>
instanceVars == <<cnt, stored, listed, last, request, overlapContainer>>

\* The first action is executed first.
Apy == [a \in Action |-> IF a = a1 THEN 1 ELSE 2]
\* The second instance is twice as large as the others.
MCSize == [c \in Cin |-> IF c = 2 THEN 2 ELSE 1]
MCSymmetry == Permutations(Thread) \cup Permutations(Csi)

Series == INSTANCE TimeSeriesManager WITH now <- seriesNow, monitor <- seriesMonitor, sub <- seriesSub,
                                          updates <- seriesUpdates, MaxTime <- MaxSeriesTime
Window == INSTANCE CrossWindow WITH request <- windowRequest, updates <- windowUpdates, start <- window,
                                    overlap <- overlapWindow, MaxTime <- MaxWindowTime
Actions == INSTANCE ActionManagerProofs WITH events <- executions, overlap <- overlapAction, MaxTime <- MaxActionTime
Instances == INSTANCE Container WITH thread <- request, overlap <- overlapContainer, Overlap <- BOOLEAN

ASSUME ServiceAssumption ==
  Actions!ActionAssumption /\ Window!WindowAssumption /\ Instances!ContainerAssumption /\ Series!SeriesAssumption

NoSeries ==
  /\ seriesNow = None /\ tsi = None /\ mdd = None /\ mdlt = None /\ known = None /\ rts = None
  /\ first = None /\ actors = None /\ seriesMonitor = None /\ seriesSub = None /\ md = None
  /\ seriesUpdates = None /\ num = None /\ arrival = None /\ disturbed = None

NoWindow ==
  /\ now = None /\ crs = None /\ workers = None /\ monitor = None /\ object = None /\ notifier = None
  /\ handler = None /\ windowRequest = None /\ windowUpdates = None /\ sent = None /\ lastEvent = None
  /\ rejected = None /\ stale = None /\ window = None /\ overlapWindow = None

NoActions ==
  /\ actr = None /\ repr = None /\ _semaphores = None /\ value = None /\ raced = None /\ thread = None /\ clock = None /\ changes = None
  /\ executions = None /\ executed = None /\ times = None /\ overlapAction = None

NoAnnouncements ==
  /\ present = None /\ at = None /\ announcedTo = None /\ remote = None /\ ids = None /\ targets = None
  /\ reliable = None /\ instance = None

NoGroups ==
  /\ there = None /\ group = None /\ job = None /\ groupUpdate = None /\ fopt = None /\ groupUpdates = None
  /\ overlapGroup = None

NoSockets ==
  /\ wsConnections = None /\ associatedConnections = None /\ connectionUsedCounter = None /\ open = None
  /\ peer = None /\ loop = None /\ knownPeer = None /\ oldConnection = None /\ message = None
  /\ messageJobs = None /\ handled = None /\ deletedConnections = None /\ requester = None
  /\ overlapSockets = None

NoInstances ==
  /\ cnt = [cni |-> 0, cbs |-> 0, st |-> 0, mni |-> None] /\ stored = {} /\ listed = {} /\ last = 0
  /\ request = [t \in Thread |-> Instances!Idle] /\ overlapContainer = FALSE

\* A service that is not looked at has no state. (Notifications and instances have an initial one.)
InitOne ==
  /\ service \in {"series", "window", "actions", "announcements", "groups", "sockets", "instances",
                  "notifications"}
  /\ IF service = "series" THEN Series!Init ELSE NoSeries
  /\ IF service = "window" THEN Window!Init ELSE NoWindow
  /\ IF service = "actions" THEN Actions!Init ELSE NoActions
  /\ IF service = "announcements" THEN Announcements!Init ELSE NoAnnouncements
  /\ IF service = "groups" THEN Groups!Init ELSE NoGroups
  /\ IF service = "sockets" THEN Sockets!Init ELSE NoSockets
  /\ IF service = "instances" THEN Instances!Init ELSE NoInstances
  /\ Init /\ (service # "notifications" =>
                ~sub.nse /\ start <= 0 /\ ~overlap /\ ~asyncSubscriptionNotifications)

NextOne ==
  /\ UNCHANGED service
  /\ IF service = "series" THEN Series!Next ELSE UNCHANGED seriesVars
  /\ IF service = "window" THEN Window!Next ELSE UNCHANGED windowVars
  /\ IF service = "actions" THEN Actions!Next ELSE UNCHANGED actionVars
  /\ IF service = "announcements" THEN Announcements!Next ELSE UNCHANGED announcementVars
  /\ IF service = "groups" THEN Groups!Next ELSE UNCHANGED groupVars
  /\ IF service = "sockets" THEN Sockets!Next ELSE UNCHANGED socketVars
  /\ IF service = "instances" THEN Instances!Next ELSE UNCHANGED instanceVars
  /\ IF service = "notifications" THEN Next ELSE UNCHANGED subVars

vars == <<service, seriesVars, windowVars, actionVars,
          announcementVars, groupVars, socketVars, instanceVars, subVars>>

SpecOne == InitOne /\ [][NextOne]_vars

\* Bounds, one for each part of Explored, in its order.
\* - Updates and expiration counters of a <sub> are explored where they are no race.
\* - <action>s that are changed while they are executed, and the last change of all: in the first period. Two
\*   <action>s at a time: up to the first execution, and up to the second one at the first time, where no action
\*   is changed while it is executed.
\* - An update of a <crs> keeps its eem, or asks for "allMissing", which only a periodic window may have.
\* - Windows whose checks, notifications and requests overlap: in the first window, until a copy has been
\*   written over a newer one, with one mode and one source of notifications.
\* - A <timeSeries> that is disturbed, updated or deleted, or whose instances take longer than a tick to be handed
\*   over: until tick 6; or until tick 9 with two instances, no update and no subscription. Updates and
\*   disturbances together: without a subscription.
\* - Connections, which are numbers, are used in their order. Where requests meet there are two connections and
\*   two uses of each, without messages.
Explored ==
  /\ service = "notifications" => Undisturbed
  /\ service = "actions" /\ (overlapAction \/ changes = MaxChange) => clock <= 1
  /\ (service = "actions" /\ \A a \in Action : actr[a] # None) => executions <= 1 \/ (clock = 0 /\ ~overlapAction)
  /\ service = "window" => windowRequest.eem \in {window.eem, "allMissing"}
  /\ service = "window" /\ overlapWindow =>
       /\ now <= Tws /\ ~stale
       /\ {window.eem, windowRequest.eem} = {"allOrSomePresent"} /\ handler.sur = Window!Unused.sur
  /\ (service = "series" /\ (disturbed # {} \/ seriesUpdates > 0 \/ mdd = "deleted"
                              \/ (arrival.pc # "idle" /\ seriesNow > arrival.ct))) =>
       seriesNow <= 6 \/ (seriesNow <= 9 /\ Cardinality(tsi) <= 2 /\ seriesUpdates = 0 /\ ~seriesSub)
  /\ service = "series" /\ disturbed # {} => seriesUpdates = 0 \/ ~seriesSub
  /\ service = "sockets" =>
       /\ \A c, d \in WS : loop[d] # "unused" /\ c < d => loop[c] # "unused"
       /\ overlapSockets => /\ Cardinality({c \in WS : loop[c] # "unused"}) <= 2
                            /\ \A c \in WS : message[c] = 0 /\ connectionUsedCounter[c] \in {None, 1, 2}

------------------------------------------------------------------------------
(* Properties, as the modules state them.                                  *)

\* The type invariant of the service.
TypesFit ==
  CASE service = "series" -> Series!TypeOK
    [] service = "window" -> Window!TypeOK
    [] service = "actions" -> Actions!TypeOK /\ Actions!SectionsHeld
    [] service = "announcements" -> Announcements!TypeOK
    [] service = "groups" -> Groups!TypeOK
    [] service = "sockets" -> Sockets!TypeOK
    [] service = "instances" -> Instances!TypeOK
    [] service = "notifications" -> TypeOK /\ LockHeld

\* Time series: there is one monitor of a <timeSeries>, and none when detection is off. The missing data list names
\* only periods that have been looked at, once and in order, although instances and monitor write it back as a
\* whole; where no such write was stale, and each instance came before its period was looked at, it names exactly
\* those without an instance. A window has those that are missing within its duration.
MissingExact == service = "series" => Series!OneMonitor /\ Series!MissingExact

\* Cross resource subscriptions: where requests, notifications and checks do not overlap, a <crs> has the window it
\* should have, with the subscriptions that have notified it since the window began. It sends as many
\* notifications as its expiration counter says, also where they overlap, unless one has written an older copy of
\* the <crs> over a newer one, or a change of the counter was lost.
WindowExact == service = "window" => Window!WindowExact /\ Window!ExpiresExactly

\* Actions: the table, the <action> resources and the executions agree, unless two jobs have undone a critical
\* section, or an <action> is changed while it is executed; a deleted action never comes back.
CountsAgree == service = "actions" => Actions!CountsAgree

\* Dependencies: what the loop over them computes.
DependenciesDecide == service = "actions" /\ changes + executions + clock = 0 => Actions!DependenciesDecide

\* A periodic action is executed once in a period, unless two jobs have undone its critical section or it is changed
\* while it is executed.
OnceInPeriod == service = "actions" => Actions!OnceInPeriod

\* Announcements: local and remote resources agree.
AnnouncementsMatch == service = "announcements" => Announcements!AnnouncementsMatch

\* Groups: when the jobs of all deletions have ended, no group lists a member that is gone; and a fan-out has one
\* result for each member.
MembersExist == service = "groups" => Groups!MembersExist /\ Groups!AllAnswer

\* Web sockets: at rest the tables lead to the connections that are open.
ConnectionsMatch == service = "sockets" => Sockets!ConnectionsMatch

\* Containers: between requests cni and cbs are those of the instances, which are within the limits.
CountsExact == service = "instances" => Instances!CountsExact

\* The newest instance is not evicted in favour of an older one.
NewestKept == Instances!NewestKept
=============================================================================
