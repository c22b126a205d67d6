-------------------------- MODULE TimeSeriesManager --------------------------
(***************************************************************************)
(* Missing data detection of a <timeSeries>. The first instance starts a   *)
(* monitor, which looks once in every period whether an instance with the  *)
(* expected data generation time has arrived. If not, it enters that time  *)
(* into the mdlt of the <timeSeries> and into the window of a missing data *)
(* subscription. A new instance and the monitor each work on a copy of the *)
(* <timeSeries>, which they write back as a whole.                         *)
(***************************************************************************)
EXTENDS Integers, Sequences, FiniteSets

CONSTANTS
  Pei, Peid, Mdt, \* the <timeSeries>: period, tolerance, and time until an instance is missed
  Mdn,            \* the longest mdlt
  Dur, Num,       \* the subscription: duration of a window, and numbers of missing points to report
  MaxTime,        \* bound on the time
  MaxInstance,    \* bound on the instances
  MaxUpdate       \* bound on the updates of mdd

VARIABLES
  now,
  tsi,       \* data generation times of the instances
  mdd, mdlt, \* the <timeSeries>: whether detection is on, and the missing data list
  known,     \* whether there is a LastTSInstance object in runningTimeserieses
  rts,       \* that object
  first,     \* dgt of the instance that has started the detection, or 0
  actors,    \* times of the scheduled monitor runs
  monitor,   \* what the monitor run does: its step, the dgt it looks at, and the mdlt of its copy
  arrival,   \* the instance that is being created: its step, dgt and ct, and the mdlt of its copy
  sub,       \* whether there is a missing data subscription
  md,        \* its window
  updates,
  num,       \* the number of missing points it reports, or 0
  disturbed  \* what has happened that the detection does not allow for, see Disturbances

\* What is assumed of the constants. The CSE checks the last two.
SeriesAssumption ==
  /\ Pei \in Nat \ {0} /\ Peid \in Nat /\ Mdt \in Nat /\ Mdn \in Nat \ {0} /\ Dur \in Nat \ {0}
  /\ Num \subseteq Nat \ {0} /\ MaxTime \in Nat \ {0} /\ MaxInstance \in Nat /\ MaxUpdate \in Nat
  /\ 2 * Peid <= Pei /\ Peid < Mdt

seriesVars == <<now, tsi, mdd, mdlt, known, rts, first, actors, monitor, arrival, sub, md, updates, num,
                disturbed>>

Time == 0..MaxTime
NoTime == -1

\* pei is 0 until the object has been filled.
LastTSInstance ==
  [dgt : {<<>>} \cup {<<t>> : t \in Time}, expectedDgt : Nat, missingDataDetectionTime : Nat, pei : {0, Pei},
   actor : Nat \cup {NoTime}, running : BOOLEAN]
MissingData == [timeWindowEndTimestamp : Nat \cup {NoTime}, missingDataList : Seq(Nat)]

MonitorRun ==
  [pc : {"idle", "compare", "note", "advance"}, dgt : Time \cup {NoTime}, copy : Seq(Seq(Nat))]
Arrival ==
  [pc : {"idle", "stored", "reloaded", "added", "validated", "starting", "noted"}, dgt : Time, ct : Time,
   copy : Seq(Nat)]

\* "late": an instance that was too old has been entered into mdlt. "stale": a copy has been written over a newer
\* mdlt. "unexpected": an instance has been handed over which is not the one, or not the first, of the period that
\* is looked at next. "during": an instance has been handed over during a run. "early": a run has started before
\* the LastTSInstance object was filled.
Disturbances == {"late", "stale", "unexpected", "during", "early"}

TypeOK ==
  /\ now \in Time
  /\ tsi \subseteq 1..MaxTime
  /\ mdd \in {"on", "off", "deleted"} /\ mdlt \in Seq(Nat) /\ Len(mdlt) <= Mdn
  /\ known \in BOOLEAN
  /\ rts \in LastTSInstance
  /\ first \in Time /\ actors \subseteq Nat
  /\ monitor \in MonitorRun /\ Len(monitor.copy) <= 1 /\ \A i \in DOMAIN monitor.copy : Len(monitor.copy[i]) <= Mdn
  /\ arrival \in Arrival /\ Len(arrival.copy) <= Mdn
  /\ sub \in BOOLEAN
  /\ md \in MissingData
  /\ updates \in 0..MaxUpdate /\ num \in Num \cup {0} /\ disturbed \subseteq Disturbances

NoInstance == [dgt |-> <<0>>, expectedDgt |-> 0, missingDataDetectionTime |-> 0, pei |-> 0, actor |-> NoTime,
               running |-> FALSE]
NoData == [timeWindowEndTimestamp |-> NoTime, missingDataList |-> <<>>]
Idle == [pc |-> "idle", dgt |-> NoTime, copy |-> <<>>]
NoArrival == [pc |-> "idle", dgt |-> 0, ct |-> 0, copy |-> <<>>]

Init ==
  /\ now = 1 /\ tsi = {} /\ mdd = "on" /\ mdlt = <<>>
  /\ known = FALSE /\ rts = NoInstance /\ first = 0
  /\ actors = {} /\ monitor = Idle /\ arrival = NoArrival
  /\ sub = FALSE /\ md = NoData
  /\ updates = 0 /\ num = 0 /\ disturbed = {}

\* Bounds: one instance is created at a time, and runs do not overlap with each other. An instance and a run may
\* overlap, as may the deletion of the <timeSeries> and a run; other requests overlap with neither.
Alone == monitor = Idle /\ arrival = NoArrival /\ mdd # "deleted"

\* The range of data generation times that count for an expected one.
InRange(dgt, expected) == expected - Peid < dgt /\ dgt <= expected + Peid
IsExpected(dgt) == IF rts.pei = 0 THEN FALSE ELSE InRange(dgt, rts.expectedDgt)

\* A list with one more element. It is cut to mdn elements, the oldest go.
addDgtToMdlt(list, dgt) == IF Len(list) >= Mdn THEN Append(Tail(list), dgt) ELSE Append(list, dgt)

\* The whole copy is written, although mdlt may have changed since it was read.
dbUpdate(copy, list, disturbance) ==
  /\ mdlt' = list
  /\ disturbed' = disturbed \cup disturbance \cup (IF copy = mdlt THEN {} ELSE {"stale"})

-----------------------------------------------------------------------------
(* Instances.                                                              *)

\* An instance is stored. There is none with its dgt yet.
createLocalResource(dgt) ==
  /\ arrival = NoArrival /\ mdd # "deleted" /\ Cardinality(tsi) < MaxInstance
  /\ dgt <= now /\ dgt \notin tsi
  /\ tsi' = tsi \cup {dgt}
  /\ arrival' = [pc |-> "stored", dgt |-> dgt, ct |-> now, copy |-> <<>>]
  /\ UNCHANGED <<now, mdd, mdlt, known, rts, first, actors, monitor, sub, md, updates, num, disturbed>>

dbReload ==
  /\ arrival.pc = "stored"
  /\ arrival' = [arrival EXCEPT !.pc = "reloaded", !.copy = mdlt]
  /\ UNCHANGED <<now, tsi, mdd, mdlt, known, rts, first, actors, monitor, sub, md, updates, num, disturbed>>

\* The counters of the instances are updated, and with them the copy is written.
instanceAdded ==
  /\ arrival.pc = "reloaded"
  /\ arrival' = [arrival EXCEPT !.pc = "added"]
  /\ dbUpdate(arrival.copy, arrival.copy, {})
  /\ UNCHANGED <<now, tsi, mdd, known, rts, first, actors, monitor, sub, md, updates, num>>

\* Mutant of validate: the missing data list is cleared with it.
validateClearing ==
  /\ arrival.pc = "added"
  /\ arrival' = IF mdd = "on" THEN [arrival EXCEPT !.pc = "validated"] ELSE NoArrival
  /\ dbUpdate(arrival.copy, <<>>, {})
  /\ UNCHANGED <<now, tsi, mdd, known, rts, first, actors, monitor, sub, md, updates, num>>

\* The copy is validated and written again.
validate ==
  /\ arrival.pc = "added"
  /\ arrival' = IF mdd = "on" THEN [arrival EXCEPT !.pc = "validated"] ELSE NoArrival
  /\ dbUpdate(arrival.copy, arrival.copy, {})
  /\ UNCHANGED <<now, tsi, mdd, known, rts, first, actors, monitor, sub, md, updates, num>>

\* When the instance that has arrived is missed, and whether this was before it came.
Detection == arrival.dgt + Pei + Mdt
Late == Detection < arrival.ct

\* The object for a series of which the instance is the first.
FirstInstance(expected, actor) ==
  [dgt |-> <<>>, expectedDgt |-> expected, missingDataDetectionTime |-> arrival.dgt + Pei + Mdt, pei |-> Pei,
   actor |-> actor, running |-> TRUE]

\* No dgt is kept for the first instance.
fillInstance(actor) ==
  /\ known' = TRUE /\ rts' = FirstInstance(arrival.dgt + Pei, actor) /\ first' = arrival.dgt
  /\ arrival' = NoArrival
  /\ disturbed' = disturbed \cup (IF \E d \in tsi : d > arrival.dgt THEN {"unexpected"} ELSE {})

\* The first instance starts the detection, unless it is too old: then it only counts as started. The actor is
\* started before the object is filled.
startDetection ==
  /\ arrival.pc = "validated" /\ (~known \/ ~rts.running)
  /\ IF Late
       THEN fillInstance(NoTime) /\ UNCHANGED actors
       ELSE /\ actors' = actors \cup {Detection}
            /\ arrival' = [arrival EXCEPT !.pc = "starting"]
            /\ UNCHANGED <<known, rts, first, disturbed>>
  /\ UNCHANGED <<now, tsi, mdd, mdlt, monitor, sub, md, updates, num>>

prepareInstance ==
  /\ arrival.pc = "starting"
  /\ fillInstance(Detection)
  /\ UNCHANGED <<now, tsi, mdd, mdlt, actors, monitor, sub, md, updates, num>>

\* An instance that is too old is entered into mdlt, of the copy that has been validated.
noteLate ==
  /\ arrival.pc = "validated" /\ known /\ rts.running /\ Late
  /\ dbUpdate(arrival.copy, addDgtToMdlt(arrival.copy, arrival.dgt), {"late"})
  /\ arrival' = [arrival EXCEPT !.pc = "noted"]
  /\ UNCHANGED <<now, tsi, mdd, known, rts, first, actors, monitor, sub, md, updates, num>>

\* Of several instances that arrive before the monitor runs only the last one is kept.
addDgt ==
  /\ arrival.pc = "noted" \/ (arrival.pc = "validated" /\ known /\ rts.running /\ ~Late)
  /\ rts' = [rts EXCEPT !.dgt = <<arrival.dgt>>]
  /\ arrival' = NoArrival
  /\ disturbed' = disturbed \cup (IF monitor = Idle THEN {} ELSE {"during"})
                            \cup (IF rts.dgt = <<>> /\ IsExpected(arrival.dgt) THEN {} ELSE {"unexpected"})
  /\ UNCHANGED <<now, tsi, mdd, mdlt, known, first, actors, monitor, sub, md, updates, num>>

-----------------------------------------------------------------------------
(* The monitor.                                                            *)

\* A run starts: windows that have ended are cleared.
timeSeriesMonitor ==
  /\ monitor = Idle
  /\ \E at \in actors :
       /\ at <= now
       /\ actors' = actors \ {at}
  /\ IF ~known
       THEN UNCHANGED <<rts, md, monitor>>
       ELSE /\ md' = IF /\ md.timeWindowEndTimestamp # NoTime
                        /\ md.timeWindowEndTimestamp <= rts.missingDataDetectionTime
                       THEN NoData ELSE md
            /\ monitor' = [pc |-> "compare", dgt |-> IF rts.dgt = <<>> THEN NoTime ELSE Head(rts.dgt),
                           copy |-> <<>>]
            /\ rts' = [rts EXCEPT !.dgt = <<>>]
  /\ disturbed' = disturbed \cup (IF arrival.pc = "starting" THEN {"early"} ELSE {})
  /\ UNCHANGED <<now, tsi, mdd, mdlt, known, first, arrival, sub, updates, num>>

\* The <timeSeries> is read once in a run, when the first dgt is missing. Without it the run ends with an exception,
\* and there is no next one.
compareDgt ==
  /\ monitor.pc = "compare"
  /\ monitor' = CASE IsExpected(monitor.dgt) -> [monitor EXCEPT !.pc = "advance"]
                  [] ~IsExpected(monitor.dgt) /\ monitor.copy # <<>> -> [monitor EXCEPT !.pc = "note"]
                  [] ~IsExpected(monitor.dgt) /\ monitor.copy = <<>> /\ mdd = "deleted" -> Idle
                  [] OTHER -> [monitor EXCEPT !.pc = "note", !.copy = <<mdlt>>]
  /\ UNCHANGED <<now, tsi, mdd, mdlt, known, rts, first, actors, arrival, sub, md, updates, num, disturbed>>

\* One more missing data point in the window. The first one starts a new window.
addMissingData ==
  [timeWindowEndTimestamp |-> IF md.missingDataList = <<>> THEN rts.missingDataDetectionTime + Dur
                                                           ELSE md.timeWindowEndTimestamp,
   missingDataList |-> Append(md.missingDataList, rts.expectedDgt)]

\* A notification of the subscription empties the list. The end of the window stays.
checkSubscriptions(data) ==
  IF Len(data.missingDataList) >= num THEN [data EXCEPT !.missingDataList = <<>>] ELSE data

\* The copy is written with the time that is missing. A <timeSeries> that is gone cannot be written: an exception.
noteMissing ==
  /\ monitor.pc = "note"
  /\ IF mdd = "deleted"
       THEN monitor' = Idle /\ UNCHANGED <<mdlt, md, disturbed>>
       ELSE LET list == addDgtToMdlt(monitor.copy[1], rts.expectedDgt) IN
            /\ dbUpdate(monitor.copy[1], list, {})
            /\ md' = IF sub THEN checkSubscriptions(addMissingData) ELSE md
            /\ monitor' = [monitor EXCEPT !.pc = "advance", !.copy = <<list>>]
  /\ UNCHANGED <<now, tsi, mdd, known, rts, first, actors, arrival, sub, updates, num>>

\* The next period: an instance that has arrived in the meantime is compared with it at once,
\* otherwise the next run is scheduled.
nextDgt ==
  /\ monitor.pc = "advance"
  /\ IF rts.dgt # <<>>
       THEN /\ monitor' = [monitor EXCEPT !.pc = "compare", !.dgt = Head(rts.dgt)]
            /\ rts' = [rts EXCEPT !.dgt = <<>>, !.expectedDgt = @ + rts.pei]
            /\ UNCHANGED actors
       ELSE LET at == rts.missingDataDetectionTime + rts.pei IN
            /\ monitor' = Idle
            /\ rts' = [rts EXCEPT !.expectedDgt = @ + rts.pei, !.missingDataDetectionTime = at, !.actor = at]
            /\ actors' = actors \cup {at}
  /\ UNCHANGED <<now, tsi, mdd, mdlt, known, first, arrival, sub, md, updates, num, disturbed>>

\* Monitor runs start on time, and end at once.
Tick ==
  /\ now < MaxTime /\ monitor = Idle
  /\ \A at \in actors : at > now
  /\ now' = now + 1
  /\ UNCHANGED <<tsi, mdd, mdlt, known, rts, first, actors, monitor, arrival, sub, md, updates, num, disturbed>>

-----------------------------------------------------------------------------
(* The <timeSeries> and its subscription.                                  *)

stopActor == actors' = IF rts.actor = NoTime THEN actors ELSE actors \ {rts.actor}

\* Updates of mdd: detection starts again with the next instance.
update(on) ==
  /\ Alone /\ updates < MaxUpdate
  /\ updates' = updates + 1
  /\ mdd' = IF on THEN "on" ELSE "off"
  /\ mdlt' = IF on THEN <<>> ELSE mdlt
  /\ IF known THEN stopActor /\ rts' = [rts EXCEPT !.running = FALSE]
              ELSE UNCHANGED <<actors, rts>>
  /\ first' = 0
  /\ UNCHANGED <<now, tsi, known, monitor, arrival, sub, md, num, disturbed>>

\* A monitor run that has begun goes on, and schedules a next one, which finds nothing.
deactivate ==
  /\ mdd # "deleted" /\ arrival = NoArrival
  /\ mdd' = "deleted" /\ known' = FALSE
  /\ IF known THEN stopActor ELSE UNCHANGED actors
  /\ UNCHANGED <<now, tsi, mdlt, rts, first, monitor, arrival, sub, md, updates, num, disturbed>>

addSubscription ==
  /\ Alone /\ ~sub /\ sub' = TRUE
  /\ md' = NoData /\ num' \in Num
  /\ known' = TRUE
  /\ rts' = IF known THEN rts ELSE NoInstance
  /\ UNCHANGED <<now, tsi, mdd, mdlt, first, actors, monitor, arrival, updates, disturbed>>

removeSubscription ==
  /\ Alone /\ sub /\ sub' = FALSE
  /\ md' = NoData /\ num' = 0
  /\ UNCHANGED <<now, tsi, mdd, mdlt, known, rts, first, actors, monitor, arrival, updates, disturbed>>

Next ==
  \/ \E dgt \in 1..MaxTime : createLocalResource(dgt)
  \/ dbReload \/ instanceAdded \/ validate
  \/ startDetection \/ prepareInstance \/ noteLate \/ addDgt
  \/ timeSeriesMonitor \/ compareDgt \/ noteMissing \/ nextDgt \/ Tick
  \/ \E on \in BOOLEAN : update(on)
  \/ deactivate
  \/ addSubscription \/ removeSubscription

Spec == Init /\ [][Next]_seriesVars

-----------------------------------------------------------------------------
(* Properties.                                                             *)

\* Expected times that have been looked at, and those for which no instance has come.
Checked == {first + k * Pei : k \in 1..((rts.expectedDgt - first) \div Pei - 1)}
Missing == {e \in Checked : \A d \in tsi : ~InRange(d, e)}

Increasing(s) == \A i, j \in DOMAIN s : i < j => s[i] < s[j]

\* Instances come at any time, during runs too, and copies are written over each other. The mdlt never names a period
\* twice, or out of order, or one that has not been looked at, as long as no instance that is too old is entered and
\* the object is filled before the first run. Where also no write is lost and the instances that came were handed over
\* before their period was looked at, it names exactly the periods for which none has come, the last mdn of them.
\* The missing points in a window of the subscription lie within its duration, unless an instance was handed over
\* during a run, which looks at the next period at once.
MissingExact ==
  /\ disturbed \cap {"late", "early"} = {} /\ first # 0 /\ mdd = "on" /\ monitor = Idle =>
       Increasing(mdlt) /\ \A i \in DOMAIN mdlt : mdlt[i] \in Checked
  /\ disturbed = {} /\ first # 0 /\ mdd = "on" /\ monitor = Idle /\ arrival = NoArrival =>
       /\ \A i \in DOMAIN mdlt : mdlt[i] \in Missing
       /\ \A e \in Missing : \/ \E i \in DOMAIN mdlt : mdlt[i] = e
                             \/ Len(mdlt) = Mdn /\ \A i \in DOMAIN mdlt : e < mdlt[i]
  /\ disturbed \cap {"during", "early"} = {} =>
       \A i, j \in DOMAIN md.missingDataList : md.missingDataList[j] - md.missingDataList[i] < Dur

\* There is one monitor at most, and none when detection is off. It goes on once detection has started with an instance
\* that was not too old, unless the first run finds an object that has not been filled.
OneMonitor ==
  "early" \notin disturbed =>
    /\ Cardinality(actors) + (IF monitor = Idle THEN 0 ELSE 1) <= 1
    /\ mdd = "off" => actors = {} /\ monitor = Idle
    /\ known /\ rts.running /\ rts.actor # NoTime => actors # {} \/ monitor # Idle
=============================================================================
