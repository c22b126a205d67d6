------------------------------- MODULE MCEnds --------------------------------
(* What must come to its end: the requests to cross resource subscriptions, the tasks that jobs run, the *)
(* connection to an MQTT broker, and the process. They share no state: each behaviour is one of a single *)
(* component, while the others stay in an initial state.                                                 *)
EXTENDS JobPool, TLC

CONSTANTS Crs, Sub, Thread, OverlapCrs, c1, c2, c3, s1, s3, s4, x1, Caller, Resetter, Topic, MaxDrop, Overlap

VARIABLES
  component,  \* never changes
  sub, crs, window, _semaphores, locked, stack, overlapCross,
  cseStatus, main, _stopLoop, startUp, services, caller, reset, isHeadless,
  connection, loop, isConnected, subscribedTopics, subscribedCount, subscribing, unsubscribing, drops,
  overlapShutdown

crossVars == <<sub, crs, window, _semaphores, locked, stack, overlapCross>>
cseVars == <<cseStatus, main, _stopLoop, startUp, services, caller, reset, isHeadless>>
mqttVars == <<connection, loop, isConnected, subscribedTopics, subscribedCount, subscribing, unsubscribing,
              drops, overlapShutdown>>

\* c1 creates s1 and enters itself into x1; c2 creates s3 and enters itself into s1 and x1; c3 creates s4
\* and enters itself into s3.
Rrat == [c \in Crs |-> CASE c = c1 -> {s1} [] c = c2 -> {s3} [] c = c3 -> {s4}]
Srat == [c \in Crs |-> CASE c = c1 -> {x1} [] c = c2 -> {s1, x1} [] c = c3 -> {s3}]

Cross == INSTANCE CrossSubscription WITH overlap <- overlapCross
TheProcess == INSTANCE CSE
Broker == INSTANCE MQTTConnection WITH main <- connection, overlap <- overlapShutdown,
                                       OverlapShutdown <- Overlap

InitOne ==
  /\ component \in {"cross", "jobs", "process", "broker"}
  /\ Init /\ (component # "jobs" => ~resident)
  /\ Cross!Init /\ (component # "cross" => ~overlapCross)
  /\ TheProcess!Init /\ (component # "process" => ~isHeadless)
  /\ Broker!Init /\ (component # "broker" => ~overlapShutdown)

NextOne ==
  /\ UNCHANGED component
  /\ IF component = "jobs" THEN Next ELSE UNCHANGED jobVars
  /\ IF component = "cross" THEN Cross!Next ELSE UNCHANGED crossVars
  /\ IF component = "process" THEN TheProcess!Next ELSE UNCHANGED cseVars
  /\ IF component = "broker" THEN Broker!Next ELSE UNCHANGED mqttVars

SpecOne == InitOne /\ [][NextOne]_<<component, jobVars, crossVars, cseVars, mqttVars>>

\* The fairness of the component.
FairSpecOne ==
  /\ SpecOne
  /\ WF_jobVars(component = "jobs" /\ Step)
  /\ \A j \in Job : WF_jobVars(component = "jobs" /\ ThreadStep(j))
  /\ \A t \in Thread : WF_crossVars(component = "cross" /\ Cross!Step(t) /\ UNCHANGED overlapCross)
  /\ WF_cseVars(component = "process" /\ TheProcess!Main)
  /\ WF_cseVars(component = "process" /\ TheProcess!_startUpFinished)
  /\ WF_mqttVars(component = "broker" /\ Broker!Main)
  /\ WF_mqttVars(component = "broker" /\ Broker!subscribeTopic)
  /\ WF_mqttVars(component = "broker" /\ Broker!Answer)

------------------------------------------------------------------------------
(* Properties, as the modules state them.                                  *)

\* Cross resource subscriptions: they are there as a whole, or not at all, and no critical section is left
\* behind.
AllOrNothing == Cross!AllOrNothing

\* Each deletion comes to an end.
RequestsEnd == Cross!RequestsEnd

\* When shutdown() has stopped the loop, the process ends.
StopEnds == component = "process" => TheProcess!StopEnds

\* A shutdown that waits for the answers of the broker ends.
ShutdownEnds == component = "broker" => Broker!ShutdownEnds
=============================================================================
