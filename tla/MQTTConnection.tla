--------------------------- MODULE MQTTConnection ---------------------------
(***************************************************************************)
(* The connection to an MQTT broker: the thread of the MQTT library        *)
(* connects, subscribes the topics of the CSE and receives the broker's    *)
(* answers, while the main thread waits for it to be subscribed, and in    *)
(* the end to have unsubscribed.                                           *)
(***************************************************************************)
EXTENDS Integers, FiniteSets

CONSTANTS
  Topic,    \* requests, responses, registration requests
  MaxDrop,  \* most losses of the connection
  OverlapShutdown, \* values of overlap
  None

VARIABLES
  main,            \* run(), and shutdown()
  loop,            \* the loop of the library
  isConnected,
  subscribedTopics, \* what a topic waits for, or that it is subscribed
  subscribedCount,
  subscribing,     \* topics that onConnect() has still to subscribe
  unsubscribing,   \* topics that shutdown() has found, and has still to unsubscribe
  drops,
  overlap          \* whether the client connects also while it is shut down, never changes

mqttVars == <<main, loop, isConnected, subscribedTopics, subscribedCount, subscribing, unsubscribing, drops, overlap>>

TypeOK ==
  /\ main \in {"init", "waiting", "running", "failed", "unsubscribing", "polling", "ended"}
  /\ loop \in {"none", "offline", "online", "ended"}
  /\ isConnected \in BOOLEAN /\ overlap \in BOOLEAN
  /\ subscribedTopics \in [Topic -> {None, "subscribing", "subscribed", "unsubscribing"}]
  /\ subscribedCount \in Int /\ drops \in 0..MaxDrop
  /\ subscribing \subseteq Topic /\ unsubscribing \subseteq Topic

NoTopic == [t \in Topic |-> None]
Listed == {t \in Topic : subscribedTopics[t] # None}

Init ==
  /\ main = "init" /\ loop = "none" /\ isConnected = FALSE
  /\ subscribedTopics = NoTopic /\ subscribedCount = 0
  /\ subscribing = {} /\ unsubscribing = {} /\ drops = 0
  /\ overlap \in OverlapShutdown

-----------------------------------------------------------------------------
(* The main thread.                                                        *)

\* The broker can be reached, and an actor runs the loop; or there is no loop.
run ==
  /\ main = "init"
  /\ loop' \in {"offline", "none"} /\ main' = "waiting"
  /\ UNCHANGED <<isConnected, subscribedTopics, subscribedCount, subscribing, unsubscribing, drops, overlap>>

\* All topics are subscribed in time, or the CSE does not start.
isFullySubscribed ==
  /\ main = "waiting"
  /\ \/ isConnected /\ subscribedCount = Cardinality(Topic) /\ main' = "running"
     \/ main' = "failed"
  /\ UNCHANGED <<loop, isConnected, subscribedTopics, subscribedCount, subscribing, unsubscribing, drops, overlap>>

\* The topics of the moment are unsubscribed.
shutdown ==
  /\ main = "running" /\ (overlap \/ subscribing = {})
  /\ unsubscribing' = Listed /\ main' = "unsubscribing"
  /\ UNCHANGED <<loop, isConnected, subscribedTopics, subscribedCount, subscribing, drops, overlap>>

unsubscribeTopic ==
  /\ main = "unsubscribing"
  /\ IF unsubscribing = {} THEN main' = "polling" /\ UNCHANGED <<subscribedTopics, unsubscribing>>
     ELSE \E t \in unsubscribing :
            /\ unsubscribing' = unsubscribing \ {t} /\ UNCHANGED main
            /\ subscribedTopics' = IF t \in Listed THEN [subscribedTopics EXCEPT ![t] = "unsubscribing"]
                                                   ELSE subscribedTopics
  /\ UNCHANGED <<loop, isConnected, subscribedCount, subscribing, drops, overlap>>

\* No topic is left: disconnect() ends the loop.
disconnect ==
  /\ main = "polling" /\ Listed = {}
  /\ main' = "ended" /\ loop' = "ended" /\ isConnected' = FALSE
  /\ UNCHANGED <<subscribedTopics, subscribedCount, subscribing, unsubscribing, drops, overlap>>

-----------------------------------------------------------------------------
(* The thread of the library, which calls the callbacks.                   *)

\* It connects, and connects again after a loss, until disconnect(). Without overlap it does not while it is shut
\* down: it waits longer before it connects than shutdown() between two looks at the topics.
_onConnect ==
  /\ loop = "offline" /\ (overlap \/ main \in {"waiting", "running", "failed"})
  /\ loop' = "online" /\ isConnected' = TRUE /\ subscribing' = Topic
  /\ UNCHANGED <<main, subscribedTopics, subscribedCount, unsubscribing, drops, overlap>>

subscribeTopic ==
  /\ loop = "online"
  /\ \E t \in subscribing :
       /\ subscribing' = subscribing \ {t}
       /\ subscribedTopics' = IF t \in Listed THEN subscribedTopics
                                              ELSE [subscribedTopics EXCEPT ![t] = "subscribing"]
  /\ UNCHANGED <<main, loop, isConnected, subscribedCount, unsubscribing, drops, overlap>>

\* The broker has answered. An answer to an older request is not looked for.
_onSubscribe(t) ==
  /\ loop = "online" /\ subscribing = {} /\ subscribedTopics[t] = "subscribing"
  /\ subscribedTopics' = [subscribedTopics EXCEPT ![t] = "subscribed"]
  /\ subscribedCount' = subscribedCount + 1
  /\ UNCHANGED <<main, loop, isConnected, subscribing, unsubscribing, drops, overlap>>

_onUnsubscribe(t) ==
  /\ loop = "online" /\ subscribing = {} /\ subscribedTopics[t] = "unsubscribing"
  /\ subscribedTopics' = [subscribedTopics EXCEPT ![t] = None]
  /\ subscribedCount' = subscribedCount - 1
  /\ UNCHANGED <<main, loop, isConnected, subscribing, unsubscribing, drops, overlap>>

\* Mutant of _onDisconnect: the topics stay.
_onDisconnectKeeps ==
  /\ loop = "online" /\ subscribing = {} /\ drops < MaxDrop
  /\ loop' = "offline" /\ isConnected' = FALSE /\ drops' = drops + 1
  /\ UNCHANGED <<main, subscribedTopics, subscribedCount, subscribing, unsubscribing, overlap>>

\* The connection is lost: no topic is listed any more. The count stays.
_onDisconnect ==
  /\ loop = "online" /\ subscribing = {} /\ drops < MaxDrop
  /\ loop' = "offline" /\ isConnected' = FALSE /\ subscribedTopics' = NoTopic /\ drops' = drops + 1
  /\ UNCHANGED <<main, subscribedCount, subscribing, unsubscribing, overlap>>

-----------------------------------------------------------------------------
Main == unsubscribeTopic \/ disconnect
Answer == \E t \in Topic : _onSubscribe(t) \/ _onUnsubscribe(t)

Next == run \/ isFullySubscribed \/ shutdown \/ Main \/ _onConnect \/ subscribeTopic \/ Answer \/ _onDisconnect

Spec == Init /\ [][Next]_mqttVars

\* The main thread goes on, and a broker that is connected answers. It may never be connected again.
FairSpec == Spec /\ WF_mqttVars(Main) /\ WF_mqttVars(subscribeTopic) /\ WF_mqttVars(Answer)

-----------------------------------------------------------------------------
\* A shutdown that waits for the broker's answers ends, also if the connection is lost meanwhile; unless the
\* client connects, or subscribes, while it is shut down.
ShutdownEnds == ~overlap /\ main = "unsubscribing" ~> main = "ended"
=============================================================================
