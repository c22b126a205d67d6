---------------------------- MODULE RequestManager ----------------------------
(***************************************************************************)
(* Requests that the CSE forwards to an application entity: through the     *)
(* polling channel of an entity that cannot be reached, or over MQTT or     *)
(* WebSocket, where the answer comes as a message of its own. A request may *)
(* be non-blocking: then it is executed by an actor, and its result goes to *)
(* a <request> resource that may expire meanwhile.                          *)
(***************************************************************************)
EXTENDS Naturals, FiniteSets

CONSTANTS
  Exchange,   \* the requests that are forwarded, each by a thread or actor of its own
  Entity,     \* originators and targets
  Rqi,        \* request identifiers
  Req,        \* the parameters of each request: rqi, from, to, rt
  Poller,     \* threads that handle a retrieval of <pollingChannelURI>
  Pch,        \* the entity that polls in each of these threads
  Notifier,   \* threads that handle an answer, a notification of <pollingChannelURI>
  None

ResponseType == {"blockingRequest", "nonBlockingRequestSynch", "nonBlockingRequestAsynch", "flexBlocking"}

ASSUME RequestAssumption ==
  /\ Req \in [Exchange -> [rqi : Rqi, from : Entity, to : Entity, rt : ResponseType]]
  /\ Pch \in [Poller -> Entity]
  /\ None \notin Entity \cup Rqi \cup Exchange \cup {"timeout", "failed"}
  /\ Exchange \cap {"timeout", "failed"} = {}

\* What the queues hold: the request x, or the answer to it, for entity id.
RequestType == {"REQUEST", "RESPONSE"}
Entry == [id : Entity, x : Exchange, type : RequestType]

VARIABLES
  requests,          \* the queues of all entities
  rqiOriginator,     \* who sent the request with this identifier
  unqueuers,         \* actors that will take an entry from its queue
  receivedResponses, \* answers that came as a message, by request identifier
  pc,                \* where the thread or actor stands that forwards a request
  result,            \* what it got: an answer (that to a request), "timeout" or "failed"
  ors,               \* the status in the <request> resource, "none" without one
  poll,              \* where a polling thread stands
  taken,             \* the requests it has taken from the queue
  notify,            \* where a thread stands that handles an answer
  sent,              \* how a request was forwarded, "forgotten" after a reset of the queues
  seen,              \* requests that have reached their target
  answered           \* requests of which an answer was accepted

vars == <<requests, rqiOriginator, unqueuers, receivedResponses, pc, result, ors,
          poll, taken, notify, sent, seen, answered>>

sendVars == <<pc, result, ors>>
pollVars == <<poll, taken>>
exchangeVars == <<sent, seen, answered>>

\* Whether the thread of the request executes it. A flexBlocking request is executed only if blocking is
\* preferred, and then as a blocking one.
Blocking(x) == Req[x].rt \in {"blockingRequest", "flexBlocking"}

Init ==
  /\ requests = {}
  /\ rqiOriginator = [r \in Rqi |-> None]
  /\ unqueuers = {}
  /\ receivedResponses = [r \in Rqi |-> None]
  /\ pc = [x \in Exchange |-> "idle"]
  /\ result = [x \in Exchange |-> None]
  /\ ors = [x \in Exchange |-> "none"]
  /\ poll = [p \in Poller |-> "idle"]
  /\ taken = [p \in Poller |-> {}]
  /\ notify = [n \in Notifier |-> [pc |-> "idle", x |-> None, id |-> None]]
  /\ sent = [x \in Exchange |-> "no"]
  /\ seen = {}
  /\ answered = {}

-----------------------------------------------------------------------------
(* The queues. *)

\* hasPollingRequest: entries for entity id of this type, with the identifier r or any.
Matching(id, r, type) ==
  {e \in requests : e.id = id /\ e.type = type /\ (r = None \/ Req[e.x].rqi = r)}

\* Mutant of StopUnqueuers: all actors of the type are stopped.
StopAllUnqueuers(e) == unqueuers' = {u \in unqueuers : u.type # e.type}

\* stopWorkers('unqueuePolling_<rqi>-<type>')
StopUnqueuers(e) ==
  unqueuers' = {u \in unqueuers : ~(Req[u.x].rqi = Req[e.x].rqi /\ u.type = e.type)}

\* unqueuePollingRequest, when there is an entry to find.
unqueuePollingRequest(e) ==
  /\ requests' = requests \ {e}
  /\ StopUnqueuers(e)

\* The actor of an entry runs after the entry has expired.
unqueueExpired(u) ==
  /\ u \in unqueuers
  /\ \/ \E e \in Matching(u.id, Req[u.x].rqi, u.type) : unqueuePollingRequest(e)
     \/ /\ Matching(u.id, Req[u.x].rqi, u.type) = {}
        /\ unqueuers' = unqueuers \ {u}
        /\ UNCHANGED requests
  /\ UNCHANGED <<rqiOriginator, receivedResponses, sendVars, pollVars, notify, exchangeVars>>

\* Mutant of _cleanupPollingRequests: the originators of all identifiers are dropped.
_cleanupPollingRequestsAll(expired) ==
  /\ expired \subseteq requests
  /\ expired # {}
  /\ requests' = requests \ expired
  /\ rqiOriginator' = [r \in Rqi |-> None]
  /\ UNCHANGED <<unqueuers, receivedResponses, sendVars, pollVars, notify, exchangeVars>>

\* The periodic worker drops all expired entries, and the originators of their identifiers.
_cleanupPollingRequests(expired) ==
  /\ expired \subseteq requests
  /\ expired # {}
  /\ requests' = requests \ expired
  /\ rqiOriginator' = [r \in Rqi |-> IF \E e \in expired : Req[e.x].rqi = r
                                     THEN None ELSE rqiOriginator[r]]
  /\ UNCHANGED <<unqueuers, receivedResponses, sendVars, pollVars, notify, exchangeVars>>

-----------------------------------------------------------------------------
(* Forwarding a request. How it is sent is decided then (determineTargetDetails): whether the *)
(* target can be reached is an attribute of it that may be updated.                           *)

\* Blocking requests are handled at once. For the others a <request> resource is created and an
\* actor is started; but if non-blocking is preferred (a setting that may be changed) a flexBlocking
\* request is refused when its <request> resource is there, and no actor is started.
handleRequest(x) ==
  /\ pc[x] = "idle"
  /\ \/ Blocking(x) /\ pc' = [pc EXCEPT ![x] = "execute"] /\ UNCHANGED <<ors, result>>
     \/ /\ ~Blocking(x)
        /\ pc' = [pc EXCEPT ![x] = "actor"]
        /\ ors' = [ors EXCEPT ![x] = "PENDING"]
        /\ UNCHANGED result
     \/ /\ Req[x].rt = "flexBlocking"
        /\ pc' = [pc EXCEPT ![x] = "refused"]
        /\ ors' = [ors EXCEPT ![x] = "PENDING"]
        /\ result' = [result EXCEPT ![x] = "failed"]
  /\ UNCHANGED <<requests, rqiOriginator, unqueuers, receivedResponses, pollVars, notify, exchangeVars>>

\* The scheduler runs the actor.
RunActor(x) ==
  /\ pc[x] = "actor"
  /\ pc' = [pc EXCEPT ![x] = "execute"]
  /\ UNCHANGED <<requests, rqiOriginator, unqueuers, receivedResponses, result, ors, pollVars, notify, exchangeVars>>

\* The operation of request x is over with result r.
Return(x, r) ==
  /\ result' = [result EXCEPT ![x] = r]
  /\ pc' = [pc EXCEPT ![x] = IF Blocking(x) THEN "done" ELSE "retrieve"]

\* processNotifyRequest: the request may have expired, or is refused. _executeOperation catches
\* REQUEST_TIMEOUT, goes on and fails with an exception, since there is no result.
CheckFails(x) ==
  /\ pc[x] = "execute"
  /\ \/ Return(x, "failed")
     \/ /\ result' = [result EXCEPT ![x] = "timeout"]
        /\ pc' = [pc EXCEPT ![x] = IF Blocking(x) THEN "done" ELSE "dead"]
  /\ UNCHANGED <<requests, rqiOriginator, unqueuers, receivedResponses, ors, pollVars, notify, exchangeVars>>

\* queueRequestForPCH and queuePollingRequest up to the start of the actor.
queuePollingRequest(x) ==
  /\ pc[x] = "execute"
  /\ requests' = requests \cup {[id |-> Req[x].to, x |-> x, type |-> "REQUEST"]}
  /\ rqiOriginator' = [rqiOriginator EXCEPT ![Req[x].rqi] = Req[x].from]
  /\ pc' = [pc EXCEPT ![x] = "queued"]
  /\ sent' = [sent EXCEPT ![x] = "queue"]
  /\ UNCHANGED <<unqueuers, receivedResponses, result, ors, pollVars, notify, seen, answered>>

StartUnqueuer(x) ==
  /\ pc[x] = "queued"
  /\ unqueuers' = unqueuers \cup {[id |-> Req[x].to, x |-> x, type |-> "REQUEST"]}
  /\ pc' = [pc EXCEPT ![x] = "waiting"]
  /\ UNCHANGED <<requests, rqiOriginator, receivedResponses, result, ors, pollVars, notify, exchangeVars>>

\* waitForPollingRequest has found an answer.
hasPollingResponse(x) ==
  /\ pc[x] = "waiting"
  /\ sent[x] # "message"
  /\ Matching(Req[x].from, Req[x].rqi, "RESPONSE") # {}
  /\ pc' = [pc EXCEPT ![x] = "take"]
  /\ UNCHANGED <<requests, rqiOriginator, unqueuers, receivedResponses, result, ors, pollVars, notify, exchangeVars>>

\* It takes the answer, if it is still there. waitForResponseToPCH refuses one of another entity.
takePollingResponse(x) ==
  /\ pc[x] = "take"
  /\ \/ \E e \in Matching(Req[x].from, Req[x].rqi, "RESPONSE") :
          /\ unqueuePollingRequest(e)
          /\ Return(x, IF Req[e.x].to = Req[x].to THEN e.x ELSE "failed")
     \/ /\ Matching(Req[x].from, Req[x].rqi, "RESPONSE") = {}
        /\ Return(x, "timeout")
        /\ UNCHANGED <<requests, unqueuers>>
  /\ UNCHANGED <<rqiOriginator, receivedResponses, ors, pollVars, notify, exchangeVars>>

\* Mutant of WaitTimeout: the sender tells its caller and waits on.
WaitTimeoutGoesOn(x) ==
  /\ pc[x] = "waiting"
  /\ result' = [result EXCEPT ![x] = "timeout"]
  /\ UNCHANGED <<requests, rqiOriginator, unqueuers, receivedResponses, pc, ors, pollVars, notify, exchangeVars>>

\* Time is over for a sender, whatever it waits for. handleSendRequest makes a result of it.
WaitTimeout(x) ==
  /\ pc[x] = "waiting"
  /\ Return(x, "timeout")
  /\ UNCHANGED <<requests, rqiOriginator, unqueuers, receivedResponses, ors, pollVars, notify, exchangeVars>>

-----------------------------------------------------------------------------
(* Requests over MQTT and WebSocket. *)

sendMqttRequest(x) ==
  /\ pc[x] = "execute"
  /\ pc' = [pc EXCEPT ![x] = "waiting"]
  /\ sent' = [sent EXCEPT ![x] = "message"]
  /\ UNCHANGED <<requests, rqiOriginator, unqueuers, receivedResponses, result, ors, pollVars, notify, seen, answered>>

\* The message reaches the target, which may send its answer.
Arrive(x) ==
  /\ sent[x] = "message"
  /\ x \notin seen
  /\ seen' = seen \cup {x}
  /\ UNCHANGED <<requests, rqiOriginator, unqueuers, receivedResponses, sendVars, pollVars, notify, sent, answered>>

\* An answer arrives, also late or for the second time.
addResponse(x) ==
  /\ sent[x] = "message"
  /\ x \in seen
  /\ receivedResponses' = [receivedResponses EXCEPT ![Req[x].rqi] = x]
  /\ answered' = answered \cup {x}
  /\ UNCHANGED <<requests, rqiOriginator, unqueuers, sendVars, pollVars, notify, sent, seen>>

waitForResponse(x) ==
  /\ pc[x] = "waiting"
  /\ sent[x] = "message"
  /\ receivedResponses[Req[x].rqi] # None
  /\ Return(x, receivedResponses[Req[x].rqi])
  /\ receivedResponses' = [receivedResponses EXCEPT ![Req[x].rqi] = None]
  /\ UNCHANGED <<requests, rqiOriginator, unqueuers, ors, pollVars, notify, exchangeVars>>

-----------------------------------------------------------------------------
(* The result of a non-blocking request. *)

\* _executeOperation retrieves the <request> resource, which may be gone.
retrieveReq(x) ==
  /\ pc[x] = "retrieve"
  /\ pc' = [pc EXCEPT ![x] = IF ors[x] = "none" THEN "dead" ELSE "write"]
  /\ UNCHANGED <<requests, rqiOriginator, unqueuers, receivedResponses, result, ors, pollVars, notify, exchangeVars>>

\* Mutant of updateReq: the status is not written after a timeout.
updateReqAnswer(x) ==
  /\ pc[x] = "write"
  /\ ors' = [ors EXCEPT ![x] = IF result[x] = x THEN "COMPLETED" ELSE @]
  /\ pc' = [pc EXCEPT ![x] = "done"]
  /\ UNCHANGED <<requests, rqiOriginator, unqueuers, receivedResponses, result, pollVars, notify, exchangeVars>>

\* dbUpdate of a record that is gone is a KeyError.
updateReq(x) ==
  /\ pc[x] = "write"
  /\ \/ /\ ors[x] # "none"
        /\ ors' = [ors EXCEPT ![x] = IF result[x] = "failed" THEN "FAILED" ELSE "COMPLETED"]
        /\ pc' = [pc EXCEPT ![x] = IF Req[x].rt = "nonBlockingRequestAsynch" THEN "notify" ELSE "done"]
     \/ /\ ors[x] = "none"
        /\ pc' = [pc EXCEPT ![x] = "dead"]
        /\ UNCHANGED ors
  /\ UNCHANGED <<requests, rqiOriginator, unqueuers, receivedResponses, result, pollVars, notify, exchangeVars>>

\* sendNotificationWithDict, errors are ignored.
notifyResult(x) ==
  /\ pc[x] = "notify"
  /\ pc' = [pc EXCEPT ![x] = "done"]
  /\ UNCHANGED <<requests, rqiOriginator, unqueuers, receivedResponses, result, ors, pollVars, notify, exchangeVars>>

\* The <request> resource expires or is deleted, or the CSE is reset.
ExpireReq(x) ==
  /\ ors[x] # "none"
  /\ ors' = [ors EXCEPT ![x] = "none"]
  /\ UNCHANGED <<requests, rqiOriginator, unqueuers, receivedResponses, pc, result, pollVars, notify, exchangeVars>>

-----------------------------------------------------------------------------
(* Polling. *)

\* waitForPollingRequest has seen a request; one that gives up changes nothing. Whether requests are
\* aggregated is read from the polling channel, which may be updated.
hasPollingRequest(p) ==
  /\ poll[p] = "idle"
  /\ Matching(Pch[p], None, "REQUEST") # {}
  /\ \E phase \in {"take", "takeAll"} : poll' = [poll EXCEPT ![p] = phase]
  /\ UNCHANGED <<requests, rqiOriginator, unqueuers, receivedResponses, sendVars, taken, notify, exchangeVars>>

\* The requests S go to the entity. The connection may be lost, and the requests with it.
Respond(p, S) ==
  /\ poll' = [poll EXCEPT ![p] = "idle"]
  /\ taken' = [taken EXCEPT ![p] = {}]
  /\ seen' \in {seen, seen \cup S}

\* It takes one request, or one after the other until there is none left.
takePollingRequest(p) ==
  /\ \/ \E e \in Matching(Pch[p], None, "REQUEST") :
          /\ unqueuePollingRequest(e)
          /\ \/ poll[p] = "take" /\ Respond(p, {e.x})
             \/ /\ poll[p] = "takeAll"
                /\ taken' = [taken EXCEPT ![p] = @ \cup {e.x}]
                /\ UNCHANGED <<poll, seen>>
     \/ /\ poll[p] \in {"take", "takeAll"}
        /\ Matching(Pch[p], None, "REQUEST") = {}
        /\ Respond(p, taken[p])
        /\ UNCHANGED <<requests, unqueuers>>
  /\ UNCHANGED <<rqiOriginator, receivedResponses, sendVars, notify, sent, answered>>

-----------------------------------------------------------------------------
(* Answers of entities that poll. *)

\* The originator of the identifier is the target of the answer. Without one the pop is a
\* KeyError, and nothing changes.
popOriginator(n, x) ==
  /\ notify[n].pc = "idle"
  /\ sent[x] # "message"
  /\ x \in seen
  /\ rqiOriginator[Req[x].rqi] # None
  /\ notify' = [notify EXCEPT ![n] = [pc |-> "popped", x |-> x, id |-> rqiOriginator[Req[x].rqi]]]
  /\ rqiOriginator' = [rqiOriginator EXCEPT ![Req[x].rqi] = None]
  /\ answered' = answered \cup {x}
  /\ UNCHANGED <<requests, unqueuers, receivedResponses, sendVars, pollVars, sent, seen>>

\* The answer is queued. Its own originator is stored for the identifier, and deleted again.
queuePollingResponse(n) ==
  /\ notify[n].pc = "popped"
  /\ requests' = requests \cup {[id |-> notify[n].id, x |-> notify[n].x, type |-> "RESPONSE"]}
  /\ rqiOriginator' = [rqiOriginator EXCEPT ![Req[notify[n].x].rqi] = None]
  /\ notify' = [notify EXCEPT ![n].pc = "queued"]
  /\ UNCHANGED <<unqueuers, receivedResponses, sendVars, pollVars, exchangeVars>>

StartResponseUnqueuer(n) ==
  /\ notify[n].pc = "queued"
  /\ unqueuers' = unqueuers \cup {[id |-> notify[n].id, x |-> notify[n].x, type |-> "RESPONSE"]}
  /\ notify' = [notify EXCEPT ![n] = [pc |-> "idle", x |-> None, id |-> None]]
  /\ UNCHANGED <<requests, rqiOriginator, receivedResponses, sendVars, pollVars, exchangeVars>>

-----------------------------------------------------------------------------
\* The CSE is reset: actors that have not begun are removed, then the queues are emptied. What runs
\* goes on. A later answer to a request from before is refused (no originator).
restart ==
  /\ requests' = {}
  /\ rqiOriginator' = [r \in Rqi |-> None]
  /\ unqueuers' = {}
  /\ pc' = [x \in Exchange |-> IF pc[x] = "actor" THEN "dead" ELSE pc[x]]
  /\ sent' = [x \in Exchange |-> IF sent[x] = "queue" THEN "forgotten" ELSE sent[x]]
  /\ UNCHANGED <<receivedResponses, result, ors, pollVars, notify, seen, answered>>

-----------------------------------------------------------------------------
SendNext(x) ==
  \/ RunActor(x) \/ CheckFails(x)
  \/ queuePollingRequest(x) \/ StartUnqueuer(x) \/ hasPollingResponse(x) \/ takePollingResponse(x)
  \/ sendMqttRequest(x) \/ waitForResponse(x) \/ WaitTimeout(x)
  \/ retrieveReq(x) \/ updateReq(x) \/ notifyResult(x)

PollNext(p) == hasPollingRequest(p) \/ takePollingRequest(p)

NotifyNext(n) == queuePollingResponse(n) \/ StartResponseUnqueuer(n)

Next ==
  \/ \E x \in Exchange : \/ handleRequest(x) \/ SendNext(x) \/ ExpireReq(x)
                         \/ Arrive(x) \/ addResponse(x)
  \/ \E p \in Poller : PollNext(p)
  \/ \E n \in Notifier : NotifyNext(n) \/ \E x \in Exchange : popOriginator(n, x)
  \/ \E u \in unqueuers : unqueueExpired(u)
  \/ \E expired \in SUBSET requests : _cleanupPollingRequests(expired)
  \/ restart

Spec == Init /\ [][Next]_vars

\* Threads and actors that forward a request go on, and an actor that is due is run by the scheduler.
\* Nobody need send, poll or answer.
Fairness == \A x \in Exchange : WF_vars(SendNext(x))

FairSpec == Spec /\ Fairness

-----------------------------------------------------------------------------
(* Properties. *)

TypeOK ==
  /\ requests \subseteq Entry
  /\ rqiOriginator \in [Rqi -> Entity \cup {None}]
  /\ unqueuers \subseteq Entry
  /\ receivedResponses \in [Rqi -> Exchange \cup {None}]
  /\ pc \in [Exchange -> {"idle", "actor", "execute", "queued", "waiting", "take", "retrieve",
                         "write", "notify", "done", "dead", "refused"}]
  /\ result \in [Exchange -> Exchange \cup {None, "timeout", "failed"}]
  /\ ors \in [Exchange -> {"none", "PENDING", "COMPLETED", "FAILED"}]
  /\ poll \in [Poller -> {"idle", "take", "takeAll"}]
  /\ taken \in [Poller -> SUBSET Exchange]
  /\ notify \in [Notifier -> [pc : {"idle", "popped", "queued"}, x : Exchange \cup {None},
                              id : Entity \cup {None}]]
  /\ sent \in [Exchange -> {"no", "queue", "message", "forgotten"}]
  /\ seen \subseteq Exchange
  /\ answered \subseteq Exchange

\* Whoever waits for an answer never gets the answer to the request of somebody else, however late
\* answers are, and whoever polls, gives up or expires meanwhile (waitForResponseToPCH, waitForResponse).
OwnAnswer == \A x \in Exchange : result[x] \in Exchange => result[x] = x

\* As long as the CSE is not reset an entity that has got a request can answer it: the originator of
\* its identifier is known (queuePollingRequest does not fail with a KeyError).
AnswerAccepted ==
  \A x \in seen \ answered : sent[x] = "queue" => rqiOriginator[Req[x].rqi] = Req[x].from

\* What is forwarded is delivered once, answered once and returned once.
Abstract == INSTANCE RequestResponse WITH
  asked <- {x \in Exchange : sent[x] # "no"},
  ended <- {x \in Exchange : result[x] # None},
  answers <- {x \in Exchange : result[x] \in Exchange}

ExchangeSpec == Abstract!RRSpec

\* Every entry leaves its queue some time, also when its request was never polled or its answer came
\* too late: its actor waits, or is about to be started by the thread that queued it.
EntryExpires ==
  \A e \in requests :
    \/ e \in unqueuers
    \/ e.type = "REQUEST" /\ pc[e.x] = "queued"
    \/ e.type = "RESPONSE" /\ \E n \in Notifier : notify[n] = [pc |-> "queued", x |-> e.x, id |-> e.id]

\* A pending <request> resource gets its result or is gone. In three cases nobody will update it: the
\* request had expired before it was executed (_executeOperation fails then), its actor was removed by a
\* reset, or it was a flexBlocking one (_handleNonBlockingRequest fails after it has created the resource).
Abandoned(x) == \/ pc[x] = "dead" /\ result[x] \in {"timeout", None}
                \/ pc[x] = "refused"

StatusUpdated ==
  \A x \in Exchange : ors[x] = "PENDING" ~> ors[x] # "PENDING" \/ Abandoned(x)
=============================================================================
