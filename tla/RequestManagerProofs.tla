-------------------------- MODULE RequestManagerProofs --------------------------
(***************************************************************************)
(* Requests that are forwarded, for every number of requests, entities and  *)
(* threads: whoever waits gets the answer to its own request, an entity can *)
(* answer what it has got, no entry stays in a queue without an actor that  *)
(* takes it, and requests are delivered, answered and returned once. All of *)
(* it rests on request identifiers being different.                         *)
(***************************************************************************)
EXTENDS RequestManager, TLAPS

Different == \A x, y \in Exchange : Req[x].rqi = Req[y].rqi => x = y

\* Requests that are on their way through a queue: not sent as a message, not with the target yet.
OnTheWay(x) == sent[x] \in {"queue", "forgotten"} /\ x \notin seen /\ x \notin answered

\* An entry is in the queue it belongs to. A request is in one place: its queue, or the hands of one
\* polling thread, or with its target.
QueuesTold ==
  \A e \in requests :
    /\ e.type = "REQUEST" => /\ e.id = Req[e.x].to /\ OnTheWay(e.x) /\ sent[e.x] = "queue"
                             /\ \A p \in Poller : e.x \notin taken[p]
    /\ e.type = "RESPONSE" => e.id = Req[e.x].from /\ e.x \in answered

TakenOnce ==
  \A p \in Poller : \A x \in taken[p] :
    OnTheWay(x) /\ \A q \in Poller : x \in taken[q] => p = q

NotifyTold ==
  \A n \in Notifier : notify[n].pc # "idle" =>
    /\ notify[n].x \in Exchange
    /\ notify[n].id = Req[notify[n].x].from
    /\ notify[n].x \in answered

\* The originator of an identifier is that of a request which waits for its answer.
OriginatorTold ==
  \A x \in Exchange : rqiOriginator[Req[x].rqi] # None =>
    rqiOriginator[Req[x].rqi] = Req[x].from /\ x \notin answered /\ sent[x] = "queue"

\* It is there as long as the request can still be answered.
OriginatorKept ==
  \A x \in Exchange :
    sent[x] = "queue" /\ x \notin answered
      /\ (x \in seen \/ (\E p \in Poller : x \in taken[p]) \/ \E e \in requests : e.x = x)
    => rqiOriginator[Req[x].rqi] = Req[x].from

ResponsesTold ==
  \A x \in Exchange : receivedResponses[Req[x].rqi] # None =>
    receivedResponses[Req[x].rqi] = x /\ x \in answered

\* Before it is sent a request has no result, and while its sender waits it has none either.
SenderTold ==
  \A x \in Exchange :
    /\ pc[x] \in {"idle", "actor", "execute"} => sent[x] = "no" /\ result[x] = None
    /\ pc[x] \in {"queued", "waiting", "take"} => result[x] = None
    /\ result[x] \in Exchange => result[x] = x /\ x \in answered

History == answered \subseteq seen /\ \A x \in seen : sent[x] # "no"

RequestInv ==
  /\ TypeOK /\ QueuesTold /\ TakenOnce /\ NotifyTold /\ OriginatorTold /\ OriginatorKept
  /\ ResponsesTold /\ SenderTold /\ History /\ EntryExpires

\* The cases of the actions that take an entry out of its queue.
TakeOne(p, e) ==
  /\ e \in requests /\ e.type = "REQUEST" /\ unqueuePollingRequest(e)
  /\ Respond(p, {e.x})
  /\ UNCHANGED <<rqiOriginator, receivedResponses, sendVars, notify, sent, answered>>

TakeMore(p, e) ==
  /\ e \in requests /\ e.type = "REQUEST" /\ unqueuePollingRequest(e)
  /\ taken' = [taken EXCEPT ![p] = @ \cup {e.x}]
  /\ UNCHANGED <<rqiOriginator, receivedResponses, sendVars, notify, sent, answered, poll, seen>>

TakeNoMore(p) ==
  /\ Respond(p, taken[p])
  /\ UNCHANGED <<rqiOriginator, receivedResponses, sendVars, notify, sent, answered, requests, unqueuers>>

TakeAnswer(x, e) ==
  /\ pc[x] = "take"
  /\ e \in Matching(Req[x].from, Req[x].rqi, "RESPONSE") /\ unqueuePollingRequest(e)
  /\ Return(x, x) \/ Return(x, "failed")
  /\ UNCHANGED <<rqiOriginator, receivedResponses, ors, pollVars, notify, exchangeVars>>

MissAnswer(x) ==
  /\ pc[x] = "take" /\ Return(x, "timeout")
  /\ UNCHANGED <<requests, unqueuers, rqiOriginator, receivedResponses, ors, pollVars, notify, exchangeVars>>

ExpireEntry(u, e) ==
  /\ e \in Matching(u.id, Req[u.x].rqi, u.type) /\ unqueuePollingRequest(e)
  /\ UNCHANGED <<rqiOriginator, receivedResponses, sendVars, pollVars, notify, exchangeVars>>

ExpireNothing(u) ==
  /\ Matching(u.id, Req[u.x].rqi, u.type) = {}
  /\ unqueuers' = unqueuers \ {u}
  /\ UNCHANGED requests
  /\ UNCHANGED <<rqiOriginator, receivedResponses, sendVars, pollVars, notify, exchangeVars>>

LEMMA UnqueueKeepsActors ==
  ASSUME RequestInv, Different, NEW e \in requests, unqueuePollingRequest(e), UNCHANGED notify,
         \A x \in Exchange : pc[x] = "queued" => pc'[x] = "queued"
  PROVE  EntryExpires'
<1> SUFFICES ASSUME NEW f \in requests'
             PROVE  \/ f \in unqueuers'
                    \/ f.type = "REQUEST" /\ pc'[f.x] = "queued"
                    \/ f.type = "RESPONSE" /\ \E n \in Notifier :
                          notify'[n] = [pc |-> "queued", x |-> f.x, id |-> f.id]
  BY DEF EntryExpires
<1>1. f \in requests /\ f # e /\ f \in Entry /\ e \in Entry
  BY DEF unqueuePollingRequest, RequestInv, TypeOK
<1>2. f.type = e.type /\ f.x = e.x => f = e
  <2>1. f.type = e.type /\ f.x = e.x => f.id = e.id
    BY <1>1 DEF RequestInv, QueuesTold, Entry, RequestType
  <2>2. QED
    BY <1>1, <2>1 DEF Entry
<1>3. CASE f \in unqueuers
  BY <1>1, <1>2, <1>3 DEF Different, unqueuePollingRequest, StopUnqueuers, Entry
<1>4. CASE f \notin unqueuers
  BY <1>1, <1>4 DEF RequestInv, EntryExpires, Entry
<1>. QED
  BY <1>3, <1>4

LEMMA HandleRequestKeeps ==
  ASSUME RequestInv, Different, NEW x \in Exchange, handleRequest(x)
  PROVE  RequestInv'
<1>1. TypeOK'
  <2>1. pc' \in [Exchange -> {"idle", "actor", "execute", "queued", "waiting", "take", "retrieve",
                            "write", "notify", "done", "dead", "refused"}]
    BY DEF RequestInv, TypeOK, handleRequest
  <2>2. ors' \in [Exchange -> {"none", "PENDING", "COMPLETED", "FAILED"}]
    BY DEF RequestInv, TypeOK, handleRequest
  <2>3. QED
    BY <2>1, <2>2 DEF RequestInv, TypeOK, handleRequest, pollVars, exchangeVars
<1>2. QueuesTold'
  BY RequestAssumption DEF RequestInv, handleRequest, QueuesTold, Blocking, OnTheWay, sendVars, pollVars, exchangeVars, Entry, RequestType, TypeOK
<1>3. TakenOnce'
  BY RequestAssumption DEF RequestInv, handleRequest, TakenOnce, Blocking, OnTheWay, sendVars, pollVars, exchangeVars, Entry, RequestType, TypeOK
<1>4. NotifyTold'
  BY RequestAssumption DEF RequestInv, handleRequest, NotifyTold, Blocking, sendVars, pollVars, exchangeVars, Entry, RequestType, TypeOK
<1>5. OriginatorTold'
  BY RequestAssumption DEF RequestInv, handleRequest, OriginatorTold, Blocking, sendVars, pollVars, exchangeVars, Entry, RequestType, TypeOK
<1>6. OriginatorKept'
  BY RequestAssumption DEF RequestInv, handleRequest, OriginatorKept, Blocking, sendVars, pollVars, exchangeVars, Entry, RequestType, TypeOK
<1>7. ResponsesTold'
  BY RequestAssumption DEF RequestInv, handleRequest, ResponsesTold, Blocking, sendVars, pollVars, exchangeVars, Entry, RequestType, TypeOK
<1>8. SenderTold'
  BY RequestAssumption DEF RequestInv, handleRequest, SenderTold, Blocking, sendVars, pollVars, exchangeVars, Entry, RequestType, TypeOK
<1>9. History'
  BY RequestAssumption DEF RequestInv, handleRequest, History, Blocking, sendVars, pollVars, exchangeVars, Entry, RequestType, TypeOK
<1>10. EntryExpires'
  BY RequestAssumption DEF RequestInv, handleRequest, EntryExpires, Blocking, sendVars, pollVars, exchangeVars, Entry, RequestType, TypeOK
<1>. QED
  BY <1>1, <1>2, <1>3, <1>4, <1>5, <1>6, <1>7, <1>8, <1>9, <1>10 DEF RequestInv

LEMMA RunActorKeeps ==
  ASSUME RequestInv, Different, NEW x \in Exchange, RunActor(x)
  PROVE  RequestInv'
<1>1. TypeOK'
  BY RequestAssumption DEF RequestInv, RunActor, TypeOK, sendVars, pollVars, exchangeVars, Entry, RequestType
<1>2. QueuesTold'
  BY RequestAssumption DEF RequestInv, RunActor, QueuesTold, OnTheWay, sendVars, pollVars, exchangeVars, Entry, RequestType, TypeOK
<1>3. TakenOnce'
  BY RequestAssumption DEF RequestInv, RunActor, TakenOnce, OnTheWay, sendVars, pollVars, exchangeVars, Entry, RequestType, TypeOK
<1>4. NotifyTold'
  BY RequestAssumption DEF RequestInv, RunActor, NotifyTold, sendVars, pollVars, exchangeVars, Entry, RequestType, TypeOK
<1>5. OriginatorTold'
  BY RequestAssumption DEF RequestInv, RunActor, OriginatorTold, sendVars, pollVars, exchangeVars, Entry, RequestType, TypeOK
<1>6. OriginatorKept'
  BY RequestAssumption DEF RequestInv, RunActor, OriginatorKept, sendVars, pollVars, exchangeVars, Entry, RequestType, TypeOK
<1>7. ResponsesTold'
  BY RequestAssumption DEF RequestInv, RunActor, ResponsesTold, sendVars, pollVars, exchangeVars, Entry, RequestType, TypeOK
<1>8. SenderTold'
  BY RequestAssumption DEF RequestInv, RunActor, SenderTold, sendVars, pollVars, exchangeVars, Entry, RequestType, TypeOK
<1>9. History'
  BY RequestAssumption DEF RequestInv, RunActor, History, sendVars, pollVars, exchangeVars, Entry, RequestType, TypeOK
<1>10. EntryExpires'
  BY RequestAssumption DEF RequestInv, RunActor, EntryExpires, sendVars, pollVars, exchangeVars, Entry, RequestType, TypeOK
<1>. QED
  BY <1>1, <1>2, <1>3, <1>4, <1>5, <1>6, <1>7, <1>8, <1>9, <1>10 DEF RequestInv

LEMMA CheckFailsKeeps ==
  ASSUME RequestInv, Different, NEW x \in Exchange, CheckFails(x)
  PROVE  RequestInv'
<1>1. TypeOK'
  BY ZenonT(60), RequestAssumption DEF RequestInv, CheckFails, TypeOK, Return, Blocking, sendVars, pollVars, exchangeVars, Entry, RequestType
<1>2. QueuesTold'
  BY RequestAssumption DEF RequestInv, CheckFails, QueuesTold, Return, Blocking, OnTheWay, sendVars, pollVars, exchangeVars, Entry, RequestType, TypeOK
<1>3. TakenOnce'
  BY RequestAssumption DEF RequestInv, CheckFails, TakenOnce, Return, Blocking, OnTheWay, sendVars, pollVars, exchangeVars, Entry, RequestType, TypeOK
<1>4. NotifyTold'
  BY RequestAssumption DEF RequestInv, CheckFails, NotifyTold, Return, Blocking, sendVars, pollVars, exchangeVars, Entry, RequestType, TypeOK
<1>5. OriginatorTold'
  BY RequestAssumption DEF RequestInv, CheckFails, OriginatorTold, Return, Blocking, sendVars, pollVars, exchangeVars, Entry, RequestType, TypeOK
<1>6. OriginatorKept'
  BY RequestAssumption DEF RequestInv, CheckFails, OriginatorKept, Return, Blocking, sendVars, pollVars, exchangeVars, Entry, RequestType, TypeOK
<1>7. ResponsesTold'
  BY RequestAssumption DEF RequestInv, CheckFails, ResponsesTold, Return, Blocking, sendVars, pollVars, exchangeVars, Entry, RequestType, TypeOK
<1>8. SenderTold'
  BY RequestAssumption DEF RequestInv, CheckFails, SenderTold, Return, Blocking, sendVars, pollVars, exchangeVars, Entry, RequestType, TypeOK
<1>9. History'
  BY RequestAssumption DEF RequestInv, CheckFails, History, Return, Blocking, sendVars, pollVars, exchangeVars, Entry, RequestType, TypeOK
<1>10. EntryExpires'
  BY RequestAssumption DEF RequestInv, CheckFails, EntryExpires, Return, Blocking, sendVars, pollVars, exchangeVars, Entry, RequestType, TypeOK
<1>. QED
  BY <1>1, <1>2, <1>3, <1>4, <1>5, <1>6, <1>7, <1>8, <1>9, <1>10 DEF RequestInv

LEMMA QueuePollingRequestKeeps ==
  ASSUME RequestInv, Different, NEW x \in Exchange, queuePollingRequest(x)
  PROVE  RequestInv'
<1>1. TypeOK'
  <2>1. [id |-> Req[x].to, x |-> x, type |-> "REQUEST"] \in Entry
    BY RequestAssumption DEF Entry, RequestType
  <2>2. Req[x].rqi \in Rqi /\ Req[x].from \in Entity
    BY RequestAssumption
  <2>3. QED
    BY <2>1, <2>2 DEF RequestInv, TypeOK, queuePollingRequest, pollVars
<1>2. QueuesTold'
  BY RequestAssumption DEF RequestInv, queuePollingRequest, QueuesTold, OnTheWay, sendVars, pollVars, exchangeVars, Entry, RequestType, TypeOK, SenderTold, History, TakenOnce
<1>3. TakenOnce'
  BY RequestAssumption DEF RequestInv, queuePollingRequest, TakenOnce, OnTheWay, sendVars, pollVars, exchangeVars, Entry, RequestType, TypeOK
<1>4. NotifyTold'
  BY RequestAssumption DEF RequestInv, queuePollingRequest, NotifyTold, sendVars, pollVars, exchangeVars, Entry, RequestType, TypeOK
<1>5. OriginatorTold'
  BY RequestAssumption DEF RequestInv, queuePollingRequest, OriginatorTold, sendVars, pollVars, exchangeVars, Entry, RequestType, TypeOK, SenderTold, History, Different
<1>6. OriginatorKept'
  <2> SUFFICES ASSUME NEW y \in Exchange, sent'[y] = "queue", y \notin answered',
                      y \in seen' \/ (\E p \in Poller : y \in taken'[p]) \/ \E e \in requests' : e.x = y
               PROVE  rqiOriginator'[Req[y].rqi] = Req[y].from
    BY DEF OriginatorKept
  <2>1. CASE y = x
    BY <2>1, RequestAssumption DEF queuePollingRequest, RequestInv, TypeOK
  <2>2. CASE y # x
    <3>1. Req[y].rqi # Req[x].rqi
      BY <2>2 DEF Different
    <3>2. sent[y] = "queue" /\ y \notin answered
            /\ (y \in seen \/ (\E p \in Poller : y \in taken[p]) \/ \E e \in requests : e.x = y)
      BY <2>2 DEF queuePollingRequest, RequestInv, TypeOK, pollVars
    <3>3. QED
      BY <3>1, <3>2, RequestAssumption DEF queuePollingRequest, RequestInv, TypeOK, OriginatorKept
  <2>3. QED
    BY <2>1, <2>2
<1>7. ResponsesTold'
  BY RequestAssumption DEF RequestInv, queuePollingRequest, ResponsesTold, sendVars, pollVars, exchangeVars, Entry, RequestType, TypeOK
<1>8. SenderTold'
  BY RequestAssumption DEF RequestInv, queuePollingRequest, SenderTold, sendVars, pollVars, exchangeVars, Entry, RequestType, TypeOK
<1>9. History'
  BY RequestAssumption DEF RequestInv, queuePollingRequest, History, sendVars, pollVars, exchangeVars, Entry, RequestType, TypeOK
<1>10. EntryExpires'
  BY RequestAssumption DEF RequestInv, queuePollingRequest, EntryExpires, sendVars, pollVars, exchangeVars, Entry, RequestType, TypeOK
<1>. QED
  BY <1>1, <1>2, <1>3, <1>4, <1>5, <1>6, <1>7, <1>8, <1>9, <1>10 DEF RequestInv

LEMMA StartUnqueuerKeeps ==
  ASSUME RequestInv, Different, NEW x \in Exchange, StartUnqueuer(x)
  PROVE  RequestInv'
<1>1. TypeOK'
  <2>1. [id |-> Req[x].to, x |-> x, type |-> "REQUEST"] \in Entry
    BY RequestAssumption DEF Entry, RequestType
  <2>2. QED
    BY <2>1 DEF RequestInv, TypeOK, StartUnqueuer, pollVars, exchangeVars
<1>2. QueuesTold'
  BY RequestAssumption DEF RequestInv, StartUnqueuer, QueuesTold, OnTheWay, sendVars, pollVars, exchangeVars, Entry, RequestType, TypeOK
<1>3. TakenOnce'
  BY RequestAssumption DEF RequestInv, StartUnqueuer, TakenOnce, OnTheWay, sendVars, pollVars, exchangeVars, Entry, RequestType, TypeOK
<1>4. NotifyTold'
  BY RequestAssumption DEF RequestInv, StartUnqueuer, NotifyTold, sendVars, pollVars, exchangeVars, Entry, RequestType, TypeOK
<1>5. OriginatorTold'
  BY RequestAssumption DEF RequestInv, StartUnqueuer, OriginatorTold, sendVars, pollVars, exchangeVars, Entry, RequestType, TypeOK
<1>6. OriginatorKept'
  BY RequestAssumption DEF RequestInv, StartUnqueuer, OriginatorKept, sendVars, pollVars, exchangeVars, Entry, RequestType, TypeOK
<1>7. ResponsesTold'
  BY RequestAssumption DEF RequestInv, StartUnqueuer, ResponsesTold, sendVars, pollVars, exchangeVars, Entry, RequestType, TypeOK
<1>8. SenderTold'
  BY RequestAssumption DEF RequestInv, StartUnqueuer, SenderTold, sendVars, pollVars, exchangeVars, Entry, RequestType, TypeOK
<1>9. History'
  BY RequestAssumption DEF RequestInv, StartUnqueuer, History, sendVars, pollVars, exchangeVars, Entry, RequestType, TypeOK
<1>10. EntryExpires'
  BY RequestAssumption DEF RequestInv, StartUnqueuer, EntryExpires, sendVars, pollVars, exchangeVars, Entry, RequestType, TypeOK, QueuesTold
<1>. QED
  BY <1>1, <1>2, <1>3, <1>4, <1>5, <1>6, <1>7, <1>8, <1>9, <1>10 DEF RequestInv

LEMMA HasPollingResponseKeeps ==
  ASSUME RequestInv, Different, NEW x \in Exchange, hasPollingResponse(x)
  PROVE  RequestInv'
<1>1. TypeOK'
  BY RequestAssumption DEF RequestInv, hasPollingResponse, TypeOK, sendVars, pollVars, exchangeVars, Entry, RequestType
<1>2. QueuesTold'
  BY RequestAssumption DEF RequestInv, hasPollingResponse, QueuesTold, OnTheWay, sendVars, pollVars, exchangeVars, Entry, RequestType, TypeOK
<1>3. TakenOnce'
  BY RequestAssumption DEF RequestInv, hasPollingResponse, TakenOnce, OnTheWay, sendVars, pollVars, exchangeVars, Entry, RequestType, TypeOK
<1>4. NotifyTold'
  BY RequestAssumption DEF RequestInv, hasPollingResponse, NotifyTold, sendVars, pollVars, exchangeVars, Entry, RequestType, TypeOK
<1>5. OriginatorTold'
  BY RequestAssumption DEF RequestInv, hasPollingResponse, OriginatorTold, sendVars, pollVars, exchangeVars, Entry, RequestType, TypeOK
<1>6. OriginatorKept'
  BY RequestAssumption DEF RequestInv, hasPollingResponse, OriginatorKept, sendVars, pollVars, exchangeVars, Entry, RequestType, TypeOK
<1>7. ResponsesTold'
  BY RequestAssumption DEF RequestInv, hasPollingResponse, ResponsesTold, sendVars, pollVars, exchangeVars, Entry, RequestType, TypeOK
<1>8. SenderTold'
  BY RequestAssumption DEF RequestInv, hasPollingResponse, SenderTold, sendVars, pollVars, exchangeVars, Entry, RequestType, TypeOK
<1>9. History'
  BY RequestAssumption DEF RequestInv, hasPollingResponse, History, sendVars, pollVars, exchangeVars, Entry, RequestType, TypeOK
<1>10. EntryExpires'
  BY RequestAssumption DEF RequestInv, hasPollingResponse, EntryExpires, sendVars, pollVars, exchangeVars, Entry, RequestType, TypeOK
<1>. QED
  BY <1>1, <1>2, <1>3, <1>4, <1>5, <1>6, <1>7, <1>8, <1>9, <1>10 DEF RequestInv

LEMMA TakeAnswerKeeps ==
  ASSUME RequestInv, Different, NEW x \in Exchange, NEW e, TakeAnswer(x, e)
  PROVE  RequestInv'
<1>1. TypeOK'
  <2>1. result' \in [Exchange -> Exchange \cup {None, "timeout", "failed"}]
    BY DEF RequestInv, TypeOK, TakeAnswer, Return
  <2>2. pc' \in [Exchange -> {"idle", "actor", "execute", "queued", "waiting", "take", "retrieve",
                            "write", "notify", "done", "dead", "refused"}]
    BY DEF RequestInv, TypeOK, TakeAnswer, Return
  <2>3. requests' \subseteq Entry /\ unqueuers' \subseteq Entry
    BY DEF RequestInv, TypeOK, TakeAnswer, unqueuePollingRequest, StopUnqueuers
  <2>4. QED
    BY <2>1, <2>2, <2>3 DEF RequestInv, TypeOK, TakeAnswer, pollVars, exchangeVars
<1>2. QueuesTold'
  BY RequestAssumption DEF RequestInv, TakeAnswer, QueuesTold, Return, Blocking, Matching, unqueuePollingRequest, StopUnqueuers, OnTheWay, sendVars, pollVars, exchangeVars, Entry, RequestType, TypeOK
<1>3. TakenOnce'
  BY RequestAssumption DEF RequestInv, TakeAnswer, TakenOnce, Return, Blocking, Matching, unqueuePollingRequest, StopUnqueuers, OnTheWay, sendVars, pollVars, exchangeVars, Entry, RequestType, TypeOK
<1>4. NotifyTold'
  BY RequestAssumption DEF RequestInv, TakeAnswer, NotifyTold, Return, Blocking, Matching, unqueuePollingRequest, StopUnqueuers, sendVars, pollVars, exchangeVars, Entry, RequestType, TypeOK
<1>5. OriginatorTold'
  BY RequestAssumption DEF RequestInv, TakeAnswer, OriginatorTold, Return, Blocking, Matching, unqueuePollingRequest, StopUnqueuers, sendVars, pollVars, exchangeVars, Entry, RequestType, TypeOK
<1>6. OriginatorKept'
  BY RequestAssumption DEF RequestInv, TakeAnswer, OriginatorKept, Return, Blocking, Matching, unqueuePollingRequest, StopUnqueuers, sendVars, pollVars, exchangeVars, Entry, RequestType, TypeOK
<1>7. ResponsesTold'
  BY RequestAssumption DEF RequestInv, TakeAnswer, ResponsesTold, Return, Blocking, Matching, unqueuePollingRequest, StopUnqueuers, sendVars, pollVars, exchangeVars, Entry, RequestType, TypeOK
<1>8. SenderTold'
  <2>0. e \in requests /\ e \in Entry /\ e.type = "RESPONSE" /\ Req[e.x].rqi = Req[x].rqi
    <3>1. Req[x].rqi # None
      BY RequestAssumption
    <3>2. QED
      BY <3>1 DEF TakeAnswer, Matching, RequestInv, TypeOK
  <2>1. e.x = x /\ x \in answered
    BY <2>0 DEF RequestInv, QueuesTold, Entry, Different
  <2>2. QED
    BY <2>1, RequestAssumption DEF RequestInv, TypeOK, SenderTold, TakeAnswer, Return, exchangeVars
<1>9. History'
  BY RequestAssumption DEF RequestInv, TakeAnswer, History, Return, Blocking, Matching, unqueuePollingRequest, StopUnqueuers, sendVars, pollVars, exchangeVars, Entry, RequestType, TypeOK
<1>10. EntryExpires'
  <2>1. \A y \in Exchange : pc[y] = "queued" => pc'[y] = "queued"
    BY DEF TakeAnswer, Return, RequestInv, TypeOK
  <2>2. QED
    BY <2>1, UnqueueKeepsActors DEF TakeAnswer, Matching
<1>. QED
  BY <1>1, <1>2, <1>3, <1>4, <1>5, <1>6, <1>7, <1>8, <1>9, <1>10 DEF RequestInv

LEMMA MissAnswerKeeps ==
  ASSUME RequestInv, Different, NEW x \in Exchange, MissAnswer(x)
  PROVE  RequestInv'
<1>1. TypeOK'
  BY RequestAssumption DEF RequestInv, MissAnswer, TypeOK, Return, Blocking, sendVars, pollVars, exchangeVars, Entry, RequestType
<1>2. QueuesTold'
  BY RequestAssumption DEF RequestInv, MissAnswer, QueuesTold, Return, Blocking, OnTheWay, sendVars, pollVars, exchangeVars, Entry, RequestType, TypeOK
<1>3. TakenOnce'
  BY RequestAssumption DEF RequestInv, MissAnswer, TakenOnce, Return, Blocking, OnTheWay, sendVars, pollVars, exchangeVars, Entry, RequestType, TypeOK
<1>4. NotifyTold'
  BY RequestAssumption DEF RequestInv, MissAnswer, NotifyTold, Return, Blocking, sendVars, pollVars, exchangeVars, Entry, RequestType, TypeOK
<1>5. OriginatorTold'
  BY RequestAssumption DEF RequestInv, MissAnswer, OriginatorTold, Return, Blocking, sendVars, pollVars, exchangeVars, Entry, RequestType, TypeOK
<1>6. OriginatorKept'
  BY RequestAssumption DEF RequestInv, MissAnswer, OriginatorKept, Return, Blocking, sendVars, pollVars, exchangeVars, Entry, RequestType, TypeOK
<1>7. ResponsesTold'
  BY RequestAssumption DEF RequestInv, MissAnswer, ResponsesTold, Return, Blocking, sendVars, pollVars, exchangeVars, Entry, RequestType, TypeOK
<1>8. SenderTold'
  BY RequestAssumption DEF RequestInv, MissAnswer, SenderTold, Return, Blocking, sendVars, pollVars, exchangeVars, Entry, RequestType, TypeOK
<1>9. History'
  BY RequestAssumption DEF RequestInv, MissAnswer, History, Return, Blocking, sendVars, pollVars, exchangeVars, Entry, RequestType, TypeOK
<1>10. EntryExpires'
  BY RequestAssumption DEF RequestInv, MissAnswer, EntryExpires, Return, Blocking, sendVars, pollVars, exchangeVars, Entry, RequestType, TypeOK
<1>. QED
  BY <1>1, <1>2, <1>3, <1>4, <1>5, <1>6, <1>7, <1>8, <1>9, <1>10 DEF RequestInv

LEMMA WaitTimeoutKeeps ==
  ASSUME RequestInv, Different, NEW x \in Exchange, WaitTimeout(x)
  PROVE  RequestInv'
<1>1. TypeOK'
  BY RequestAssumption DEF RequestInv, WaitTimeout, TypeOK, Return, Blocking, sendVars, pollVars, exchangeVars, Entry, RequestType
<1>2. QueuesTold'
  BY RequestAssumption DEF RequestInv, WaitTimeout, QueuesTold, Return, Blocking, OnTheWay, sendVars, pollVars, exchangeVars, Entry, RequestType, TypeOK
<1>3. TakenOnce'
  BY RequestAssumption DEF RequestInv, WaitTimeout, TakenOnce, Return, Blocking, OnTheWay, sendVars, pollVars, exchangeVars, Entry, RequestType, TypeOK
<1>4. NotifyTold'
  BY RequestAssumption DEF RequestInv, WaitTimeout, NotifyTold, Return, Blocking, sendVars, pollVars, exchangeVars, Entry, RequestType, TypeOK
<1>5. OriginatorTold'
  BY RequestAssumption DEF RequestInv, WaitTimeout, OriginatorTold, Return, Blocking, sendVars, pollVars, exchangeVars, Entry, RequestType, TypeOK
<1>6. OriginatorKept'
  BY RequestAssumption DEF RequestInv, WaitTimeout, OriginatorKept, Return, Blocking, sendVars, pollVars, exchangeVars, Entry, RequestType, TypeOK
<1>7. ResponsesTold'
  BY RequestAssumption DEF RequestInv, WaitTimeout, ResponsesTold, Return, Blocking, sendVars, pollVars, exchangeVars, Entry, RequestType, TypeOK
<1>8. SenderTold'
  BY RequestAssumption DEF RequestInv, WaitTimeout, SenderTold, Return, Blocking, sendVars, pollVars, exchangeVars, Entry, RequestType, TypeOK
<1>9. History'
  BY RequestAssumption DEF RequestInv, WaitTimeout, History, Return, Blocking, sendVars, pollVars, exchangeVars, Entry, RequestType, TypeOK
<1>10. EntryExpires'
  BY RequestAssumption DEF RequestInv, WaitTimeout, EntryExpires, Return, Blocking, sendVars, pollVars, exchangeVars, Entry, RequestType, TypeOK
<1>. QED
  BY <1>1, <1>2, <1>3, <1>4, <1>5, <1>6, <1>7, <1>8, <1>9, <1>10 DEF RequestInv

LEMMA SendMqttRequestKeeps ==
  ASSUME RequestInv, Different, NEW x \in Exchange, sendMqttRequest(x)
  PROVE  RequestInv'
<1>1. TypeOK'
  BY RequestAssumption DEF RequestInv, sendMqttRequest, TypeOK, sendVars, pollVars, exchangeVars, Entry, RequestType
<1>2. QueuesTold'
  BY RequestAssumption DEF RequestInv, sendMqttRequest, QueuesTold, OnTheWay, sendVars, pollVars, exchangeVars, Entry, RequestType, TypeOK, SenderTold
<1>3. TakenOnce'
  BY RequestAssumption DEF RequestInv, sendMqttRequest, TakenOnce, OnTheWay, sendVars, pollVars, exchangeVars, Entry, RequestType, TypeOK, SenderTold
<1>4. NotifyTold'
  BY RequestAssumption DEF RequestInv, sendMqttRequest, NotifyTold, sendVars, pollVars, exchangeVars, Entry, RequestType, TypeOK
<1>5. OriginatorTold'
  BY RequestAssumption DEF RequestInv, sendMqttRequest, OriginatorTold, sendVars, pollVars, exchangeVars, Entry, RequestType, TypeOK, SenderTold
<1>6. OriginatorKept'
  BY RequestAssumption DEF RequestInv, sendMqttRequest, OriginatorKept, sendVars, pollVars, exchangeVars, Entry, RequestType, TypeOK
<1>7. ResponsesTold'
  BY RequestAssumption DEF RequestInv, sendMqttRequest, ResponsesTold, sendVars, pollVars, exchangeVars, Entry, RequestType, TypeOK
<1>8. SenderTold'
  BY RequestAssumption DEF RequestInv, sendMqttRequest, SenderTold, sendVars, pollVars, exchangeVars, Entry, RequestType, TypeOK
<1>9. History'
  BY RequestAssumption DEF RequestInv, sendMqttRequest, History, sendVars, pollVars, exchangeVars, Entry, RequestType, TypeOK
<1>10. EntryExpires'
  BY RequestAssumption DEF RequestInv, sendMqttRequest, EntryExpires, sendVars, pollVars, exchangeVars, Entry, RequestType, TypeOK
<1>. QED
  BY <1>1, <1>2, <1>3, <1>4, <1>5, <1>6, <1>7, <1>8, <1>9, <1>10 DEF RequestInv

LEMMA ArriveKeeps ==
  ASSUME RequestInv, Different, NEW x \in Exchange, Arrive(x)
  PROVE  RequestInv'
<1>1. TypeOK'
  BY RequestAssumption DEF RequestInv, Arrive, TypeOK, sendVars, pollVars, exchangeVars, Entry, RequestType
<1>2. QueuesTold'
  BY RequestAssumption DEF RequestInv, Arrive, QueuesTold, OnTheWay, sendVars, pollVars, exchangeVars, Entry, RequestType, TypeOK
<1>3. TakenOnce'
  BY RequestAssumption DEF RequestInv, Arrive, TakenOnce, OnTheWay, sendVars, pollVars, exchangeVars, Entry, RequestType, TypeOK
<1>4. NotifyTold'
  BY RequestAssumption DEF RequestInv, Arrive, NotifyTold, sendVars, pollVars, exchangeVars, Entry, RequestType, TypeOK
<1>5. OriginatorTold'
  BY RequestAssumption DEF RequestInv, Arrive, OriginatorTold, sendVars, pollVars, exchangeVars, Entry, RequestType, TypeOK
<1>6. OriginatorKept'
  BY RequestAssumption DEF RequestInv, Arrive, OriginatorKept, sendVars, pollVars, exchangeVars, Entry, RequestType, TypeOK
<1>7. ResponsesTold'
  BY RequestAssumption DEF RequestInv, Arrive, ResponsesTold, sendVars, pollVars, exchangeVars, Entry, RequestType, TypeOK
<1>8. SenderTold'
  BY RequestAssumption DEF RequestInv, Arrive, SenderTold, sendVars, pollVars, exchangeVars, Entry, RequestType, TypeOK
<1>9. History'
  BY RequestAssumption DEF RequestInv, Arrive, History, sendVars, pollVars, exchangeVars, Entry, RequestType, TypeOK
<1>10. EntryExpires'
  BY RequestAssumption DEF RequestInv, Arrive, EntryExpires, sendVars, pollVars, exchangeVars, Entry, RequestType, TypeOK
<1>. QED
  BY <1>1, <1>2, <1>3, <1>4, <1>5, <1>6, <1>7, <1>8, <1>9, <1>10 DEF RequestInv

LEMMA AddResponseKeeps ==
  ASSUME RequestInv, Different, NEW x \in Exchange, addResponse(x)
  PROVE  RequestInv'
<1>1. TypeOK'
  BY RequestAssumption DEF RequestInv, addResponse, TypeOK, sendVars, pollVars, exchangeVars, Entry, RequestType
<1>2. QueuesTold'
  BY RequestAssumption DEF RequestInv, addResponse, QueuesTold, OnTheWay, sendVars, pollVars, exchangeVars, Entry, RequestType, TypeOK
<1>3. TakenOnce'
  BY RequestAssumption DEF RequestInv, addResponse, TakenOnce, OnTheWay, sendVars, pollVars, exchangeVars, Entry, RequestType, TypeOK
<1>4. NotifyTold'
  BY RequestAssumption DEF RequestInv, addResponse, NotifyTold, sendVars, pollVars, exchangeVars, Entry, RequestType, TypeOK
<1>5. OriginatorTold'
  BY RequestAssumption DEF RequestInv, addResponse, OriginatorTold, sendVars, pollVars, exchangeVars, Entry, RequestType, TypeOK, Different
<1>6. OriginatorKept'
  BY RequestAssumption DEF RequestInv, addResponse, OriginatorKept, sendVars, pollVars, exchangeVars, Entry, RequestType, TypeOK
<1>7. ResponsesTold'
  BY RequestAssumption DEF RequestInv, addResponse, ResponsesTold, sendVars, pollVars, exchangeVars, Entry, RequestType, TypeOK, Different
<1>8. SenderTold'
  BY RequestAssumption DEF RequestInv, addResponse, SenderTold, sendVars, pollVars, exchangeVars, Entry, RequestType, TypeOK
<1>9. History'
  BY RequestAssumption DEF RequestInv, addResponse, History, sendVars, pollVars, exchangeVars, Entry, RequestType, TypeOK
<1>10. EntryExpires'
  BY RequestAssumption DEF RequestInv, addResponse, EntryExpires, sendVars, pollVars, exchangeVars, Entry, RequestType, TypeOK
<1>. QED
  BY <1>1, <1>2, <1>3, <1>4, <1>5, <1>6, <1>7, <1>8, <1>9, <1>10 DEF RequestInv

LEMMA WaitForResponseKeeps ==
  ASSUME RequestInv, Different, NEW x \in Exchange, waitForResponse(x)
  PROVE  RequestInv'
<1>1. TypeOK'
  BY ZenonT(60), RequestAssumption DEF RequestInv, waitForResponse, TypeOK, Return, Blocking, sendVars, pollVars, exchangeVars, Entry, RequestType, ResponsesTold
<1>2. QueuesTold'
  BY RequestAssumption DEF RequestInv, waitForResponse, QueuesTold, Return, Blocking, OnTheWay, sendVars, pollVars, exchangeVars, Entry, RequestType, TypeOK
<1>3. TakenOnce'
  BY RequestAssumption DEF RequestInv, waitForResponse, TakenOnce, Return, Blocking, OnTheWay, sendVars, pollVars, exchangeVars, Entry, RequestType, TypeOK
<1>4. NotifyTold'
  BY RequestAssumption DEF RequestInv, waitForResponse, NotifyTold, Return, Blocking, sendVars, pollVars, exchangeVars, Entry, RequestType, TypeOK
<1>5. OriginatorTold'
  BY RequestAssumption DEF RequestInv, waitForResponse, OriginatorTold, Return, Blocking, sendVars, pollVars, exchangeVars, Entry, RequestType, TypeOK
<1>6. OriginatorKept'
  BY RequestAssumption DEF RequestInv, waitForResponse, OriginatorKept, Return, Blocking, sendVars, pollVars, exchangeVars, Entry, RequestType, TypeOK
<1>7. ResponsesTold'
  BY RequestAssumption DEF RequestInv, waitForResponse, ResponsesTold, Return, Blocking, sendVars, pollVars, exchangeVars, Entry, RequestType, TypeOK
<1>8. SenderTold'
  BY RequestAssumption DEF RequestInv, waitForResponse, SenderTold, Return, Blocking, sendVars, pollVars, exchangeVars, Entry, RequestType, TypeOK, ResponsesTold
<1>9. History'
  BY RequestAssumption DEF RequestInv, waitForResponse, History, Return, Blocking, sendVars, pollVars, exchangeVars, Entry, RequestType, TypeOK
<1>10. EntryExpires'
  BY RequestAssumption DEF RequestInv, waitForResponse, EntryExpires, Return, Blocking, sendVars, pollVars, exchangeVars, Entry, RequestType, TypeOK
<1>. QED
  BY <1>1, <1>2, <1>3, <1>4, <1>5, <1>6, <1>7, <1>8, <1>9, <1>10 DEF RequestInv

LEMMA RetrieveReqKeeps ==
  ASSUME RequestInv, Different, NEW x \in Exchange, retrieveReq(x)
  PROVE  RequestInv'
<1>1. TypeOK'
  BY RequestAssumption DEF RequestInv, retrieveReq, TypeOK, sendVars, pollVars, exchangeVars, Entry, RequestType
<1>2. QueuesTold'
  BY RequestAssumption DEF RequestInv, retrieveReq, QueuesTold, OnTheWay, sendVars, pollVars, exchangeVars, Entry, RequestType, TypeOK
<1>3. TakenOnce'
  BY RequestAssumption DEF RequestInv, retrieveReq, TakenOnce, OnTheWay, sendVars, pollVars, exchangeVars, Entry, RequestType, TypeOK
<1>4. NotifyTold'
  BY RequestAssumption DEF RequestInv, retrieveReq, NotifyTold, sendVars, pollVars, exchangeVars, Entry, RequestType, TypeOK
<1>5. OriginatorTold'
  BY RequestAssumption DEF RequestInv, retrieveReq, OriginatorTold, sendVars, pollVars, exchangeVars, Entry, RequestType, TypeOK
<1>6. OriginatorKept'
  BY RequestAssumption DEF RequestInv, retrieveReq, OriginatorKept, sendVars, pollVars, exchangeVars, Entry, RequestType, TypeOK
<1>7. ResponsesTold'
  BY RequestAssumption DEF RequestInv, retrieveReq, ResponsesTold, sendVars, pollVars, exchangeVars, Entry, RequestType, TypeOK
<1>8. SenderTold'
  BY RequestAssumption DEF RequestInv, retrieveReq, SenderTold, sendVars, pollVars, exchangeVars, Entry, RequestType, TypeOK
<1>9. History'
  BY RequestAssumption DEF RequestInv, retrieveReq, History, sendVars, pollVars, exchangeVars, Entry, RequestType, TypeOK
<1>10. EntryExpires'
  BY RequestAssumption DEF RequestInv, retrieveReq, EntryExpires, sendVars, pollVars, exchangeVars, Entry, RequestType, TypeOK
<1>. QED
  BY <1>1, <1>2, <1>3, <1>4, <1>5, <1>6, <1>7, <1>8, <1>9, <1>10 DEF RequestInv

LEMMA UpdateReqKeeps ==
  ASSUME RequestInv, Different, NEW x \in Exchange, updateReq(x)
  PROVE  RequestInv'
<1>1. TypeOK'
  <2>1. pc' \in [Exchange -> {"idle", "actor", "execute", "queued", "waiting", "take", "retrieve",
                            "write", "notify", "done", "dead", "refused"}]
    BY DEF RequestInv, TypeOK, updateReq
  <2>2. ors' \in [Exchange -> {"none", "PENDING", "COMPLETED", "FAILED"}]
    BY DEF RequestInv, TypeOK, updateReq
  <2>3. QED
    BY <2>1, <2>2 DEF RequestInv, TypeOK, updateReq, pollVars, exchangeVars
<1>2. QueuesTold'
  BY RequestAssumption DEF RequestInv, updateReq, QueuesTold, OnTheWay, sendVars, pollVars, exchangeVars, Entry, RequestType, TypeOK
<1>3. TakenOnce'
  BY RequestAssumption DEF RequestInv, updateReq, TakenOnce, OnTheWay, sendVars, pollVars, exchangeVars, Entry, RequestType, TypeOK
<1>4. NotifyTold'
  BY RequestAssumption DEF RequestInv, updateReq, NotifyTold, sendVars, pollVars, exchangeVars, Entry, RequestType, TypeOK
<1>5. OriginatorTold'
  BY RequestAssumption DEF RequestInv, updateReq, OriginatorTold, sendVars, pollVars, exchangeVars, Entry, RequestType, TypeOK
<1>6. OriginatorKept'
  BY RequestAssumption DEF RequestInv, updateReq, OriginatorKept, sendVars, pollVars, exchangeVars, Entry, RequestType, TypeOK
<1>7. ResponsesTold'
  BY RequestAssumption DEF RequestInv, updateReq, ResponsesTold, sendVars, pollVars, exchangeVars, Entry, RequestType, TypeOK
<1>8. SenderTold'
  BY RequestAssumption DEF RequestInv, updateReq, SenderTold, sendVars, pollVars, exchangeVars, Entry, RequestType, TypeOK
<1>9. History'
  BY RequestAssumption DEF RequestInv, updateReq, History, sendVars, pollVars, exchangeVars, Entry, RequestType, TypeOK
<1>10. EntryExpires'
  BY RequestAssumption DEF RequestInv, updateReq, EntryExpires, sendVars, pollVars, exchangeVars, Entry, RequestType, TypeOK
<1>. QED
  BY <1>1, <1>2, <1>3, <1>4, <1>5, <1>6, <1>7, <1>8, <1>9, <1>10 DEF RequestInv

LEMMA NotifyResultKeeps ==
  ASSUME RequestInv, Different, NEW x \in Exchange, notifyResult(x)
  PROVE  RequestInv'
<1>1. TypeOK'
  BY RequestAssumption DEF RequestInv, notifyResult, TypeOK, sendVars, pollVars, exchangeVars, Entry, RequestType
<1>2. QueuesTold'
  BY RequestAssumption DEF RequestInv, notifyResult, QueuesTold, OnTheWay, sendVars, pollVars, exchangeVars, Entry, RequestType, TypeOK
<1>3. TakenOnce'
  BY RequestAssumption DEF RequestInv, notifyResult, TakenOnce, OnTheWay, sendVars, pollVars, exchangeVars, Entry, RequestType, TypeOK
<1>4. NotifyTold'
  BY RequestAssumption DEF RequestInv, notifyResult, NotifyTold, sendVars, pollVars, exchangeVars, Entry, RequestType, TypeOK
<1>5. OriginatorTold'
  BY RequestAssumption DEF RequestInv, notifyResult, OriginatorTold, sendVars, pollVars, exchangeVars, Entry, RequestType, TypeOK
<1>6. OriginatorKept'
  BY RequestAssumption DEF RequestInv, notifyResult, OriginatorKept, sendVars, pollVars, exchangeVars, Entry, RequestType, TypeOK
<1>7. ResponsesTold'
  BY RequestAssumption DEF RequestInv, notifyResult, ResponsesTold, sendVars, pollVars, exchangeVars, Entry, RequestType, TypeOK
<1>8. SenderTold'
  BY RequestAssumption DEF RequestInv, notifyResult, SenderTold, sendVars, pollVars, exchangeVars, Entry, RequestType, TypeOK
<1>9. History'
  BY RequestAssumption DEF RequestInv, notifyResult, History, sendVars, pollVars, exchangeVars, Entry, RequestType, TypeOK
<1>10. EntryExpires'
  BY RequestAssumption DEF RequestInv, notifyResult, EntryExpires, sendVars, pollVars, exchangeVars, Entry, RequestType, TypeOK
<1>. QED
  BY <1>1, <1>2, <1>3, <1>4, <1>5, <1>6, <1>7, <1>8, <1>9, <1>10 DEF RequestInv

LEMMA ExpireReqKeeps ==
  ASSUME RequestInv, Different, NEW x \in Exchange, ExpireReq(x)
  PROVE  RequestInv'
<1>1. TypeOK'
  BY RequestAssumption DEF RequestInv, ExpireReq, TypeOK, sendVars, pollVars, exchangeVars, Entry, RequestType
<1>2. QueuesTold'
  BY RequestAssumption DEF RequestInv, ExpireReq, QueuesTold, OnTheWay, sendVars, pollVars, exchangeVars, Entry, RequestType, TypeOK
<1>3. TakenOnce'
  BY RequestAssumption DEF RequestInv, ExpireReq, TakenOnce, OnTheWay, sendVars, pollVars, exchangeVars, Entry, RequestType, TypeOK
<1>4. NotifyTold'
  BY RequestAssumption DEF RequestInv, ExpireReq, NotifyTold, sendVars, pollVars, exchangeVars, Entry, RequestType, TypeOK
<1>5. OriginatorTold'
  BY RequestAssumption DEF RequestInv, ExpireReq, OriginatorTold, sendVars, pollVars, exchangeVars, Entry, RequestType, TypeOK
<1>6. OriginatorKept'
  BY RequestAssumption DEF RequestInv, ExpireReq, OriginatorKept, sendVars, pollVars, exchangeVars, Entry, RequestType, TypeOK
<1>7. ResponsesTold'
  BY RequestAssumption DEF RequestInv, ExpireReq, ResponsesTold, sendVars, pollVars, exchangeVars, Entry, RequestType, TypeOK
<1>8. SenderTold'
  BY RequestAssumption DEF RequestInv, ExpireReq, SenderTold, sendVars, pollVars, exchangeVars, Entry, RequestType, TypeOK
<1>9. History'
  BY RequestAssumption DEF RequestInv, ExpireReq, History, sendVars, pollVars, exchangeVars, Entry, RequestType, TypeOK
<1>10. EntryExpires'
  BY RequestAssumption DEF RequestInv, ExpireReq, EntryExpires, sendVars, pollVars, exchangeVars, Entry, RequestType, TypeOK
<1>. QED
  BY <1>1, <1>2, <1>3, <1>4, <1>5, <1>6, <1>7, <1>8, <1>9, <1>10 DEF RequestInv

LEMMA HasPollingRequestKeeps ==
  ASSUME RequestInv, Different, NEW p \in Poller, hasPollingRequest(p)
  PROVE  RequestInv'
<1>1. TypeOK'
  BY RequestAssumption DEF RequestInv, hasPollingRequest, TypeOK, Matching, sendVars, pollVars, exchangeVars, Entry, RequestType
<1>2. QueuesTold'
  BY RequestAssumption DEF RequestInv, hasPollingRequest, QueuesTold, Matching, OnTheWay, sendVars, pollVars, exchangeVars, Entry, RequestType, TypeOK
<1>3. TakenOnce'
  BY RequestAssumption DEF RequestInv, hasPollingRequest, TakenOnce, Matching, OnTheWay, sendVars, pollVars, exchangeVars, Entry, RequestType, TypeOK
<1>4. NotifyTold'
  BY RequestAssumption DEF RequestInv, hasPollingRequest, NotifyTold, Matching, sendVars, pollVars, exchangeVars, Entry, RequestType, TypeOK
<1>5. OriginatorTold'
  BY RequestAssumption DEF RequestInv, hasPollingRequest, OriginatorTold, Matching, sendVars, pollVars, exchangeVars, Entry, RequestType, TypeOK
<1>6. OriginatorKept'
  BY RequestAssumption DEF RequestInv, hasPollingRequest, OriginatorKept, Matching, sendVars, pollVars, exchangeVars, Entry, RequestType, TypeOK
<1>7. ResponsesTold'
  BY RequestAssumption DEF RequestInv, hasPollingRequest, ResponsesTold, Matching, sendVars, pollVars, exchangeVars, Entry, RequestType, TypeOK
<1>8. SenderTold'
  BY RequestAssumption DEF RequestInv, hasPollingRequest, SenderTold, Matching, sendVars, pollVars, exchangeVars, Entry, RequestType, TypeOK
<1>9. History'
  BY RequestAssumption DEF RequestInv, hasPollingRequest, History, Matching, sendVars, pollVars, exchangeVars, Entry, RequestType, TypeOK
<1>10. EntryExpires'
  BY RequestAssumption DEF RequestInv, hasPollingRequest, EntryExpires, Matching, sendVars, pollVars, exchangeVars, Entry, RequestType, TypeOK
<1>. QED
  BY <1>1, <1>2, <1>3, <1>4, <1>5, <1>6, <1>7, <1>8, <1>9, <1>10 DEF RequestInv

LEMMA TakeOneKeeps ==
  ASSUME RequestInv, Different, NEW p \in Poller, NEW e, TakeOne(p, e)
  PROVE  RequestInv'
<1>1. TypeOK'
  BY RequestAssumption DEF RequestInv, TakeOne, TypeOK, unqueuePollingRequest, StopUnqueuers, Respond, sendVars, pollVars, exchangeVars, Entry, RequestType
<1>2. QueuesTold'
  <2>1. e \in Entry /\ e.id = Req[e.x].to /\ OnTheWay(e.x)
    BY DEF TakeOne, RequestInv, TypeOK, QueuesTold
  <2>2. \A f \in requests' : f \in requests /\ f \in Entry /\ f # e
    BY DEF TakeOne, unqueuePollingRequest, RequestInv, TypeOK
  <2>3. \A f \in requests' : f.type = "REQUEST" => f.x # e.x
    BY <2>1, <2>2 DEF TakeOne, RequestInv, QueuesTold, Entry
  <2>4. \A q \in Poller : taken'[q] \subseteq taken[q]
    BY DEF TakeOne, Respond, RequestInv, TypeOK
  <2>5. QED
    BY <2>2, <2>3, <2>4 DEF TakeOne, Respond, RequestInv, QueuesTold, OnTheWay
<1>3. TakenOnce'
  BY RequestAssumption DEF RequestInv, TakeOne, TakenOnce, unqueuePollingRequest, StopUnqueuers, Respond, OnTheWay, sendVars, pollVars, exchangeVars, Entry, RequestType, TypeOK, QueuesTold
<1>4. NotifyTold'
  BY RequestAssumption DEF RequestInv, TakeOne, NotifyTold, unqueuePollingRequest, StopUnqueuers, Respond, sendVars, pollVars, exchangeVars, Entry, RequestType, TypeOK
<1>5. OriginatorTold'
  BY RequestAssumption DEF RequestInv, TakeOne, OriginatorTold, unqueuePollingRequest, StopUnqueuers, Respond, sendVars, pollVars, exchangeVars, Entry, RequestType, TypeOK
<1>6. OriginatorKept'
  BY RequestAssumption DEF RequestInv, TakeOne, OriginatorKept, unqueuePollingRequest, StopUnqueuers, Respond, sendVars, pollVars, exchangeVars, Entry, RequestType, TypeOK, QueuesTold
<1>7. ResponsesTold'
  BY RequestAssumption DEF RequestInv, TakeOne, ResponsesTold, unqueuePollingRequest, StopUnqueuers, Respond, sendVars, pollVars, exchangeVars, Entry, RequestType, TypeOK
<1>8. SenderTold'
  BY RequestAssumption DEF RequestInv, TakeOne, SenderTold, unqueuePollingRequest, StopUnqueuers, Respond, sendVars, pollVars, exchangeVars, Entry, RequestType, TypeOK
<1>9. History'
  BY RequestAssumption DEF RequestInv, TakeOne, History, unqueuePollingRequest, StopUnqueuers, Respond, sendVars, pollVars, exchangeVars, Entry, RequestType, TypeOK, QueuesTold, TakenOnce
<1>10. EntryExpires'
  BY UnqueueKeepsActors DEF TakeOne, sendVars
<1>. QED
  BY <1>1, <1>2, <1>3, <1>4, <1>5, <1>6, <1>7, <1>8, <1>9, <1>10 DEF RequestInv

LEMMA TakeMoreKeeps ==
  ASSUME RequestInv, Different, NEW p \in Poller, NEW e, TakeMore(p, e)
  PROVE  RequestInv'
<1>1. TypeOK'
  BY RequestAssumption DEF RequestInv, TakeMore, TypeOK, unqueuePollingRequest, StopUnqueuers, sendVars, pollVars, exchangeVars, Entry, RequestType
<1>2. QueuesTold'
  BY SMTT(30), RequestAssumption DEF RequestInv, TakeMore, QueuesTold, unqueuePollingRequest, StopUnqueuers, OnTheWay, sendVars, pollVars, exchangeVars, Entry, RequestType, TypeOK, TakenOnce, Different
<1>3. TakenOnce'
  BY RequestAssumption DEF RequestInv, TakeMore, TakenOnce, unqueuePollingRequest, StopUnqueuers, OnTheWay, sendVars, pollVars, exchangeVars, Entry, RequestType, TypeOK, QueuesTold
<1>4. NotifyTold'
  BY RequestAssumption DEF RequestInv, TakeMore, NotifyTold, unqueuePollingRequest, StopUnqueuers, sendVars, pollVars, exchangeVars, Entry, RequestType, TypeOK
<1>5. OriginatorTold'
  BY RequestAssumption DEF RequestInv, TakeMore, OriginatorTold, unqueuePollingRequest, StopUnqueuers, sendVars, pollVars, exchangeVars, Entry, RequestType, TypeOK
<1>6. OriginatorKept'
  BY RequestAssumption DEF RequestInv, TakeMore, OriginatorKept, unqueuePollingRequest, StopUnqueuers, sendVars, pollVars, exchangeVars, Entry, RequestType, TypeOK, QueuesTold
<1>7. ResponsesTold'
  BY RequestAssumption DEF RequestInv, TakeMore, ResponsesTold, unqueuePollingRequest, StopUnqueuers, sendVars, pollVars, exchangeVars, Entry, RequestType, TypeOK
<1>8. SenderTold'
  BY RequestAssumption DEF RequestInv, TakeMore, SenderTold, unqueuePollingRequest, StopUnqueuers, sendVars, pollVars, exchangeVars, Entry, RequestType, TypeOK
<1>9. History'
  BY RequestAssumption DEF RequestInv, TakeMore, History, unqueuePollingRequest, StopUnqueuers, sendVars, pollVars, exchangeVars, Entry, RequestType, TypeOK
<1>10. EntryExpires'
  BY UnqueueKeepsActors DEF TakeMore, sendVars
<1>. QED
  BY <1>1, <1>2, <1>3, <1>4, <1>5, <1>6, <1>7, <1>8, <1>9, <1>10 DEF RequestInv

LEMMA TakeNoMoreKeeps ==
  ASSUME RequestInv, Different, NEW p \in Poller, TakeNoMore(p)
  PROVE  RequestInv'
<1>1. TypeOK'
  BY RequestAssumption DEF RequestInv, TakeNoMore, TypeOK, Respond, sendVars, pollVars, exchangeVars, Entry, RequestType
<1>2. QueuesTold'
  BY RequestAssumption DEF RequestInv, TakeNoMore, QueuesTold, Respond, OnTheWay, sendVars, pollVars, exchangeVars, Entry, RequestType, TypeOK, TakenOnce
<1>3. TakenOnce'
  BY RequestAssumption DEF RequestInv, TakeNoMore, TakenOnce, Respond, OnTheWay, sendVars, pollVars, exchangeVars, Entry, RequestType, TypeOK
<1>4. NotifyTold'
  BY RequestAssumption DEF RequestInv, TakeNoMore, NotifyTold, Respond, sendVars, pollVars, exchangeVars, Entry, RequestType, TypeOK
<1>5. OriginatorTold'
  BY RequestAssumption DEF RequestInv, TakeNoMore, OriginatorTold, Respond, sendVars, pollVars, exchangeVars, Entry, RequestType, TypeOK
<1>6. OriginatorKept'
  BY RequestAssumption DEF RequestInv, TakeNoMore, OriginatorKept, Respond, sendVars, pollVars, exchangeVars, Entry, RequestType, TypeOK
<1>7. ResponsesTold'
  BY RequestAssumption DEF RequestInv, TakeNoMore, ResponsesTold, Respond, sendVars, pollVars, exchangeVars, Entry, RequestType, TypeOK
<1>8. SenderTold'
  BY RequestAssumption DEF RequestInv, TakeNoMore, SenderTold, Respond, sendVars, pollVars, exchangeVars, Entry, RequestType, TypeOK
<1>9. History'
  <2>1. \A x \in taken[p] : sent[x] # "no"
    BY DEF RequestInv, TakenOnce, OnTheWay
  <2>2. QED
    BY <2>1 DEF TakeNoMore, Respond, RequestInv, History
<1>10. EntryExpires'
  BY RequestAssumption DEF RequestInv, TakeNoMore, EntryExpires, Respond, sendVars, pollVars, exchangeVars, Entry, RequestType, TypeOK
<1>. QED
  BY <1>1, <1>2, <1>3, <1>4, <1>5, <1>6, <1>7, <1>8, <1>9, <1>10 DEF RequestInv

LEMMA PopOriginatorKeeps ==
  ASSUME RequestInv, Different, NEW n \in Notifier, NEW x \in Exchange, popOriginator(n, x)
  PROVE  RequestInv'
<1>1. TypeOK'
  BY RequestAssumption DEF RequestInv, popOriginator, TypeOK, sendVars, pollVars, exchangeVars, Entry, RequestType
<1>2. QueuesTold'
  BY RequestAssumption DEF RequestInv, popOriginator, QueuesTold, OnTheWay, sendVars, pollVars, exchangeVars, Entry, RequestType, TypeOK
<1>3. TakenOnce'
  BY RequestAssumption DEF RequestInv, popOriginator, TakenOnce, OnTheWay, sendVars, pollVars, exchangeVars, Entry, RequestType, TypeOK
<1>4. NotifyTold'
  BY RequestAssumption DEF RequestInv, popOriginator, NotifyTold, sendVars, pollVars, exchangeVars, Entry, RequestType, TypeOK, OriginatorTold
<1>5. OriginatorTold'
  BY RequestAssumption DEF RequestInv, popOriginator, OriginatorTold, sendVars, pollVars, exchangeVars, Entry, RequestType, TypeOK
<1>6. OriginatorKept'
  BY SMTT(30), RequestAssumption DEF RequestInv, popOriginator, OriginatorKept, sendVars, pollVars, exchangeVars, Entry, RequestType, TypeOK, Different
<1>7. ResponsesTold'
  BY RequestAssumption DEF RequestInv, popOriginator, ResponsesTold, sendVars, pollVars, exchangeVars, Entry, RequestType, TypeOK
<1>8. SenderTold'
  BY RequestAssumption DEF RequestInv, popOriginator, SenderTold, sendVars, pollVars, exchangeVars, Entry, RequestType, TypeOK
<1>9. History'
  BY RequestAssumption DEF RequestInv, popOriginator, History, sendVars, pollVars, exchangeVars, Entry, RequestType, TypeOK
<1>10. EntryExpires'
  BY RequestAssumption DEF RequestInv, popOriginator, EntryExpires, sendVars, pollVars, exchangeVars, Entry, RequestType, TypeOK
<1>. QED
  BY <1>1, <1>2, <1>3, <1>4, <1>5, <1>6, <1>7, <1>8, <1>9, <1>10 DEF RequestInv

LEMMA QueuePollingResponseKeeps ==
  ASSUME RequestInv, Different, NEW n \in Notifier, queuePollingResponse(n)
  PROVE  RequestInv'
<1>1. TypeOK'
  <2>1. notify[n].x \in Exchange /\ notify[n].id \in Entity
    BY RequestAssumption DEF RequestInv, NotifyTold, queuePollingResponse
  <2>2. [id |-> notify[n].id, x |-> notify[n].x, type |-> "RESPONSE"] \in Entry
    BY <2>1 DEF Entry, RequestType
  <2>3. QED
    BY <2>1, <2>2, RequestAssumption
    DEF RequestInv, TypeOK, queuePollingResponse, sendVars, pollVars, exchangeVars
<1>2. QueuesTold'
  BY RequestAssumption DEF RequestInv, queuePollingResponse, QueuesTold, OnTheWay, sendVars, pollVars, exchangeVars, Entry, RequestType, TypeOK, NotifyTold
<1>3. TakenOnce'
  BY RequestAssumption DEF RequestInv, queuePollingResponse, TakenOnce, OnTheWay, sendVars, pollVars, exchangeVars, Entry, RequestType, TypeOK
<1>4. NotifyTold'
  BY RequestAssumption DEF RequestInv, queuePollingResponse, NotifyTold, sendVars, pollVars, exchangeVars, Entry, RequestType, TypeOK
<1>5. OriginatorTold'
  BY RequestAssumption DEF RequestInv, queuePollingResponse, OriginatorTold, sendVars, pollVars, exchangeVars, Entry, RequestType, TypeOK
<1>6. OriginatorKept'
  <2> SUFFICES ASSUME NEW y \in Exchange, sent'[y] = "queue", y \notin answered',
                      y \in seen' \/ (\E p \in Poller : y \in taken'[p]) \/ \E e \in requests' : e.x = y
               PROVE  rqiOriginator'[Req[y].rqi] = Req[y].from
    BY DEF OriginatorKept
  <2>1. notify[n].x \in Exchange /\ notify[n].x \in answered /\ y # notify[n].x
    BY DEF RequestInv, NotifyTold, queuePollingResponse, exchangeVars
  <2>2. Req[y].rqi # Req[notify[n].x].rqi
    BY <2>1 DEF Different
  <2>3. y \in seen \/ (\E p \in Poller : y \in taken[p]) \/ \E e \in requests : e.x = y
    BY <2>1 DEF queuePollingResponse, pollVars, exchangeVars
  <2>4. QED
    BY <2>2, <2>3, RequestAssumption DEF queuePollingResponse, exchangeVars, RequestInv, TypeOK, OriginatorKept
<1>7. ResponsesTold'
  BY RequestAssumption DEF RequestInv, queuePollingResponse, ResponsesTold, sendVars, pollVars, exchangeVars, Entry, RequestType, TypeOK
<1>8. SenderTold'
  BY RequestAssumption DEF RequestInv, queuePollingResponse, SenderTold, sendVars, pollVars, exchangeVars, Entry, RequestType, TypeOK
<1>9. History'
  BY RequestAssumption DEF RequestInv, queuePollingResponse, History, sendVars, pollVars, exchangeVars, Entry, RequestType, TypeOK
<1>10. EntryExpires'
  BY RequestAssumption DEF RequestInv, queuePollingResponse, EntryExpires, sendVars, pollVars, exchangeVars, Entry, RequestType, TypeOK
<1>. QED
  BY <1>1, <1>2, <1>3, <1>4, <1>5, <1>6, <1>7, <1>8, <1>9, <1>10 DEF RequestInv

LEMMA StartResponseUnqueuerKeeps ==
  ASSUME RequestInv, Different, NEW n \in Notifier, StartResponseUnqueuer(n)
  PROVE  RequestInv'
<1>1. TypeOK'
  <2>1. notify[n].x \in Exchange /\ notify[n].id \in Entity
    BY RequestAssumption DEF RequestInv, NotifyTold, StartResponseUnqueuer
  <2>2. [id |-> notify[n].id, x |-> notify[n].x, type |-> "RESPONSE"] \in Entry
    BY <2>1 DEF Entry, RequestType
  <2>3. QED
    BY <2>2 DEF RequestInv, TypeOK, StartResponseUnqueuer, sendVars, pollVars, exchangeVars
<1>2. QueuesTold'
  BY RequestAssumption DEF RequestInv, StartResponseUnqueuer, QueuesTold, OnTheWay, sendVars, pollVars, exchangeVars, Entry, RequestType, TypeOK
<1>3. TakenOnce'
  BY RequestAssumption DEF RequestInv, StartResponseUnqueuer, TakenOnce, OnTheWay, sendVars, pollVars, exchangeVars, Entry, RequestType, TypeOK
<1>4. NotifyTold'
  BY RequestAssumption DEF RequestInv, StartResponseUnqueuer, NotifyTold, sendVars, pollVars, exchangeVars, Entry, RequestType, TypeOK
<1>5. OriginatorTold'
  BY RequestAssumption DEF RequestInv, StartResponseUnqueuer, OriginatorTold, sendVars, pollVars, exchangeVars, Entry, RequestType, TypeOK
<1>6. OriginatorKept'
  BY RequestAssumption DEF RequestInv, StartResponseUnqueuer, OriginatorKept, sendVars, pollVars, exchangeVars, Entry, RequestType, TypeOK
<1>7. ResponsesTold'
  BY RequestAssumption DEF RequestInv, StartResponseUnqueuer, ResponsesTold, sendVars, pollVars, exchangeVars, Entry, RequestType, TypeOK
<1>8. SenderTold'
  BY RequestAssumption DEF RequestInv, StartResponseUnqueuer, SenderTold, sendVars, pollVars, exchangeVars, Entry, RequestType, TypeOK
<1>9. History'
  BY RequestAssumption DEF RequestInv, StartResponseUnqueuer, History, sendVars, pollVars, exchangeVars, Entry, RequestType, TypeOK
<1>10. EntryExpires'
  BY RequestAssumption DEF RequestInv, StartResponseUnqueuer, EntryExpires, sendVars, pollVars, exchangeVars, Entry, RequestType, TypeOK
<1>. QED
  BY <1>1, <1>2, <1>3, <1>4, <1>5, <1>6, <1>7, <1>8, <1>9, <1>10 DEF RequestInv

LEMMA ExpireEntryKeeps ==
  ASSUME RequestInv, Different, NEW u \in unqueuers, NEW e, ExpireEntry(u, e)
  PROVE  RequestInv'
<1>1. TypeOK'
  BY RequestAssumption DEF RequestInv, ExpireEntry, TypeOK, Matching, unqueuePollingRequest, StopUnqueuers, sendVars, pollVars, exchangeVars, Entry, RequestType
<1>2. QueuesTold'
  BY RequestAssumption DEF RequestInv, ExpireEntry, QueuesTold, Matching, unqueuePollingRequest, StopUnqueuers, OnTheWay, sendVars, pollVars, exchangeVars, Entry, RequestType, TypeOK
<1>3. TakenOnce'
  BY RequestAssumption DEF RequestInv, ExpireEntry, TakenOnce, Matching, unqueuePollingRequest, StopUnqueuers, OnTheWay, sendVars, pollVars, exchangeVars, Entry, RequestType, TypeOK
<1>4. NotifyTold'
  BY RequestAssumption DEF RequestInv, ExpireEntry, NotifyTold, Matching, unqueuePollingRequest, StopUnqueuers, sendVars, pollVars, exchangeVars, Entry, RequestType, TypeOK
<1>5. OriginatorTold'
  BY RequestAssumption DEF RequestInv, ExpireEntry, OriginatorTold, Matching, unqueuePollingRequest, StopUnqueuers, sendVars, pollVars, exchangeVars, Entry, RequestType, TypeOK
<1>6. OriginatorKept'
  BY RequestAssumption DEF RequestInv, ExpireEntry, OriginatorKept, Matching, unqueuePollingRequest, StopUnqueuers, sendVars, pollVars, exchangeVars, Entry, RequestType, TypeOK
<1>7. ResponsesTold'
  BY RequestAssumption DEF RequestInv, ExpireEntry, ResponsesTold, Matching, unqueuePollingRequest, StopUnqueuers, sendVars, pollVars, exchangeVars, Entry, RequestType, TypeOK
<1>8. SenderTold'
  BY RequestAssumption DEF RequestInv, ExpireEntry, SenderTold, Matching, unqueuePollingRequest, StopUnqueuers, sendVars, pollVars, exchangeVars, Entry, RequestType, TypeOK
<1>9. History'
  BY RequestAssumption DEF RequestInv, ExpireEntry, History, Matching, unqueuePollingRequest, StopUnqueuers, sendVars, pollVars, exchangeVars, Entry, RequestType, TypeOK
<1>10. EntryExpires'
  BY UnqueueKeepsActors DEF ExpireEntry, Matching, sendVars
<1>. QED
  BY <1>1, <1>2, <1>3, <1>4, <1>5, <1>6, <1>7, <1>8, <1>9, <1>10 DEF RequestInv

LEMMA ExpireNothingKeeps ==
  ASSUME RequestInv, Different, NEW u \in unqueuers, ExpireNothing(u)
  PROVE  RequestInv'
<1>1. TypeOK'
  BY RequestAssumption DEF RequestInv, ExpireNothing, TypeOK, Matching, sendVars, pollVars, exchangeVars, Entry, RequestType
<1>2. QueuesTold'
  BY RequestAssumption DEF RequestInv, ExpireNothing, QueuesTold, Matching, OnTheWay, sendVars, pollVars, exchangeVars, Entry, RequestType, TypeOK
<1>3. TakenOnce'
  BY RequestAssumption DEF RequestInv, ExpireNothing, TakenOnce, Matching, OnTheWay, sendVars, pollVars, exchangeVars, Entry, RequestType, TypeOK
<1>4. NotifyTold'
  BY RequestAssumption DEF RequestInv, ExpireNothing, NotifyTold, Matching, sendVars, pollVars, exchangeVars, Entry, RequestType, TypeOK
<1>5. OriginatorTold'
  BY RequestAssumption DEF RequestInv, ExpireNothing, OriginatorTold, Matching, sendVars, pollVars, exchangeVars, Entry, RequestType, TypeOK
<1>6. OriginatorKept'
  BY RequestAssumption DEF RequestInv, ExpireNothing, OriginatorKept, Matching, sendVars, pollVars, exchangeVars, Entry, RequestType, TypeOK
<1>7. ResponsesTold'
  BY RequestAssumption DEF RequestInv, ExpireNothing, ResponsesTold, Matching, sendVars, pollVars, exchangeVars, Entry, RequestType, TypeOK
<1>8. SenderTold'
  BY RequestAssumption DEF RequestInv, ExpireNothing, SenderTold, Matching, sendVars, pollVars, exchangeVars, Entry, RequestType, TypeOK
<1>9. History'
  BY RequestAssumption DEF RequestInv, ExpireNothing, History, Matching, sendVars, pollVars, exchangeVars, Entry, RequestType, TypeOK
<1>10. EntryExpires'
  BY RequestAssumption DEF RequestInv, ExpireNothing, EntryExpires, Matching, sendVars, pollVars, exchangeVars, Entry, RequestType, TypeOK
<1>. QED
  BY <1>1, <1>2, <1>3, <1>4, <1>5, <1>6, <1>7, <1>8, <1>9, <1>10 DEF RequestInv

LEMMA CleanupPollingRequestsKeeps ==
  ASSUME RequestInv, Different, NEW expired \in SUBSET requests, _cleanupPollingRequests(expired)
  PROVE  RequestInv'
<1>1. TypeOK'
  BY RequestAssumption DEF RequestInv, _cleanupPollingRequests, TypeOK, sendVars, pollVars, exchangeVars, Entry, RequestType
<1>2. QueuesTold'
  BY RequestAssumption DEF RequestInv, _cleanupPollingRequests, QueuesTold, OnTheWay, sendVars, pollVars, exchangeVars, Entry, RequestType, TypeOK
<1>3. TakenOnce'
  BY RequestAssumption DEF RequestInv, _cleanupPollingRequests, TakenOnce, OnTheWay, sendVars, pollVars, exchangeVars, Entry, RequestType, TypeOK
<1>4. NotifyTold'
  BY RequestAssumption DEF RequestInv, _cleanupPollingRequests, NotifyTold, sendVars, pollVars, exchangeVars, Entry, RequestType, TypeOK
<1>5. OriginatorTold'
  BY RequestAssumption DEF RequestInv, _cleanupPollingRequests, OriginatorTold, sendVars, pollVars, exchangeVars, Entry, RequestType, TypeOK
<1>6. OriginatorKept'
  <2> SUFFICES ASSUME NEW y \in Exchange, sent'[y] = "queue", y \notin answered',
                      y \in seen' \/ (\E p \in Poller : y \in taken'[p]) \/ \E e \in requests' : e.x = y
               PROVE  rqiOriginator'[Req[y].rqi] = Req[y].from
    BY DEF OriginatorKept
  <2>1. y \in seen \/ (\E p \in Poller : y \in taken[p]) \/ \E e \in requests : e.x = y
    BY DEF _cleanupPollingRequests, pollVars, exchangeVars
  <2>2. rqiOriginator[Req[y].rqi] = Req[y].from
    BY <2>1 DEF _cleanupPollingRequests, exchangeVars, RequestInv, OriginatorKept
  <2>3. ASSUME NEW e \in expired, Req[e.x].rqi = Req[y].rqi
        PROVE  FALSE
    <3>1. e \in requests /\ e \in Entry /\ e.x = y
      BY <2>3 DEF _cleanupPollingRequests, RequestInv, TypeOK, Entry, Different
    <3>2. e.type = "REQUEST"
      BY <3>1 DEF Entry, RequestType, RequestInv, QueuesTold, _cleanupPollingRequests, exchangeVars
    <3>3. y \notin seen' /\ \A p \in Poller : y \notin taken'[p]
      BY <3>1, <3>2 DEF RequestInv, QueuesTold, OnTheWay, _cleanupPollingRequests, pollVars, exchangeVars
    <3>4. PICK f \in requests' : f.x = y
      BY <3>3
    <3>5. f \in requests /\ f \in Entry /\ f \notin expired
      BY <3>4 DEF _cleanupPollingRequests, RequestInv, TypeOK
    <3>6. f.type = "REQUEST"
      BY <3>4, <3>5 DEF Entry, RequestType, RequestInv, QueuesTold, _cleanupPollingRequests, exchangeVars
    <3>7. f = e
      BY <3>1, <3>2, <3>4, <3>5, <3>6 DEF Entry, RequestInv, QueuesTold
    <3>8. QED
      BY <3>5, <3>7
  <2>4. QED
    BY <2>2, <2>3, RequestAssumption DEF _cleanupPollingRequests
<1>7. ResponsesTold'
  BY RequestAssumption DEF RequestInv, _cleanupPollingRequests, ResponsesTold, sendVars, pollVars, exchangeVars, Entry, RequestType, TypeOK
<1>8. SenderTold'
  BY RequestAssumption DEF RequestInv, _cleanupPollingRequests, SenderTold, sendVars, pollVars, exchangeVars, Entry, RequestType, TypeOK
<1>9. History'
  BY RequestAssumption DEF RequestInv, _cleanupPollingRequests, History, sendVars, pollVars, exchangeVars, Entry, RequestType, TypeOK
<1>10. EntryExpires'
  BY RequestAssumption DEF RequestInv, _cleanupPollingRequests, EntryExpires, sendVars, pollVars, exchangeVars, Entry, RequestType, TypeOK
<1>. QED
  BY <1>1, <1>2, <1>3, <1>4, <1>5, <1>6, <1>7, <1>8, <1>9, <1>10 DEF RequestInv

LEMMA RestartKeeps ==
  ASSUME RequestInv, Different, restart
  PROVE  RequestInv'
<1>1. TypeOK'
  BY RequestAssumption DEF RequestInv, restart, TypeOK, sendVars, pollVars, exchangeVars, Entry, RequestType
<1>2. QueuesTold'
  BY RequestAssumption DEF RequestInv, restart, QueuesTold, OnTheWay, sendVars, pollVars, exchangeVars, Entry, RequestType, TypeOK
<1>3. TakenOnce'
  BY RequestAssumption DEF RequestInv, restart, TakenOnce, OnTheWay, sendVars, pollVars, exchangeVars, Entry, RequestType, TypeOK
<1>4. NotifyTold'
  BY RequestAssumption DEF RequestInv, restart, NotifyTold, sendVars, pollVars, exchangeVars, Entry, RequestType, TypeOK
<1>5. OriginatorTold'
  BY RequestAssumption DEF RequestInv, restart, OriginatorTold, sendVars, pollVars, exchangeVars, Entry, RequestType, TypeOK
<1>6. OriginatorKept'
  BY RequestAssumption DEF RequestInv, restart, OriginatorKept, sendVars, pollVars, exchangeVars, Entry, RequestType, TypeOK
<1>7. ResponsesTold'
  BY RequestAssumption DEF RequestInv, restart, ResponsesTold, sendVars, pollVars, exchangeVars, Entry, RequestType, TypeOK
<1>8. SenderTold'
  BY RequestAssumption DEF RequestInv, restart, SenderTold, sendVars, pollVars, exchangeVars, Entry, RequestType, TypeOK
<1>9. History'
  BY RequestAssumption DEF RequestInv, restart, History, sendVars, pollVars, exchangeVars, Entry, RequestType, TypeOK
<1>10. EntryExpires'
  BY RequestAssumption DEF RequestInv, restart, EntryExpires, sendVars, pollVars, exchangeVars, Entry, RequestType, TypeOK
<1>. QED
  BY <1>1, <1>2, <1>3, <1>4, <1>5, <1>6, <1>7, <1>8, <1>9, <1>10 DEF RequestInv

LEMMA TakePollingResponseKeeps ==
  ASSUME RequestInv, Different, NEW x \in Exchange, takePollingResponse(x)
  PROVE  RequestInv'
<1>1. ASSUME NEW e \in Matching(Req[x].from, Req[x].rqi, "RESPONSE"), unqueuePollingRequest(e),
             Return(x, IF Req[e.x].to = Req[x].to THEN e.x ELSE "failed")
      PROVE  RequestInv'
  <2>1. e.x = x
    <3>1. Req[x].rqi # None
      BY RequestAssumption
    <3>2. e \in Entry /\ Req[e.x].rqi = Req[x].rqi
      BY <3>1 DEF Matching, RequestInv, TypeOK
    <3>3. QED
      BY <3>2 DEF Entry, Different
  <2>2. TakeAnswer(x, e)
    BY <1>1, <2>1 DEF takePollingResponse, TakeAnswer
  <2>3. QED
    BY <2>2, TakeAnswerKeeps
<1>2. CASE Return(x, "timeout") /\ UNCHANGED <<requests, unqueuers>>
  <2>1. MissAnswer(x)
    BY <1>2 DEF takePollingResponse, MissAnswer
  <2>2. QED
    BY <2>1, MissAnswerKeeps
<1>3. QED
  BY <1>1, <1>2 DEF takePollingResponse

LEMMA TakePollingRequestKeeps ==
  ASSUME RequestInv, Different, NEW p \in Poller, takePollingRequest(p)
  PROVE  RequestInv'
<1>1. ASSUME NEW e \in Matching(Pch[p], None, "REQUEST"), unqueuePollingRequest(e), Respond(p, {e.x})
      PROVE  RequestInv'
  <2>1. TakeOne(p, e)
    BY <1>1 DEF takePollingRequest, TakeOne, Matching
  <2>2. QED
    BY <2>1, TakeOneKeeps
<1>2. ASSUME NEW e \in Matching(Pch[p], None, "REQUEST"), unqueuePollingRequest(e),
             taken' = [taken EXCEPT ![p] = @ \cup {e.x}], UNCHANGED <<poll, seen>>
      PROVE  RequestInv'
  <2>1. TakeMore(p, e)
    BY <1>2 DEF takePollingRequest, TakeMore, Matching
  <2>2. QED
    BY <2>1, TakeMoreKeeps
<1>3. CASE Respond(p, taken[p]) /\ UNCHANGED <<requests, unqueuers>>
  <2>1. TakeNoMore(p)
    BY <1>3 DEF takePollingRequest, TakeNoMore
  <2>2. QED
    BY <2>1, TakeNoMoreKeeps
<1>4. QED
  BY <1>1, <1>2, <1>3 DEF takePollingRequest

LEMMA UnqueueExpiredKeeps ==
  ASSUME RequestInv, Different, NEW u \in unqueuers, unqueueExpired(u)
  PROVE  RequestInv'
<1>1. ASSUME NEW e \in Matching(u.id, Req[u.x].rqi, u.type), unqueuePollingRequest(e)
      PROVE  RequestInv'
  <2>1. ExpireEntry(u, e)
    BY <1>1 DEF unqueueExpired, ExpireEntry
  <2>2. QED
    BY <2>1, ExpireEntryKeeps
<1>2. CASE /\ Matching(u.id, Req[u.x].rqi, u.type) = {}
           /\ unqueuers' = unqueuers \ {u}
           /\ UNCHANGED requests
  <2>1. ExpireNothing(u)
    BY <1>2 DEF unqueueExpired, ExpireNothing
  <2>2. QED
    BY <2>1, ExpireNothingKeeps
<1>3. QED
  BY <1>1, <1>2 DEF unqueueExpired

LEMMA StutterKeeps ==
  ASSUME RequestInv, UNCHANGED vars
  PROVE  RequestInv'
<1>1. TypeOK'
  BY DEF RequestInv, TypeOK, vars
<1>2. (QueuesTold /\ TakenOnce /\ NotifyTold)'
  BY DEF RequestInv, QueuesTold, TakenOnce, NotifyTold, OnTheWay, vars
<1>3. (OriginatorTold /\ OriginatorKept /\ ResponsesTold)'
  BY DEF RequestInv, OriginatorTold, OriginatorKept, ResponsesTold, vars
<1>4. (SenderTold /\ History /\ EntryExpires)'
  BY DEF RequestInv, SenderTold, History, EntryExpires, vars
<1>5. QED
  BY <1>1, <1>2, <1>3, <1>4 DEF RequestInv

LEMMA NextKeeps ==
  ASSUME RequestInv, Different, [Next]_vars
  PROVE  RequestInv'
<1>1. ASSUME NEW x \in Exchange, handleRequest(x) \/ SendNext(x) \/ ExpireReq(x) \/ Arrive(x) \/ addResponse(x)
      PROVE  RequestInv'
  <2>1. CASE handleRequest(x) \/ ExpireReq(x) \/ Arrive(x) \/ addResponse(x)
    BY <2>1, HandleRequestKeeps, ExpireReqKeeps, ArriveKeeps, AddResponseKeeps
  <2>2. CASE RunActor(x) \/ CheckFails(x) \/ queuePollingRequest(x) \/ StartUnqueuer(x)
    BY <2>2, RunActorKeeps, CheckFailsKeeps, QueuePollingRequestKeeps, StartUnqueuerKeeps
  <2>3. CASE hasPollingResponse(x) \/ takePollingResponse(x) \/ sendMqttRequest(x) \/ waitForResponse(x)
    BY <2>3, HasPollingResponseKeeps, TakePollingResponseKeeps, SendMqttRequestKeeps, WaitForResponseKeeps
  <2>4. CASE WaitTimeout(x) \/ retrieveReq(x) \/ updateReq(x) \/ notifyResult(x)
    BY <2>4, WaitTimeoutKeeps, RetrieveReqKeeps, UpdateReqKeeps, NotifyResultKeeps
  <2>5. QED
    BY <1>1, <2>1, <2>2, <2>3, <2>4 DEF SendNext
<1>2. ASSUME NEW p \in Poller, PollNext(p)
      PROVE  RequestInv'
  BY <1>2, HasPollingRequestKeeps, TakePollingRequestKeeps DEF PollNext
<1>3. ASSUME NEW n \in Notifier, NotifyNext(n) \/ \E x \in Exchange : popOriginator(n, x)
      PROVE  RequestInv'
  BY <1>3, QueuePollingResponseKeeps, StartResponseUnqueuerKeeps, PopOriginatorKeeps DEF NotifyNext
<1>4. ASSUME NEW u \in unqueuers, unqueueExpired(u)
      PROVE  RequestInv'
  BY <1>4, UnqueueExpiredKeeps
<1>5. ASSUME NEW expired \in SUBSET requests, _cleanupPollingRequests(expired)
      PROVE  RequestInv'
  BY <1>5, CleanupPollingRequestsKeeps
<1>6. CASE restart
  BY <1>6, RestartKeeps
<1>7. CASE UNCHANGED vars
  BY <1>7, StutterKeeps
<1>8. QED
  BY <1>1, <1>2, <1>3, <1>4, <1>5, <1>6, <1>7 DEF Next

LEMMA InitRequests ==
  ASSUME Init
  PROVE  RequestInv
<1>1. TypeOK
  BY RequestAssumption DEF Init, TypeOK
<1>2. QueuesTold /\ TakenOnce /\ NotifyTold
  BY DEF Init, QueuesTold, TakenOnce, NotifyTold
<1>3. OriginatorTold /\ OriginatorKept /\ ResponsesTold
  BY RequestAssumption DEF Init, OriginatorTold, OriginatorKept, ResponsesTold
<1>4. SenderTold /\ History /\ EntryExpires
  BY RequestAssumption DEF Init, SenderTold, History, EntryExpires
<1>5. QED
  BY <1>1, <1>2, <1>3, <1>4 DEF RequestInv

\* Requests are told apart by their identifiers, which the model keeps in the constant Req: then the
\* invariant holds of every run (Init and every action of RequestManager).
THEOREM RequestsTold == ASSUME Different PROVE Spec => []RequestInv
<1>1. RequestInv /\ [Next]_vars => RequestInv'
  BY NextKeeps
<1>2. Init => RequestInv
  BY InitRequests
<1>3. QED
  BY <1>1, <1>2, PTL DEF Spec

\* An answer that is returned to whoever waits is the answer to its own request (waitForResponseToPCH,
\* waitForResponse), whoever else polls, answers, gives up or expires meanwhile.
THEOREM AnswersAreOwn == ASSUME Different PROVE Spec => []OwnAnswer
<1>1. RequestInv => OwnAnswer
  BY DEF RequestInv, SenderTold, OwnAnswer
<1>2. QED
  BY <1>1, RequestsTold, PTL

\* An entity that has got a request from its queue can answer it until the CSE is reset
\* (queuePollingRequest finds the originator of the identifier).
THEOREM AnswersAreAccepted == ASSUME Different PROVE Spec => []AnswerAccepted
<1>1. RequestInv => AnswerAccepted
  BY DEF RequestInv, OriginatorKept, AnswerAccepted, TypeOK
<1>2. QED
  BY <1>1, RequestsTold, PTL

\* No entry stays in a queue for ever: an actor that will take it waits, or is about to be started
\* (queuePollingRequest, unqueuePollingRequest).
THEOREM EntriesExpire == ASSUME Different PROVE Spec => [](TypeOK /\ EntryExpires)
<1>1. RequestInv => TypeOK /\ EntryExpires
  BY DEF RequestInv
<1>2. QED
  BY <1>1, RequestsTold, PTL
-----------------------------------------------------------------------------
(* Every step is one of RequestResponse, or none. *)

LEMMA ResultEnds ==
  ASSUME TypeOK, NEW x \in Exchange, result[x] = None, NEW r, result' = [result EXCEPT ![x] = r],
         (r = x /\ x \in answered) \/ r \in {"timeout", "failed"},
         UNCHANGED <<sent, seen, answered>>
  PROVE  Abstract!End(x)
<1>1. result' = [result EXCEPT ![x] = r] /\ r # None
  BY RequestAssumption
<1>2. {y \in Exchange : result'[y] # None} = {y \in Exchange : result[y] # None} \cup {x}
  BY <1>1 DEF TypeOK
<1>3. CASE r = x /\ x \in answered
  <2>1. {y \in Exchange : result'[y] \in Exchange} = {y \in Exchange : result[y] \in Exchange} \cup {x}
    BY <1>1, <1>3 DEF TypeOK
  <2>2. QED
    BY <1>2, <1>3, <2>1 DEF Abstract!End
<1>4. CASE r \in {"timeout", "failed"}
  <2>1. {y \in Exchange : result'[y] \in Exchange} = {y \in Exchange : result[y] \in Exchange}
    BY <1>1, <1>4, RequestAssumption DEF TypeOK
  <2>2. QED
    BY <1>2, <1>4, <2>1 DEF Abstract!End
<1>5. QED
  BY <1>3, <1>4

LEMMA ReturnEnds ==
  ASSUME TypeOK, NEW x \in Exchange, result[x] = None, NEW r, Return(x, r),
         (r = x /\ x \in answered) \/ r \in {"timeout", "failed"},
         UNCHANGED <<sent, seen, answered>>
  PROVE  Abstract!End(x)
BY ResultEnds DEF Return

LEMMA SendAsks ==
  ASSUME RequestInv, NEW x \in Exchange, pc[x] = "execute", NEW how \in {"queue", "message"},
         sent' = [sent EXCEPT ![x] = how], UNCHANGED <<result, seen, answered>>
  PROVE  Abstract!Ask(x)
<1>1. sent[x] = "no" /\ result[x] = None
  BY DEF RequestInv, SenderTold
<1>2. {y \in Exchange : sent'[y] # "no"} = {y \in Exchange : sent[y] # "no"} \cup {x}
  BY DEF RequestInv, TypeOK
<1>3. QED
  BY <1>1, <1>2 DEF Abstract!Ask

LEMMA RespondDelivers ==
  ASSUME RequestInv, NEW S \in SUBSET Exchange, \A x \in S : OnTheWay(x), seen' \in {seen, seen \cup S},
         UNCHANGED <<result, sent, answered>>
  PROVE  Abstract!RRNext \/ UNCHANGED Abstract!rrVars
<1>1. CASE seen' = seen
  BY <1>1 DEF Abstract!rrVars
<1>2. CASE seen' # seen
  <2>1. Abstract!Deliver(S)
    BY <1>2 DEF Abstract!Deliver, OnTheWay
  <2>2. QED
    BY <2>1 DEF Abstract!RRNext
<1>3. QED
  BY <1>1, <1>2

LEMMA SendRefines ==
  ASSUME RequestInv, Different, NEW x \in Exchange, SendNext(x)
  PROVE  Abstract!RRNext \/ UNCHANGED Abstract!rrVars
<1>1. CASE RunActor(x) \/ StartUnqueuer(x) \/ hasPollingResponse(x) \/ retrieveReq(x) \/ updateReq(x) \/ notifyResult(x)
  BY <1>1 DEF RunActor, StartUnqueuer, hasPollingResponse, retrieveReq, updateReq, notifyResult,
              exchangeVars, Abstract!rrVars
<1>2. CASE CheckFails(x)
  <2>1. result[x] = None
    BY <1>2 DEF CheckFails, RequestInv, SenderTold
  <2>2. CASE Return(x, "failed")
    BY <1>2, <2>1, <2>2, ReturnEnds DEF RequestInv, CheckFails, exchangeVars, Abstract!RRNext
  <2>3. CASE result' = [result EXCEPT ![x] = "timeout"]
    <3>1. {y \in Exchange : result'[y] # None} = {y \in Exchange : result[y] # None} \cup {x}
      BY <2>3, RequestAssumption DEF RequestInv, TypeOK
    <3>2. {y \in Exchange : result'[y] \in Exchange} = {y \in Exchange : result[y] \in Exchange}
      BY <2>1, <2>3, RequestAssumption DEF RequestInv, TypeOK
    <3>3. Abstract!End(x)
      BY <1>2, <2>1, <3>1, <3>2 DEF CheckFails, exchangeVars, Abstract!End
    <3>4. QED
      BY <3>3 DEF Abstract!RRNext
  <2>4. QED
    BY <1>2, <2>2, <2>3 DEF CheckFails
<1>3. CASE queuePollingRequest(x)
  BY <1>3, SendAsks DEF queuePollingRequest, Abstract!RRNext
<1>4. CASE sendMqttRequest(x)
  BY <1>4, SendAsks DEF sendMqttRequest, Abstract!RRNext
<1>5. CASE WaitTimeout(x)
  <2>1. result[x] = None
    BY <1>5 DEF WaitTimeout, RequestInv, SenderTold
  <2>2. QED
    BY <1>5, <2>1, ReturnEnds DEF WaitTimeout, RequestInv, exchangeVars, Abstract!RRNext
<1>6. CASE waitForResponse(x)
  <2>1. receivedResponses[Req[x].rqi] = x /\ x \in answered /\ result[x] = None
    BY <1>6 DEF waitForResponse, RequestInv, SenderTold, ResponsesTold
  <2>2. QED
    BY <1>6, <2>1, ReturnEnds DEF waitForResponse, RequestInv, exchangeVars, Abstract!RRNext
<1>7. CASE takePollingResponse(x)
  <2>1. result[x] = None
    BY <1>7 DEF takePollingResponse, RequestInv, SenderTold
  <2>2. ASSUME NEW e \in Matching(Req[x].from, Req[x].rqi, "RESPONSE"),
               Return(x, IF Req[e.x].to = Req[x].to THEN e.x ELSE "failed")
        PROVE  Abstract!End(x)
    <3>1. Req[x].rqi # None
      BY RequestAssumption
    <3>2. e \in Entry /\ e \in requests /\ Req[e.x].rqi = Req[x].rqi /\ e.type = "RESPONSE"
      BY <3>1 DEF Matching, RequestInv, TypeOK
    <3>3. e.x = x /\ x \in answered
      BY <3>2 DEF Entry, Different, RequestInv, QueuesTold
    <3>4. QED
      BY <1>7, <2>1, <2>2, <3>3, ReturnEnds DEF takePollingResponse, RequestInv, exchangeVars
  <2>3. CASE Return(x, "timeout")
    BY <1>7, <2>1, <2>3, ReturnEnds DEF takePollingResponse, RequestInv, exchangeVars, Abstract!RRNext
  <2>4. QED
    BY <1>7, <2>2, <2>3 DEF takePollingResponse, Abstract!RRNext
<1>8. QED
  BY <1>1, <1>2, <1>3, <1>4, <1>5, <1>6, <1>7 DEF SendNext

LEMMA PollRefines ==
  ASSUME RequestInv, NEW p \in Poller, PollNext(p)
  PROVE  Abstract!RRNext \/ UNCHANGED Abstract!rrVars
<1>1. CASE hasPollingRequest(p)
  BY <1>1 DEF hasPollingRequest, sendVars, exchangeVars, Abstract!rrVars
<1>2. ASSUME takePollingRequest(p), NEW e \in Matching(Pch[p], None, "REQUEST"), Respond(p, {e.x})
      PROVE  Abstract!RRNext \/ UNCHANGED Abstract!rrVars
  <2>1. {e.x} \in SUBSET Exchange /\ OnTheWay(e.x)
    BY <1>2 DEF Matching, RequestInv, TypeOK, Entry, QueuesTold
  <2>2. QED
    BY <1>2, <2>1, RespondDelivers DEF takePollingRequest, Respond, sendVars
<1>3. CASE takePollingRequest(p) /\ Respond(p, taken[p])
  <2>1. taken[p] \in SUBSET Exchange /\ \A x \in taken[p] : OnTheWay(x)
    BY DEF RequestInv, TypeOK, TakenOnce
  <2>2. QED
    BY <1>3, <2>1, RespondDelivers DEF takePollingRequest, Respond, sendVars
<1>4. CASE takePollingRequest(p) /\ UNCHANGED seen
  BY <1>4 DEF takePollingRequest, sendVars, Abstract!rrVars
<1>5. QED
  BY <1>1, <1>2, <1>3, <1>4 DEF PollNext, takePollingRequest

LEMMA AnswerRefines ==
  ASSUME RequestInv, NEW x \in Exchange, x \in seen, answered' = answered \cup {x},
         UNCHANGED <<result, sent, seen>>
  PROVE  Abstract!RRNext \/ UNCHANGED Abstract!rrVars
<1>1. CASE x \in answered
  BY <1>1 DEF Abstract!rrVars
<1>2. CASE x \notin answered
  BY <1>2 DEF Abstract!Answer, Abstract!RRNext
<1>3. QED
  BY <1>1, <1>2

LEMMA NextRefines ==
  ASSUME RequestInv, Different, [Next]_vars
  PROVE  [Abstract!RRNext]_Abstract!rrVars
<1>1. ASSUME NEW x \in Exchange, handleRequest(x) \/ ExpireReq(x)
      PROVE  Abstract!RRNext \/ UNCHANGED Abstract!rrVars
  <2>1. CASE UNCHANGED result
    BY <1>1, <2>1 DEF handleRequest, ExpireReq, exchangeVars, Abstract!rrVars
  <2>2. CASE handleRequest(x) /\ result' = [result EXCEPT ![x] = "failed"]
    <3>1. result[x] = None
      BY <2>2 DEF handleRequest, RequestInv, SenderTold
    <3>2. Abstract!End(x)
      BY <2>2, <3>1, ResultEnds DEF handleRequest, RequestInv, exchangeVars
    <3>3. QED
      BY <3>2 DEF Abstract!RRNext
  <2>3. QED
    BY <1>1, <2>1, <2>2 DEF handleRequest, ExpireReq
<1>2. ASSUME NEW x \in Exchange, Arrive(x)
      PROVE  Abstract!RRNext
  <2>1. Abstract!Deliver({x})
    BY <1>2 DEF Arrive, sendVars, Abstract!Deliver
  <2>2. QED
    BY <2>1 DEF Abstract!RRNext
<1>3. ASSUME NEW x \in Exchange, addResponse(x)
      PROVE  Abstract!RRNext \/ UNCHANGED Abstract!rrVars
  BY <1>3, AnswerRefines DEF addResponse, sendVars
<1>4. ASSUME NEW n \in Notifier, NEW x \in Exchange, popOriginator(n, x)
      PROVE  Abstract!RRNext \/ UNCHANGED Abstract!rrVars
  BY <1>4, AnswerRefines DEF popOriginator, sendVars
<1>5. ASSUME NEW n \in Notifier, NotifyNext(n)
      PROVE  UNCHANGED Abstract!rrVars
  BY <1>5 DEF NotifyNext, queuePollingResponse, StartResponseUnqueuer, sendVars, exchangeVars, Abstract!rrVars
<1>6. ASSUME NEW u \in unqueuers, unqueueExpired(u)
      PROVE  UNCHANGED Abstract!rrVars
  BY <1>6 DEF unqueueExpired, sendVars, exchangeVars, Abstract!rrVars
<1>7. ASSUME NEW expired \in SUBSET requests, _cleanupPollingRequests(expired)
      PROVE  UNCHANGED Abstract!rrVars
  BY <1>7 DEF _cleanupPollingRequests, sendVars, exchangeVars, Abstract!rrVars
<1>8. CASE restart
  <2>1. {x \in Exchange : sent'[x] # "no"} = {x \in Exchange : sent[x] # "no"}
    BY <1>8 DEF restart, RequestInv, TypeOK
  <2>2. QED
    BY <1>8, <2>1 DEF restart, Abstract!rrVars
<1>9. CASE UNCHANGED vars
  BY <1>9 DEF vars, Abstract!rrVars
<1>10. QED
  BY <1>1, <1>2, <1>3, <1>4, <1>5, <1>6, <1>7, <1>8, <1>9, SendRefines, PollRefines DEF Next

\* What is forwarded is delivered at most once and answered at most once, and whoever forwarded it goes
\* on once, with its own answer or without one: the queues and the messages implement RequestResponse.
THEOREM ForwardingImplementsExchange == ASSUME Different PROVE Spec => ExchangeSpec
<1>1. Init => Abstract!RRInit
  BY RequestAssumption DEF Init, Abstract!RRInit
<1>2. RequestInv /\ [Next]_vars => [Abstract!RRNext]_Abstract!rrVars
  BY NextRefines
<1>3. QED
  BY <1>1, <1>2, RequestsTold, PTL DEF Spec, ExchangeSpec, Abstract!RRSpec

=============================================================================
