--------------------------- MODULE WebSocketServer ---------------------------
(***************************************************************************)
(* WebSocket connections: those that peers open, each with a thread that   *)
(* receives its messages, and temporary ones that a request to a peer      *)
(* opens. A table says which connection leads to which peer.               *)
(***************************************************************************)
EXTENDS Naturals, FiniteSets

CONSTANTS
  Peer,
  WS,        \* connections, each used once
  Sender,    \* threads that send a request to a peer
  MaxMessage,\* most messages on a connection
  Overlap,   \* values of overlap
  None

SocketAssumption == MaxMessage \in Nat /\ Overlap \subseteq BOOLEAN /\ None \notin Peer \cup WS

VARIABLES
  wsConnections, associatedConnections, connectionUsedCounter,
  open,      \* connections whose socket is open
  peer,      \* the peer at the other end
  loop,      \* the receive loop of a connection
  known,     \* connections whose loop knows the peer: from a header, or because the CSE opened it
  old,       \* the connection that is being closed in favour of a new one
  message,   \* the variable "message" of a receive loop
  jobs,      \* its jobs that have not read that variable yet
  handled,   \* how often each message is handled
  deleted,   \* connections whose AE has been deleted
  requester,    \* sendWSRequest()
  overlap    \* whether peers reconnect, and requests meet, at any time, never changes

wsVars == <<wsConnections, associatedConnections, connectionUsedCounter, open, peer, loop, known, old,
            message, jobs, handled, deleted, requester, overlap>>
tables == <<wsConnections, associatedConnections, connectionUsedCounter>>
messages == <<message, jobs, handled, deleted>>

Idle == [pc |-> "idle", to |-> None, ws |-> None, isSenderWS |-> FALSE, again |-> FALSE]

TypeOK ==
  /\ wsConnections \subseteq WS /\ open \subseteq WS /\ known \subseteq WS /\ deleted \subseteq WS
  /\ associatedConnections \in [Peer -> WS \cup {None}]
  /\ connectionUsedCounter \in [WS -> Nat \cup {None}]
  /\ peer \in [WS -> Peer \cup {None}] /\ old \in [WS -> WS \cup {None}]
  /\ loop \in [WS -> {"unused", "accepted", "added", "closing", "receiving", "cse", "ended"}]
  /\ message \in [WS -> 0..MaxMessage] /\ jobs \in [WS -> 0..MaxMessage]
  /\ handled \in [WS -> [1..MaxMessage -> 0..MaxMessage]]
  /\ \A s \in Sender : requester[s].pc \in {"idle", "connect", "added", "closing", "send", "wait"}
  /\ overlap \in BOOLEAN

Init ==
  /\ wsConnections = {} /\ open = {} /\ known = {} /\ deleted = {}
  /\ associatedConnections = [p \in Peer |-> None]
  /\ connectionUsedCounter = [c \in WS |-> None]
  /\ peer = [c \in WS |-> None] /\ old = [c \in WS |-> None]
  /\ loop = [c \in WS |-> "unused"]
  /\ message = [c \in WS |-> 0] /\ jobs = [c \in WS |-> 0]
  /\ handled = [c \in WS |-> [m \in 1..MaxMessage |-> 0]]
  /\ requester = [s \in Sender |-> Idle]
  /\ overlap \in Overlap

-----------------------------------------------------------------------------
(* The tables.                                                             *)

\* The connection goes, and whatever connection the originator has.
removeConnection(c, p) ==
  /\ wsConnections' = wsConnections \ {c}
  /\ associatedConnections' = IF p = None THEN associatedConnections
                                          ELSE [associatedConnections EXCEPT ![p] = None]

\* Connection c of the CSE is used by other requests than the one that gives it up.
StillUsed(c) == connectionUsedCounter[c] # None /\ connectionUsedCounter[c] > 1

\* The counter of c when a request gives it up.
Decremented(c) ==
  [connectionUsedCounter EXCEPT ![c] = IF @ = None \/ @ = 1 THEN None ELSE @ - 1]

\* closeConnectionForOriginator(p) without the wait for the peer to close, too.
closeConnection(p) ==
  LET c == associatedConnections[p] IN
    IF c = None THEN UNCHANGED <<tables, open>>
    ELSE /\ connectionUsedCounter' = Decremented(c)
         /\ IF StillUsed(c) THEN UNCHANGED <<wsConnections, associatedConnections, open>>
            ELSE open' = open \ {c} /\ removeConnection(c, p)

\* associateConnectionWithOriginator(c, p) as far as the other connection is closed; Then and Else say
\* whether there is more to do.
closeFirst(c, p, Then, Else) ==
  LET first == associatedConnections[p] IN
    IF first \in {None, c} \/ StillUsed(first) \/ first \notin wsConnections
    THEN /\ associatedConnections' = [associatedConnections EXCEPT ![p] = c]
         /\ connectionUsedCounter' = IF first \in {None, c} THEN connectionUsedCounter ELSE Decremented(first)
         /\ UNCHANGED <<wsConnections, open, old>> /\ Else
    ELSE /\ open' = open \ {first} /\ old' = [old EXCEPT ![c] = first]
         /\ connectionUsedCounter' = Decremented(first)
         /\ UNCHANGED <<wsConnections, associatedConnections>> /\ Then

\* The rest of it: the first connection is closed, and removed.
associate(c, p) ==
  /\ wsConnections' = wsConnections \ {old[c]}
  /\ associatedConnections' = [associatedConnections EXCEPT ![p] = c]
  /\ old' = [old EXCEPT ![c] = None]

-----------------------------------------------------------------------------
(* Connections that a peer opens: handleIncomingConnection().              *)

\* Connections of p that are not finished, and requests to it.
Busy(p) ==
  \/ \E c \in WS : peer[c] = p /\ (loop[c] \notin {"unused", "ended"} \/ jobs[c] > 0)
  \/ \E s \in Sender : requester[s].to = p

\* A peer connects, with its name in a header or not.
accept(c, p) ==
  /\ loop[c] = "unused" /\ (overlap \/ ~Busy(p))
  /\ loop' = [loop EXCEPT ![c] = "accepted"] /\ open' = open \cup {c}
  /\ peer' = [peer EXCEPT ![c] = p]
  /\ known' \in {known, known \cup {c}}
  /\ UNCHANGED <<tables, old, messages, requester, overlap>>

addConnection(c) ==
  /\ loop[c] = "accepted"
  /\ wsConnections' = wsConnections \cup {c}
  /\ loop' = [loop EXCEPT ![c] = IF c \in known THEN "added" ELSE "receiving"]
  /\ UNCHANGED <<associatedConnections, connectionUsedCounter, open, peer, known, old, messages, requester,
                 overlap>>

associateIncoming(c) ==
  /\ \/ /\ loop[c] = "added"
        /\ closeFirst(c, peer[c], loop' = [loop EXCEPT ![c] = "closing"], loop' = [loop EXCEPT ![c] = "receiving"])
     \/ /\ loop[c] = "closing"
        /\ associate(c, peer[c]) /\ loop' = [loop EXCEPT ![c] = "receiving"]
        /\ UNCHANGED <<connectionUsedCounter, open>>
  /\ UNCHANGED <<peer, known, messages, requester, overlap>>

\* A message: a job will handle it. It gets the variable, and not its value.
receive(c) ==
  /\ loop[c] \in {"receiving", "cse"} /\ c \in open /\ message[c] < MaxMessage
  /\ message' = [message EXCEPT ![c] = @ + 1]
  /\ jobs' = [jobs EXCEPT ![c] = @ + 1]
  /\ UNCHANGED <<tables, open, peer, loop, known, old, handled, deleted, requester, overlap>>

\* The job reads the variable. Without a header the first message registers an AE, whose connection it is from
\* now on, though the receive loop does not know; an AE that is registered has no other connection.
_handleReceivedMessage(c) ==
  /\ jobs[c] > 0
  /\ jobs' = [jobs EXCEPT ![c] = @ - 1]
  /\ handled' = [handled EXCEPT ![c][message[c]] = @ + 1]
  /\ associatedConnections' = IF c \notin known /\ message[c] = 1
                              THEN [associatedConnections EXCEPT ![peer[c]] = c] ELSE associatedConnections
  /\ UNCHANGED <<wsConnections, connectionUsedCounter, open, peer, loop, known, old, message, deleted,
                 requester, overlap>>

\* The peer closes. Without overlap it does not while it is sent a request, and an AE without a header is
\* deleted before.
closeByPeer(c) ==
  /\ c \in open
  /\ \/ overlap
     \/ /\ jobs[c] = 0 /\ (c \in known \cup deleted \/ message[c] = 0)
        /\ \A s \in Sender : requester[s].to = peer[c] => requester[s].pc = "wait"
  /\ open' = open \ {c}
  /\ UNCHANGED <<tables, peer, loop, known, old, messages, requester, overlap>>

\* recv() says that the connection is closed. The loop of a connection of the CSE removes nothing.
leave(c) ==
  /\ loop[c] \in {"receiving", "cse"} /\ c \notin open
  /\ loop' = [loop EXCEPT ![c] = "ended"]
  /\ IF loop[c] = "cse" THEN UNCHANGED <<wsConnections, associatedConnections>>
     ELSE removeConnection(c, IF c \in known THEN peer[c] ELSE None)
  /\ UNCHANGED <<connectionUsedCounter, open, peer, known, old, messages, requester, overlap>>

\* The AE is deleted: its connection stays open.
_handleDeleteEvent(p) ==
  /\ associatedConnections[p] # None /\ (overlap \/ \A s \in Sender : requester[s].to # p)
  /\ associatedConnections' = [associatedConnections EXCEPT ![p] = None]
  /\ deleted' = deleted \cup {associatedConnections[p]}
  /\ UNCHANGED <<wsConnections, connectionUsedCounter, open, peer, loop, known, old, message, jobs, handled,
                 requester, overlap>>

-----------------------------------------------------------------------------
(* Requests to a peer: sendWSRequest().                                    *)

become(s, r) == requester' = [requester EXCEPT ![s] = r]

\* Without overlap there is one request to a peer at a time, and the peer's own connection, if there is one, is
\* established and not about to close.
Quiet(p) ==
  /\ \A s \in Sender : requester[s].to # p
  /\ \A c \in WS : peer[c] = p /\ loop[c] \notin {"unused", "ended"} =>
       loop[c] = "receiving" /\ c \in open /\ associatedConnections[p] = c

sendWSRequest(s, p) ==
  /\ requester[s].pc = "idle" /\ (overlap \/ Quiet(p))
  /\ become(s, [Idle EXCEPT !.pc = "connect", !.to = p])
  /\ UNCHANGED <<tables, open, peer, loop, known, old, messages, overlap>>

\* There is an association: its connection is used, and the request fails when that is not known any more.
connectEstablished(s) ==
  LET c == associatedConnections[requester[s].to] IN
    /\ requester[s].pc = "connect" /\ c # None
    /\ IF c \in wsConnections
       THEN /\ become(s, [requester[s] EXCEPT !.pc = "send", !.ws = c])
            /\ connectionUsedCounter' = [connectionUsedCounter EXCEPT ![c] = IF @ = None THEN None ELSE @ + 1]
       ELSE become(s, Idle) /\ UNCHANGED connectionUsedCounter
    /\ UNCHANGED <<wsConnections, associatedConnections, open, peer, loop, known, old, messages, overlap>>

\* There is none: connect to the peer, unless it has no address or does not answer.
connectTemporary(s) ==
  /\ requester[s].pc = "connect" /\ associatedConnections[requester[s].to] = None
  /\ \/ \E c \in WS :
          /\ loop[c] = "unused"
          /\ open' = open \cup {c} /\ wsConnections' = wsConnections \cup {c}
          /\ connectionUsedCounter' = [connectionUsedCounter EXCEPT ![c] = 1]
          /\ peer' = [peer EXCEPT ![c] = requester[s].to] /\ known' = known \cup {c}
          /\ loop' = [loop EXCEPT ![c] = "cse"]
          /\ become(s, [requester[s] EXCEPT !.pc = "added", !.ws = c])
     \/ become(s, Idle) /\ UNCHANGED <<wsConnections, connectionUsedCounter, open, peer, loop, known>>
  /\ UNCHANGED <<associatedConnections, old, messages, overlap>>

associateTemporary(s) ==
  LET c == requester[s].ws
      closing == become(s, [requester[s] EXCEPT !.pc = "closing"])
      sends == become(s, [requester[s] EXCEPT !.pc = "send", !.isSenderWS = TRUE])
  IN /\ \/ requester[s].pc = "added" /\ closeFirst(c, requester[s].to, closing, sends)
        \/ /\ requester[s].pc = "closing" /\ associate(c, requester[s].to) /\ sends
           /\ UNCHANGED <<connectionUsedCounter, open>>
     /\ UNCHANGED <<peer, loop, known, messages, overlap>>

\* The request is sent; on a connection that has been closed the requester tries once more.
send(s) ==
  /\ requester[s].pc = "send"
  /\ IF requester[s].ws \in open
     THEN /\ become(s, [requester[s] EXCEPT !.pc = "wait"])
          /\ UNCHANGED <<wsConnections, associatedConnections>>
     ELSE IF requester[s].again
     THEN become(s, Idle) /\ UNCHANGED <<wsConnections, associatedConnections>>
     ELSE /\ removeConnection(requester[s].ws, requester[s].to)
          /\ become(s, [Idle EXCEPT !.pc = "connect", !.to = requester[s].to, !.again = TRUE])
  /\ UNCHANGED <<connectionUsedCounter, open, peer, loop, known, old, messages, overlap>>

\* Mutant of disconnectWS: a connection is left open after a response.
disconnectWSLeaves(s) ==
  /\ requester[s].pc = "wait"
  /\ become(s, Idle)
  /\ UNCHANGED <<tables, open, peer, loop, known, old, messages, overlap>>

\* The response is there, or does not come in time: whoever opened the connection closes it.
disconnectWS(s) ==
  /\ requester[s].pc = "wait"
  /\ IF requester[s].isSenderWS THEN closeConnection(requester[s].to) ELSE UNCHANGED <<tables, open>>
  /\ become(s, Idle)
  /\ UNCHANGED <<peer, loop, known, old, messages, overlap>>

-----------------------------------------------------------------------------
Next ==
  \/ \E c \in WS : \/ \E p \in Peer : accept(c, p)
                  \/ addConnection(c) \/ associateIncoming(c) \/ receive(c) \/ _handleReceivedMessage(c)
                  \/ closeByPeer(c) \/ leave(c)
  \/ \E p \in Peer : _handleDeleteEvent(p)
  \/ \E s \in Sender : \/ \E p \in Peer : sendWSRequest(s, p)
                      \/ connectEstablished(s) \/ connectTemporary(s) \/ associateTemporary(s)
                      \/ send(s) \/ disconnectWS(s)

Spec == Init /\ [][Next]_wsVars

-----------------------------------------------------------------------------
\* Nothing is being done for p.
AtRest(p) ==
  /\ \A s \in Sender : requester[s].to # p
  /\ \A c \in WS : peer[c] = p =>
       jobs[c] = 0 /\ (loop[c] = "ended" \/ (loop[c] \in {"receiving", "cse"} /\ c \in open))

\* At rest a peer is associated with an open connection that the server knows, if it has one that the CSE could
\* use, and no temporary connection is open: when peers reconnect, and requests come, one after the other.
ConnectionsMatch ==
  ~overlap => \A p \in Peer : AtRest(p) =>
    /\ associatedConnections[p] # None => associatedConnections[p] \in open \cap wsConnections
    /\ \A c \in (open \cap known) \ deleted : peer[c] = p => associatedConnections[p] = c
    /\ \A c \in open : peer[c] = p => loop[c] # "cse"

\* "Handle incoming requests in separate threads as long as there is no error or the server is stopped or the
\* client closes the connection" (protocols/WebSocketServer.py:425): no message is handled twice, and thus
\* none is lost.
HandledOnce == \A c \in WS, m \in 1..MaxMessage : handled[c][m] <= 1
=============================================================================
