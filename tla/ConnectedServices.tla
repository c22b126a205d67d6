------------------------- MODULE ConnectedServices -------------------------
(* The services that connect the CSE with others: the notifications of subscriptions, announcements, groups, *)
(* the members of which may be elsewhere, and web sockets. They share no state.                              *)
EXTENDS Subscription

CONSTANTS
  Csi, MaxId,
  Resource, Group, Sub,
  Peer, WS, Sender, MaxMessage

VARIABLES
  present, at, announcedTo, remote, ids, targets, reliable, instance,
  there, group, job, groupUpdate, fopt, groupUpdates, overlapGroup,
  wsConnections, associatedConnections, connectionUsedCounter, open, peer, loop, knownPeer, oldConnection,
  message, messageJobs, handled, deletedConnections, requester, overlapSockets

announcementVars == <<present, at, announcedTo, remote, ids, targets, reliable, instance>>
groupVars == <<there, group, job, groupUpdate, fopt, groupUpdates, overlapGroup>>
socketVars == <<wsConnections, associatedConnections, connectionUsedCounter, open, peer, loop, knownPeer,
                oldConnection, message, messageJobs, handled, deletedConnections, requester, overlapSockets>>

Announcements == INSTANCE AnnouncementManager WITH there <- present
Groups == INSTANCE GroupManager WITH request <- groupUpdate, updates <- groupUpdates, overlap <- overlapGroup
Sockets == INSTANCE WebSocketServer WITH known <- knownPeer, old <- oldConnection, jobs <- messageJobs,
                                         deleted <- deletedConnections,
                                         overlap <- overlapSockets, Overlap <- BOOLEAN

ASSUME ConnectedAssumption ==
  SubscriptionAssumption /\ Groups!GroupAssumption /\ Sockets!SocketAssumption
  /\ Announcements!AnnouncementAssumption
=============================================================================
