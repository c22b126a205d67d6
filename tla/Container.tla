----------------------------- MODULE Container ------------------------------
(***************************************************************************)
(* A <container> and its <contentInstance>s: resources/CNT.py,             *)
(* ContainerResource.py and CIN.py, as Dispatcher drives them.  A request  *)
(* works on an object of its own that holds ALL attributes of the          *)
(* container as they were when it was read, and every dbUpdate() writes    *)
(* all of them back.                                                       *)
(*                                                                         *)
(* Instances are numbered in the order of their creation time ct.          *)
(***************************************************************************)
EXTENDS Integers, FiniteSets, FiniteSetsExt

CONSTANTS
  Thread,     \* threads that process requests
  Cin,        \* instances 1..n: bound on the number of creations
  Size,       \* [Cin -> Nat \ {0}]   contentSize cs
  Mni,        \* the values of maxNrOfInstances that are set, with or without None
  Mbs,        \* maxByteSize, or None
  None,       \* an attribute that is not set
  Op,         \* the requests that are made, a subset of {"create", "delete", "update"}
  OverlapOp,  \* those of them that may overlap in time
  Overlap,    \* the values of overlap
  MaxSt       \* bound on the stateTag: no UPDATE request beyond it

VARIABLES
  cnt,      \* the attributes of the container in the database
  stored,   \* the instances in the resources table
  listed,   \* the instances in the ch list of the container
  last,     \* the instance created last
  thread,   \* what each thread is doing, to which instance, with which object
  overlap   \* whether requests to the container overlap in time; never changes

vars == <<cnt, stored, listed, last, thread, overlap>>

Attributes == [cni : Int, cbs : Int, st : Nat, mni : Mni]
Pc == {"insert", "link", "activate", "reload", "tag", "store", "reloadParent", "added",
       "list", "fetch", "evict", "unlink", "write", "rewrite", "updated", "remove", "removeLink", "removed"}
Idle == [pc |-> "idle"]

State == [op : Op, pc : Pc, cin : Cin \union {0}, obj : Attributes, cins : SUBSET Cin]

\* What is assumed of the constants.
ContainerAssumption ==
  /\ IsFiniteSet(Cin) /\ Cin = 1..Cardinality(Cin)
  /\ Size \in [Cin -> Nat]
  /\ Mni \subseteq Nat \union {None} /\ Mbs \in Nat \union {None} /\ None \notin Int
  /\ Op \subseteq {"create", "delete", "update"} /\ OverlapOp \subseteq Op /\ MaxSt \in Nat /\ Overlap \subseteq BOOLEAN

TypeOK ==
  /\ cnt \in Attributes
  /\ stored \subseteq Cin /\ listed \subseteq Cin
  /\ last \in Cin \union {0}
  /\ thread \in [Thread -> {Idle} \union State]
  /\ overlap \in BOOLEAN

Bytes(S) == MapThenSumSet(LAMBDA c : Size[c], S)

\* The limits that make _validateChildren remove an instance.
Exceeds(obj, S) ==
  \/ obj.mni # None /\ Cardinality(S) > obj.mni
  \/ Mbs # None /\ Bytes(S) > Mbs

Limited(obj) == obj.mni # None \/ Mbs # None
-----------------------------------------------------------------------------
At(t, pc) == thread[t].pc = pc

Goto(t, pc) == thread' = [thread EXCEPT ![t].pc = pc]

\* The request ends, with its response or with an exception.
Finish(t) == thread' = [thread EXCEPT ![t] = Idle]

MayStart(t, op) ==
  /\ op \in IF overlap THEN OverlapOp ELSE Op
  /\ thread[t] = Idle
  /\ overlap \/ \A u \in Thread : thread[u] = Idle

Begin(t, op, pc, c, obj) ==
  thread' = [thread EXCEPT ![t] =
               [op |-> op, pc |-> pc, cin |-> c, obj |-> obj, cins |-> {}]]

\* dbUpdate() of the object of thread t, with some attributes changed.
Write(t, obj) == cnt' = obj
-----------------------------------------------------------------------------
(***************************************************************************)
(* CREATE of an instance.                                                  *)
(***************************************************************************)
childWillBeAdded(t) ==
  /\ MayStart(t, "create")
  /\ last + 1 \in Cin
  /\ Mbs # None => Size[last + 1] <= Mbs
  /\ last' = last + 1
  /\ Begin(t, "create", "insert", last + 1, cnt)
  /\ UNCHANGED <<cnt, stored, listed>>

createResource(t) ==
  \/ /\ At(t, "insert")
     /\ stored' = stored \union {thread[t].cin}
     /\ Goto(t, "link")
     /\ UNCHANGED <<cnt, listed, last>>
  \/ /\ At(t, "link")
     /\ listed' = listed \union {thread[t].cin}
     /\ Goto(t, "activate")
     /\ UNCHANGED <<cnt, stored, last>>

\* The instance is written again, in Resource.activate and then in
\* createLocalResource.  If it is gone by then the request fails.
updateResource(t) ==
  /\ At(t, "activate") \/ At(t, "store")
  /\ IF thread[t].cin \in stored
     THEN Goto(t, IF At(t, "activate") THEN "reload" ELSE "reloadParent")
     ELSE Finish(t)
  /\ UNCHANGED <<cnt, stored, listed, last>>

\* CIN.activate and createLocalResource read the container again.
dbReload(t) ==
  /\ At(t, "reload") \/ At(t, "reloadParent")
  /\ thread' = [thread EXCEPT ![t].obj = cnt,
                              ![t].pc = IF At(t, "reload") THEN "tag" ELSE "added"]
  /\ UNCHANGED <<cnt, stored, listed, last>>

\* CIN.activate increments the stateTag of the container.
activate(t) ==
  /\ At(t, "tag")
  /\ Write(t, [thread[t].obj EXCEPT !.st = @ + 1])
  /\ Goto(t, "store")
  /\ UNCHANGED <<stored, listed, last>>

\* childAdded: instanceAdded, and then validate.
instanceAdded(t) ==
  LET obj == [thread[t].obj EXCEPT !.cni = @ + 1, !.cbs = @ + Size[thread[t].cin]] IN
  /\ At(t, "added")
  /\ Write(t, obj)
  /\ thread' = [thread EXCEPT ![t].obj = obj, ![t].pc = IF Limited(obj) THEN "list" ELSE "rewrite"]
  /\ UNCHANGED <<stored, listed, last>>
-----------------------------------------------------------------------------
(***************************************************************************)
(* _validateChildren: the instances are listed, the oldest of them are     *)
(* removed, and the attributes are set from what is left of the list.      *)
(***************************************************************************)
directChildResources(t) ==
  \/ /\ At(t, "list")
     /\ thread' = [thread EXCEPT ![t].cins = listed, ![t].pc = "fetch"]
     /\ UNCHANGED <<cnt, stored, listed, last>>
  \/ /\ At(t, "fetch")     \* IndexError if one of them is not stored
     /\ IF thread[t].cins \subseteq stored THEN Goto(t, "evict") ELSE Finish(t)
     /\ UNCHANGED <<cnt, stored, listed, last>>

\* Mutant: the list is sorted the wrong way round.
Newest(t) == Max(thread[t].cins)

Oldest(t) == Min(thread[t].cins)

\* deleteLocalResource of the oldest instance.  One that another request has
\* removed (NOT_FOUND) counts as removed.
Drop(t) == thread[t].cins \ {Oldest(t)}

_validateChildren(t) ==
  \/ /\ At(t, "evict") /\ Exceeds(thread[t].obj, thread[t].cins)
     /\ stored' = stored \ {Oldest(t)}
     /\ thread' = IF Oldest(t) \in stored
                  THEN [thread EXCEPT ![t].pc = "unlink"]
                  ELSE [thread EXCEPT ![t].cins = Drop(t)]
     /\ UNCHANGED <<cnt, listed, last>>
  \/ /\ At(t, "unlink")
     /\ listed' = listed \ {Oldest(t)}
     /\ thread' = [thread EXCEPT ![t].cins = Drop(t), ![t].pc = "evict"]
     /\ UNCHANGED <<cnt, stored, last>>
  \/ /\ At(t, "evict") /\ ~Exceeds(thread[t].obj, thread[t].cins)
     /\ thread' = [thread EXCEPT ![t].pc = "write",
                                 ![t].obj.cni = Cardinality(thread[t].cins),
                                 ![t].obj.cbs = Bytes(thread[t].cins)]
     /\ UNCHANGED <<cnt, stored, listed, last>>
  \/ /\ At(t, "write")
     /\ Write(t, thread[t].obj)
     /\ IF thread[t].op = "update" THEN Goto(t, "rewrite") ELSE Finish(t)
     /\ UNCHANGED <<stored, listed, last>>

\* The object that was just written is written once more: by _validateChildren
\* of a container without limits, by Resource.update and by childRemoved.
dbUpdate(t) ==
  /\ At(t, "rewrite")
  /\ Write(t, thread[t].obj)
  /\ IF thread[t].op = "update" THEN Goto(t, "updated") ELSE Finish(t)
  /\ UNCHANGED <<stored, listed, last>>
-----------------------------------------------------------------------------
\* UPDATE of maxNrOfInstances.
processUpdateRequest(t, m) ==
  LET obj == [cnt EXCEPT !.mni = m] IN
  /\ MayStart(t, "update")
  /\ cnt.st < MaxSt
  /\ Begin(t, "update", IF Limited(obj) THEN "list" ELSE "write", 0, obj)
  /\ UNCHANGED <<cnt, stored, listed, last>>

\* CNT.update increments the stateTag, updateLocalResource writes it.
update(t) ==
  /\ At(t, "updated")
  /\ Write(t, [thread[t].obj EXCEPT !.st = @ + 1])
  /\ Finish(t)
  /\ UNCHANGED <<stored, listed, last>>
-----------------------------------------------------------------------------
\* DELETE of an instance, by a request, at its expiration, or when a RETRIEVE
\* counts its dcnt down to 0.
deleteLocalResource(t, c) ==
  /\ MayStart(t, "delete")
  /\ c \in stored
  /\ Begin(t, "delete", "remove", c, cnt)
  /\ UNCHANGED <<cnt, stored, listed, last>>

deleteResource(t) ==
  \/ /\ At(t, "remove")
     /\ stored' = stored \ {thread[t].cin}
     /\ Goto(t, IF thread[t].cin \in stored THEN "removeLink" ELSE "removed")
     /\ UNCHANGED <<cnt, listed, last>>
  \/ /\ At(t, "removeLink")
     /\ listed' = listed \ {thread[t].cin}
     /\ Goto(t, "removed")
     /\ UNCHANGED <<cnt, stored, last>>

\* Mutant: the size of the instance is not subtracted.
instanceRemovedNumber(t) ==
  LET obj == [thread[t].obj EXCEPT !.cni = @ - 1] IN
  /\ At(t, "removed")
  /\ Write(t, obj)
  /\ thread' = [thread EXCEPT ![t].obj = obj, ![t].pc = "rewrite"]
  /\ UNCHANGED <<stored, listed, last>>

\* childRemoved, of the object that was read before the removal.
instanceRemoved(t) ==
  LET obj == [thread[t].obj EXCEPT !.cni = @ - 1, !.cbs = @ - Size[thread[t].cin]] IN
  /\ At(t, "removed")
  /\ Write(t, obj)
  /\ thread' = [thread EXCEPT ![t].obj = obj, ![t].pc = "rewrite"]
  /\ UNCHANGED <<stored, listed, last>>
-----------------------------------------------------------------------------
Init ==
  /\ cnt \in [cni : {0}, cbs : {0}, st : {0}, mni : Mni]
  /\ stored = {} /\ listed = {} /\ last = 0
  /\ thread = [t \in Thread |-> Idle]
  /\ overlap \in Overlap

Step(t) ==
  \/ createResource(t) \/ updateResource(t) \/ dbReload(t) \/ activate(t)
  \/ instanceAdded(t) \/ directChildResources(t) \/ _validateChildren(t)
  \/ dbUpdate(t) \/ update(t) \/ deleteResource(t) \/ instanceRemoved(t)

Next ==
  /\ \E t \in Thread :
       \/ Step(t)
       \/ childWillBeAdded(t)
       \/ \E m \in Mni : processUpdateRequest(t, m)
       \/ \E c \in stored : deleteLocalResource(t, c)
  /\ UNCHANGED overlap

Spec == Init /\ [][Next]_vars
-----------------------------------------------------------------------------
AtRest == ~overlap /\ \A t \in Thread : thread[t] = Idle

\* When requests come one after the other: between them currentNrOfInstances and currentByteSize are the number
\* and the size of the instances, the two tables agree on them, and they are within the limits.
CountsExact ==
  AtRest => /\ listed = stored /\ cnt.cni = Cardinality(stored) /\ cnt.cbs = Bytes(stored)
            /\ cnt.mni # None => Cardinality(stored) <= cnt.mni
            /\ Mbs # None => Bytes(stored) <= Mbs

\* _validateChildren removes an instance only when it and the instances
\* created after it exceed a limit: what is newest is never lost, even when
\* several requests remove instances from lists that are out of date.
NewestKept ==
  [][\A t \in Thread, c \in Cin :
       At(t, "evict") /\ c \in stored \ stored' /\ thread'[t] # thread[t] =>
         \/ thread[t].obj.mni # None /\ Cardinality(c..last) > thread[t].obj.mni
         \/ Mbs # None /\ Bytes(c..last) > Mbs]_vars

\* Nothing written back to the container undoes a newer change, when requests
\* come one after the other: the stateTag never decreases, and a maxNrOfInstances that was set stays until an UPDATE
\* request changes it.
NoStaleWrite ==
  [][~overlap =>
     /\ cnt'.st >= cnt.st
     /\ cnt'.mni # cnt.mni =>
          \E t \in Thread : thread[t] # thread'[t] /\ thread[t].op = "update"]_vars
=============================================================================
