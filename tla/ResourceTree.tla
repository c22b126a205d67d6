---------------------------- MODULE ResourceTree ----------------------------
(***************************************************************************)
(* Creating and deleting resources: Dispatcher.createLocalResource and     *)
(* deleteLocalResource on the four tables that Storage keeps about the     *)
(* resource tree.  A request runs in a thread of its own (an HTTP, MQTT or *)
(* WebSocket request, or the expiration monitor).  Each table has a lock;  *)
(* no lock spans two tables, so a request is a sequence of steps, one per  *)
(* critical section, and other requests interleave between any two.        *)
(*                                                                         *)
(* A resource is a resource ID; where it stands in the tree, its           *)
(* structured name, is an element of the constant tree Srn.                *)
(***************************************************************************)
EXTENDS Naturals, Sequences

CONSTANTS
  Thread,    \* threads that process requests
  Ri,        \* resource IDs
  Srn,       \* structured resource names (paths)
  Root,      \* the path of the CSEBase
  CseRi,     \* the resource ID of the CSEBase
  None,      \* no resource ID
  Parent,    \* [Srn \ {Root} -> Srn]    the path above a path
  Below,     \* [Srn -> SUBSET Srn]      the paths from a path downwards
  Isolated   \* whether requests that overlap in time are about unrelated
             \* paths, as when there is one client, or clients own subtrees

\* What is assumed of the paths.
TreeAssumption ==
  /\ Root \in Srn /\ CseRi \in Ri /\ None \notin Ri
  /\ Parent \in [Srn \ {Root} -> Srn]
  /\ Below \in [Srn -> SUBSET Srn]
  /\ \A a, s \in Srn : s \in Below[a] => Below[s] \subseteq Below[a]
  /\ \A a, b, s \in Srn : s \in Below[a] \intersect Below[b] => a \in Below[b] \/ b \in Below[a]
  /\ \A a \in Srn : \A s \in Srn \ {Root} : s \in Below[a] <=> s = a \/ Parent[s] \in Below[a]
  /\ \A s \in Srn \ {Root} : Parent[s] \notin Below[s]
  /\ \A a \in Srn : Root \in Below[a] <=> a = Root
  /\ Isolated \in BOOLEAN

VARIABLES
  stored,      \* resources table: the IDs of the resources in it
  info,        \* attributes of a resource that never change: pi and srn
  identifiers, \* identifiers table
  structured,  \* structuredIDs table, srn -> ri
  linked,      \* childResources table: the IDs that have a record
  ch,          \* childResources table: the ch list of a record
  thread       \* what each thread is doing

tables == <<stored, info, identifiers, structured, linked, ch>>
vars == <<stored, info, identifiers, structured, linked, ch, thread>>

(***************************************************************************)
(* A thread is at step pc of a create or of a delete.  The stack holds the *)
(* resources being deleted, the one that is being removed now at its top,  *)
(* each with the children that are still to be deleted.                    *)
(***************************************************************************)
Frame == [ri : Ri, todo : SUBSET Ri]
Idle == [mode |-> "idle", pc |-> "idle", stack |-> <<>>]
CreatePc == {"insert", "identify", "structure", "link", "activate", "update", "reload"}
DeletePc == {"check", "list", "children"}
RemovePc == {"remove", "unidentify", "unstructure", "unlink"}
Request == [mode : {"create", "delete"}, pc : CreatePc \union DeletePc \union RemovePc, stack : Seq(Frame)]

TypeOK ==
  /\ stored \in SUBSET Ri
  /\ info \in [Ri -> [pi : Ri, srn : Srn]]
  /\ identifiers \in SUBSET Ri
  /\ structured \in [Srn -> Ri \union {None}]
  /\ linked \in SUBSET Ri
  /\ ch \in [Ri -> SUBSET Ri]
  /\ thread \in [Thread -> Request \union {Idle}]
  /\ \A t \in Thread : thread[t] # Idle => thread[t].stack # <<>>
-----------------------------------------------------------------------------
Top(t) == Head(thread[t].stack)
Current(t) == Top(t).ri

At(t, pc) == thread[t].pc = pc

Goto(t, pc) == thread' = [thread EXCEPT ![t].pc = pc]

\* The request ends, normally or with an exception.
Finish(t) == thread' = [thread EXCEPT ![t] = Idle]

Running(t) == thread[t] # Idle

\* The resource a request was made for is at the bottom of its stack.
Target(t) == thread[t].stack[Len(thread[t].stack)].ri

Unrelated(a, b) == a \notin Below[b] /\ b \notin Below[a]

MayStart(s) ==
  Isolated => \A t \in Thread : Running(t) => Unrelated(s, info[Target(t)].srn)

\* searchIdentifiers(srn) and then hasResource(ri)
HasResource(s) == structured[s] # None /\ structured[s] \in identifiers \intersect stored

\* A resource ID that is in no table and that no request uses.
Unused(r) ==
  /\ r \notin stored \union identifiers \union linked
  /\ \A s \in Srn : structured[s] # r
  /\ \A p \in linked : r \notin ch[p]
  /\ \A q \in stored : info[q].pi # r
  /\ \A t \in Thread : \A i \in DOMAIN thread[t].stack :
       /\ r \notin {thread[t].stack[i].ri, info[thread[t].stack[i].ri].pi}
       /\ r \notin thread[t].stack[i].todo

Init ==
  /\ stored = {CseRi} /\ identifiers = {CseRi} /\ linked = {CseRi}
  /\ info = [r \in Ri |-> [pi |-> CseRi, srn |-> Root]]
  /\ structured = [s \in Srn |-> IF s = Root THEN CseRi ELSE None]
  /\ ch = [r \in Ri |-> {}]
  /\ thread = [t \in Thread |-> Idle]
-----------------------------------------------------------------------------
(***************************************************************************)
(* CREATE.  The parent p is retrieved and the name is checked.             *)
(***************************************************************************)
processCreateRequest(t, r, p, s) ==
  /\ ~Running(t)
  /\ p \in stored /\ Parent[s] = info[p].srn
  /\ ~HasResource(s)
  /\ Unused(r)
  /\ MayStart(s)
  /\ info' = [info EXCEPT ![r] = [pi |-> p, srn |-> s]]
  /\ thread' = [thread EXCEPT ![t] = [mode |-> "create", pc |-> "insert",
                                      stack |-> <<[ri |-> r, todo |-> {}]>>]]
  /\ UNCHANGED <<stored, identifiers, structured, linked, ch>>

\* createLocalResource, dbCreate: the check of the name was made before.
insertResource(t) ==
  /\ At(t, "insert")
  /\ stored' = stored \union {Current(t)}
  /\ Goto(t, "identify")
  /\ UNCHANGED <<info, identifiers, structured, linked, ch>>

upsertIdentifier(t) ==
  \/ /\ At(t, "identify")
     /\ identifiers' = identifiers \union {Current(t)}
     /\ Goto(t, "structure")
     /\ UNCHANGED <<stored, info, structured, linked, ch>>
  \/ /\ At(t, "structure")
     /\ structured' = [structured EXCEPT ![info[Current(t)].srn] = Current(t)]
     /\ Goto(t, "link")
     /\ UNCHANGED <<stored, info, identifiers, linked, ch>>

\* Without a record of the parent the code subscripts None: the request fails
\* and nothing is undone.
upsertChildResource(t) ==
  LET r == Current(t)  p == info[r].pi IN
  /\ At(t, "link")
  /\ linked' = linked \union {r}
  /\ IF p \in linked
     THEN ch' = [ch EXCEPT ![r] = {}, ![p] = @ \union {r}] /\ Goto(t, "activate")
     ELSE ch' = [ch EXCEPT ![r] = {}] /\ Finish(t)
  /\ UNCHANGED <<stored, info, identifiers, structured>>

\* activate() validates the resource and writes it; a failure is undone.
activate(t) ==
  /\ At(t, "activate")
  /\ \E valid \in BOOLEAN :
       Goto(t, IF valid /\ Current(t) \in stored THEN "update" ELSE "remove")
  /\ UNCHANGED tables

dbUpdate(t) ==
  /\ At(t, "update")
  /\ Goto(t, IF Current(t) \in stored THEN "reload" ELSE "remove")
  /\ UNCHANGED tables

\* The parent is read again.  If it is gone, deleteLocalResource is called, and
\* fails at retrieveParentResource before it has removed anything.
dbReload(t) ==
  /\ At(t, "reload")
  /\ Finish(t)
  /\ UNCHANGED tables
-----------------------------------------------------------------------------
(***************************************************************************)
(* DELETE, by a request or by expirationDBMonitor.  The resource and its   *)
(* parent are retrieved.                                                   *)
(***************************************************************************)
processDeleteRequest(t, r) ==
  /\ ~Running(t)
  /\ r \in stored \ {CseRi} /\ info[r].pi \in stored
  /\ MayStart(info[r].srn)
  /\ thread' = [thread EXCEPT ![t] = [mode |-> "delete", pc |-> "check",
                                      stack |-> <<[ri |-> r, todo |-> {}]>>]]
  /\ UNCHANGED tables

\* directChildResources: a child that is listed but not stored is an IndexError.
Children(r) == IF r \in linked THEN ch[r] ELSE {}
Listable(r) == Children(r) \subseteq stored

\* The resources reached from a resource by the lists of children.
Subtree(r) ==
  {q \in Ri : \A S \in SUBSET Ri : r \in S /\ (\A p \in S : Children(p) \subseteq S) => q \in S}

\* willBeDeactivated, for the resource and everything below it.
willBeDeactivated(t) ==
  /\ At(t, "check")
  /\ IF \A r \in Subtree(Current(t)) : Listable(r)
     THEN Goto(t, "list")
     ELSE Finish(t)
  /\ UNCHANGED tables

\* deactivate: deleteChildResources lists the children first, ...
retrieveDirectChildResources(t) ==
  /\ At(t, "list")
  /\ IF Listable(Current(t))
     THEN thread' = [thread EXCEPT ![t].pc = "children",
                       ![t].stack = <<[ri |-> Current(t), todo |-> Children(Current(t))]>> \o Tail(@)]
     ELSE Finish(t)
  /\ UNCHANGED tables

\* Mutant: the resource goes before the last of its children.
deleteSomeChildResources(t) ==
  /\ At(t, "children")
  /\ \/ Goto(t, "remove")
     \/ \E c \in Top(t).todo :
          thread' = [thread EXCEPT ![t].pc = "list",
                       ![t].stack = <<[ri |-> c, todo |-> {}],
                                      [ri |-> Current(t), todo |-> Top(t).todo \ {c}]>>
                                    \o Tail(@)]
  /\ UNCHANGED tables

\* ... and deletes them one after the other.
deleteChildResources(t) ==
  /\ At(t, "children")
  /\ \/ /\ Top(t).todo = {}
        /\ Goto(t, "remove")
     \/ \E c \in Top(t).todo :
          thread' = [thread EXCEPT ![t].pc = "list",
                       ![t].stack = <<[ri |-> c, todo |-> {}],
                                      [ri |-> Current(t), todo |-> Top(t).todo \ {c}]>>
                                    \o Tail(@)]
  /\ UNCHANGED tables

\* Mutant: the request ends with the first resource that is removed.
ReturnEarly(t) == Finish(t)

\* deleteLocalResource is done with the resource at the top.
Return(t) ==
  thread' = [thread EXCEPT ![t] =
               IF thread[t].mode = "create" \/ Len(thread[t].stack) = 1
               THEN Idle
               ELSE [thread[t] EXCEPT !.pc = "children", !.stack = Tail(thread[t].stack)]]

(***************************************************************************)
(* dbDelete, for a delete and to undo a create.  A KeyError, the resource  *)
(* is not there any more, ends it and is ignored by a delete.              *)
(***************************************************************************)
deleteResource(t) ==
  /\ At(t, "remove")
  /\ stored' = stored \ {Current(t)}
  /\ IF Current(t) \in stored THEN Goto(t, "unidentify") ELSE Return(t)
  /\ UNCHANGED <<info, identifiers, structured, linked, ch>>

\* Mutant: the name stays in the structuredIDs table.
deleteOneIdentifier(t) ==
  /\ At(t, "unidentify")
  /\ identifiers' = identifiers \ {Current(t)}
  /\ IF Current(t) \in identifiers THEN Goto(t, "unlink") ELSE Return(t)
  /\ UNCHANGED <<stored, info, structured, linked, ch>>

deleteIdentifier(t) ==
  LET s == info[Current(t)].srn IN
  \/ /\ At(t, "unidentify")
     /\ identifiers' = identifiers \ {Current(t)}
     /\ IF Current(t) \in identifiers THEN Goto(t, "unstructure") ELSE Return(t)
     /\ UNCHANGED <<stored, info, structured, linked, ch>>
  \/ /\ At(t, "unstructure")
     /\ structured' = [structured EXCEPT ![s] = None]
     /\ IF structured[s] # None THEN Goto(t, "unlink") ELSE Return(t)
     /\ UNCHANGED <<stored, info, identifiers, linked, ch>>

\* Mutant: the parent keeps the child in its list.
removeRecordOnly(t) ==
  /\ At(t, "unlink")
  /\ linked' = linked \ {Current(t)}
  /\ Return(t)
  /\ UNCHANGED <<stored, info, identifiers, structured, ch>>

\* Without a record of the parent the code subscripts None again, and the
\* whole request fails.
removeChildResource(t) ==
  LET r == Current(t)  p == info[r].pi IN
  /\ At(t, "unlink")
  /\ linked' = linked \ {r}
  /\ ch' = IF r \in linked /\ p \in linked THEN [ch EXCEPT ![p] = @ \ {r}] ELSE ch
  /\ IF r \in linked /\ p \notin linked THEN Finish(t) ELSE Return(t)
  /\ UNCHANGED <<stored, info, identifiers, structured>>
-----------------------------------------------------------------------------
Step(t) ==
  \/ insertResource(t) \/ upsertIdentifier(t) \/ upsertChildResource(t)
  \/ activate(t) \/ dbUpdate(t) \/ dbReload(t)
  \/ willBeDeactivated(t) \/ retrieveDirectChildResources(t) \/ deleteChildResources(t)
  \/ deleteResource(t) \/ deleteIdentifier(t) \/ removeChildResource(t)

Next ==
  \E t \in Thread :
    \/ Step(t)
    \/ \E r \in Ri : processDeleteRequest(t, r)
    \/ \E r, p \in Ri, s \in Srn \ {Root} : processCreateRequest(t, r, p, s)

Spec == Init /\ [][Next]_vars

\* A request that was accepted is processed to its end.
FairSpec == Spec /\ \A t \in Thread : WF_vars(Step(t))
-----------------------------------------------------------------------------
\* No two resources have the same structured name.
UniqueSrn == \A r, q \in stored : info[r].srn = info[q].srn => r = q

\* No running request is about this path or a path above it.
Settled(s) == \A t \in Thread : Running(t) => s \notin Below[info[Target(t)].srn]

\* Where no request is working, the four tables tell the same tree: a resource
\* is found by its ID and by its name and listed by its parent, or it is in none
\* of them.  A create that failed has left nothing, a delete nothing behind.
TablesAgree ==
  /\ \A r \in stored : Settled(info[r].srn) =>
       /\ r \in identifiers /\ r \in linked
       /\ structured[info[r].srn] = r
       /\ r # CseRi => r \in ch[info[r].pi]
  /\ \A s \in Srn : Settled(s) /\ structured[s] # None =>
       structured[s] \in stored /\ info[structured[s]].srn = s
  /\ \A r \in identifiers \union linked : Settled(info[r].srn) => r \in stored
  /\ \A p \in linked : \A r \in ch[p] : Settled(info[r].srn) => r \in stored /\ info[r].pi = p

\* When no request is running the children of every resource can be listed.
ListingWorks ==
  (\A t \in Thread : ~Running(t)) => \A p \in stored : Listable(p)

\* A delete that was accepted ends with the resource gone.
DeleteSucceeds ==
  \A t \in Thread, r \in Ri :
    (thread[t].mode = "delete" /\ Target(t) = r) ~> r \notin stored

\* What the tables promise: a tree of names that grows and shrinks at its leaves.
Tree == INSTANCE NameTree WITH tree <- {info[r].srn : r \in stored}
TreeSpec == Tree!Spec
=============================================================================
