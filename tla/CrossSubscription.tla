--------------------------- MODULE CrossSubscription ---------------------------
(***************************************************************************)
(* Cross resource subscriptions <crs> and the subscriptions <sub> they      *)
(* depend on. A <crs> creates a <sub> under each of its regular targets     *)
(* (rrat) and enters itself into existing ones (srat). When one of these    *)
(* <sub>s is deleted it notifies its <crs>s, which delete themselves, and   *)
(* with them the <sub>s they created, which notify their <crs>s again. A    *)
(* critical section per <crs> ends the recursion.                           *)
(***************************************************************************)
EXTENDS Naturals, Sequences, FiniteSets

CONSTANTS
  Crs, Sub,   \* resource identifiers
  Rrat,       \* the <sub>s a <crs> creates
  Srat,       \* the <sub>s a <crs> enters itself into
  Thread,     \* threads that handle requests
  Overlap,    \* whether requests may overlap: a subset of BOOLEAN
  OverlapCrs, \* the <crs>s there may be when requests overlap
  None

\* <sub>s that are there before any <crs>.
External == Sub \ UNION {Rrat[c] : c \in Crs}

\* Semaphore objects. There are never more of them in use.
Semaphore == 1..(3 * Cardinality(Thread) * Cardinality(Crs))

VARIABLES
  sub,         \* stage of each <sub>, and the <crs>s in its nu and acrs attributes
  crs,         \* stage of each <crs>, its rrats, the srats it has entered, and its sudRI
  window,      \* <crs>s with a worker for their periodic window
  _semaphores, \* the semaphore stored for the section of each <crs>
  locked,      \* semaphores that are acquired
  stack,       \* what each thread does: method calls, the innermost one first
  overlap      \* whether requests overlap, never changes

resources == <<sub, crs, window>>
sections == <<_semaphores, locked>>
crossVars == <<resources, sections, stack>>
vars == <<crossVars, overlap>>

Stage == {"new", "there", "gone"}

\* A method call: the deletion of a <sub> or <crs>, or the creation of a <crs>, with its copy of the
\* resource. What a "shared" copy changes in its lists changes in the database as well (TinyDB).
Frame == [op : {"create", "crs", "sub"}, id : Crs \cup Sub, pc : STRING, rrats : SUBSET Sub,
          srats : SUBSET Sub, acrs : SUBSET Crs, sud : Sub \cup {None}, now : Sub \cup {None},
          sem : Semaphore \cup {None}, shared : BOOLEAN]

TypeOK ==
  /\ sub \in [Sub -> [stage : Stage, acrs : SUBSET Crs]]
  /\ crs \in [Crs -> [stage : Stage, rrats : SUBSET Sub, srats : SUBSET Sub, sud : Sub \cup {None}]]
  /\ window \subseteq Crs
  /\ _semaphores \in [Crs -> Semaphore \cup {None}]
  /\ locked \subseteq Semaphore
  /\ \A t \in Thread : /\ Len(stack[t]) <= 2 * Cardinality(Crs) + 1
                       /\ \A i \in DOMAIN stack[t] : stack[t][i] \in Frame
  /\ overlap \in BOOLEAN

Top(t) == Head(stack[t])
At(t, ops, pc) == stack[t] # <<>> /\ Top(t).op \in ops /\ Top(t).pc = pc

\* The method on top goes on with frame f, calls another one before, or returns.
Become(t, f) == stack' = [stack EXCEPT ![t] = <<f>> \o Tail(@)]
Goto(t, pc) == Become(t, [Top(t) EXCEPT !.pc = pc])
Call(t, f, callee) == stack' = [stack EXCEPT ![t] = <<callee, f>> \o Tail(@)]
Return(t) == stack' = [stack EXCEPT ![t] = Tail(@)]

\* An exception that is not a response: only _deleteSubscriptionForRrat catches it. A creation deletes
\* the <crs> then. The sections of the methods that are left stay set.
Raise(t) ==
  LET catching == {i \in 2..Len(stack[t]) : stack[t][i].pc = "rratDone"}
      bottom == stack[t][Len(stack[t])]
  IN \/ \E i \in catching :
          /\ \A j \in catching : i <= j
          /\ stack' = [stack EXCEPT ![t] = SubSeq(@, i, Len(@))]
          /\ UNCHANGED crs
     \/ /\ catching = {}
        /\ stack' = [stack EXCEPT ![t] = <<>>]
        /\ crs' = IF bottom.op = "create" THEN [crs EXCEPT ![bottom.id].stage = "gone"] ELSE crs

\* Deletions may overlap. Nothing overlaps with the creation of a <crs>.
MayStart(t, op) ==
  /\ stack[t] = <<>>
  /\ \A u \in Thread : \/ stack[u] = <<>>
                       \/ /\ overlap
                          /\ op = "delete"
                          /\ \A i \in DOMAIN stack[u] : stack[u][i].op # "create"

SubFrame(s) ==
  [op |-> "sub", id |-> s, pc |-> "notify", rrats |-> {}, srats |-> {}, acrs |-> sub[s].acrs,
   sud |-> None, now |-> None, sem |-> None, shared |-> FALSE]

CrsFrame(c, op, pc) ==
  [op |-> op, id |-> c, pc |-> pc, rrats |-> crs[c].rrats, srats |-> crs[c].srats, acrs |-> {},
   sud |-> crs[c].sud, now |-> None, sem |-> None, shared |-> FALSE]

Init ==
  /\ overlap \in Overlap
  /\ sub = [s \in Sub |-> [stage |-> IF s \in External THEN "there" ELSE "new", acrs |-> {}]]
  /\ crs = [c \in Crs |-> [stage |-> IF overlap /\ c \notin OverlapCrs THEN "gone" ELSE "new",
                           rrats |-> {}, srats |-> {}, sud |-> None]]
  /\ window = {}
  /\ _semaphores = [c \in Crs |-> None]
  /\ locked = {}
  /\ stack = [t \in Thread |-> <<>>]

-----------------------------------------------------------------------------
(* Requests. *)

\* createLocalResource up to activate(): the <crs> is in the database, without its lists.
createCrs(t, c) ==
  /\ MayStart(t, "create")
  /\ crs[c].stage = "new"
  /\ crs' = [crs EXCEPT ![c].stage = "there"]
  /\ stack' = [stack EXCEPT ![t] = <<CrsFrame(c, "create", "srat")>>]
  /\ UNCHANGED <<sub, window, sections>>

deleteCrs(t, c) ==
  /\ MayStart(t, "delete")
  /\ crs[c].stage = "there"
  /\ stack' = [stack EXCEPT ![t] = <<CrsFrame(c, "crs", "enter")>>]
  /\ UNCHANGED <<resources, sections>>

deleteSub(t, s) ==
  /\ MayStart(t, "delete")
  /\ sub[s].stage = "there"
  /\ stack' = [stack EXCEPT ![t] = <<SubFrame(s)>>]
  /\ UNCHANGED <<resources, sections>>

-----------------------------------------------------------------------------
(* CRS.activate *)

\* _addSratSubscription reads the <sub>. Without access to it, or without it, everything is undone.
retrieveSrat(t) ==
  LET f == Top(t) IN
  /\ At(t, {"create"}, "srat")
  /\ \/ \E s \in Srat[f.id] \ f.srats :
          \/ sub[s].stage = "there" /\ Become(t, [f EXCEPT !.pc = "sratUpdate", !.now = s, !.acrs = sub[s].acrs])
          \/ Goto(t, "rrats")
     \/ Srat[f.id] \subseteq f.srats /\ Goto(t, "rrat")
  /\ UNCHANGED <<resources, sections>>

\* The update writes the list that was read. The dictionary of srats is the one in the database, since
\* this object was written before.
_addSratSubscription(t) ==
  LET f == Top(t) IN
  /\ At(t, {"create"}, "sratUpdate")
  /\ \/ /\ sub[f.now].stage = "there"
        /\ sub' = [sub EXCEPT ![f.now].acrs = f.acrs \cup {f.id}]
        /\ crs' = [crs EXCEPT ![f.id].srats = @ \cup {f.now}]
        /\ Become(t, [f EXCEPT !.pc = "srat", !.srats = @ \cup {f.now}])
     \/ Goto(t, "rrats") /\ UNCHANGED <<sub, crs>>
  /\ UNCHANGED <<window, sections>>

\* The creation of a <sub> may fail, and does if the <crs> cannot be notified.
_addRratSubscription(t) ==
  LET f == Top(t) IN
  /\ At(t, {"create"}, "rrat")
  /\ \/ \E s \in Rrat[f.id] \ f.rrats :
          \/ /\ crs[f.id].stage = "there"
             /\ sub' = [sub EXCEPT ![s] = [stage |-> "there", acrs |-> {f.id}]]
             /\ Become(t, [f EXCEPT !.rrats = @ \cup {s}])
          \/ Goto(t, "rrats") /\ UNCHANGED sub
     \/ Rrat[f.id] \subseteq f.rrats /\ Goto(t, "window") /\ UNCHANGED sub
  /\ UNCHANGED <<crs, window, sections>>

startCRSPeriodicWindow(t) ==
  /\ At(t, {"create"}, "window")
  /\ window' = window \cup {Top(t).id}
  /\ Goto(t, "store")
  /\ UNCHANGED <<sub, crs, sections>>

\* Mutant of storeCrs: there is no such update.
storeCrsNot(t) ==
  /\ At(t, {"create"}, "store")
  /\ Return(t)
  /\ UNCHANGED <<resources, sections>>

\* dbUpdate at the end of activate(). Nothing is undone if the <crs> is gone.
storeCrs(t) ==
  LET f == Top(t) IN
  /\ At(t, {"create"}, "store")
  /\ crs' = IF crs[f.id].stage = "there"
            THEN [crs EXCEPT ![f.id].rrats = f.rrats, ![f.id].srats = f.srats, ![f.id].sud = f.sud]
            ELSE crs
  /\ Return(t)
  /\ UNCHANGED <<sub, window, sections>>

\* After the rollback of activate() the <crs> is deleted.
undoCreate(t) ==
  /\ At(t, {"create"}, "undo")
  /\ crs' = [crs EXCEPT ![Top(t).id].stage = "gone"]
  /\ Return(t)
  /\ UNCHANGED <<sub, window, sections>>

-----------------------------------------------------------------------------
(* CRS.handleNotification of a deletion, sent by SUB.deactivate to each <crs> in turn. *)

\* Mutant of Deleting: the section is never seen.
DeletingNever(c) == FALSE

\* inCriticalSection(c, 'deactivate')
Deleting(c) == _semaphores[c] # None

\* A <crs> that is gone, or is being deleted, ignores the notification.
handleNotification(t) ==
  LET f == Top(t) IN
  /\ At(t, {"sub"}, "notify")
  /\ \E c \in f.acrs :
       IF crs[c].stage = "there" /\ ~Deleting(c)
       THEN Call(t, [f EXCEPT !.acrs = @ \ {c}], [CrsFrame(c, "crs", "mark") EXCEPT !.sud = f.id])
       ELSE Become(t, [f EXCEPT !.acrs = @ \ {c}])
  /\ UNCHANGED <<resources, sections>>

\* dbUpdate of the object with its sudRI; a KeyError if the <crs> is gone. Then deleteLocalResource.
markCrs(t) ==
  LET f == Top(t) IN
  /\ At(t, {"crs"}, "mark")
  /\ \/ /\ crs[f.id].stage = "there"
        /\ crs' = [crs EXCEPT ![f.id].rrats = f.rrats, ![f.id].srats = f.srats, ![f.id].sud = f.sud]
        /\ Become(t, [f EXCEPT !.pc = "enter", !.shared = TRUE])
     \/ crs[f.id].stage = "gone" /\ Raise(t)
  /\ UNCHANGED <<sub, window, sections>>

\* All <crs>s are notified: the <sub> is removed.
removeSubscription(t) ==
  /\ At(t, {"sub"}, "notify")
  /\ Top(t).acrs = {}
  /\ sub' = [sub EXCEPT ![Top(t).id].stage = "gone"]
  /\ Return(t)
  /\ UNCHANGED <<crs, window, sections>>

-----------------------------------------------------------------------------
(* The critical section around CRS.deactivate. *)

lookupSemaphore(t) ==
  LET f == Top(t) IN
  /\ At(t, {"crs"}, "enter")
  /\ Become(t, IF _semaphores[f.id] = None
               THEN [f EXCEPT !.pc = "newSemaphore"]
               ELSE [f EXCEPT !.pc = "acquire", !.sem = _semaphores[f.id]])
  /\ UNCHANGED <<resources, sections>>

\* Semaphores that somebody can still reach.
Known ==
  {_semaphores[c] : c \in Crs} \cup locked
    \cup UNION {{stack[t][i].sem : i \in DOMAIN stack[t]} : t \in Thread}

newSemaphore(t) ==
  LET f == Top(t)
      new == CHOOSE n \in Semaphore : n \notin Known
  IN
  /\ At(t, {"crs"}, "newSemaphore")
  /\ _semaphores' = [_semaphores EXCEPT ![f.id] = new]
  /\ locked' = locked \cup {new}
  /\ Become(t, [f EXCEPT !.pc = "stop", !.sem = new])
  /\ UNCHANGED resources

\* A thread that does not get the semaphore at once is one of its waiters.
acquire(t) ==
  LET f == Top(t) IN
  /\ \/ /\ At(t, {"crs"}, "acquire") \/ At(t, {"crs"}, "wait")
        /\ f.sem \notin locked
        /\ locked' = locked \cup {f.sem}
        /\ Goto(t, "stop")
     \/ /\ At(t, {"crs"}, "acquire")
        /\ f.sem \in locked
        /\ Goto(t, "wait")
        /\ UNCHANGED locked
  /\ UNCHANGED <<resources, _semaphores>>

Waiters(sem) == {t \in Thread : At(t, {"crs"}, "wait") /\ Top(t).sem = sem}

\* The entry is removed if nobody waits, then the semaphore that was found is released.
leaveCriticalSection(t) ==
  LET f == Top(t)
      sem == _semaphores[f.id]
  IN
  /\ At(t, {"crs"}, "leave")
  /\ IF sem # None /\ Waiters(sem) = {}
     THEN _semaphores' = [_semaphores EXCEPT ![f.id] = None]
     ELSE UNCHANGED _semaphores
  /\ Become(t, [f EXCEPT !.pc = "release", !.sem = sem])
  /\ UNCHANGED <<resources, locked>>

releaseSemaphore(t) ==
  LET f == Top(t) IN
  /\ At(t, {"crs"}, "release")
  /\ locked' = locked \ {f.sem}
  /\ Become(t, [f EXCEPT !.pc = "delete", !.sem = None])
  /\ UNCHANGED <<resources, _semaphores>>

-----------------------------------------------------------------------------
(* CRS.deactivate, and the rollback of CRS.activate. *)

stopCRSPeriodicWindow(t) ==
  /\ At(t, {"crs"}, "stop")
  /\ window' = window \ {Top(t).id}
  /\ Goto(t, "rrats")
  /\ UNCHANGED <<sub, crs, sections>>

\* _deleteSubscriptions deletes the <sub>s that were created, but not the one whose deletion it is due to.
_deleteSubscriptions(t) ==
  LET f == Top(t) IN
  /\ At(t, {"crs", "create"}, "rrats")
  /\ \/ \E s \in f.rrats \ {f.sud} :
          LET g == [f EXCEPT !.pc = "rratDone", !.now = s]
          IN IF sub[s].stage = "there" THEN Call(t, g, SubFrame(s)) ELSE Become(t, g)
     \/ f.rrats \subseteq {f.sud} /\ Goto(t, "srats")
  /\ UNCHANGED <<resources, sections>>

\* What this object changes in its lists is changed in the database as well, if it was written from it.
Forget(f, rrats, srats) ==
  crs' = IF f.shared \/ (f.op = "create" /\ crs[f.id].sud = None)
         THEN [crs EXCEPT ![f.id].rrats = @ \ rrats, ![f.id].srats = @ \ srats]
         ELSE crs

\* _deleteSubscriptionForRrat, when the deletion has returned or failed.
_deleteSubscriptionForRrat(t) ==
  LET f == Top(t) IN
  /\ At(t, {"crs", "create"}, "rratDone")
  /\ Forget(f, {f.now}, {})
  /\ Become(t, [f EXCEPT !.pc = "rrats", !.rrats = @ \ {f.now}])
  /\ UNCHANGED <<sub, window, sections>>

\* _deleteFromSubscriptionsForSrat reads the <sub>. If that fails the next statement uses a variable
\* that has no value.
retrieveForSrat(t) ==
  LET f == Top(t) IN
  /\ At(t, {"crs", "create"}, "srats")
  /\ \/ \E s \in f.srats \ {f.sud} :
          \/ /\ sub[s].stage = "there"
             /\ Become(t, [f EXCEPT !.pc = "sratsUpdate", !.now = s, !.acrs = sub[s].acrs])
             /\ UNCHANGED crs
          \/ sub[s].stage = "gone" /\ Raise(t)
     \/ /\ f.srats \subseteq {f.sud}
        /\ Goto(t, IF f.op = "crs" THEN "leave" ELSE "undo")
        /\ UNCHANGED crs
  /\ UNCHANGED <<sub, window, sections>>

\* The update writes the list that was read, or is a KeyError.
_deleteFromSubscriptionsForSrat(t) ==
  LET f == Top(t) IN
  /\ At(t, {"crs", "create"}, "sratsUpdate")
  /\ \/ /\ sub[f.now].stage = "there"
        /\ sub' = [sub EXCEPT ![f.now].acrs = f.acrs \ {f.id}]
        /\ Forget(f, {}, {f.now})
        /\ Become(t, [f EXCEPT !.pc = "srats", !.srats = @ \ {f.now}])
     \/ sub[f.now].stage = "gone" /\ Raise(t) /\ UNCHANGED sub
  /\ UNCHANGED <<window, sections>>

\* deleteLocalResource after deactivate(). That the <crs> is gone already is ignored.
dbDelete(t) ==
  /\ At(t, {"crs"}, "delete")
  /\ crs' = [crs EXCEPT ![Top(t).id].stage = "gone"]
  /\ Return(t)
  /\ UNCHANGED <<sub, window, sections>>

-----------------------------------------------------------------------------
Step(t) ==
  \/ retrieveSrat(t) \/ _addSratSubscription(t) \/ _addRratSubscription(t)
  \/ startCRSPeriodicWindow(t) \/ storeCrs(t) \/ undoCreate(t)
  \/ handleNotification(t) \/ markCrs(t) \/ removeSubscription(t)
  \/ lookupSemaphore(t) \/ newSemaphore(t) \/ acquire(t)
  \/ leaveCriticalSection(t) \/ releaseSemaphore(t)
  \/ stopCRSPeriodicWindow(t) \/ _deleteSubscriptions(t) \/ _deleteSubscriptionForRrat(t)
  \/ retrieveForSrat(t) \/ _deleteFromSubscriptionsForSrat(t) \/ dbDelete(t)

Next ==
  /\ \E t \in Thread : \/ Step(t)
                       \/ \E c \in Crs : createCrs(t, c) \/ deleteCrs(t, c)
                       \/ \E s \in Sub : deleteSub(t, s)
  /\ UNCHANGED overlap

Spec == Init /\ [][Next]_vars

\* A request that was begun goes on.
Fairness == \A t \in Thread : WF_vars(Step(t) /\ UNCHANGED overlap)

FairSpec == Spec /\ Fairness

-----------------------------------------------------------------------------
(* Properties. *)

AtRest == ~overlap /\ \A t \in Thread : stack[t] = <<>>

\* After each request, also one that failed half-way: a <crs> is there with all its <sub>s and its
\* window, or nothing of it is left, neither a <sub> it created nor an entry in another one. No critical
\* section is left behind, so that the next deletion does not wait for ever. Even when requests overlap a
\* deletion that comes back to a <crs> it has begun to delete does not wait for itself.
AllOrNothing ==
  /\ AtRest =>
       /\ \A c \in Crs :
            IF crs[c].stage = "there"
            THEN /\ \A s \in Rrat[c] \cup Srat[c] : sub[s].stage = "there" /\ c \in sub[s].acrs
                 /\ c \in window
            ELSE /\ \A s \in Sub : sub[s].stage = "there" => c \notin sub[s].acrs /\ s \notin Rrat[c]
                 /\ c \notin window
       /\ locked = {} /\ \A c \in Crs : _semaphores[c] = None
  /\ \A t \in Thread :
       At(t, {"crs"}, "wait") => \A i \in 2..Len(stack[t]) : stack[t][i].sem # Top(t).sem

\* Each request ends, however its deletions call each other.
RequestsEnd == \A t \in Thread : (stack[t] # <<>> /\ ~overlap) ~> stack[t] = <<>>
=============================================================================
