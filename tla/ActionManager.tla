----------------------------- MODULE ActionManager -----------------------------
(***************************************************************************)
(* Actions: an <action> resource names a subject. Every change of it is an *)
(* event, whose job looks up the actions scheduled for the subject and     *)
(* sends the request of each of them whose criteria hold, once, a number   *)
(* of times or once in a period. A critical section per action, made of    *)
(* a semaphore that comes and goes, keeps the jobs of two events apart.    *)
(***************************************************************************)
EXTENDS Integers, Sequences, FiniteSets, SequencesExt

CONSTANTS
  Action, Apy,                \* the actions, and their priorities
  Thread,                     \* jobs that handle the events of the subject
  Semaphore,                  \* semaphore objects, numbers; there are never more of them in use
  Ecp, ecpPeriodicDefault, ecpContinuousDefault,
  MaxTime, MaxChange, MaxEvent, None

Evm == {"off", "once", "periodic", "continuous"}

VARIABLES
  actr,       \* the <action> resources
  repr,       \* the table of scheduled actions
  _semaphores, \* the semaphore stored for the critical section of an action
  value,      \* how many more jobs a semaphore lets in
  thread,     \* the jobs
  clock,
  changes, events,
  executed,   \* executions of an action since it was scheduled
  times,      \* times of the events of its last two executions
  raced,      \* whether jobs have met in a way that undoes a critical section, history
  overlap     \* whether an action may be changed while it is executed

sections == <<_semaphores, value, raced>>
actionVars == <<actr, repr, _semaphores, value, raced, thread, clock, changes, events, executed, times, overlap>>

Idle == [pc |-> "idle", todo |-> <<>>, now |-> 0, met |-> {}, sem |-> None, action |-> None, copy |-> None]
Inside == {"inside", "entered", "sending", "sent", "stored"}

Params == [evm : Evm, ecp : Ecp \cup {None}]
Repr == [evm : Evm \ {"off"}, ecp : Ecp \cup {None}, since : 0..MaxTime, periodTS : Int, count : Int]
Job == [pc : {"idle", "next", "create", "acquire", "wait", "release"} \cup Inside, todo : Seq(Action),
        now : 0..MaxTime, met : SUBSET Action, sem : Semaphore \cup {None},
        action : Repr \cup {None}, copy : Params \cup {None}]

\* What is assumed of the constants.
ActionAssumption ==
  /\ IsFiniteSet(Action)
  /\ Ecp \subseteq Nat \ {0} /\ ecpPeriodicDefault \in Nat \ {0} /\ ecpContinuousDefault \in Nat \ {0}
  /\ MaxTime \in Nat /\ MaxChange \in Nat /\ MaxEvent \in Nat
  /\ Semaphore \subseteq Nat /\ None \notin Semaphore \cup Ecp \cup Params \cup Repr

Consistent(f) ==
  /\ f.pc # "idle" => f.todo # <<>>
  /\ f.pc \in {"acquire", "wait"} => f.sem # None
  /\ f.pc \in {"sending", "sent", "stored"} => f.action # None /\ f.copy # None

TypeOK ==
  /\ actr \in [Action -> Params \cup {None}]
  /\ repr \in [Action -> Repr \cup {None}]
  /\ _semaphores \in [Action -> Semaphore \cup {None}] /\ value \in [Semaphore -> Nat]
  /\ thread \in [Thread -> Job]
  /\ \A t \in Thread : Consistent(thread[t])
  /\ clock \in 0..MaxTime /\ changes \in 0..MaxChange /\ events \in 0..MaxEvent
  /\ executed \in [Action -> Nat]
  /\ raced \in BOOLEAN /\ overlap \in BOOLEAN

\* The job t is at the action a, or in the critical section of it.
Handles(t, a) == thread[t].pc # "idle" /\ Head(thread[t].todo) = a
IsInside(t, a) == Handles(t, a) /\ thread[t].pc \in Inside
Releases(t, s) == thread[t].pc = "release" /\ thread[t].sem = s

\* Two jobs are not in the critical section of one action, a job that waits is woken by the one that is
\* inside, and no section stays locked by a job that has left it. All this is lost when two jobs look for
\* the semaphore and both store a new one, or when one leaves the section between the time that another
\* one has found the semaphore, or was woken, and the time that it acquires it or waits for it.
SectionsHeld ==
  ~raced => \A a \in Action :
    /\ \A t, u \in Thread : IsInside(t, a) /\ IsInside(u, a) => t = u
    /\ \A t \in Thread : Handles(t, a) /\ thread[t].pc \in {"acquire", "wait"} => thread[t].sem = _semaphores[a]
    /\ _semaphores[a] # None =>
         \/ value[_semaphores[a]] = 1
         \/ value[_semaphores[a]] = 0 /\ \E t \in Thread : IsInside(t, a) \/ Releases(t, _semaphores[a])

\* The parameters that are accepted with a mode.
Valid(p) == p.evm \in {"off", "once"} => p.ecp = None

Scheduled(p, ts, count) == [evm |-> p.evm, ecp |-> p.ecp, since |-> clock, periodTS |-> ts, count |-> count]

scheduleAction(p) ==
  CASE p.evm = "off" -> None
    [] p.evm = "once" -> Scheduled(p, 0, 0)
    [] p.evm = "periodic" -> Scheduled(p, clock, 0)
    [] p.evm = "continuous" -> Scheduled(p, 0, IF p.ecp = None THEN ecpContinuousDefault ELSE p.ecp)

Init ==
  /\ actr = [a \in Action |-> None] /\ repr = [a \in Action |-> None]
  /\ _semaphores = [a \in Action |-> None] /\ value = [s \in Semaphore |-> 0] /\ raced = FALSE
  /\ thread = [t \in Thread |-> Idle]
  /\ clock = 0 /\ changes = 0 /\ events = 0
  /\ executed = [a \in Action |-> 0] /\ times = [a \in Action |-> <<None, None>>]
  /\ overlap \in BOOLEAN

-----------------------------------------------------------------------------
(* Requests for <action> resources.                                        *)

Executing(a) == \E t \in Thread : IsInside(t, a)
Changeable(a) == changes < MaxChange /\ (Executing(a) => overlap)

Restart(a, r) ==
  /\ repr' = [repr EXCEPT ![a] = r]
  /\ executed' = [executed EXCEPT ![a] = 0]
  /\ times' = [times EXCEPT ![a] = <<None, None>>]

activate(a) ==
  /\ actr[a] = None /\ Changeable(a)
  /\ \E p \in Params : Valid(p) /\ actr' = [actr EXCEPT ![a] = p] /\ Restart(a, scheduleAction(p))
  /\ changes' = changes + 1
  /\ UNCHANGED <<sections, thread, clock, events, overlap>>

\* A new mode schedules the action again, a new parameter only in two of the modes. That a parameter
\* is not accepted with the other modes is only checked when the mode is given.
update(a) ==
  /\ actr[a] # None /\ Changeable(a)
  /\ \E evm \in Evm \cup {None}, ecp \in Ecp \cup {None} :
       LET p == [evm |-> IF evm = None THEN actr[a].evm ELSE evm,
                 ecp |-> IF ecp = None THEN actr[a].ecp ELSE ecp]
       IN /\ evm \in {"off", "once"} => p.ecp = None
          /\ actr' = [actr EXCEPT ![a] = p]
          /\ IF evm # None \/ (ecp # None /\ actr[a].evm \in {"periodic", "continuous"})
             THEN Restart(a, scheduleAction(p))
             ELSE UNCHANGED <<repr, executed, times>>
  /\ changes' = changes + 1
  /\ UNCHANGED <<sections, thread, clock, events, overlap>>

deactivate(a) ==
  /\ actr[a] # None /\ Changeable(a)
  /\ actr' = [actr EXCEPT ![a] = None]
  /\ Restart(a, None)
  /\ changes' = changes + 1
  /\ UNCHANGED <<sections, thread, clock, events, overlap>>

-----------------------------------------------------------------------------
(* The job of an event.                                                    *)

Dependency == [found : BOOLEAN, sfc : BOOLEAN, met : BOOLEAN]

\* Mutant: a necessary condition that is not met ends the search, but does not decide.
dependencyUnreset(v, d) ==
  IF v.stop \/ ~d.found THEN v
  ELSE IF d.met THEN [satisfied |-> TRUE, stop |-> d.sfc]
  ELSE [v EXCEPT !.stop = ~d.sfc]

\* One turn of the loop over the dependencies. One that is not found is skipped.
dependency(v, d) ==
  IF v.stop \/ ~d.found THEN v
  ELSE IF d.met THEN [satisfied |-> TRUE, stop |-> d.sfc]
  ELSE [satisfied |-> v.satisfied /\ d.sfc, stop |-> ~d.sfc]

evaluateDependencies(deps) ==
  deps = <<>> \/ FoldLeft(dependency, [satisfied |-> FALSE, stop |-> FALSE], deps).satisfied

\* The next action, if there is one.
Goon(f) == IF f.todo = <<>> THEN Idle ELSE [f EXCEPT !.pc = "next", !.sem = None]

evaluateActions(t) ==
  /\ thread[t].pc = "idle" /\ events < MaxEvent
  /\ LET actions == {a \in Action : repr[a] # None} IN
     \E met \in SUBSET actions, todo \in SetToSeqs(actions) :
       /\ \A i, j \in DOMAIN todo : i < j => Apy[todo[i]] <= Apy[todo[j]]
       /\ thread' = [thread EXCEPT ![t] = Goon([Idle EXCEPT !.now = clock, !.met = met, !.todo = todo])]
  /\ events' = events + 1
  /\ UNCHANGED <<actr, repr, sections, clock, changes, executed, times, overlap>>

-----------------------------------------------------------------------------
(* The critical section around the execution of an action.                 *)

\* Looks for the semaphore.
lookupSemaphore(t) ==
  /\ thread[t].pc = "next"
  /\ LET s == _semaphores[Head(thread[t].todo)] IN
     thread' = [thread EXCEPT ![t].pc = IF s = None THEN "create" ELSE "acquire", ![t].sem = s]
  /\ UNCHANGED <<actr, repr, sections, clock, changes, events, executed, times, overlap>>

\* Semaphores that somebody can still reach, jobs other than t if there is one.
Known(t) == {_semaphores[a] : a \in Action} \cup {thread[u].sem : u \in Thread \ {t}}

\* There was none: stores a new one, which is acquired, whatever is stored by now.
newSemaphore(t) ==
  /\ thread[t].pc = "create"
  /\ LET a == Head(thread[t].todo)
         free == Semaphore \ Known(t)
     IN \E s \in free :
          /\ \A r \in free : s <= r
          /\ _semaphores' = [_semaphores EXCEPT ![a] = s]
          /\ value' = [value EXCEPT ![s] = 0]
          /\ raced' = (raced \/ _semaphores[a] # None)
  /\ thread' = [thread EXCEPT ![t].pc = "inside"]
  /\ UNCHANGED <<actr, repr, clock, changes, events, executed, times, overlap>>

\* Mutant: the result of acquire() is not looked at.
acquireAnyway(t) ==
  /\ thread[t].pc \in {"acquire", "wait"}
  /\ value' = [value EXCEPT ![thread[t].sem] = IF @ > 0 THEN @ - 1 ELSE 0]
  /\ thread' = [thread EXCEPT ![t].pc = "inside", ![t].sem = None]
  /\ UNCHANGED <<actr, repr, _semaphores, raced, clock, changes, events, executed, times, overlap>>

\* Acquires the semaphore that was found, or waits for it.
acquire(t) ==
  /\ LET s == thread[t].sem IN
     \/ /\ thread[t].pc = "acquire" /\ value[s] > 0
        /\ value' = [value EXCEPT ![s] = @ - 1]
        /\ thread' = [thread EXCEPT ![t].pc = "inside", ![t].sem = None]
     \/ /\ thread[t].pc = "acquire" /\ value[s] = 0
        /\ thread' = [thread EXCEPT ![t].pc = "wait"]
        /\ UNCHANGED value
  /\ UNCHANGED <<actr, repr, _semaphores, raced, clock, changes, events, executed, times, overlap>>

Waiters(s) == {u \in Thread : thread[u].pc = "wait" /\ thread[u].sem = s}

\* Leaves the section of action a, also with an exception, which ends the job. The semaphore that is stored
\* by now is the one that is released; if nobody waits for it, it is removed.
Leave(t, a, dies) ==
  LET s == _semaphores[a] IN
  /\ _semaphores' = IF Waiters(s) = {} THEN [_semaphores EXCEPT ![a] = None] ELSE _semaphores
  /\ raced' = (raced \/ /\ Waiters(s) = {}
                        /\ \E u \in Thread : thread[u].pc = "acquire" /\ thread[u].sem = s)
  /\ thread' = [thread EXCEPT ![t].pc = "release", ![t].sem = s, ![t].action = None, ![t].copy = None,
                              ![t].todo = IF dies THEN <<a>> ELSE @]
  /\ UNCHANGED value

\* One that waits is woken. It is not one of the waiters any more, and has to try again.
releaseSemaphore(t) ==
  /\ thread[t].pc = "release"
  /\ LET s == thread[t].sem
         next == Goon([thread[t] EXCEPT !.todo = Tail(@)])
     IN /\ value' = IF s = None THEN value ELSE [value EXCEPT ![s] = IF s \in Known(t) THEN @ + 1 ELSE 0]
        /\ IF Waiters(s) = {}
             THEN thread' = [thread EXCEPT ![t] = next]
             ELSE \E u \in Waiters(s) : thread' = [thread EXCEPT ![t] = next, ![u].pc = "acquire"]
  /\ UNCHANGED <<actr, repr, _semaphores, raced, clock, changes, events, executed, times, overlap>>

-----------------------------------------------------------------------------
(* The execution of an action.                                             *)

\* Reads the entry again, which may have changed.
getActionRepr(t) ==
  /\ thread[t].pc = "inside"
  /\ thread' = [thread EXCEPT ![t].pc = "entered", ![t].action = repr[Head(thread[t].todo)]]
  /\ UNCHANGED <<actr, repr, sections, clock, changes, events, executed, times, overlap>>

evaluateSingleAction(t, a) ==
  LET r == thread[t].action
  IN /\ r.evm = "periodic" => r.periodTS <= thread[t].now
     /\ a \in thread[t].met

\* The action is gone, or not due: skip it.
skip(t) ==
  /\ thread[t].pc = "entered"
  /\ LET a == Head(thread[t].todo) IN
     /\ thread[t].action # None => ~evaluateSingleAction(t, a)
     /\ Leave(t, a, FALSE)
  /\ UNCHANGED <<actr, repr, clock, changes, events, executed, times, overlap>>

\* Retrieves the <action> for its request. If it is not there any more the whole job ends.
retrieve(t) ==
  /\ thread[t].pc = "entered" /\ thread[t].action # None
  /\ LET a == Head(thread[t].todo) IN
     /\ evaluateSingleAction(t, a)
     /\ IF actr[a] = None THEN Leave(t, a, TRUE)
        ELSE /\ thread' = [thread EXCEPT ![t].pc = "sending", ![t].copy = actr[a]]
             /\ UNCHANGED sections
  /\ UNCHANGED <<actr, repr, clock, changes, events, executed, times, overlap>>

handleRequest(t) ==
  /\ thread[t].pc = "sending"
  /\ LET a == Head(thread[t].todo) IN
     /\ executed' = [executed EXCEPT ![a] = @ + 1]
     /\ times' = [times EXCEPT ![a] = <<@[2], thread[t].now>>]
  /\ thread' = [thread EXCEPT ![t].pc = "sent"]
  /\ UNCHANGED <<actr, repr, sections, clock, changes, events, overlap>>

\* Mutant: the next period follows the last one that was used, even if it is over.
RescheduledNext(r, now) ==
  CASE r.evm = "once" -> None
    [] r.evm = "continuous" -> IF r.count - 1 = 0 THEN None ELSE [r EXCEPT !.count = @ - 1]
    [] r.evm = "periodic" -> [r EXCEPT !.periodTS = @ + r.ecp]

\* The next state of a scheduled action after an execution: None if it is removed.
Rescheduled(r, now) ==
  CASE r.evm = "once" -> None
    [] r.evm = "continuous" -> IF r.count - 1 = 0 THEN None ELSE [r EXCEPT !.count = @ - 1]
    [] r.evm = "periodic" -> [r EXCEPT !.periodTS = now + ((@ - now) % r.ecp)]

\* Stores the response in the <action>, as it was read before. If it is gone that is an exception.
dbUpdate(t) ==
  /\ thread[t].pc = "sent"
  /\ LET a == Head(thread[t].todo) IN
     IF actr[a] = None THEN UNCHANGED actr /\ Leave(t, a, TRUE)
     ELSE /\ actr' = [actr EXCEPT ![a] = thread[t].copy]
          /\ thread' = [thread EXCEPT ![t].pc = "stored"]
          /\ UNCHANGED sections
  /\ UNCHANGED <<repr, clock, changes, events, executed, times, overlap>>

\* Schedules the action again, or removes its entry. Without a parameter there is no period to add: an
\* exception, as for an entry that is gone.
reschedule(t) ==
  /\ thread[t].pc = "stored"
  /\ LET a == Head(thread[t].todo)
         r == thread[t].action
         next == Rescheduled(r, thread[t].now)
     IN IF r.evm = "periodic" /\ r.ecp = None THEN UNCHANGED repr /\ Leave(t, a, TRUE)
        ELSE /\ repr' = IF repr[a] = None THEN repr ELSE [repr EXCEPT ![a] = next]
             /\ Leave(t, a, repr[a] = None /\ next # None)
  /\ UNCHANGED <<actr, clock, changes, events, executed, times, overlap>>

Tick ==
  /\ clock < MaxTime
  /\ clock' = clock + 1
  /\ UNCHANGED <<actr, repr, sections, thread, changes, events, executed, times, overlap>>

Change == \E a \in Action : activate(a) \/ update(a) \/ deactivate(a)
Event == \E t \in Thread : evaluateActions(t)
JobStep(t) ==
  \/ lookupSemaphore(t) \/ newSemaphore(t) \/ acquire(t) \/ releaseSemaphore(t)
  \/ getActionRepr(t) \/ skip(t) \/ retrieve(t) \/ handleRequest(t) \/ dbUpdate(t) \/ reschedule(t)

Next == Change \/ Event \/ Tick \/ \E t \in Thread : JobStep(t)

Spec == Init /\ [][Next]_actionVars

-----------------------------------------------------------------------------
(* Properties.                                                             *)

Due(a) == IF actr[a].ecp = None THEN ecpContinuousDefault ELSE actr[a].ecp

\* The table holds actions that exist, with the parameters they have, and never one that is off: a
\* deleted action does not come back, not even when it is deleted while it is executed. While an action
\* is not being executed, the number of its executions and what is left of them agree: "once" is exactly
\* once, "continuous" as often as its parameter says, also when jobs wait for each other. Where two jobs
\* have undone the critical section, or the <action> is changed while it is executed, only the first part
\* is left.
CountsAgree ==
  \A a \in Action :
    /\ repr[a] # None => actr[a] # None /\ repr[a].evm # "off"
    /\ ~overlap /\ ~raced =>
         /\ repr[a] # None => /\ repr[a].evm = actr[a].evm
                              /\ repr[a].evm \in {"periodic", "continuous"} => repr[a].ecp = actr[a].ecp
         /\ actr[a] # None /\ ~Executing(a) =>
              /\ actr[a].evm = "once" => executed[a] = IF repr[a] = None THEN 1 ELSE 0
              /\ actr[a].evm = "continuous" =>
                   executed[a] = Due(a) - (IF repr[a] = None THEN 0 ELSE repr[a].count)

\* Dependencies that are found allow an action if one of them is met, and each necessary one that is not
\* comes after a sufficient one that is.
DependenciesDecide ==
  \A deps \in SeqOf(Dependency, 3) \ {<<>>} :
    LET met(i) == deps[i].found /\ deps[i].met
    IN evaluateDependencies(deps) <=>
         /\ \E i \in DOMAIN deps : met(i)
         /\ \A j \in DOMAIN deps : deps[j].found /\ ~deps[j].met /\ ~deps[j].sfc =>
              \E i \in 1..(j - 1) : met(i) /\ deps[i].sfc

\* Inside of a period (not at its very beginning) an action is executed at most once, unless two jobs have
\* undone its critical section.
Period(a, x, ecp) == (x - repr[a].since) \div ecp
Within(a, x, ecp) == (x - repr[a].since) % ecp # 0

OncePerPeriod(a, ecp) ==
  LET x == times[a][1] y == times[a][2]
  IN x # None /\ Within(a, x, ecp) /\ Within(a, y, ecp) => Period(a, x, ecp) # Period(a, y, ecp)

OnceInPeriod ==
  ~overlap /\ ~raced => \A a \in Action :
    repr[a] # None /\ repr[a].evm = "periodic" /\ repr[a].ecp # None => OncePerPeriod(a, repr[a].ecp)

\* The same for actions without a parameter, with the default that the configuration has for them.
\* It does not hold.
OnceInDefaultPeriod ==
  ~overlap /\ ~raced => \A a \in Action :
    repr[a] # None /\ repr[a].evm = "periodic" /\ repr[a].ecp = None => OncePerPeriod(a, ecpPeriodicDefault)
=============================================================================
