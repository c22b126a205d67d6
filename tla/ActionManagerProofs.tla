-------------------------- MODULE ActionManagerProofs --------------------------
(***************************************************************************)
(* Actions, for any number of actions, jobs and changes: what the table of *)
(* scheduled actions says is what the <action> resources say, executions   *)
(* are counted exactly, and there is one in a period. What the loop over   *)
(* the dependencies decides, for lists of any length.                      *)
(***************************************************************************)
EXTENDS ActionManager, FiniteSetTheorems, SequenceTheorems, WellFoundedInduction, TLAPS


(***************************************************************************)
(* The inductive invariant.                                                *)
(***************************************************************************)
\* What is scheduled exists.
Existing == \A a \in Action : repr[a] # None => actr[a] # None

\* Two jobs are not in the section of one action.
Exclusive == \A a \in Action : \A t, u \in Thread : IsInside(t, a) /\ IsInside(u, a) => t = u

\* A job that has found a semaphore has found the one that is stored.
Wants(t, a) == Handles(t, a) /\ thread[t].pc \in {"acquire", "wait"}
Found == \A a \in Action, t \in Thread : Wants(t, a) => thread[t].sem = _semaphores[a]

Distinct == \A a, b \in Action : _semaphores[a] = _semaphores[b] /\ _semaphores[a] # None => a = b

\* A semaphore that is stored lets one job in, or none while a job is inside or about to release it.
Locked ==
  \A a \in Action : _semaphores[a] # None =>
    \/ value[_semaphores[a]] = 1
    \/ value[_semaphores[a]] = 0 /\ \E t \in Thread : IsInside(t, a) \/ Releases(t, _semaphores[a])

Held ==
  \A a \in Action, t \in Thread : IsInside(t, a) =>
    /\ _semaphores[a] # None /\ value[_semaphores[a]] = 0
    /\ \A u \in Thread : ~Releases(u, _semaphores[a])

Leaving ==
  \A a \in Action, t \in Thread : _semaphores[a] # None /\ Releases(t, _semaphores[a]) =>
    /\ value[_semaphores[a]] = 0
    /\ \A u \in Thread : Releases(u, _semaphores[a]) => t = u

SectionInv == Exclusive /\ Found /\ Distinct /\ Locked /\ Held /\ Leaving

\* What a job knows of the action it is executing is still true.
Knows(t, a) ==
  thread[t].pc # "inside" =>
    /\ thread[t].action = repr[a]
    /\ thread[t].pc \in {"sending", "sent", "stored"} => thread[t].copy = actr[a]

UpToDate == \A t \in Thread, a \in Action : IsInside(t, a) => Knows(t, a)

\* An execution whose request was sent is not counted yet.
Answered(t, a) == IsInside(t, a) /\ thread[t].pc \in {"sent", "stored"}
Uncounted(a) == IF \E t \in Thread : Answered(t, a) THEN 1 ELSE 0

\* An action with the parameters p and the entry r, or none, was executed n times.
Proper(p, r, n) ==
  /\ r # None => r.evm = p.evm /\ (r.evm \in {"periodic", "continuous"} => r.ecp = p.ecp)
  /\ p # None =>
       /\ p.evm = "once" => n = IF r = None THEN 1 ELSE 0
       /\ p.evm = "continuous" =>
            n = (IF p.ecp = None THEN ecpContinuousDefault ELSE p.ecp) - (IF r = None THEN 0 ELSE r.count)

CountsTold == \A a \in Action : Proper(actr[a], repr[a], executed[a] - Uncounted(a))

ActionInv ==
  /\ TypeOK /\ Existing
  /\ ~raced => SectionInv
  /\ ~raced /\ ~overlap => UpToDate /\ CountsTold

-----------------------------------------------------------------------------
(* Types.                                                                  *)

LEMMA Constants ==
  ASSUME ActionAssumption
  PROVE  /\ \A e \in Ecp : e \in Nat /\ e # 0 /\ e # None
         /\ ecpContinuousDefault \in Nat
         /\ \A x \in Semaphore \cup Params \cup Repr : x # None
<1>1. \A e \in Ecp : e \in Nat \ {0}
  BY DEF ActionAssumption
<1>. QED
  BY <1>1 DEF ActionAssumption

LEMMA IdleJob == ActionAssumption => Idle \in Job /\ Idle.pc = "idle" /\ Consistent(Idle)
BY DEF ActionAssumption, Idle, Job, Consistent

\* The next action of a job, or the end of it.
LEMMA GoonType ==
  ASSUME ActionAssumption, NEW f \in Job
  PROVE  /\ Goon(f) \in Job /\ Consistent(Goon(f))
         /\ Goon(f).pc \in {"idle", "next"}
BY IdleJob DEF Goon, Job, Consistent

LEMMA ScheduleType ==
  ASSUME ActionAssumption, clock \in 0..MaxTime, NEW p \in Params
  PROVE  /\ scheduleAction(p) \in Repr \cup {None}
         /\ scheduleAction(p) # None =>
              /\ scheduleAction(p).evm = p.evm /\ scheduleAction(p).ecp = p.ecp
         /\ scheduleAction(p) = None <=> p.evm = "off"
         /\ p.evm = "continuous" =>
              scheduleAction(p).count = IF p.ecp = None THEN ecpContinuousDefault ELSE p.ecp
<1>1. p.evm \in Evm /\ p.ecp \in Ecp \cup {None} /\ clock \in Int
  BY DEF Params, ActionAssumption
<1>2. ASSUME NEW ts \in Int, NEW count \in Int, p.evm # "off"
      PROVE  /\ Scheduled(p, ts, count) \in Repr /\ Scheduled(p, ts, count) # None
             /\ Scheduled(p, ts, count).evm = p.evm /\ Scheduled(p, ts, count).ecp = p.ecp
             /\ Scheduled(p, ts, count).count = count
  <2>1. Scheduled(p, ts, count) \in Repr
    BY <1>1, <1>2 DEF Scheduled, Repr
  <2>. QED
    BY <2>1 DEF Scheduled, ActionAssumption
<1>3. CASE p.evm = "off"
  BY <1>3 DEF scheduleAction
<1>4. CASE p.evm = "once"
  <2>1. scheduleAction(p) = Scheduled(p, 0, 0)
    BY <1>4 DEF scheduleAction
  <2>. QED
    BY <1>2, <1>4, <2>1
<1>5. CASE p.evm = "periodic"
  BY <1>1, <1>2, <1>5 DEF scheduleAction
<1>6. CASE p.evm = "continuous"
  <2>1. (IF p.ecp = None THEN ecpContinuousDefault ELSE p.ecp) \in Int
    BY <1>1, Constants
  <2>. QED
    BY <1>2, <1>6, <2>1 DEF scheduleAction
<1>. QED
  BY <1>1, <1>3, <1>4, <1>5, <1>6 DEF Evm

LEMMA RescheduleType ==
  ASSUME ActionAssumption, NEW r \in Repr, NEW now \in 0..MaxTime, ~(r.evm = "periodic" /\ r.ecp = None)
  PROVE  /\ Rescheduled(r, now) \in Repr \cup {None}
         /\ Rescheduled(r, now) # None => /\ Rescheduled(r, now).evm = r.evm
                                          /\ Rescheduled(r, now).ecp = r.ecp
         /\ r.evm = "once" => Rescheduled(r, now) = None
         /\ r.evm = "continuous" =>
              r.count - 1 = IF Rescheduled(r, now) = None THEN 0 ELSE Rescheduled(r, now).count
<1>1. r.evm \in {"once", "periodic", "continuous"} /\ r.count \in Int /\ r.periodTS \in Int /\ r.ecp \in Ecp \cup {None}
      /\ now \in Int
  BY DEF Repr, Evm, ActionAssumption
<1>2. CASE r.evm = "once"
  BY <1>2 DEF Rescheduled
<1>3. CASE r.evm = "periodic"
  <2>1. r.ecp \in Nat \ {0}
    BY <1>1, <1>3 DEF ActionAssumption
  <2>2. now + ((r.periodTS - now) % r.ecp) \in Int
    BY <1>1, <2>1
  <2>3. [r EXCEPT !.periodTS = now + ((r.periodTS - now) % r.ecp)] \in Repr
    BY <2>2 DEF Repr
  <2>4. Rescheduled(r, now) = [r EXCEPT !.periodTS = now + ((r.periodTS - now) % r.ecp)]
    BY <1>3 DEF Rescheduled
  <2>. QED
    BY <1>3, <2>3, <2>4 DEF Repr
<1>4. CASE r.evm = "continuous"
  <2>1. CASE r.count - 1 = 0
    BY <1>4, <2>1 DEF Rescheduled
  <2>2. CASE r.count - 1 # 0
    <3>1. [r EXCEPT !.count = r.count - 1] \in Repr
      BY <1>1 DEF Repr
    <3>2. Rescheduled(r, now) = [r EXCEPT !.count = r.count - 1]
      BY <1>4, <2>2 DEF Rescheduled
    <3>. QED
      BY <1>4, <3>1, <3>2 DEF Repr, ActionAssumption
  <2>. QED
    BY <2>1, <2>2
<1>. QED
  BY <1>1, <1>2, <1>3, <1>4

\* The parameters after an UPDATE.
LEMMA UpdateType ==
  ASSUME NEW p \in Params, NEW evm \in Evm \cup {None}, NEW ecp \in Ecp \cup {None}, ActionAssumption
  PROVE  [evm |-> IF evm = None THEN p.evm ELSE evm, ecp |-> IF ecp = None THEN p.ecp ELSE ecp] \in Params
BY DEF Params

\* The rest of a list of actions.
LEMMA TailType ==
  ASSUME NEW f \in Job, Consistent(f), f.pc # "idle"
  PROVE  [f EXCEPT !.todo = Tail(f.todo)] \in Job
<1>1. Tail(f.todo) \in Seq(Action)
  BY DEF Job, Consistent
<1>. QED
  BY ZenonT(60), <1>1 DEF Job

\* A job t becomes f.
Becomes(t, f) ==
  /\ f \in Job /\ Consistent(f)
  /\ thread' = [thread EXCEPT ![t] = f]

LEMMA Become ==
  ASSUME TypeOK, NEW t \in Thread, NEW f, Becomes(t, f)
  PROVE  /\ thread' \in [Thread -> Job] /\ \A u \in Thread : Consistent(thread'[u])
         /\ thread'[t] = f /\ \A u \in Thread \ {t} : thread'[u] = thread[u]
BY DEF TypeOK, Becomes

\* A job that is somewhere has an action.
LEMMA ActionOf ==
  ASSUME TypeOK, NEW t \in Thread, thread[t].pc # "idle"
  PROVE  Head(thread[t].todo) \in Action
BY DEF TypeOK, Job, Consistent

\* A job that leaves a section.
LEMMA LeaveJob ==
  ASSUME ActionAssumption, TypeOK, NEW t \in Thread, thread[t].pc # "idle", NEW a \in Action,
         Leave(t, a, TRUE) \/ Leave(t, a, FALSE)
  PROVE  \E f : Becomes(t, f) /\ f.pc = "release" /\ f.sem = _semaphores[a]
<1>. PICK d \in BOOLEAN : Leave(t, a, d)
  OBVIOUS
<1>. PICK l : l = IF d THEN <<a>> ELSE thread[t].todo
  OBVIOUS
<1>. PICK f : f = [thread[t] EXCEPT !.pc = "release", !.sem = _semaphores[a], !.action = None, !.copy = None, !.todo = l]
  OBVIOUS
<1>1. thread[t] \in Job /\ thread[t].todo # <<>> /\ _semaphores[a] \in Semaphore \cup {None}
  BY DEF TypeOK, Consistent
<1>2. l \in Seq(Action) /\ l # <<>>
  BY <1>1 DEF Job
<1>3. f \in Job /\ f.pc = "release" /\ f.sem = _semaphores[a] /\ f.todo # <<>>
  BY <1>1, <1>2 DEF Job
<1>4. Consistent(f)
  BY <1>3 DEF Consistent
<1>5. thread' = [thread EXCEPT ![t] = f]
  BY DEF Leave
<1>. QED
  BY <1>3, <1>4, <1>5 DEF Becomes

-----------------------------------------------------------------------------
(* The critical sections. What is said of them depends on where the jobs   *)
(* are, and on the semaphores they have found.                             *)

\* The job u is where it was.
Stays(u) ==
  /\ \A a \in Action : (IsInside(u, a)' <=> IsInside(u, a)) /\ (Wants(u, a)' <=> Wants(u, a))
  /\ \A s \in Semaphore : Releases(u, s)' <=> Releases(u, s)
  /\ thread[u].pc \in {"acquire", "wait"} => thread'[u].sem = thread[u].sem

LEMMA SameStays == ASSUME NEW u \in Thread, thread'[u] = thread[u] PROVE Stays(u)
BY DEF Stays, IsInside, Wants, Handles, Releases

LEMMA AllStay ==
  ASSUME TypeOK, SectionInv, UNCHANGED <<_semaphores, value>>, \A u \in Thread : Stays(u)
  PROVE  SectionInv'
<1>1. \A a \in Action : _semaphores[a] \in Semaphore \cup {None}
  BY DEF TypeOK
<1>2. Exclusive'
  BY DEF SectionInv, Exclusive, Stays
<1>3. Found'
  BY DEF SectionInv, Found, Stays, Wants
<1>4. Distinct'
  BY DEF SectionInv, Distinct
<1>5. Locked'
  BY <1>1 DEF SectionInv, Locked, Stays
<1>6. Held'
  BY <1>1 DEF SectionInv, Held, Stays
<1>7. Leaving'
  BY <1>1 DEF SectionInv, Leaving, Stays
<1>. QED
  BY <1>2, <1>3, <1>4, <1>5, <1>6, <1>7 DEF SectionInv

\* A job that has looked for a semaphore.
LEMMA LookupSection ==
  ASSUME TypeOK, SectionInv, NEW t \in Thread, NEW a \in Action, Handles(t, a), thread[t].pc = "next",
         UNCHANGED <<_semaphores, value>>, \A u \in Thread \ {t} : thread'[u] = thread[u],
         thread'[t].todo = thread[t].todo, thread'[t].sem = _semaphores[a],
         thread'[t].pc = IF _semaphores[a] = None THEN "create" ELSE "acquire"
  PROVE  SectionInv'
<1>1. \A u \in Thread \ {t} : Stays(u)
  BY SameStays
<1>2. \A b \in Action : _semaphores[b] \in Semaphore \cup {None}
  BY DEF TypeOK
<1>3. /\ \A b \in Action : ~IsInside(t, b) /\ ~IsInside(t, b)' /\ (Wants(t, b)' => b = a)
      /\ \A s : ~Releases(t, s) /\ ~Releases(t, s)'
  BY DEF IsInside, Wants, Handles, Releases, Inside
<1>4. Exclusive'
  BY <1>1, <1>3 DEF SectionInv, Exclusive, Stays
<1>5. Found'
  <2> SUFFICES ASSUME NEW b \in Action, NEW u \in Thread, Wants(u, b)' PROVE thread'[u].sem = _semaphores[b]
    BY DEF Found
  <2>1. CASE u = t
    BY <1>3, <2>1
  <2>2. CASE u # t
    BY <1>1, <2>2 DEF SectionInv, Found, Stays, Wants
  <2>. QED
    BY <2>1, <2>2
<1>6. Distinct'
  BY DEF SectionInv, Distinct
<1>7. Locked'
  BY <1>1, <1>2, <1>3 DEF SectionInv, Locked, Stays
<1>8. Held'
  BY <1>1, <1>2, <1>3 DEF SectionInv, Held, Stays
<1>9. Leaving'
  BY <1>1, <1>2, <1>3 DEF SectionInv, Leaving, Stays
<1>. QED
  BY <1>4, <1>5, <1>6, <1>7, <1>8, <1>9 DEF SectionInv

\* Nobody is inside where no semaphore is stored: the job that stores a new one is alone.
LEMMA NewSection ==
  ASSUME TypeOK, SectionInv, ActionAssumption, NEW t \in Thread, NEW a \in Action, Handles(t, a),
         thread[t].pc = "create", thread'[t].pc = "inside", thread'[t].todo = thread[t].todo,
         \A u \in Thread \ {t} : thread'[u] = thread[u], _semaphores[a] = None,
         NEW s \in Semaphore, s \notin Known(t),
         _semaphores' = [_semaphores EXCEPT ![a] = s], value' = [value EXCEPT ![s] = 0]
  PROVE  SectionInv'
<1>1. \A u \in Thread \ {t} : Stays(u)
  BY SameStays
<1>2. /\ \A b \in Action : _semaphores[b] \in Semaphore \cup {None} /\ _semaphores[b] # s
      /\ s # None
      /\ _semaphores'[a] = s /\ \A b \in Action \ {a} : _semaphores'[b] = _semaphores[b]
      /\ value'[s] = 0 /\ \A r \in Semaphore \ {s} : value'[r] = value[r]
  BY Constants DEF TypeOK, Known
<1>3. /\ \A b \in Action : ~IsInside(t, b) /\ ~Wants(t, b)' /\ (IsInside(t, b)' <=> b = a)
      /\ \A r : ~Releases(t, r) /\ ~Releases(t, r)'
  BY DEF IsInside, Wants, Handles, Releases, Inside
<1>4. \A u \in Thread : ~IsInside(u, a) /\ ~Wants(u, a)
  <2>1. \A u \in Thread : ~IsInside(u, a)
    BY DEF SectionInv, Held
  <2>2. ASSUME NEW u \in Thread, Wants(u, a) PROVE FALSE
    <3>1. thread[u].sem = None
      BY <2>2 DEF SectionInv, Found
    <3>. QED
      BY <2>2, <3>1 DEF TypeOK, Consistent, Wants
  <2>. QED
    BY <2>1, <2>2
<1>5. \A u \in Thread : ~Releases(u, s)'
  BY <1>3 DEF Releases, Known
<1>6. Exclusive'
  BY <1>1, <1>3, <1>4 DEF SectionInv, Exclusive, Stays
<1>7. Found'
  <2> SUFFICES ASSUME NEW b \in Action, NEW u \in Thread, Wants(u, b)' PROVE thread'[u].sem = _semaphores'[b]
    BY DEF Found
  <2>1. u # t
    BY <1>3
  <2>2. Wants(u, b) /\ thread'[u].sem = thread[u].sem
    BY <1>1, <2>1 DEF Stays, Wants
  <2>3. b # a
    BY <1>4, <2>2
  <2>. QED
    BY <1>2, <2>2, <2>3 DEF SectionInv, Found
<1>8. Distinct'
  BY <1>2 DEF SectionInv, Distinct
<1>9. Locked'
  <2> SUFFICES ASSUME NEW b \in Action, _semaphores'[b] # None
               PROVE  \/ value'[_semaphores'[b]] = 1
                      \/ value'[_semaphores'[b]] = 0
                           /\ \E u \in Thread : IsInside(u, b)' \/ Releases(u, _semaphores[b])'
    BY DEF Locked
  <2>1. CASE b = a
    BY <1>2, <1>3, <2>1
  <2>2. CASE b # a
    BY <1>1, <1>2, <1>3, <2>2 DEF SectionInv, Locked, Stays
  <2>. QED
    BY <2>1, <2>2
<1>10. Held'
  <2> SUFFICES ASSUME NEW b \in Action, NEW u \in Thread, IsInside(u, b)'
               PROVE  /\ _semaphores'[b] # None /\ value'[_semaphores'[b]] = 0
                      /\ \A v \in Thread : ~Releases(v, _semaphores[b])'
    BY DEF Held
  <2>1. CASE b = a
    BY <1>2, <1>5, <2>1
  <2>2. CASE b # a
    BY <1>1, <1>2, <1>3, <2>2 DEF SectionInv, Held, Stays
  <2>. QED
    BY <2>1, <2>2
<1>11. Leaving'
  <2> SUFFICES ASSUME NEW b \in Action, NEW u \in Thread, _semaphores'[b] # None, Releases(u, _semaphores[b])'
               PROVE  /\ value'[_semaphores'[b]] = 0
                      /\ \A v \in Thread : Releases(v, _semaphores[b])' => u = v
    BY DEF Leaving
  <2>1. b # a
    BY <1>2, <1>5
  <2>. QED
    BY <1>1, <1>2, <1>3, <2>1 DEF SectionInv, Leaving, Stays
<1>. QED
  BY <1>6, <1>7, <1>8, <1>9, <1>10, <1>11 DEF SectionInv

\* A semaphore that lets a job in is not held by another one.
LEMMA AcquireSection ==
  ASSUME TypeOK, SectionInv, NEW t \in Thread, NEW a \in Action, Handles(t, a),
         thread[t].pc = "acquire", thread'[t].pc = "inside", thread'[t].todo = thread[t].todo,
         \A u \in Thread \ {t} : thread'[u] = thread[u],
         value[thread[t].sem] > 0, UNCHANGED _semaphores,
         value' = [value EXCEPT ![thread[t].sem] = value[thread[t].sem] - 1]
  PROVE  SectionInv'
<1>1. \A u \in Thread \ {t} : Stays(u)
  BY SameStays
<1>. PICK s : s = _semaphores[a]
  OBVIOUS
<1>2. /\ \A b \in Action : ~IsInside(t, b) /\ ~Wants(t, b)' /\ (IsInside(t, b)' <=> b = a)
      /\ \A r : ~Releases(t, r) /\ ~Releases(t, r)'
      /\ Wants(t, a)
  BY DEF IsInside, Wants, Handles, Releases, Inside
<1>3. thread[t].sem = s /\ s \in Semaphore /\ s # None
  <2>1. thread[t].sem = s
    BY <1>2 DEF SectionInv, Found
  <2>2. thread[t].sem # None /\ thread[t].sem \in Semaphore \cup {None}
    BY DEF TypeOK, Consistent, Job
  <2>. QED
    BY <2>1, <2>2
<1>4. value[s] = 1
  BY <1>3 DEF SectionInv, Locked
<1>5. value'[s] = 0 /\ \A r \in Semaphore \ {s} : value'[r] = value[r]
  BY <1>3, <1>4 DEF TypeOK
<1>6. /\ \A u \in Thread : ~IsInside(u, a) /\ ~Releases(u, s)
      /\ \A b \in Action \ {a} : _semaphores[b] # s /\ _semaphores[b] \in Semaphore \cup {None}
  BY <1>3, <1>4 DEF SectionInv, Held, Leaving, Distinct, TypeOK
<1>7. Exclusive'
  BY <1>1, <1>2, <1>6 DEF SectionInv, Exclusive, Stays
<1>8. Found'
  <2> SUFFICES ASSUME NEW b \in Action, NEW u \in Thread, Wants(u, b)' PROVE thread'[u].sem = _semaphores[b]
    BY DEF Found
  <2>1. u # t
    BY <1>2
  <2>. QED
    BY <1>1, <2>1 DEF SectionInv, Found, Stays, Wants
<1>9. Distinct'
  BY DEF SectionInv, Distinct
<1>10. Locked'
  <2> SUFFICES ASSUME NEW b \in Action, _semaphores[b] # None
               PROVE  \/ value'[_semaphores[b]] = 1
                      \/ value'[_semaphores[b]] = 0
                           /\ \E u \in Thread : IsInside(u, b)' \/ Releases(u, _semaphores[b])'
    BY DEF Locked
  <2>1. CASE b = a
    BY <1>2, <1>5, <2>1
  <2>2. CASE b # a
    BY <1>1, <1>2, <1>5, <1>6, <2>2 DEF SectionInv, Locked, Stays
  <2>. QED
    BY <2>1, <2>2
<1>11. Held'
  <2> SUFFICES ASSUME NEW b \in Action, NEW u \in Thread, IsInside(u, b)'
               PROVE  /\ _semaphores[b] # None /\ value'[_semaphores[b]] = 0
                      /\ \A v \in Thread : ~Releases(v, _semaphores[b])'
    BY DEF Held
  <2>1. CASE b = a
    BY <1>1, <1>2, <1>3, <1>5, <1>6, <2>1 DEF Stays
  <2>2. CASE b # a
    BY <1>1, <1>2, <1>5, <1>6, <2>2 DEF SectionInv, Held, Stays
  <2>. QED
    BY <2>1, <2>2
<1>12. Leaving'
  BY <1>1, <1>2, <1>3, <1>5, <1>6 DEF SectionInv, Leaving, Stays
<1>. QED
  BY <1>7, <1>8, <1>9, <1>10, <1>11, <1>12 DEF SectionInv

\* Who leaves a section leaves it with its semaphore, and without it if nobody waits.
LEMMA LeaveSection ==
  ASSUME TypeOK, SectionInv, ActionAssumption, NEW t \in Thread, NEW a \in Action, IsInside(t, a),
         Leave(t, a, TRUE) \/ Leave(t, a, FALSE), ~raced'
  PROVE  SectionInv'
<1>. PICK s : s = _semaphores[a]
  OBVIOUS
<1>0. /\ value' = value
      /\ _semaphores' = IF Waiters(s) = {} THEN [_semaphores EXCEPT ![a] = None] ELSE _semaphores
      /\ Waiters(s) = {} => \A u \in Thread : ~(thread[u].pc = "acquire" /\ thread[u].sem = s)
      /\ thread'[t].pc = "release" /\ thread'[t].sem = s
      /\ \A u \in Thread \ {t} : thread'[u] = thread[u]
  <2>1. PICK f : Becomes(t, f) /\ f.pc = "release" /\ f.sem = s
    BY LeaveJob DEF IsInside, Handles
  <2>2. thread'[t] = f /\ \A u \in Thread \ {t} : thread'[u] = thread[u]
    BY <2>1, Become
  <2>. QED
    BY <2>1, <2>2 DEF Leave
<1>1. \A u \in Thread \ {t} : Stays(u)
  BY <1>0, SameStays
<1>2. /\ s \in Semaphore /\ s # None /\ value[s] = 0
      /\ \A u \in Thread : ~Releases(u, s)
      /\ \A u \in Thread \ {t} : ~IsInside(u, a)
      /\ \A b \in Action \ {a} : _semaphores[b] # s /\ ~IsInside(t, b)
      /\ \A b \in Action : _semaphores[b] \in Semaphore \cup {None}
  BY DEF SectionInv, Held, Exclusive, Distinct, TypeOK, IsInside, Handles
<1>3. /\ \A b \in Action : ~IsInside(t, b)' /\ ~Wants(t, b)'
      /\ \A r \in Semaphore : Releases(t, r)' <=> r = s
      /\ \A r \in Semaphore : ~Releases(t, r)
  BY <1>0 DEF IsInside, Wants, Handles, Releases, Inside
<1>4. /\ _semaphores'[a] \in {s, None} /\ \A b \in Action \ {a} : _semaphores'[b] = _semaphores[b]
      /\ _semaphores'[a] = None => \A u \in Thread : ~Wants(u, a)
  <2>1. CASE Waiters(s) = {}
    <3>1. _semaphores' = [_semaphores EXCEPT ![a] = None]
      BY <1>0, <2>1
    <3>2. ASSUME NEW u \in Thread, Wants(u, a) PROVE FALSE
      <4>1. thread[u].sem = s
        BY <3>2 DEF SectionInv, Found
      <4>. QED
        BY <1>0, <2>1, <3>2, <4>1 DEF Wants, Waiters
    <3>. QED
      BY <3>1, <3>2 DEF TypeOK
  <2>2. CASE Waiters(s) # {}
    BY <1>0, <1>2, <2>2
  <2>. QED
    BY <2>1, <2>2
<1>5. Exclusive'
  BY <1>1, <1>3 DEF SectionInv, Exclusive, Stays
<1>6. Found'
  <2> SUFFICES ASSUME NEW b \in Action, NEW u \in Thread, Wants(u, b)' PROVE thread'[u].sem = _semaphores'[b]
    BY DEF Found
  <2>1. u # t
    BY <1>3
  <2>2. Wants(u, b) /\ thread'[u].sem = thread[u].sem /\ thread[u].sem = _semaphores[b]
    BY <1>1, <2>1 DEF SectionInv, Found, Stays, Wants
  <2>. QED
    BY <1>4, <2>2
<1>7. Distinct'
  BY <1>4 DEF SectionInv, Distinct
<1>8. Locked'
  <2> SUFFICES ASSUME NEW b \in Action, _semaphores'[b] # None
               PROVE  \/ value[_semaphores'[b]] = 1
                      \/ value[_semaphores'[b]] = 0
                           /\ \E u \in Thread : IsInside(u, b)' \/ Releases(u, _semaphores[b])'
    BY <1>0 DEF Locked
  <2>1. CASE b = a
    <3>1. _semaphores'[b] = s
      BY <1>4, <2>1
    <3>2. Releases(t, _semaphores[b])'
      BY <1>0, <3>1 DEF Releases
    <3>. QED
      BY <1>2, <3>1, <3>2
  <2>2. CASE b # a
    <3>1. _semaphores'[b] = _semaphores[b] /\ _semaphores[b] \in Semaphore
      BY <1>2, <1>4, <2>2
    <3>2. \A u \in Thread : (IsInside(u, b) => IsInside(u, b)') /\ (Releases(u, _semaphores[b]) => Releases(u, _semaphores[b])')
      BY <1>1, <1>2, <1>3, <2>2, <3>1 DEF Stays, Releases
    <3>. QED
      BY <3>1, <3>2 DEF SectionInv, Locked
  <2>. QED
    BY <2>1, <2>2
<1>9. Held'
  <2> SUFFICES ASSUME NEW b \in Action, NEW u \in Thread, IsInside(u, b)'
               PROVE  /\ _semaphores'[b] # None /\ value[_semaphores'[b]] = 0
                      /\ \A v \in Thread : ~Releases(v, _semaphores[b])'
    BY <1>0 DEF Held
  <2>1. u # t /\ IsInside(u, b) /\ b # a
    BY <1>1, <1>2, <1>3 DEF Stays
  <2>2. _semaphores'[b] = _semaphores[b] /\ _semaphores[b] # None /\ value[_semaphores[b]] = 0
        /\ _semaphores[b] # s /\ _semaphores[b] \in Semaphore
    BY <1>2, <1>4, <2>1 DEF SectionInv, Held
  <2>3. \A v \in Thread : ~Releases(v, _semaphores[b])
    BY <2>1 DEF SectionInv, Held
  <2>4. \A v \in Thread : ~Releases(v, _semaphores[b])'
    BY <1>0, <1>1, <2>2, <2>3 DEF Stays, Releases
  <2>. QED
    BY <2>2, <2>4
<1>10. Leaving'
  <2> SUFFICES ASSUME NEW b \in Action, NEW u \in Thread, _semaphores'[b] # None, Releases(u, _semaphores[b])'
               PROVE  /\ value[_semaphores'[b]] = 0
                      /\ \A v \in Thread : Releases(v, _semaphores[b])' => u = v
    BY <1>0 DEF Leaving
  <2>1. CASE b = a
    <3>1. _semaphores'[b] = s
      BY <1>4, <2>1
    <3>2. \A v \in Thread : Releases(v, _semaphores[b])' => v = t
      BY <1>0, <1>2, <3>1 DEF Releases
    <3>. QED
      BY <1>2, <3>1, <3>2
  <2>2. CASE b # a
    <3>1. _semaphores'[b] = _semaphores[b] /\ _semaphores[b] \in Semaphore /\ _semaphores[b] # s
      BY <1>2, <1>4, <2>2
    <3>2. \A v \in Thread : Releases(v, _semaphores[b])' <=> Releases(v, _semaphores[b])
      BY <1>0, <1>1, <1>3, <3>1 DEF Stays, Releases
    <3>. QED
      BY <3>1, <3>2 DEF SectionInv, Leaving
  <2>. QED
    BY <2>1, <2>2
<1>. QED
  BY <1>5, <1>6, <1>7, <1>8, <1>9, <1>10 DEF SectionInv

\* A semaphore that is released while it is stored was held by nobody else.
LEMMA ReleaseSection ==
  ASSUME TypeOK, SectionInv, ActionAssumption, NEW t \in Thread, thread[t].pc = "release",
         thread'[t].pc \in {"idle", "next"}, \A u \in Thread \ {t} : Stays(u), UNCHANGED _semaphores,
         NEW s, s = thread[t].sem,
         value' = IF s = None THEN value ELSE [value EXCEPT ![s] = IF s \in Known(t) THEN value[s] + 1 ELSE 0]
  PROVE  SectionInv'
<1>1. /\ \A a \in Action : ~IsInside(t, a) /\ ~IsInside(t, a)' /\ ~Wants(t, a) /\ ~Wants(t, a)'
      /\ \A r \in Semaphore : ~Releases(t, r)' /\ (Releases(t, r) <=> r = s)
      /\ \A a \in Action : _semaphores[a] \in Semaphore \cup {None}
      /\ s \in Semaphore \cup {None}
  BY DEF IsInside, Wants, Handles, Releases, Inside, TypeOK, Job
<1>2. \A a \in Action : _semaphores[a] # None /\ _semaphores[a] # s => value'[_semaphores[a]] = value[_semaphores[a]]
  BY <1>1 DEF TypeOK
<1>3. ASSUME NEW a \in Action, _semaphores[a] = s, s # None
      PROVE  /\ value[s] = 0 /\ value'[s] = 1
             /\ \A u \in Thread : ~IsInside(u, a) /\ (Releases(u, s) => u = t)
  <2>1. Releases(t, s)
    BY DEF Releases
  <2>2. value[s] = 0 /\ \A u \in Thread : ~IsInside(u, a) /\ (Releases(u, s) => u = t)
    BY <1>3, <2>1 DEF SectionInv, Leaving, Held
  <2>3. s \in Known(t) /\ s \in Semaphore
    BY <1>1, <1>3 DEF Known
  <2>. QED
    BY <1>3, <2>2, <2>3 DEF TypeOK
<1>4. Exclusive'
  BY <1>1 DEF SectionInv, Exclusive, Stays
<1>5. Found'
  BY <1>1 DEF SectionInv, Found, Stays, Wants
<1>6. Distinct'
  BY DEF SectionInv, Distinct
<1>7. Locked'
  <2> SUFFICES ASSUME NEW b \in Action, _semaphores[b] # None
               PROVE  \/ value'[_semaphores[b]] = 1
                      \/ value'[_semaphores[b]] = 0
                           /\ \E u \in Thread : IsInside(u, b)' \/ Releases(u, _semaphores[b])'
    BY DEF Locked
  <2>1. CASE _semaphores[b] = s
    BY <1>3, <2>1
  <2>2. CASE _semaphores[b] # s
    <3>1. _semaphores[b] \in Semaphore /\ value'[_semaphores[b]] = value[_semaphores[b]]
      BY <1>1, <1>2, <2>2
    <3>2. \A u \in Thread : (IsInside(u, b) => IsInside(u, b)') /\ (Releases(u, _semaphores[b]) => Releases(u, _semaphores[b])')
      BY <1>1, <2>2, <3>1 DEF Stays, Releases
    <3>. QED
      BY <3>1, <3>2 DEF SectionInv, Locked
  <2>. QED
    BY <2>1, <2>2
<1>8. Held'
  <2> SUFFICES ASSUME NEW b \in Action, NEW u \in Thread, IsInside(u, b)'
               PROVE  /\ _semaphores[b] # None /\ value'[_semaphores[b]] = 0
                      /\ \A v \in Thread : ~Releases(v, _semaphores[b])'
    BY DEF Held
  <2>1. u # t /\ IsInside(u, b)
    BY <1>1 DEF Stays
  <2>2. _semaphores[b] # None /\ value[_semaphores[b]] = 0 /\ \A v \in Thread : ~Releases(v, _semaphores[b])
    BY <2>1 DEF SectionInv, Held
  <2>3. _semaphores[b] # s /\ _semaphores[b] \in Semaphore
    BY <1>1, <1>3, <2>1, <2>2
  <2>4. \A v \in Thread : ~Releases(v, _semaphores[b])'
    BY <1>1, <2>2, <2>3 DEF Stays, Releases
  <2>. QED
    BY <1>2, <2>2, <2>3, <2>4
<1>9. Leaving'
  <2> SUFFICES ASSUME NEW b \in Action, NEW u \in Thread, _semaphores[b] # None, Releases(u, _semaphores[b])'
               PROVE  /\ value'[_semaphores[b]] = 0
                      /\ \A v \in Thread : Releases(v, _semaphores[b])' => u = v
    BY DEF Leaving
  <2>1. _semaphores[b] \in Semaphore
    BY <1>1
  <2>2. \A v \in Thread : Releases(v, _semaphores[b])' => v # t /\ Releases(v, _semaphores[b])
    BY <1>1, <2>1 DEF Stays, Releases
  <2>3. _semaphores[b] # s
    BY <1>3, <2>2
  <2>. QED
    BY <1>2, <2>2, <2>3 DEF SectionInv, Leaving
<1>. QED
  BY <1>4, <1>5, <1>6, <1>7, <1>8, <1>9 DEF SectionInv

-----------------------------------------------------------------------------
(* What a step must say of the action it touches, for the rest to follow.  *)

\* The job u is inside of no section, or does not move.
Apart(u) == thread[u].pc \in Inside \/ thread'[u].pc \in Inside => thread'[u] = thread[u]

LEMMA ApartInside ==
  ASSUME NEW u \in Thread, Apart(u)
  PROVE  \A a \in Action : /\ IsInside(u, a)' <=> IsInside(u, a)
                           /\ Answered(u, a)' <=> Answered(u, a)
                           /\ IsInside(u, a) => thread'[u] = thread[u]
BY DEF Apart, IsInside, Handles, Answered

\* A job that stays outside of every section, or time, changes nothing.
LEMMA OutsideKeeps ==
  ASSUME ActionAssumption, ActionInv, TypeOK', UNCHANGED <<actr, repr, executed, overlap>>,
         raced => raced', ~raced' => SectionInv', \A u \in Thread : Apart(u)
  PROVE  ActionInv'
<1>1. Existing'
  BY DEF ActionInv, Existing
<1>2. ASSUME ~overlap, ~raced' PROVE UpToDate' /\ CountsTold'
  <2>1. UpToDate /\ CountsTold
    BY <1>2 DEF ActionInv
  <2>2. UpToDate'
    BY <2>1, ApartInside DEF UpToDate, Knows
  <2>3. \A a \in Action : Uncounted(a)' = Uncounted(a)
    BY ApartInside DEF Uncounted
  <2>. QED
    BY <2>1, <2>2, <2>3 DEF CountsTold
<1>. QED
  BY <1>1, <1>2 DEF ActionInv

\* A step of the job t in the section of the action a, or into it, or out of it.
LEMMA JobKeeps ==
  ASSUME ActionAssumption, ActionInv, TypeOK', overlap' = overlap, raced => raced', ~raced' => SectionInv',
         NEW t \in Thread, NEW a \in Action, \A u \in Thread \ {t} : Apart(u),
         IsInside(t, a) \/ IsInside(t, a)',
         \A b \in Action \ {a} : ~IsInside(t, b) /\ ~IsInside(t, b)',
         \A b \in Action \ {a} : actr'[b] = actr[b] /\ repr'[b] = repr[b] /\ executed'[b] = executed[b],
         repr'[a] # None => actr'[a] # None,
         ~overlap /\ ~raced' =>
           /\ IsInside(t, a)' => Knows(t, a)'
           /\ Proper(actr'[a], repr'[a], executed'[a] - (IF Answered(t, a)' THEN 1 ELSE 0))
  PROVE  ActionInv'
<1>1. Existing'
  BY DEF ActionInv, Existing
<1>2. ASSUME ~overlap, ~raced' PROVE UpToDate' /\ CountsTold'
  <2>1. UpToDate /\ CountsTold /\ Exclusive /\ Exclusive'
    BY <1>2 DEF ActionInv, SectionInv
  <2>2. \A u \in Thread \ {t} : ~IsInside(u, a) /\ ~IsInside(u, a)'
    BY <2>1, ApartInside DEF Exclusive
  <2>3. UpToDate'
    <3> SUFFICES ASSUME NEW u \in Thread, NEW b \in Action, IsInside(u, b)' PROVE Knows(u, b)'
      BY DEF UpToDate
    <3>1. CASE u = t
      BY <1>2, <3>1
    <3>2. CASE u # t
      <4>1. b # a /\ IsInside(u, b) /\ thread'[u] = thread[u]
        BY <2>2, <3>2, ApartInside
      <4>. QED
        BY <2>1, <4>1 DEF UpToDate, Knows
    <3>. QED
      BY <3>1, <3>2
  <2>4. \A b \in Action \ {a} : Uncounted(b)' = Uncounted(b)
    <3>1. \A u \in Thread, b \in Action \ {a} : Answered(u, b)' <=> Answered(u, b)
      BY ApartInside DEF Answered
    <3>. QED
      BY <3>1 DEF Uncounted
  <2>5. Uncounted(a)' = IF Answered(t, a)' THEN 1 ELSE 0
    BY <2>2 DEF Uncounted, Answered
  <2>6. CountsTold'
    <3> SUFFICES ASSUME NEW b \in Action
                 PROVE  Proper(actr'[b], repr'[b], executed'[b] - Uncounted(b)')
      BY DEF CountsTold
    <3>1. CASE b = a
      BY <1>2, <2>5, <3>1
    <3>2. CASE b # a
      BY <2>1, <2>4, <3>2 DEF CountsTold
    <3>. QED
      BY <3>1, <3>2
  <2>. QED
    BY <2>3, <2>6
<1>. QED
  BY <1>1, <1>2 DEF ActionInv

-----------------------------------------------------------------------------
(* The steps.                                                              *)

\* An <action> is created, changed or deleted; its entry is replaced or stays.
LEMMA ChangeKeeps ==
  ASSUME ActionAssumption, ActionInv, NEW a \in Action, Executing(a) => overlap,
         NEW p \in Params \cup {None}, actr' = [actr EXCEPT ![a] = p],
         UNCHANGED <<sections, thread, clock, events, overlap>>, changes < MaxChange, changes' = changes + 1,
         \/ p # None /\ Restart(a, scheduleAction(p))
         \/ p = None /\ Restart(a, None)
         \/ /\ p # None /\ actr[a] # None /\ UNCHANGED <<repr, executed, times>>
            /\ p.evm = actr[a].evm
            /\ p.evm \in {"periodic", "continuous"} => p.ecp = actr[a].ecp
  PROVE  ActionInv'
<1>1. TypeOK /\ Existing /\ (~raced => SectionInv) /\ (~overlap /\ ~raced => UpToDate /\ CountsTold)
  BY DEF ActionInv
<1>2. PICK r \in Repr \cup {None} :
        /\ repr' = [repr EXCEPT ![a] = r]
        /\ \/ p # None /\ r = scheduleAction(p) /\ executed' = [executed EXCEPT ![a] = 0]
           \/ p = None /\ r = None /\ executed' = [executed EXCEPT ![a] = 0]
           \/ /\ p # None /\ actr[a] # None /\ r = repr[a] /\ executed' = executed
              /\ p.evm = actr[a].evm
              /\ p.evm \in {"periodic", "continuous"} => p.ecp = actr[a].ecp
  <2>1. clock \in 0..MaxTime /\ repr \in [Action -> Repr \cup {None}]
    BY <1>1 DEF TypeOK
  <2>2. CASE p # None /\ Restart(a, scheduleAction(p))
    BY <2>1, <2>2, ScheduleType DEF Restart
  <2>3. CASE p = None /\ Restart(a, None)
    BY <2>3 DEF Restart
  <2>4. CASE /\ p # None /\ actr[a] # None /\ UNCHANGED <<repr, executed, times>>
             /\ p.evm = actr[a].evm
             /\ p.evm \in {"periodic", "continuous"} => p.ecp = actr[a].ecp
    BY <2>1, <2>4
  <2>. QED
    BY <2>2, <2>3, <2>4
<1>3. /\ actr' \in [Action -> Params \cup {None}] /\ repr' \in [Action -> Repr \cup {None}]
      /\ executed' \in [Action -> Nat]
      /\ actr'[a] = p /\ repr'[a] = r
      /\ \A b \in Action \ {a} : actr'[b] = actr[b] /\ repr'[b] = repr[b] /\ executed'[b] = executed[b]
  <2>1. /\ actr \in [Action -> Params \cup {None}] /\ repr \in [Action -> Repr \cup {None}]
        /\ executed \in [Action -> Nat]
    BY <1>1 DEF TypeOK
  <2>2. executed' = executed \/ executed' = [executed EXCEPT ![a] = 0]
    BY <1>2
  <2>3. executed' \in [Action -> Nat] /\ \A b \in Action \ {a} : executed'[b] = executed[b]
    BY <2>1, <2>2
  <2>. QED
    BY <1>2, <2>1, <2>3
<1>4. TypeOK'
  BY <1>1, <1>3 DEF TypeOK, ActionAssumption, sections
<1>5. ~raced' => SectionInv'
  BY <1>1, AllStay, SameStays DEF sections
<1>6. Existing'
  BY <1>1, <1>2, <1>3 DEF Existing
<1>7. ASSUME ~overlap, ~raced' PROVE UpToDate' /\ CountsTold'
  <2>1. UpToDate /\ CountsTold /\ clock \in 0..MaxTime /\ \A t \in Thread : ~IsInside(t, a)
    BY <1>1, <1>7 DEF TypeOK, sections, Executing
  <2>2. UpToDate'
    <3> SUFFICES ASSUME NEW t \in Thread, NEW b \in Action, IsInside(t, b)
                 PROVE  Knows(t, b)'
      BY DEF UpToDate, IsInside, Handles
    <3>1. b # a
      BY <2>1
    <3>. QED
      BY <1>3, <2>1, <3>1 DEF UpToDate, Knows
  <2>3. \A b \in Action : Uncounted(b)' = Uncounted(b)
    BY DEF Uncounted, Answered, IsInside, Handles
  <2>4. CountsTold'
    <3> SUFFICES ASSUME NEW b \in Action
                 PROVE  Proper(actr'[b], repr'[b], executed'[b] - Uncounted(b)')
      BY DEF CountsTold
    <3>1. CASE b # a
      BY <1>3, <2>1, <2>3, <3>1 DEF CountsTold
    <3>2. CASE b = a
      <4>1. Uncounted(b)' = 0 /\ executed[a] \in Nat /\ executed'[a] - 0 = executed'[a]
        BY <1>1, <1>3, <2>1, <2>3, <3>2 DEF Uncounted, Answered, TypeOK
      <4>2. CASE p # None /\ r = scheduleAction(p) /\ executed' = [executed EXCEPT ![a] = 0]
        <5>1. executed'[a] = 0
          BY <1>1, <4>2 DEF TypeOK
        <5>. PICK d : d = IF p.ecp = None THEN ecpContinuousDefault ELSE p.ecp
          OBVIOUS
        <5>2. d \in Nat
          <6>1. p.ecp \in Ecp \cup {None}
            BY <4>2 DEF Params
          <6>. QED
            BY <6>1, Constants
        <5>3. /\ r # None => r.evm = p.evm /\ r.ecp = p.ecp
              /\ p.evm = "once" => r # None
              /\ p.evm = "continuous" => r # None /\ r.count = d
          BY <2>1, <4>2, ScheduleType
        <5>4. d - d = 0
          BY <5>2
        <5>. QED
          BY <1>3, <3>2, <4>1, <4>2, <5>1, <5>3, <5>4 DEF Proper
      <4>3. CASE p = None /\ r = None
        BY <1>3, <3>2, <4>3 DEF Proper
      <4>4. CASE /\ p # None /\ actr[a] # None /\ r = repr[a] /\ executed' = executed /\ p.evm = actr[a].evm
                 /\ p.evm \in {"periodic", "continuous"} => p.ecp = actr[a].ecp
        <5>1. Proper(actr[a], repr[a], executed'[a] - Uncounted(b)')
          BY <2>1, <2>3, <3>2, <4>4 DEF CountsTold
        <5>. QED
          BY <1>3, <3>2, <4>4, <5>1 DEF Proper
      <4>. QED
        BY <1>2, <4>2, <4>3, <4>4
    <3>. QED
      BY <3>1, <3>2
  <2>. QED
    BY <2>2, <2>4
<1>. QED
  BY <1>4, <1>5, <1>6, <1>7 DEF ActionInv

LEMMA ActivateKeeps ==
  ASSUME ActionAssumption, ActionInv, NEW a \in Action, activate(a)
  PROVE  ActionInv'
<1>1. PICK p \in Params : actr' = [actr EXCEPT ![a] = p] /\ Restart(a, scheduleAction(p))
  BY DEF activate
<1>2. p # None /\ p \in Params \cup {None}
  BY Constants
<1>. QED
  BY <1>1, <1>2, ChangeKeeps DEF activate, Changeable

LEMMA UpdateKeeps ==
  ASSUME ActionAssumption, ActionInv, NEW a \in Action, update(a)
  PROVE  ActionInv'
<1>0. PICK evm \in Evm \cup {None}, ecp \in Ecp \cup {None} : \E p :
        /\ p = [evm |-> IF evm = None THEN actr[a].evm ELSE evm, ecp |-> IF ecp = None THEN actr[a].ecp ELSE ecp]
        /\ actr' = [actr EXCEPT ![a] = p]
        /\ IF evm # None \/ (ecp # None /\ actr[a].evm \in {"periodic", "continuous"})
           THEN Restart(a, scheduleAction(p))
           ELSE UNCHANGED <<repr, executed, times>>
  BY ZenonT(60) DEF update
<1>1. PICK p :
        /\ p = [evm |-> IF evm = None THEN actr[a].evm ELSE evm, ecp |-> IF ecp = None THEN actr[a].ecp ELSE ecp]
        /\ actr' = [actr EXCEPT ![a] = p]
        /\ IF evm # None \/ (ecp # None /\ actr[a].evm \in {"periodic", "continuous"})
           THEN Restart(a, scheduleAction(p))
           ELSE UNCHANGED <<repr, executed, times>>
  BY <1>0
<1>2. actr[a] \in Params /\ actr[a] # None
  BY DEF ActionInv, TypeOK, update
<1>3. p \in Params
  BY <1>1, <1>2, UpdateType
<1>4. p # None /\ p \in Params \cup {None}
  BY <1>3, Constants
<1>5. CASE Restart(a, scheduleAction(p))
  BY <1>1, <1>4, <1>5, ChangeKeeps DEF update, Changeable
<1>6. CASE UNCHANGED <<repr, executed, times>> /\ evm = None /\ ~(ecp # None /\ actr[a].evm \in {"periodic", "continuous"})
  <2>1. p.evm = actr[a].evm /\ (p.evm \in {"periodic", "continuous"} => p.ecp = actr[a].ecp)
    BY <1>1, <1>6
  <2>. QED
    BY <1>1, <1>2, <1>4, <1>6, <2>1, ChangeKeeps DEF update, Changeable
<1>. QED
  BY <1>1, <1>5, <1>6

LEMMA DeactivateKeeps ==
  ASSUME ActionAssumption, ActionInv, NEW a \in Action, deactivate(a)
  PROVE  ActionInv'
BY ChangeKeeps DEF deactivate, Changeable

\* An event has a job.
LEMMA BeginKeeps ==
  ASSUME ActionAssumption, ActionInv, NEW t \in Thread, NEW f, Becomes(t, f),
         thread[t].pc = "idle", f.pc \in {"idle", "next"},
         UNCHANGED <<actr, repr, sections, clock, changes, executed, overlap>>,
         events < MaxEvent, events' = events + 1
  PROVE  ActionInv'
<1>1. /\ thread' \in [Thread -> Job] /\ \A u \in Thread : Consistent(thread'[u])
      /\ thread'[t] = f /\ \A u \in Thread \ {t} : thread'[u] = thread[u]
  BY Become DEF ActionInv
<1>2. TypeOK'
  BY <1>1 DEF ActionInv, TypeOK, ActionAssumption, sections
<1>3. Stays(t) /\ Apart(t)
  BY <1>1 DEF Stays, Apart, IsInside, Wants, Handles, Releases, Inside
<1>4. raced' = raced /\ (~raced' => SectionInv')
  BY <1>1, <1>3, AllStay, SameStays DEF ActionInv, sections
<1>. QED
  BY <1>1, <1>2, <1>3, <1>4, OutsideKeeps DEF Apart

LEMMA TickKeeps ==
  ASSUME ActionAssumption, ActionInv, Tick
  PROVE  ActionInv'
<1>1. TypeOK'
  <2>1. clock' \in 0..MaxTime
    BY DEF Tick, ActionInv, TypeOK, ActionAssumption
  <2>. QED
    BY <2>1 DEF Tick, ActionInv, TypeOK, sections
<1>2. raced' = raced /\ (~raced' => SectionInv')
  BY AllStay, SameStays DEF Tick, ActionInv, sections
<1>. QED
  BY <1>1, <1>2, OutsideKeeps DEF Tick, Apart

\* The list of an event is one of actions.
LEMMA TodoType ==
  ASSUME ActionAssumption, NEW actions \in SUBSET Action, NEW todo \in SetToSeqs(actions)
  PROVE  todo \in Seq(Action)
<1>1. IsFiniteSet(actions)
  BY FS_Subset DEF ActionAssumption
<1>2. Cardinality(actions) \in Nat
  BY <1>1, FS_CardinalityType
<1>3. todo \in [1..Cardinality(actions) -> actions]
  BY DEF SetToSeqs
<1>4. todo \in [1..Cardinality(actions) -> Action]
  BY <1>3
<1>. QED
  BY <1>2, <1>4, SeqDef

\* The job of an event begins with its first action, if there is one.
LEMMA EvaluateJob ==
  ASSUME ActionAssumption, ActionInv, NEW t \in Thread, evaluateActions(t)
  PROVE  \E f : Becomes(t, f) /\ f.pc \in {"idle", "next"}
<1>1. PICK met \in SUBSET Action, todo \in Seq(Action) :
        thread' = [thread EXCEPT ![t] = Goon([Idle EXCEPT !.now = clock, !.met = met, !.todo = todo])]
  <2> DEFINE actions == {a \in Action : repr[a] # None}
  <2>1. PICK met \in SUBSET actions, todo \in SetToSeqs(actions) :
          thread' = [thread EXCEPT ![t] = Goon([Idle EXCEPT !.now = clock, !.met = met, !.todo = todo])]
    BY DEF evaluateActions
  <2>2. todo \in Seq(Action)
    BY TodoType
  <2>. QED
    BY <2>1, <2>2
<1>2. [Idle EXCEPT !.now = clock, !.met = met, !.todo = todo] \in Job
  BY IdleJob DEF ActionInv, TypeOK, Job
<1>3. PICK f \in Job : /\ f = Goon([Idle EXCEPT !.now = clock, !.met = met, !.todo = todo])
                       /\ f.pc \in {"idle", "next"} /\ Consistent(f)
  BY <1>2, GoonType
<1>. QED
  BY <1>1, <1>3 DEF Becomes

LEMMA EvaluateKeeps ==
  ASSUME ActionAssumption, ActionInv, NEW t \in Thread, evaluateActions(t)
  PROVE  ActionInv'
<1>1. PICK f : Becomes(t, f) /\ f.pc \in {"idle", "next"}
  BY EvaluateJob
<1>2. thread[t].pc = "idle" /\ events < MaxEvent /\ events' = events + 1
      /\ UNCHANGED <<actr, repr, sections, clock, changes, executed, overlap>>
  BY DEF evaluateActions
<1>. QED
  BY <1>1, <1>2, BeginKeeps

\* The types after a step of a job.
LEMMA StepTypes ==
  ASSUME TypeOK, NEW t \in Thread, NEW f, Becomes(t, f),
         actr' \in [Action -> Params \cup {None}], repr' \in [Action -> Repr \cup {None}],
         _semaphores' \in [Action -> Semaphore \cup {None}], value' \in [Semaphore -> Nat], raced' \in BOOLEAN,
         executed' \in [Action -> Nat], UNCHANGED <<clock, changes, events, overlap>>
  PROVE  TypeOK'
<1>1. thread' \in [Thread -> Job] /\ \A u \in Thread : Consistent(thread'[u])
  BY Become
<1>. QED
  BY <1>1 DEF TypeOK

LEMMA LookupKeeps ==
  ASSUME ActionAssumption, ActionInv, NEW t \in Thread, lookupSemaphore(t)
  PROVE  ActionInv' /\ \A u \in Thread : Apart(u)
<1>. PICK a : a = Head(thread[t].todo)
  OBVIOUS
<1>. PICK f : f = [thread[t] EXCEPT !.pc = IF _semaphores[a] = None THEN "create" ELSE "acquire", !.sem = _semaphores[a]]
  OBVIOUS
<1>1. thread[t].pc = "next" /\ UNCHANGED <<actr, repr, sections, clock, changes, events, executed, overlap>>
      /\ thread' = [thread EXCEPT ![t] = f]
  BY DEF lookupSemaphore
<1>2. TypeOK /\ thread[t] \in Job /\ thread[t].todo # <<>> /\ a \in Action /\ Handles(t, a)
  BY <1>1, ActionOf DEF ActionInv, TypeOK, Consistent, Handles
<1>3. /\ f \in Job /\ f.todo = thread[t].todo /\ f.sem = _semaphores[a]
      /\ f.pc = IF _semaphores[a] = None THEN "create" ELSE "acquire"
  BY <1>2 DEF Job, TypeOK
<1>4. Becomes(t, f)
  BY <1>1, <1>2, <1>3 DEF Becomes, Consistent
<1>5. thread'[t] = f /\ \A u \in Thread \ {t} : thread'[u] = thread[u]
  BY <1>2, <1>4, Become
<1>6. TypeOK'
  BY <1>1, <1>2, <1>4, StepTypes DEF TypeOK, sections
<1>7. raced' = raced /\ (~raced' => SectionInv')
  BY <1>1, <1>2, <1>3, <1>5, LookupSection DEF ActionInv, sections
<1>8. \A u \in Thread : Apart(u)
  BY <1>1, <1>3, <1>5 DEF Apart, Inside
<1>. QED
  BY <1>1, <1>6, <1>7, <1>8, OutsideKeeps

\* What happens outside of it leaves an action as it is.
LEMMA SameProper ==
  ASSUME ActionInv, NEW t \in Thread, NEW a \in Action, ~overlap, ~raced,
         UNCHANGED <<actr, repr, executed>>,
         Answered(t, a) <=> Answered(t, a)',
         \A u \in Thread \ {t} : ~IsInside(u, a)
  PROVE  Proper(actr'[a], repr'[a], executed'[a] - (IF Answered(t, a)' THEN 1 ELSE 0))
<1>1. Uncounted(a) = IF Answered(t, a)' THEN 1 ELSE 0
  BY DEF Uncounted, Answered
<1>. QED
  BY <1>1 DEF ActionInv, CountsTold

\* A job enters the section.
LEMMA EnterKeeps ==
  ASSUME ActionAssumption, ActionInv, NEW t \in Thread, NEW a \in Action, Handles(t, a), thread[t].pc \notin Inside,
         NEW f, Becomes(t, f), f.pc = "inside", f.todo = thread[t].todo,
         TypeOK', raced => raced', ~raced' => SectionInv',
         UNCHANGED <<actr, repr, executed, overlap>>
  PROVE  ActionInv'
<1>1. TypeOK /\ thread'[t] = f /\ \A u \in Thread \ {t} : thread'[u] = thread[u]
  BY Become DEF ActionInv
<1>2. /\ \A b \in Action : ~IsInside(t, b) /\ (IsInside(t, b)' <=> b = a) /\ ~Answered(t, b) /\ ~Answered(t, b)'
      /\ Knows(t, a)'
      /\ \A u \in Thread \ {t} : Apart(u)
  BY <1>1 DEF IsInside, Handles, Inside, Answered, Knows, Apart
<1>3. ASSUME ~overlap, ~raced'
      PROVE  Proper(actr'[a], repr'[a], executed'[a] - (IF Answered(t, a)' THEN 1 ELSE 0))
  <2>1. \A u \in Thread \ {t} : ~IsInside(u, a)
    BY <1>2, <1>3, ApartInside DEF SectionInv, Exclusive
  <2>. QED
    BY <1>2, <1>3, <2>1, SameProper
<1>4. repr'[a] # None => actr'[a] # None
  BY DEF ActionInv, Existing
<1>. QED
  BY <1>2, <1>3, <1>4, JobKeeps

LEMMA NewKeeps ==
  ASSUME ActionAssumption, ActionInv, NEW t \in Thread, newSemaphore(t)
  PROVE  ActionInv'
<1>. PICK a : a = Head(thread[t].todo)
  OBVIOUS
<1>. PICK f : f = [thread[t] EXCEPT !.pc = "inside"]
  OBVIOUS
<1>1. thread[t].pc = "create" /\ UNCHANGED <<actr, repr, clock, changes, events, executed, overlap>>
      /\ thread' = [thread EXCEPT ![t] = f]
  BY DEF newSemaphore
<1>2. PICK s \in Semaphore \ Known(t) :
        /\ _semaphores' = [_semaphores EXCEPT ![a] = s]
        /\ value' = [value EXCEPT ![s] = 0]
        /\ raced' = (raced \/ _semaphores[a] # None)
  BY DEF newSemaphore
<1>3. TypeOK /\ thread[t] \in Job /\ thread[t].todo # <<>> /\ a \in Action /\ Handles(t, a) /\ thread[t].pc \notin Inside
  BY <1>1, ActionOf DEF ActionInv, TypeOK, Consistent, Handles, Inside
<1>4. f \in Job /\ f.todo = thread[t].todo /\ f.pc = "inside"
  BY <1>3 DEF Job, Inside
<1>5. Becomes(t, f)
  BY <1>1, <1>3, <1>4 DEF Becomes, Consistent
<1>6. thread'[t] = f /\ \A u \in Thread \ {t} : thread'[u] = thread[u]
  BY <1>3, <1>5, Become
<1>7. TypeOK'
  <2>1. _semaphores' \in [Action -> Semaphore \cup {None}] /\ value' \in [Semaphore -> Nat] /\ raced' \in BOOLEAN
    BY <1>2, <1>3 DEF TypeOK
  <2>. QED
    BY <1>1, <1>3, <1>5, <2>1, StepTypes DEF TypeOK
<1>8. ~raced' => SectionInv'
  BY <1>1, <1>2, <1>3, <1>4, <1>6, NewSection DEF ActionInv
<1>9. raced => raced'
  BY <1>2
<1>. QED
  BY <1>1, <1>3, <1>4, <1>5, <1>7, <1>8, <1>9, EnterKeeps

LEMMA AcquireKeeps ==
  ASSUME ActionAssumption, ActionInv, NEW t \in Thread, acquire(t)
  PROVE  ActionInv'
<1>. PICK a : a = Head(thread[t].todo)
  OBVIOUS
<1>. PICK s : s = thread[t].sem
  OBVIOUS
<1>1. /\ thread[t].pc = "acquire" /\ UNCHANGED <<actr, repr, _semaphores, raced, clock, changes, events, executed, overlap>>
      /\ \/ /\ value[s] > 0 /\ value' = [value EXCEPT ![s] = value[s] - 1]
            /\ thread' = [thread EXCEPT ![t].pc = "inside", ![t].sem = None]
         \/ value[s] = 0 /\ thread' = [thread EXCEPT ![t].pc = "wait"] /\ value' = value
  BY DEF acquire
<1>2. TypeOK /\ thread[t] \in Job /\ thread[t].todo # <<>> /\ a \in Action /\ Handles(t, a) /\ thread[t].pc \notin Inside
      /\ s \in Semaphore /\ value[s] \in Nat
  BY <1>1, ActionOf DEF ActionInv, TypeOK, Consistent, Handles, Inside, Job
<1>3. CASE value[s] > 0
  <2>. PICK f : f = [thread[t] EXCEPT !.pc = "inside", !.sem = None]
    OBVIOUS
  <2>0. /\ value' = [value EXCEPT ![s] = value[s] - 1]
        /\ thread' = [thread EXCEPT ![t].pc = "inside", ![t].sem = None]
    BY <1>1, <1>2, <1>3
  <2>1. value' = [value EXCEPT ![s] = value[s] - 1] /\ thread' = [thread EXCEPT ![t] = f]
    <3>1. thread' = [thread EXCEPT ![t] = [[thread[t] EXCEPT !.pc = "inside"] EXCEPT !.sem = None]]
      BY <2>0
    <3>2. f = [[thread[t] EXCEPT !.pc = "inside"] EXCEPT !.sem = None]
      OBVIOUS
    <3>. QED
      BY <2>0, <3>1, <3>2
  <2>2. f \in Job /\ f.todo = thread[t].todo /\ f.pc = "inside"
    BY <1>2 DEF Job, Inside
  <2>3. Becomes(t, f)
    BY <1>2, <2>1, <2>2 DEF Becomes, Consistent
  <2>4. thread'[t] = f /\ \A u \in Thread \ {t} : thread'[u] = thread[u]
    BY <1>2, <2>3, Become
  <2>5. TypeOK'
    <3>1. value' \in [Semaphore -> Nat]
      BY <1>2, <1>3, <2>1 DEF TypeOK
    <3>. QED
      BY <1>1, <1>2, <2>3, <3>1, StepTypes DEF TypeOK
  <2>6. ~raced' => SectionInv'
    BY <1>1, <1>2, <1>3, <2>1, <2>2, <2>4, AcquireSection DEF ActionInv
  <2>. QED
    BY <1>1, <1>2, <2>2, <2>3, <2>5, <2>6, EnterKeeps
<1>4. CASE value[s] = 0
  <2>. PICK f : f = [thread[t] EXCEPT !.pc = "wait"]
    OBVIOUS
  <2>1. value' = value /\ thread' = [thread EXCEPT ![t] = f]
    BY <1>1, <1>2, <1>4
  <2>2. f \in Job /\ f.todo = thread[t].todo /\ f.pc = "wait" /\ f.sem = thread[t].sem
    BY <1>2 DEF Job
  <2>3. Becomes(t, f)
    BY <1>1, <1>2, <2>1, <2>2 DEF Becomes, Consistent, TypeOK
  <2>4. thread'[t] = f /\ \A u \in Thread \ {t} : thread'[u] = thread[u]
    BY <1>2, <2>3, Become
  <2>5. TypeOK'
    BY <1>1, <1>2, <2>1, <2>3, StepTypes DEF TypeOK
  <2>6. Stays(t) /\ \A u \in Thread : Apart(u)
    BY <1>1, <2>2, <2>4 DEF Stays, Apart, IsInside, Wants, Handles, Releases, Inside
  <2>7. raced' = raced /\ (~raced' => SectionInv')
    BY <1>1, <1>2, <2>1, <2>4, <2>6, AllStay, SameStays DEF ActionInv
  <2>. QED
    BY <1>1, <2>5, <2>6, <2>7, OutsideKeeps
<1>. QED
  BY <1>2, <1>3, <1>4

LEMMA ReleaseKeeps ==
  ASSUME ActionAssumption, ActionInv, NEW t \in Thread, releaseSemaphore(t)
  PROVE  ActionInv' /\ \A u \in Thread : Apart(u)
<1>. PICK s : s = thread[t].sem
  OBVIOUS
<1>. PICK f : f = Goon([thread[t] EXCEPT !.todo = Tail(thread[t].todo)])
  OBVIOUS
<1>1. /\ thread[t].pc = "release" /\ UNCHANGED <<actr, repr, _semaphores, raced, clock, changes, events, executed, overlap>>
      /\ value' = IF s = None THEN value ELSE [value EXCEPT ![s] = IF s \in Known(t) THEN value[s] + 1 ELSE 0]
      /\ IF Waiters(s) = {}
           THEN thread' = [thread EXCEPT ![t] = f]
           ELSE \E u \in Waiters(s) : thread' = [thread EXCEPT ![t] = f, ![u].pc = "acquire"]
  BY DEF releaseSemaphore
<1>2. TypeOK /\ thread[t] \in Job /\ thread \in [Thread -> Job] /\ s \in Semaphore \cup {None}
  BY DEF ActionInv, TypeOK, Job
<1>3. f \in Job /\ f.pc \in {"idle", "next"} /\ Consistent(f)
  <2>1. [thread[t] EXCEPT !.todo = Tail(thread[t].todo)] \in Job
    BY <1>1, <1>2, TailType DEF TypeOK
  <2>. QED
    BY <2>1, GoonType
<1>4. /\ thread' \in [Thread -> Job] /\ thread'[t] = f
      /\ \A u \in Thread : Consistent(thread'[u])
      /\ \A u \in Thread \ {t} :
           \/ thread'[u] = thread[u]
           \/ /\ thread[u].pc = "wait" /\ thread'[u].pc = "acquire"
              /\ thread'[u].todo = thread[u].todo /\ thread'[u].sem = thread[u].sem
  <2>1. CASE Waiters(s) = {}
    BY <1>1, <1>2, <1>3, <2>1 DEF TypeOK
  <2>2. CASE Waiters(s) # {}
    <3>1. PICK u \in Waiters(s) : thread' = [thread EXCEPT ![t] = f, ![u].pc = "acquire"]
      BY <1>1, <2>2
    <3>2. u \in Thread /\ u # t /\ thread[u].pc = "wait" /\ thread[u] \in Job
      BY <1>1, <1>2, <3>1 DEF Waiters
    <3>. PICK g : g = [thread[u] EXCEPT !.pc = "acquire"]
      OBVIOUS
    <3>3. g \in Job /\ g.pc = "acquire" /\ g.todo = thread[u].todo /\ g.sem = thread[u].sem /\ Consistent(g)
      BY <1>2, <3>2 DEF Job, Consistent, TypeOK
    <3>4. thread' = [thread EXCEPT ![t] = f, ![u] = g]
      BY <1>2, <3>1, <3>2
    <3>5. thread' \in [Thread -> Job] /\ thread'[t] = f /\ thread'[u] = g
          /\ \A v \in Thread \ {t, u} : thread'[v] = thread[v]
      BY <1>2, <1>3, <3>2, <3>3, <3>4
    <3>. QED
      BY <1>2, <1>3, <3>2, <3>3, <3>5 DEF TypeOK
  <2>. QED
    BY <2>1, <2>2
<1>5. TypeOK'
  <2>1. value' \in [Semaphore -> Nat]
    BY <1>1, <1>2 DEF TypeOK
  <2>. QED
    BY <1>1, <1>2, <1>4, <2>1 DEF TypeOK
<1>6. \A u \in Thread \ {t} : Stays(u)
  BY <1>4 DEF Stays, IsInside, Wants, Handles, Releases, Inside
<1>7. \A u \in Thread : Apart(u)
  BY <1>1, <1>3, <1>4 DEF Apart, Inside
<1>8. raced' = raced /\ (~raced' => SectionInv')
  BY <1>1, <1>2, <1>3, <1>4, <1>6, ReleaseSection DEF ActionInv
<1>. QED
  BY <1>1, <1>5, <1>7, <1>8, OutsideKeeps

\* A step of a job that stays in the section of an action.
LEMMA InsideKeeps ==
  ASSUME ActionAssumption, ActionInv, NEW t \in Thread, NEW a \in Action, IsInside(t, a),
         NEW f, Becomes(t, f), f.pc \in Inside, f.todo = thread[t].todo,
         UNCHANGED <<sections, clock, changes, events, overlap>>,
         actr' \in [Action -> Params \cup {None}], repr' \in [Action -> Repr \cup {None}], executed' \in [Action -> Nat],
         \A b \in Action \ {a} : actr'[b] = actr[b] /\ repr'[b] = repr[b] /\ executed'[b] = executed[b],
         repr'[a] # None => actr'[a] # None,
         ~overlap /\ ~raced =>
           /\ f.pc # "inside" => f.action = repr'[a]
           /\ f.pc \in {"sending", "sent", "stored"} => f.copy = actr'[a]
           /\ Proper(actr'[a], repr'[a], executed'[a] - (IF f.pc \in {"sent", "stored"} THEN 1 ELSE 0))
  PROVE  ActionInv'
<1>1. TypeOK /\ thread'[t] = f /\ \A u \in Thread \ {t} : thread'[u] = thread[u]
  BY Become DEF ActionInv
<1>2. TypeOK'
  BY <1>1, StepTypes DEF TypeOK, sections
<1>3. /\ \A b \in Action : (IsInside(t, b) <=> b = a) /\ (IsInside(t, b)' <=> b = a)
      /\ \A u \in Thread \ {t} : Apart(u)
      /\ \A u \in Thread : Stays(u)
  <2>1. \A b \in Action : (IsInside(t, b) <=> b = a) /\ (IsInside(t, b)' <=> b = a)
    BY <1>1 DEF IsInside, Handles, Inside
  <2>2. Stays(t)
    BY <1>1, <2>1 DEF Stays, IsInside, Wants, Handles, Releases, Inside
  <2>. QED
    BY <1>1, <2>1, <2>2, SameStays DEF Apart
<1>4. raced' = raced /\ (~raced' => SectionInv')
  BY <1>1, <1>3, AllStay DEF ActionInv, sections
<1>5. /\ Answered(t, a)' <=> f.pc \in {"sent", "stored"}
      /\ ~overlap /\ ~raced => Knows(t, a)'
  BY <1>1, <1>3 DEF Answered, Knows
<1>. QED
  BY <1>2, <1>3, <1>4, <1>5, JobKeeps

\* A job leaves the section of an action.
LEMMA LeaveKeeps ==
  ASSUME ActionAssumption, ActionInv, NEW t \in Thread, NEW a \in Action, IsInside(t, a),
         Leave(t, a, TRUE) \/ Leave(t, a, FALSE),
         UNCHANGED <<clock, changes, events, overlap>>,
         actr' \in [Action -> Params \cup {None}], repr' \in [Action -> Repr \cup {None}], executed' \in [Action -> Nat],
         \A b \in Action \ {a} : actr'[b] = actr[b] /\ repr'[b] = repr[b] /\ executed'[b] = executed[b],
         repr'[a] # None => actr'[a] # None,
         ~overlap /\ ~raced => Proper(actr'[a], repr'[a], executed'[a])
  PROVE  ActionInv'
<1>1. PICK f : Becomes(t, f) /\ f.pc = "release" /\ f.sem = _semaphores[a]
  BY LeaveJob DEF IsInside, Handles, ActionInv
<1>2. TypeOK /\ thread'[t] = f /\ \A u \in Thread \ {t} : thread'[u] = thread[u]
  BY <1>1, Become DEF ActionInv
<1>3. /\ _semaphores' \in [Action -> Semaphore \cup {None}] /\ value' = value
      /\ raced' \in BOOLEAN /\ (raced => raced')
  BY <1>2 DEF Leave, TypeOK
<1>4. TypeOK'
  BY <1>1, <1>2, <1>3, StepTypes DEF TypeOK
<1>5. ~raced' => SectionInv'
  BY <1>2, <1>3, LeaveSection DEF ActionInv
<1>6. /\ \A b \in Action : (IsInside(t, b) <=> b = a) /\ ~IsInside(t, b)'
      /\ ~Answered(t, a)'
      /\ \A u \in Thread \ {t} : Apart(u)
  BY <1>1, <1>2 DEF IsInside, Handles, Inside, Answered, Apart
<1>7. executed'[a] \in Nat /\ executed'[a] - 0 = executed'[a]
  OBVIOUS
<1>. QED
  BY <1>3, <1>4, <1>5, <1>6, <1>7, JobKeeps

\* A job that is in a section, and the action it is at.
LEMMA InsideOf ==
  ASSUME ActionInv, NEW t \in Thread, thread[t].pc \in Inside
  PROVE  /\ Head(thread[t].todo) \in Action /\ IsInside(t, Head(thread[t].todo))
         /\ thread[t] \in Job /\ thread[t].todo # <<>> /\ thread[t].now \in 0..MaxTime
         /\ actr \in [Action -> Params \cup {None}] /\ repr \in [Action -> Repr \cup {None}]
         /\ executed \in [Action -> Nat]
BY ActionOf DEF ActionInv, TypeOK, Consistent, IsInside, Handles, Inside, Job

\* What it knows, and what has been counted.
LEMMA InsideTold ==
  ASSUME ActionInv, NEW t \in Thread, NEW a \in Action, IsInside(t, a), ~overlap, ~raced
  PROVE  /\ thread[t].pc # "inside" => thread[t].action = repr[a]
         /\ thread[t].pc \in {"sending", "sent", "stored"} => thread[t].copy = actr[a]
         /\ Proper(actr[a], repr[a], executed[a] - (IF thread[t].pc \in {"sent", "stored"} THEN 1 ELSE 0))
<1>1. Uncounted(a) = IF thread[t].pc \in {"sent", "stored"} THEN 1 ELSE 0
  BY DEF Uncounted, Answered, ActionInv, SectionInv, Exclusive
<1>. QED
  BY <1>1 DEF ActionInv, CountsTold, UpToDate, Knows

\* The entry of an action is read.
LEMMA ReadKeeps ==
  ASSUME ActionAssumption, ActionInv, NEW t \in Thread, getActionRepr(t)
  PROVE  ActionInv'
<1>. PICK a : a = Head(thread[t].todo)
  OBVIOUS
<1>. PICK f : f = [thread[t] EXCEPT !.pc = "entered", !.action = repr[a]]
  OBVIOUS
<1>1. /\ thread[t].pc = "inside" /\ thread' = [thread EXCEPT ![t] = f]
      /\ UNCHANGED <<actr, repr, sections, clock, changes, events, executed, overlap>>
  BY DEF getActionRepr
<1>2. /\ a \in Action /\ IsInside(t, a) /\ thread[t] \in Job /\ thread[t].todo # <<>>
      /\ actr \in [Action -> Params \cup {None}] /\ repr \in [Action -> Repr \cup {None}] /\ executed \in [Action -> Nat]
  BY <1>1, InsideOf DEF Inside
<1>3. f \in Job /\ f.pc = "entered" /\ f.pc \in Inside /\ f.todo = thread[t].todo /\ f.action = repr[a]
  BY <1>2 DEF Job, Inside
<1>4. Becomes(t, f)
  BY <1>1, <1>2, <1>3 DEF Becomes, Consistent
<1>5. repr[a] # None => actr[a] # None
  BY <1>2 DEF ActionInv, Existing
<1>6. ~overlap /\ ~raced => Proper(actr[a], repr[a], executed[a] - 0)
  BY <1>1, <1>2, InsideTold
<1>. QED
  BY <1>1, <1>2, <1>3, <1>4, <1>5, <1>6, InsideKeeps

\* An action is skipped.
LEMMA SkipKeeps ==
  ASSUME ActionAssumption, ActionInv, NEW t \in Thread, thread[t].pc = "entered",
         Leave(t, Head(thread[t].todo), TRUE) \/ Leave(t, Head(thread[t].todo), FALSE),
         UNCHANGED <<actr, repr, clock, changes, events, executed, overlap>>
  PROVE  ActionInv'
<1>. PICK a : a = Head(thread[t].todo)
  OBVIOUS
<1>1. /\ a \in Action /\ IsInside(t, a)
      /\ actr \in [Action -> Params \cup {None}] /\ repr \in [Action -> Repr \cup {None}] /\ executed \in [Action -> Nat]
  BY InsideOf DEF Inside
<1>2. ~overlap /\ ~raced => Proper(actr[a], repr[a], executed[a])
  <2>1. executed[a] \in Nat /\ executed[a] - 0 = executed[a]
    BY <1>1
  <2>. QED
    BY <1>1, <2>1, InsideTold
<1>3. repr[a] # None => actr[a] # None
  BY <1>1 DEF ActionInv, Existing
<1>. QED
  BY <1>1, <1>2, <1>3, LeaveKeeps

\* The <action> is retrieved for its request.
LEMMA RetrieveKeeps ==
  ASSUME ActionAssumption, ActionInv, NEW t \in Thread, retrieve(t)
  PROVE  ActionInv'
<1>. PICK a : a = Head(thread[t].todo)
  OBVIOUS
<1>. PICK f : f = [thread[t] EXCEPT !.pc = "sending", !.copy = actr[a]]
  OBVIOUS
<1>1. /\ thread[t].pc = "entered" /\ thread[t].action # None
      /\ UNCHANGED <<actr, repr, clock, changes, events, executed, overlap>>
      /\ IF actr[a] = None THEN Leave(t, a, TRUE)
         ELSE thread' = [thread EXCEPT ![t] = f] /\ UNCHANGED sections
  BY DEF retrieve
<1>2. CASE actr[a] = None
  BY <1>1, <1>2, SkipKeeps
<1>3. CASE actr[a] # None
  <2>1. /\ a \in Action /\ IsInside(t, a) /\ thread[t] \in Job /\ thread[t].todo # <<>>
        /\ actr \in [Action -> Params \cup {None}] /\ repr \in [Action -> Repr \cup {None}] /\ executed \in [Action -> Nat]
    BY <1>1, InsideOf DEF Inside
  <2>2. actr[a] \in Params
    BY <1>3, <2>1
  <2>3. /\ f \in Job /\ f.pc = "sending" /\ f.pc \in Inside /\ f.todo = thread[t].todo
        /\ f.action = thread[t].action /\ f.copy = actr[a]
    BY <2>1, <2>2 DEF Job, Inside
  <2>4. Becomes(t, f)
    BY <1>1, <1>3, <2>1, <2>3 DEF Becomes, Consistent
  <2>5. ~overlap /\ ~raced => thread[t].action = repr[a] /\ Proper(actr[a], repr[a], executed[a] - 0)
    BY <1>1, <2>1, InsideTold
  <2>. QED
    BY <1>1, <1>3, <2>1, <2>3, <2>4, <2>5, InsideKeeps
<1>. QED
  BY <1>2, <1>3

\* The request is sent.
LEMMA HandleKeeps ==
  ASSUME ActionAssumption, ActionInv, NEW t \in Thread, handleRequest(t)
  PROVE  ActionInv'
<1>. PICK a : a = Head(thread[t].todo)
  OBVIOUS
<1>. PICK f : f = [thread[t] EXCEPT !.pc = "sent"]
  OBVIOUS
<1>1. /\ thread[t].pc = "sending" /\ thread' = [thread EXCEPT ![t] = f]
      /\ executed' = [executed EXCEPT ![a] = executed[a] + 1]
      /\ UNCHANGED <<actr, repr, sections, clock, changes, events, overlap>>
  BY DEF handleRequest
<1>2. /\ a \in Action /\ IsInside(t, a) /\ thread[t] \in Job /\ thread[t].todo # <<>> /\ Consistent(thread[t])
      /\ actr \in [Action -> Params \cup {None}] /\ repr \in [Action -> Repr \cup {None}] /\ executed \in [Action -> Nat]
  BY <1>1, InsideOf DEF Inside, ActionInv, TypeOK
<1>3. /\ f \in Job /\ f.pc = "sent" /\ f.pc \in Inside /\ f.todo = thread[t].todo
      /\ f.action = thread[t].action /\ f.copy = thread[t].copy
  BY <1>2 DEF Job, Inside
<1>4. Becomes(t, f)
  BY <1>1, <1>2, <1>3 DEF Becomes, Consistent
<1>5. executed' \in [Action -> Nat] /\ \A b \in Action \ {a} : executed'[b] = executed[b]
  BY <1>1, <1>2
<1>6. repr[a] # None => actr[a] # None
  BY <1>2 DEF ActionInv, Existing
<1>7. ASSUME ~overlap, ~raced
      PROVE  /\ f.action = repr[a] /\ f.copy = actr[a]
             /\ Proper(actr[a], repr[a], executed'[a] - 1)
  <2>1. executed'[a] - 1 = executed[a] - 0
    BY <1>1, <1>2
  <2>. QED
    BY <1>1, <1>2, <1>3, <1>7, <2>1, InsideTold
<1>8. repr' = repr /\ actr' = actr /\ (IF f.pc \in {"sent", "stored"} THEN 1 ELSE 0) = 1
  BY <1>1, <1>3
<1>9. ~overlap /\ ~raced =>
        /\ f.pc # "inside" => f.action = repr'[a]
        /\ f.pc \in {"sending", "sent", "stored"} => f.copy = actr'[a]
        /\ Proper(actr'[a], repr'[a], executed'[a] - (IF f.pc \in {"sent", "stored"} THEN 1 ELSE 0))
  BY <1>7, <1>8
<1>10. /\ actr' \in [Action -> Params \cup {None}] /\ repr' \in [Action -> Repr \cup {None}]
       /\ \A b \in Action \ {a} : actr'[b] = actr[b] /\ repr'[b] = repr[b] /\ executed'[b] = executed[b]
       /\ repr'[a] # None => actr'[a] # None
  BY <1>2, <1>5, <1>6, <1>8
<1>11. UNCHANGED <<sections, clock, changes, events, overlap>>
  BY <1>1
<1>. QED
  BY <1>2, <1>3, <1>4, <1>5, <1>9, <1>10, <1>11, InsideKeeps

\* The response is stored in the <action>. Without a change meanwhile the <action> stays as it is.
LEMMA DbUpdateKeeps ==
  ASSUME ActionAssumption, ActionInv, NEW t \in Thread, dbUpdate(t)
  PROVE  ActionInv'
<1>. PICK a : a = Head(thread[t].todo)
  OBVIOUS
<1>. PICK f : f = [thread[t] EXCEPT !.pc = "stored"]
  OBVIOUS
<1>1. /\ thread[t].pc = "sent" /\ UNCHANGED <<repr, clock, changes, events, executed, overlap>>
      /\ IF actr[a] = None THEN actr' = actr /\ Leave(t, a, TRUE)
         ELSE /\ actr' = [actr EXCEPT ![a] = thread[t].copy]
              /\ thread' = [thread EXCEPT ![t] = f] /\ UNCHANGED sections
  BY DEF dbUpdate
<1>2. /\ a \in Action /\ IsInside(t, a) /\ thread[t] \in Job /\ thread[t].todo # <<>>
      /\ thread[t].action # None /\ thread[t].copy # None
      /\ actr \in [Action -> Params \cup {None}] /\ repr \in [Action -> Repr \cup {None}] /\ executed \in [Action -> Nat]
  BY <1>1, InsideOf DEF Inside, ActionInv, TypeOK, Consistent
<1>3. CASE actr[a] = None
  <2>1. repr[a] = None
    BY <1>2, <1>3 DEF ActionInv, Existing
  <2>2. overlap \/ raced
    BY <1>1, <1>2, <1>3, InsideTold
  <2>. QED
    BY <1>1, <1>2, <1>3, <2>1, <2>2, LeaveKeeps
<1>4. CASE actr[a] # None
  <2>1. thread[t].copy \in Params
    BY <1>2 DEF Job
  <2>2. /\ actr' \in [Action -> Params \cup {None}] /\ actr'[a] = thread[t].copy
        /\ \A b \in Action \ {a} : actr'[b] = actr[b]
    BY <1>1, <1>2, <1>4, <2>1
  <2>3. /\ f \in Job /\ f.pc = "stored" /\ f.pc \in Inside /\ f.todo = thread[t].todo
        /\ f.action = thread[t].action /\ f.copy = thread[t].copy
    BY <1>2 DEF Job, Inside
  <2>4. Becomes(t, f)
    BY <1>1, <1>2, <1>4, <2>3 DEF Becomes, Consistent
  <2>5. ASSUME ~overlap, ~raced
        PROVE  f.action = repr[a] /\ actr'[a] = actr[a] /\ Proper(actr[a], repr[a], executed[a] - 1)
    BY <1>1, <1>2, <2>2, <2>3, <2>5, InsideTold
  <2>6. repr' = repr /\ executed' = executed /\ (IF f.pc \in {"sent", "stored"} THEN 1 ELSE 0) = 1
    BY <1>1, <2>3
  <2>7. ~overlap /\ ~raced =>
          /\ f.pc # "inside" => f.action = repr'[a]
          /\ f.pc \in {"sending", "sent", "stored"} => f.copy = actr'[a]
          /\ Proper(actr'[a], repr'[a], executed'[a] - (IF f.pc \in {"sent", "stored"} THEN 1 ELSE 0))
    BY <2>2, <2>3, <2>5, <2>6
  <2>8. repr'[a] # None => actr'[a] # None
    BY <1>2, <2>2, <2>6
  <2>. QED
    BY <1>1, <1>2, <1>4, <2>2, <2>3, <2>4, <2>6, <2>7, <2>8, InsideKeeps
<1>. QED
  BY <1>3, <1>4

\* The action is scheduled again, or its entry removed.
LEMMA RescheduleKeeps ==
  ASSUME ActionAssumption, ActionInv, NEW t \in Thread, reschedule(t)
  PROVE  ActionInv'
<1>. PICK a : a = Head(thread[t].todo)
  OBVIOUS
<1>. PICK k : k = thread[t].action
  OBVIOUS
<1>. PICK n : n = Rescheduled(k, thread[t].now)
  OBVIOUS
<1>1. /\ thread[t].pc = "stored" /\ UNCHANGED <<actr, clock, changes, events, executed, overlap>>
      /\ IF k.evm = "periodic" /\ k.ecp = None THEN repr' = repr /\ Leave(t, a, TRUE)
         ELSE /\ repr' = IF repr[a] = None THEN repr ELSE [repr EXCEPT ![a] = n]
              /\ Leave(t, a, repr[a] = None /\ n # None)
  BY DEF reschedule
<1>2. /\ a \in Action /\ IsInside(t, a) /\ thread[t] \in Job /\ thread[t].now \in 0..MaxTime
      /\ k \in Repr /\ k # None
      /\ actr \in [Action -> Params \cup {None}] /\ repr \in [Action -> Repr \cup {None}] /\ executed \in [Action -> Nat]
  <2>1. thread[t].pc \in Inside
    BY <1>1 DEF Inside
  <2>2. thread[t].action # None /\ thread[t] \in Job
    BY <1>1 DEF ActionInv, TypeOK, Consistent
  <2>. QED
    BY <2>1, <2>2, InsideOf DEF Job
<1>3. repr[a] # None => actr[a] # None
  BY <1>2 DEF ActionInv, Existing
<1>4. ASSUME ~overlap, ~raced
      PROVE  /\ k = repr[a] /\ actr[a] \in Params /\ actr[a] # None
             /\ k.evm = actr[a].evm /\ (k.evm \in {"periodic", "continuous"} => k.ecp = actr[a].ecp)
             /\ actr[a].evm = "once" => executed[a] - 1 = 0
             /\ actr[a].evm = "continuous" =>
                  executed[a] - 1 = (IF actr[a].ecp = None THEN ecpContinuousDefault ELSE actr[a].ecp) - k.count
  <2>1. k = repr[a] /\ Proper(actr[a], repr[a], executed[a] - 1)
    BY <1>1, <1>2, <1>4, InsideTold
  <2>2. actr[a] # None /\ actr[a] \in Params
    BY <1>2, <1>3, <2>1
  <2>. QED
    BY <1>2, <2>1, <2>2 DEF Proper
<1>5. CASE k.evm = "periodic" /\ k.ecp = None
  <2>1. ~overlap /\ ~raced => Proper(actr[a], repr[a], executed[a])
    BY <1>4, <1>5 DEF Proper
  <2>. QED
    BY <1>1, <1>2, <1>3, <1>5, <2>1, LeaveKeeps
<1>6. CASE ~(k.evm = "periodic" /\ k.ecp = None)
  <2>1. /\ n \in Repr \cup {None}
        /\ n # None => n.evm = k.evm /\ n.ecp = k.ecp
        /\ k.evm = "once" => n = None
        /\ k.evm = "continuous" => k.count - 1 = IF n = None THEN 0 ELSE n.count
    BY <1>2, <1>6, RescheduleType
  <2>2. /\ repr' \in [Action -> Repr \cup {None}] /\ \A b \in Action \ {a} : repr'[b] = repr[b]
        /\ repr'[a] = IF repr[a] = None THEN None ELSE n
    BY <1>1, <1>2, <1>6, <2>1
  <2>3. ASSUME ~overlap, ~raced PROVE Proper(actr[a], repr'[a], executed[a])
    <3>1. repr'[a] = n /\ (n # None => n \in Repr)
      BY <1>2, <1>4, <2>1, <2>2, <2>3
    <3>. PICK d : d = IF actr[a].ecp = None THEN ecpContinuousDefault ELSE actr[a].ecp
      OBVIOUS
    <3>. PICK m : m = IF n = None THEN 0 ELSE n.count
      OBVIOUS
    <3>2. d \in Nat
      <4>1. actr[a].ecp \in Ecp \cup {None}
        BY <1>4, <2>3 DEF Params
      <4>. QED
        BY <4>1, Constants
    <3>3. executed[a] \in Nat /\ k.count \in Int /\ m \in Int
      BY <1>2, <3>1 DEF Repr
    <3>4. actr[a].evm = "once" => executed[a] = 1 /\ n = None
      BY <1>4, <2>1, <2>3, <3>3
    <3>5. actr[a].evm = "continuous" => executed[a] = d - m
      <4>1. actr[a].evm = "continuous" => executed[a] - 1 = d - k.count /\ k.count - 1 = m
        BY <1>4, <2>1, <2>3
      <4>. QED
        BY <3>2, <3>3, <4>1
    <3>6. n # None => n.evm = actr[a].evm /\ (n.evm \in {"periodic", "continuous"} => n.ecp = actr[a].ecp)
      BY <1>4, <2>1, <2>3
    <3>. QED
      BY <3>1, <3>4, <3>5, <3>6 DEF Proper
  <2>4. Leave(t, a, TRUE) \/ Leave(t, a, FALSE)
    BY <1>1, <1>6 DEF Leave
  <2>5. repr'[a] # None => actr[a] # None
    BY <1>3, <2>2
  <2>. QED
    BY <1>1, <1>2, <2>2, <2>3, <2>4, <2>5, LeaveKeeps
<1>. QED
  BY <1>5, <1>6

-----------------------------------------------------------------------------
(* The theorems.                                                           *)

LEMMA ActionInit == ActionAssumption /\ Init => ActionInv
<1> SUFFICES ASSUME ActionAssumption, Init PROVE ActionInv
  OBVIOUS
<1>1. /\ actr = [a \in Action |-> None] /\ repr = [a \in Action |-> None] /\ _semaphores = [a \in Action |-> None]
      /\ thread = [t \in Thread |-> Idle] /\ \A t \in Thread : thread[t].pc = "idle"
  BY IdleJob DEF Init
<1>2. TypeOK
  <2>1. thread \in [Thread -> Job] /\ \A t \in Thread : Consistent(thread[t])
    BY <1>1, IdleJob
  <2>2. clock \in 0..MaxTime /\ changes \in 0..MaxChange /\ events \in 0..MaxEvent
    BY DEF Init, ActionAssumption
  <2>. QED
    BY <1>1, <2>1, <2>2 DEF Init, TypeOK
<1>3. Existing
  BY <1>1 DEF Existing
<1>4. \A t \in Thread, a \in Action : ~IsInside(t, a) /\ ~Wants(t, a)
  BY <1>1 DEF IsInside, Wants, Handles
<1>5. SectionInv
  BY <1>1, <1>4 DEF SectionInv, Exclusive, Found, Distinct, Locked, Held, Leaving
<1>6. UpToDate /\ CountsTold
  BY <1>1, <1>4 DEF UpToDate, CountsTold, Proper
<1>. QED
  BY <1>2, <1>3, <1>5, <1>6 DEF ActionInv

LEMMA ActionStep == ActionAssumption /\ ActionInv /\ [Next]_actionVars => ActionInv'
<1> SUFFICES ASSUME ActionAssumption, ActionInv, [Next]_actionVars PROVE ActionInv'
  OBVIOUS
<1>1. CASE Change
  BY <1>1, ActivateKeeps, UpdateKeeps, DeactivateKeeps DEF Change
<1>2. CASE Event
  BY <1>2, EvaluateKeeps DEF Event
<1>3. CASE Tick
  BY <1>3, TickKeeps
<1>4. ASSUME NEW t \in Thread, JobStep(t) PROVE ActionInv'
  <2>1. CASE skip(t)
    BY <2>1, SkipKeeps DEF skip
  <2>. QED
    BY <1>4, <2>1, LookupKeeps, NewKeeps, AcquireKeeps, ReleaseKeeps, ReadKeeps, RetrieveKeeps, HandleKeeps,
       DbUpdateKeeps, RescheduleKeeps DEF JobStep
<1>5. CASE UNCHANGED actionVars
  <2>1. TypeOK'
    BY <1>5 DEF actionVars, ActionInv, TypeOK
  <2>2. raced' = raced /\ (~raced' => SectionInv')
    BY <1>5, AllStay, SameStays DEF actionVars, ActionInv
  <2>. QED
    BY <1>5, <2>1, <2>2, OutsideKeeps DEF actionVars, Apart
<1>. QED
  BY <1>1, <1>2, <1>3, <1>4, <1>5 DEF Next

\* Every variable of the actions keeps its type. As long as no two jobs have undone a critical section, an
\* action is executed by one job at a time and no section stays locked.
THEOREM TypeCorrect ==
  ASSUME ActionAssumption
  PROVE  Spec => [](TypeOK /\ SectionsHeld)
<1>1. ActionInv => TypeOK /\ SectionsHeld
  <2> SUFFICES ASSUME ActionInv, ~raced, NEW a \in Action
               PROVE  /\ \A t, u \in Thread : IsInside(t, a) /\ IsInside(u, a) => t = u
                      /\ \A t \in Thread : Handles(t, a) /\ thread[t].pc \in {"acquire", "wait"} =>
                           thread[t].sem = _semaphores[a]
                      /\ _semaphores[a] # None =>
                           \/ value[_semaphores[a]] = 1
                           \/ /\ value[_semaphores[a]] = 0
                              /\ \E t \in Thread : IsInside(t, a) \/ Releases(t, _semaphores[a])
    BY DEF ActionInv, SectionsHeld
  <2>. QED
    BY DEF ActionInv, SectionInv, Exclusive, Found, Wants, Locked
<1>. QED
  BY <1>1, ActionInit, ActionStep, PTL DEF Spec

\* The table of scheduled actions agrees with the <action> resources, for any number of actions and of jobs
\* that evaluate them at the same time. The executions of an action agree with what is left of them, "once"
\* is exactly once and "continuous" as often as its parameter says, as long as the <action> is not changed
\* while it is executed and no two jobs have undone its critical section.
THEOREM CountsAlwaysAgree ==
  ASSUME ActionAssumption
  PROVE  Spec => []CountsAgree
<1>1. ASSUME ActionInv PROVE CountsAgree
  <2> SUFFICES ASSUME NEW a \in Action
               PROVE  /\ repr[a] # None => actr[a] # None /\ repr[a].evm # "off"
                      /\ ~overlap /\ ~raced =>
                           /\ repr[a] # None => /\ repr[a].evm = actr[a].evm
                                                /\ repr[a].evm \in {"periodic", "continuous"} => repr[a].ecp = actr[a].ecp
                           /\ actr[a] # None /\ ~Executing(a) =>
                                /\ actr[a].evm = "once" => executed[a] = IF repr[a] = None THEN 1 ELSE 0
                                /\ actr[a].evm = "continuous" =>
                                     executed[a] = Due(a) - (IF repr[a] = None THEN 0 ELSE repr[a].count)
    BY DEF CountsAgree
  <2>1. repr[a] # None => actr[a] # None /\ repr[a].evm # "off"
    BY <1>1 DEF ActionInv, TypeOK, Repr, Existing
  <2>2. ~overlap /\ ~raced => Proper(actr[a], repr[a], executed[a] - Uncounted(a))
    BY <1>1 DEF ActionInv, CountsTold
  <2>3. ~Executing(a) => executed[a] - Uncounted(a) = executed[a]
    <3>1. executed[a] \in Nat
      BY <1>1 DEF ActionInv, TypeOK
    <3>. QED
      BY <3>1 DEF Executing, Uncounted, Answered
  <2>. QED
    BY <2>1, <2>2, <2>3 DEF Proper, Due
<1>. QED
  BY <1>1, ActionInit, ActionStep, PTL DEF Spec
-----------------------------------------------------------------------------
(* The dependencies of an action, for lists of every length.               *)

\* A dependency that is met, and a necessary one that is not.
Passed(deps, i) == deps[i].found /\ deps[i].met
Failed(deps, i) == deps[i].found /\ ~deps[i].met /\ ~deps[i].sfc

\* What the loop has found out once the dependencies at the indexes T are evaluated.
Outcome(deps, T) ==
  [satisfied |-> /\ \E i \in T : Passed(deps, i)
                 /\ \A j \in T : Failed(deps, j) =>
                      \E i \in T : i < j /\ Passed(deps, i) /\ deps[i].sfc,
   stop |-> \E i \in T : (Passed(deps, i) /\ deps[i].sfc) \/ Failed(deps, i)]

\* The loop over the dependencies, as the fold that g is.
FoldOn(deps, g) ==
  g = [T \in SUBSET (DOMAIN deps) |->
         IF T = {} THEN [satisfied |-> FALSE, stop |-> FALSE]
         ELSE dependency(g[T \ {Max(T)}], deps[Max(T)])]

LEMMA LoopFold ==
  ASSUME NEW deps
  PROVE  FoldLeft(dependency, [satisfied |-> FALSE, stop |-> FALSE], deps) =
           (CHOOSE g : FoldOn(deps, g))[DOMAIN deps]
BY Zenon DEF FoldLeft, MapThenFoldSet, FoldOn

LEMMA LeastNumber == ASSUME NEW S \in SUBSET Nat, S # {} PROVE \E x \in S : \A y \in S : x <= y
<1>. DEFINE Less == {pair \in Nat \X Nat : pair[1] < pair[2]}
<1>1. IsWellFoundedOn(Less, Nat)
  BY NatLessThanWellFounded DEF OpToRel
<1>2. PICK x \in S : \A y \in S : <<y, x>> \notin Less
  BY <1>1, WFMin
<1>3. \A y \in S : <<y, x>> \in Nat \X Nat /\ <<y, x>>[1] = y /\ <<y, x>>[2] = x
  BY <1>2
<1>4. \A y \in S : ~(y < x)
  BY <1>2, <1>3
<1>. QED
  BY <1>4

LEMMA MaxOfIndexes ==
  ASSUME NEW n \in Nat, NEW T \in SUBSET (1..n), T # {}
  PROVE  Max(T) \in T /\ \A i \in T : i <= Max(T)
<1>. DEFINE S == {m \in Nat : \A i \in T : i <= m}
<1>1. n \in S
  BY DEF S
<1>2. PICK m \in S : \A y \in S : m <= y
  BY <1>1, LeastNumber
<1>3. m \in T
  <2>. SUFFICES ASSUME m \notin T PROVE FALSE
    OBVIOUS
  <2>1. PICK j \in T : TRUE
    OBVIOUS
  <2>2. m >= 1 /\ m - 1 \in Nat
    BY <2>1, <1>2
  <2>3. \A i \in T : i <= m - 1
    BY <1>2
  <2>. QED
    BY <1>2, <2>2, <2>3
<1>4. \E x \in T : \A y \in T : x >= y
  BY <1>2, <1>3
<1>. QED
  BY <1>4 DEF Max

\* One turn of the loop.
LEMMA TurnOutcome ==
  ASSUME NEW deps, NEW n \in Nat, deps \in [1..n -> Dependency],
         NEW T \in SUBSET (1..n), NEW x \in T, \A i \in T : i <= x
  PROVE  dependency(Outcome(deps, T \ {x}), deps[x]) = Outcome(deps, T)
<1>. DEFINE R == T \ {x}
            d == deps[x]
            sat(U) == /\ \E i \in U : Passed(deps, i)
                      /\ \A j \in U : Failed(deps, j) => \E i \in U : i < j /\ Passed(deps, i) /\ deps[i].sfc
            stop(U) == \E i \in U : (Passed(deps, i) /\ deps[i].sfc) \/ Failed(deps, i)
<1>0. /\ x \in 1..n /\ d \in Dependency
      /\ d.found \in BOOLEAN /\ d.met \in BOOLEAN /\ d.sfc \in BOOLEAN
      /\ \A i \in R : i < x /\ i \in T
      /\ \A i \in T : i = x \/ i \in R
      /\ \A i \in T : i \in Int
  BY DEF Dependency
<1>1. Outcome(deps, R) = [satisfied |-> sat(R), stop |-> stop(R)]
      /\ Outcome(deps, T) = [satisfied |-> sat(T), stop |-> stop(T)]
  BY DEF Outcome
<1>2. CASE stop(R)
  <2>1. stop(T)
    BY <1>2, <1>0
  <2>2. sat(R) => sat(T)
    <3>. SUFFICES ASSUME sat(R) PROVE sat(T)
      OBVIOUS
    <3>1. PICK i \in R : Passed(deps, i) /\ deps[i].sfc
      BY <1>2
    <3>2. Failed(deps, x) => \E k \in T : k < x /\ Passed(deps, k) /\ deps[k].sfc
      BY <3>1, <1>0
    <3>. QED
      BY <3>2, <1>0
  <2>3. sat(T) => sat(R)
    <3>. SUFFICES ASSUME sat(T) PROVE sat(R)
      OBVIOUS
    <3>1. \A j \in R : Failed(deps, j) => \E i \in R : i < j /\ Passed(deps, i) /\ deps[i].sfc
      <4>. SUFFICES ASSUME NEW j \in R, Failed(deps, j)
                    PROVE  \E i \in R : i < j /\ Passed(deps, i) /\ deps[i].sfc
        OBVIOUS
      <4>1. PICK i \in T : i < j /\ Passed(deps, i) /\ deps[i].sfc
        BY <1>0
      <4>2. j < x /\ i # x
        BY <4>1, <1>0
      <4>. QED
        BY <4>1, <4>2, <1>0
    <3>2. \E i \in R : Passed(deps, i)
      BY <1>2, <3>1
    <3>. QED
      BY <3>1, <3>2
  <2>4. dependency(Outcome(deps, R), d) = Outcome(deps, R)
    BY <1>1, <1>2 DEF dependency
  <2>. QED
    BY <1>1, <1>2, <2>1, <2>2, <2>3, <2>4
<1>3. CASE ~stop(R)
  <2>1. \A i \in R : ~Failed(deps, i) /\ ~(Passed(deps, i) /\ deps[i].sfc)
    BY <1>3
  <2>2. stop(T) <=> (Passed(deps, x) /\ d.sfc) \/ Failed(deps, x)
    BY <1>0, <2>1
  <2>3. CASE ~d.found
    <3>1. ~Passed(deps, x) /\ ~Failed(deps, x)
      BY <2>3 DEF Passed, Failed
    <3>2. ~stop(T)
      BY <2>2, <3>1
    <3>3. sat(T) <=> sat(R)
      BY <3>1, <2>1, <1>0
    <3>4. dependency(Outcome(deps, R), d) = Outcome(deps, R)
      BY <2>3 DEF dependency
    <3>. QED
      BY <1>1, <1>3, <3>2, <3>3, <3>4
  <2>4. CASE d.found /\ d.met
    <3>1. Passed(deps, x) /\ ~Failed(deps, x)
      BY <2>4 DEF Passed, Failed
    <3>2. stop(T) <=> d.sfc
      BY <2>2, <3>1
    <3>3. sat(T)
      BY <3>1, <2>1, <1>0
    <3>4. dependency(Outcome(deps, R), d) = [satisfied |-> TRUE, stop |-> d.sfc]
      BY <2>4, <1>1, <1>3 DEF dependency
    <3>. QED
      BY <1>1, <1>0, <3>2, <3>3, <3>4
  <2>5. CASE d.found /\ ~d.met
    <3>1. ~Passed(deps, x) /\ (Failed(deps, x) <=> ~d.sfc)
      BY <2>5 DEF Passed, Failed
    <3>2. stop(T) <=> ~d.sfc
      BY <2>2, <3>1
    <3>3. sat(T) <=> sat(R) /\ d.sfc
      BY <3>1, <2>1, <1>0
    <3>4. dependency(Outcome(deps, R), d) = [satisfied |-> sat(R) /\ d.sfc, stop |-> ~d.sfc]
      BY <2>5, <1>1, <1>3 DEF dependency
    <3>. QED
      BY <1>1, <1>0, <3>2, <3>3, <3>4
  <2>. QED
    BY <1>0, <2>3, <2>4, <2>5
<1>. QED
  BY <1>2, <1>3

LEMMA FoldExists ==
  ASSUME NEW deps, NEW n \in Nat, deps \in [1..n -> Dependency]
  PROVE  \E g : FoldOn(deps, g)
<1>. DEFINE g == [T \in SUBSET (DOMAIN deps) |-> Outcome(deps, T)]
<1>0. DOMAIN deps = 1..n
  OBVIOUS
<1>1. ASSUME NEW T \in SUBSET (DOMAIN deps)
      PROVE  Outcome(deps, T) = IF T = {} THEN [satisfied |-> FALSE, stop |-> FALSE]
                                ELSE dependency(g[T \ {Max(T)}], deps[Max(T)])
  <2>1. CASE T = {}
    BY <2>1 DEF Outcome
  <2>2. CASE T # {}
    <3>1. Max(T) \in T /\ \A i \in T : i <= Max(T)
      BY <1>0, <2>2, MaxOfIndexes
    <3>2. dependency(Outcome(deps, T \ {Max(T)}), deps[Max(T)]) = Outcome(deps, T)
      BY <1>0, <3>1, TurnOutcome
    <3>3. g[T \ {Max(T)}] = Outcome(deps, T \ {Max(T)})
      OBVIOUS
    <3>. QED
      BY <2>2, <3>2, <3>3
  <2>. QED
    BY <2>1, <2>2
<1>2. FoldOn(deps, g)
  BY <1>1, Zenon DEF FoldOn
<1>. QED
  BY <1>2

LEMMA FoldOutcome ==
  ASSUME NEW deps, NEW n \in Nat, deps \in [1..n -> Dependency], NEW g, FoldOn(deps, g)
  PROVE  g[1..n] = Outcome(deps, 1..n)
<1>. DEFINE Bad == {k \in 0..n : g[1..k] # Outcome(deps, 1..k)}
<1>. SUFFICES ASSUME Bad # {} PROVE FALSE
  BY DEF Bad
<1>1. PICK k \in Bad : \A j \in Bad : k <= j
  <2>1. Bad \in SUBSET Nat
    BY DEF Bad
  <2>. HIDE DEF Bad
  <2>. QED
    BY <2>1, LeastNumber
<1>2. /\ k \in 0..n /\ DOMAIN deps = 1..n /\ 1..k \in SUBSET (DOMAIN deps)
  BY <1>1
<1>3. g[1..k] = IF 1..k = {} THEN [satisfied |-> FALSE, stop |-> FALSE]
                ELSE dependency(g[(1..k) \ {Max(1..k)}], deps[Max(1..k)])
  BY <1>2, Zenon DEF FoldOn
<1>4. CASE k = 0
  <2>1. 1..k = {}
    BY <1>4
  <2>. QED
    BY <2>1, <1>1, <1>3 DEF Outcome
<1>5. CASE k # 0
  <2>1. k - 1 \in 0..n /\ k - 1 \notin Bad /\ k \in 1..k /\ 1..k # {}
    BY <1>1, <1>2, <1>5
  <2>2. Max(1..k) \in 1..k /\ \A i \in 1..k : i <= Max(1..k)
    BY <1>2, <2>1, MaxOfIndexes
  <2>3. Max(1..k) = k
    BY <2>1, <2>2
  <2>4. (1..k) \ {k} = 1..(k - 1)
    BY <2>1
  <2>5. g[1..(k - 1)] = Outcome(deps, 1..(k - 1))
    BY <2>1
  <2>6. 1..k \in SUBSET (1..n) /\ \A i \in 1..k : i <= k
    BY <1>2
  <2>7. dependency(Outcome(deps, (1..k) \ {k}), deps[k]) = Outcome(deps, 1..k)
    BY <2>1, <2>6, TurnOutcome
  <2>. QED
    BY <1>1, <1>3, <2>1, <2>3, <2>4, <2>5, <2>7
<1>. QED
  BY <1>4, <1>5

\* The decision on a list of any length: one dependency is met, and each necessary one that is not comes after
\* a sufficient one that is.
THEOREM EveryListDecides ==
  ASSUME NEW deps \in Seq(Dependency), deps # <<>>
  PROVE  evaluateDependencies(deps) <=>
           /\ \E i \in DOMAIN deps : Passed(deps, i)
           /\ \A j \in DOMAIN deps : Failed(deps, j) =>
                \E i \in DOMAIN deps : i < j /\ Passed(deps, i) /\ deps[i].sfc
<1>1. Len(deps) \in Nat /\ DOMAIN deps = 1..Len(deps) /\ deps \in [1..Len(deps) -> Dependency]
  OBVIOUS
<1>2. FoldOn(deps, CHOOSE g : FoldOn(deps, g))
  BY <1>1, FoldExists, Zenon
<1>3. (CHOOSE g : FoldOn(deps, g))[DOMAIN deps] = Outcome(deps, DOMAIN deps)
  BY <1>1, <1>2, FoldOutcome
<1>. QED
  BY <1>3, LoopFold DEF evaluateDependencies, Outcome

\* What the runs check of it.
THEOREM DependenciesDecided == DependenciesDecide
<1>. SUFFICES ASSUME NEW deps \in SeqOf(Dependency, 3) \ {<<>>}
     PROVE  evaluateDependencies(deps) <=>
              /\ \E i \in DOMAIN deps : deps[i].found /\ deps[i].met
              /\ \A j \in DOMAIN deps : deps[j].found /\ ~deps[j].met /\ ~deps[j].sfc =>
                   \E i \in 1..(j - 1) : (deps[i].found /\ deps[i].met) /\ deps[i].sfc
  BY Zenon DEF DependenciesDecide
<1>1. PICK n \in 0..3 : deps \in [1..n -> Dependency]
  BY DEF SeqOf
<1>2. deps \in Seq(Dependency) /\ DOMAIN deps = 1..n
  BY <1>1
<1>3. \A j \in DOMAIN deps : \A i : i \in DOMAIN deps /\ i < j <=> i \in 1..(j - 1)
  BY <1>2
<1>. QED
  BY <1>2, <1>3, EveryListDecides DEF Passed, Failed

-----------------------------------------------------------------------------
(* Division.                                                               *)

LEMMA Division ==
  ASSUME NEW x \in Int, NEW e \in Nat \ {0}
  PROVE  x \div e \in Int /\ x % e \in Int /\ x = e * (x \div e) + (x % e) /\ 0 <= x % e /\ x % e < e
OBVIOUS

LEMMA Products ==
  ASSUME NEW e \in Nat \ {0}, NEW p \in Int, NEW q \in Int
  PROVE  /\ e * (p - q) = e * p - e * q /\ e * p \in Int /\ e * (p - q) \in Int
         /\ p > q => e * (p - q) >= e
         /\ p > q <=> e * p > e * q
OBVIOUS

LEMMA Multiples ==
  ASSUME NEW e \in Nat \ {0}, NEW q \in Int
  PROVE  (e * q) % e = 0 /\ (e * q) \div e = q
<1>. DEFINE x == e * q
            d == x \div e
            r == x % e
<1>1. x \in Int /\ d \in Int /\ r \in Int /\ x = e * d + r /\ 0 <= r /\ r < e
  BY Division, Products
<1>2. ~(q > d)
  BY <1>1, Products
<1>3. ~(d > q)
  BY <1>1, Products
<1>4. d = q
  BY <1>1, <1>2, <1>3
<1>5. r = 0
  BY <1>1, <1>4, Products
<1>. QED
  BY <1>4, <1>5

LEMMA DivMonotone ==
  ASSUME NEW e \in Nat \ {0}, NEW x \in Int, NEW y \in Int, x <= y
  PROVE  x \div e <= y \div e
<1>1. /\ x \div e \in Int /\ x % e \in Int /\ x = e * (x \div e) + (x % e) /\ 0 <= x % e
      /\ y \div e \in Int /\ y % e \in Int /\ y = e * (y \div e) + (y % e) /\ y % e < e
  BY Division
<1>2. ~(x \div e > y \div e)
  <2>. SUFFICES ASSUME x \div e > y \div e PROVE FALSE
    OBVIOUS
  <2>. DEFINE p == x \div e
              q == y \div e
              rx == x % e
              ry == y % e
  <2>1. e * (p - q) = e * p - e * q /\ e * p \in Int /\ e * q \in Int /\ e * (p - q) >= e
    BY <1>1, Products
  <2>2. p \in Int /\ q \in Int /\ rx \in Int /\ ry \in Int /\ x = e * p + rx /\ y = e * q + ry /\ 0 <= rx /\ ry < e
    BY <1>1
  <2>3. PICK ep \in Int, eq \in Int : ep = e * p /\ eq = e * q
    BY <2>1
  <2>. HIDE DEF p, q, rx, ry
  <2>. QED
    BY <2>1, <2>2, <2>3
<1>. QED
  BY <1>1, <1>2

\* The next begin of a period, from a time on.
LEMMA NextPeriod ==
  ASSUME NEW e \in Nat \ {0}, NEW begin \in Int, NEW now \in Int, NEW since \in Int, NEW next \in Int,
         (begin - since) % e = 0, next = now + ((begin - now) % e)
  PROVE  /\ (next - since) % e = 0
         /\ (now - since) % e # 0 => (now - since) \div e < (next - since) \div e
<1>1. PICK m \in Int : begin - since = e * m
  <2>1. begin - since = e * ((begin - since) \div e) + 0 /\ (begin - since) \div e \in Int
    BY Division
  <2>2. PICK m \in Int : m = (begin - since) \div e
    BY <2>1
  <2>3. e * m \in Int
    BY Products
  <2>. QED
    BY <2>1, <2>2, <2>3
<1>2. PICK k \in Int, r \in Int : r = (begin - now) % e /\ begin - now = e * k + r /\ 0 <= r
  <2>1. begin - now \in Int
    OBVIOUS
  <2>. QED
    BY <2>1, Division
<1>3. PICK n \in Int, s \in Int : n = (now - since) \div e /\ s = (now - since) % e /\ now - since = e * n + s /\ 0 <= s
  <2>1. now - since \in Int
    OBVIOUS
  <2>. QED
    BY <2>1, Division
<1>4. next - since = e * (m - k)
  <2>1. e * (m - k) = e * m - e * k /\ e * m \in Int /\ e * k \in Int
    BY Products
  <2>2. next = now + r
    BY <1>2
  <2>. QED
    BY <1>1, <1>2, <2>1, <2>2
<1>5. m - k \in Int
  OBVIOUS
<1>6. (next - since) % e = 0 /\ (next - since) \div e = m - k
  BY <1>4, <1>5, Multiples
<1>7. ASSUME s # 0 PROVE n < m - k
  <2>1. next >= now
    BY <1>2
  <2>2. next # now
    <3>. SUFFICES ASSUME next = now PROVE FALSE
      OBVIOUS
    <3>. QED
      BY <1>3, <1>6, <1>7
  <2>3. e * (m - k) > e * n
    <3>1. e * (m - k) \in Int /\ e * n \in Int
      BY <1>5, Products
    <3>. QED
      BY <1>3, <1>4, <2>1, <2>2, <3>1
  <2>. QED
    BY <1>5, <2>3, Products
<1>. QED
  BY <1>3, <1>6, <1>7

-----------------------------------------------------------------------------
-----------------------------------------------------------------------------
(* Periods. While an action is not being executed, the next execution is   *)
(* allowed from a beginning of a period on that is later than the period   *)
(* of the last one.                                                        *)

\* What the next beginning of a period that is allowed has to do with the last execution.
Follows(e, begin, now, since, next) ==
  (begin - since) % e = 0 /\ next = now + ((begin - now) % e) =>
    /\ (next - since) % e = 0
    /\ (now - since) % e # 0 => (now - since) \div e < (next - since) \div e

LEMMA NextFollows ==
  ASSUME NEW e \in Nat \ {0}, NEW begin \in Int, NEW now \in Int, NEW since \in Int, NEW next \in Int
  PROVE  Follows(e, begin, now, since, next)
BY NextPeriod DEF Follows

\* The entry of an action that is executed once in a period.
Periodic(r) == r # None /\ r.evm = "periodic" /\ r.ecp # None

\* Whether an entry r fits the times x and y of the last two executions, and the job that executes it, or
\* nobody, who is "idle".
Regular(r, x, y, pc, now) ==
  LET period(z) == (z - r.since) \div r.ecp
      within(z) == (z - r.since) % r.ecp # 0
  IN Periodic(r) =>
       /\ (r.periodTS - r.since) % r.ecp = 0
       /\ pc \notin {"sent", "stored"} /\ y # None /\ within(y) => period(y) < period(r.periodTS)
       /\ x # None /\ within(x) /\ within(y) => period(x) # period(y)
       /\ pc \in {"sending", "sent", "stored"} => r.periodTS <= now
       /\ pc \in {"sent", "stored"} => y = now

Fits(a, pc, now) == Regular(repr[a], times[a][1], times[a][2], pc, now)

RegularNow(a) ==
  /\ \A t \in Thread : IsInside(t, a) => Fits(a, thread[t].pc, thread[t].now)
  /\ ~Executing(a) => Fits(a, "idle", 0)

Executions == (0..MaxTime \cup {None}) \X (0..MaxTime \cup {None})

PeriodInv ==
  /\ times \in [Action -> Executions]
  /\ ~overlap /\ ~raced => \A a \in Action : RegularNow(a)

LEMMA PeriodicEntry ==
  ASSUME ActionAssumption, NEW r \in Repr, Periodic(r)
  PROVE  r.ecp \in Nat \ {0} /\ r.since \in Int /\ r.periodTS \in Int /\ 0..MaxTime \subseteq Int
<1>1. r.ecp \in Ecp /\ r.since \in 0..MaxTime /\ r.periodTS \in Int
  BY DEF Periodic, Repr
<1>2. Ecp \subseteq Nat \ {0} /\ 0..MaxTime \subseteq Int
  BY DEF ActionAssumption
<1>. QED
  BY <1>1, <1>2

\* The job moves on: what is said of the times does not depend on it.
LEMMA OtherPc ==
  ASSUME NEW r, NEW x, NEW y, NEW pc, NEW now, NEW pc2, NEW now2, Regular(r, x, y, pc, now),
         pc \notin {"sent", "stored"}, pc2 \notin {"sent", "stored"},
         pc2 = "sending" => (Periodic(r) => r.periodTS <= now2)
  PROVE  Regular(r, x, y, pc2, now2)
<1>1. pc2 \in {"sending", "sent", "stored"} => pc2 = "sending"
  OBVIOUS
<1>. QED
  BY <1>1, Zenon DEF Regular

\* A new entry, or none: nothing was executed.
LEMMA FreshRegular ==
  ASSUME ActionAssumption, clock \in 0..MaxTime, NEW p \in Params
  PROVE  /\ Regular(scheduleAction(p), None, None, "idle", 0)
         /\ Regular(None, None, None, "idle", 0)
<1>1. Regular(None, None, None, "idle", 0)
  BY DEF Regular, Periodic
<1>2. ASSUME Periodic(scheduleAction(p))
      PROVE  (scheduleAction(p).periodTS - scheduleAction(p).since) % scheduleAction(p).ecp = 0
  <2>1. scheduleAction(p) \in Repr /\ scheduleAction(p).evm = p.evm /\ scheduleAction(p).ecp = p.ecp
        /\ scheduleAction(p).ecp \in Nat \ {0}
    BY <1>2, ScheduleType DEF Periodic, Repr, ActionAssumption
  <2>2. scheduleAction(p) = Scheduled(p, clock, 0)
    BY <1>2, <2>1 DEF scheduleAction, Periodic
  <2>3. scheduleAction(p).periodTS = clock /\ scheduleAction(p).since = clock
    BY <2>2 DEF Scheduled
  <2>4. clock - clock = p.ecp * 0 /\ p.ecp \in Nat \ {0}
    BY <2>1 DEF ActionAssumption
  <2>5. (p.ecp * 0) % p.ecp = 0
    BY <2>4, Multiples
  <2>. QED
    BY <2>1, <2>3, <2>4, <2>5
<1>. QED
  BY <1>1, <1>2 DEF Regular

\* What does not touch an action, its entry and the jobs in its section keeps it regular.
LEMMA Untouched ==
  ASSUME NEW b \in Action, RegularNow(b), repr'[b] = repr[b], times'[b] = times[b],
         \A u \in Thread : /\ IsInside(u, b)' <=> IsInside(u, b)
                           /\ IsInside(u, b) => thread'[u] = thread[u]
  PROVE  RegularNow(b)'
BY DEF RegularNow, Fits, Executing

LEMMA ChangePeriods ==
  ASSUME ActionAssumption, ActionInv, PeriodInv, NEW a \in Action, Executing(a) => overlap,
         UNCHANGED <<sections, thread, overlap>>,
         \/ \E p \in Params : Restart(a, scheduleAction(p))
         \/ Restart(a, None)
         \/ UNCHANGED <<repr, executed, times>>
  PROVE  PeriodInv'
<1>1. times \in [Action -> Executions] /\ repr \in [Action -> Repr \cup {None}] /\ clock \in 0..MaxTime
      /\ raced' = raced
  BY DEF PeriodInv, ActionInv, TypeOK, sections
<1>0. \A u \in Thread, b \in Action : IsInside(u, b)' <=> IsInside(u, b)
  BY DEF IsInside, Handles
<1>2. ASSUME NEW r, Restart(a, r), Regular(r, None, None, "idle", 0)
      PROVE  PeriodInv'
  <2>1. repr' = [repr EXCEPT ![a] = r] /\ times' = [times EXCEPT ![a] = <<None, None>>]
    BY <1>2 DEF Restart
  <2>2. <<None, None>> \in Executions
    BY DEF Executions
  <2>3. times' \in [Action -> Executions]
    BY <1>1, <2>1, <2>2
  <2>4. ASSUME ~overlap, ~raced, NEW b \in Action PROVE RegularNow(b)'
    <3>1. CASE b # a
      <4>1. repr'[b] = repr[b] /\ times'[b] = times[b] /\ RegularNow(b)
        BY <1>1, <2>1, <2>4, <3>1 DEF PeriodInv
      <4>. QED
        BY <1>0, <4>1, Untouched
    <3>2. CASE b = a
      <4>1. repr'[b] = r /\ times'[b][1] = None /\ times'[b][2] = None
        BY <1>1, <2>1, <3>2
      <4>2. \A u \in Thread : ~IsInside(u, b)'
        BY <1>0, <2>4, <3>2 DEF Executing
      <4>. QED
        BY <1>2, <4>1, <4>2 DEF RegularNow, Fits
    <3>. QED
      BY <3>1, <3>2
  <2>. QED
    BY <1>1, <2>3, <2>4 DEF PeriodInv
<1>3. ASSUME NEW p \in Params, Restart(a, scheduleAction(p)) PROVE PeriodInv'
  BY <1>1, <1>2, <1>3, FreshRegular
<1>4. ASSUME Restart(a, None) PROVE PeriodInv'
  BY <1>2, <1>4 DEF Regular, Periodic
<1>5. ASSUME UNCHANGED <<repr, executed, times>> PROVE PeriodInv'
  <2>1. ASSUME ~overlap, ~raced, NEW b \in Action PROVE RegularNow(b)'
    BY <1>0, <1>5, <2>1, Untouched DEF PeriodInv
  <2>. QED
    BY <1>1, <1>5, <2>1 DEF PeriodInv
<1>. QED
  BY <1>3, <1>4, <1>5

\* Jobs that move outside of the sections.
LEMMA OutsidePeriods ==
  ASSUME PeriodInv, UNCHANGED <<repr, times, overlap>>, raced => raced', \A u \in Thread : Apart(u)
  PROVE  PeriodInv'
<1>1. ASSUME ~overlap, ~raced', NEW b \in Action PROVE RegularNow(b)'
  BY <1>1, Untouched, ApartInside DEF PeriodInv
<1>. QED
  BY <1>1 DEF PeriodInv

\* A step of the job t in the section of the action a, or into it, or out of it.
LEMMA JobPeriods ==
  ASSUME ActionInv, ActionInv', PeriodInv, NEW t \in Thread, NEW a \in Action,
         \A u \in Thread \ {t} : thread'[u] = thread[u],
         \A b \in Action \ {a} : ~IsInside(t, b) /\ ~IsInside(t, b)',
         IsInside(t, a) \/ IsInside(t, a)',
         \A b \in Action \ {a} : repr'[b] = repr[b] /\ times'[b] = times[b],
         times' \in [Action -> Executions], overlap' = overlap, raced => raced',
         ~overlap /\ ~raced' => IF IsInside(t, a)' THEN Fits(a, thread[t].pc, thread[t].now)' ELSE Fits(a, "idle", 0)'
  PROVE  PeriodInv'
<1>0. \A u \in Thread \ {t}, b \in Action : IsInside(u, b)' <=> IsInside(u, b)
  BY DEF IsInside, Handles
<1>1. ASSUME ~overlap, ~raced', NEW b \in Action \ {a} PROVE RegularNow(b)'
  BY <1>0, <1>1, Untouched DEF PeriodInv
<1>2. ASSUME ~overlap, ~raced' PROVE RegularNow(a)'
  <2>1. \A u \in Thread \ {t} : ~IsInside(u, a)'
    BY <1>0, <1>2 DEF ActionInv, SectionInv, Exclusive
  <2>. QED
    BY <1>2, <2>1 DEF RegularNow, Executing
<1>. QED
  BY <1>1, <1>2 DEF PeriodInv

\* What is known of an action while a job is in its section, and while nobody is.
LEMMA FitsNow ==
  ASSUME PeriodInv, NEW a \in Action, ~overlap, ~raced
  PROVE  /\ \A t \in Thread : IsInside(t, a) => Fits(a, thread[t].pc, thread[t].now)
         /\ (\A t \in Thread : ~IsInside(t, a)) => Fits(a, "idle", 0)
BY DEF PeriodInv, RegularNow, Executing

\* A job enters the section.
LEMMA EnterPeriods ==
  ASSUME ActionAssumption, ActionInv, ActionInv', PeriodInv, NEW t \in Thread, NEW f, Becomes(t, f),
         thread[t].pc \in {"create", "acquire"}, f.pc = "inside", f.todo = thread[t].todo,
         UNCHANGED <<repr, times, overlap>>, raced => raced'
  PROVE  PeriodInv'
<1>. PICK a : a = Head(thread[t].todo)
  OBVIOUS
<1>1. a \in Action /\ thread'[t] = f /\ \A u \in Thread \ {t} : thread'[u] = thread[u]
  BY ActionOf, Become DEF ActionInv
<1>2. \A b \in Action : ~IsInside(t, b) /\ (IsInside(t, b)' <=> b = a)
  BY <1>1 DEF IsInside, Handles, Inside
<1>3. ASSUME ~overlap, ~raced' PROVE Fits(a, thread[t].pc, thread[t].now)'
  <2>1. \A u \in Thread : ~IsInside(u, a)
    <3>1. \A u \in Thread \ {t} : ~IsInside(u, a)'
      BY <1>1, <1>2, <1>3 DEF ActionInv, SectionInv, Exclusive
    <3>. QED
      BY <1>1, <1>2, <3>1 DEF IsInside, Handles
  <2>2. Regular(repr[a], times[a][1], times[a][2], "idle", 0)
    BY <1>1, <1>3, <2>1, FitsNow DEF Fits
  <2>3. Regular(repr[a], times[a][1], times[a][2], "inside", f.now)
    BY <2>2, OtherPc
  <2>. QED
    BY <1>1, <2>3 DEF Fits
<1>4. times' \in [Action -> Executions]
  BY DEF PeriodInv
<1>. QED
  BY <1>1, <1>2, <1>3, <1>4, JobPeriods

LEMMA NewPeriods ==
  ASSUME ActionAssumption, ActionInv, ActionInv', PeriodInv, NEW t \in Thread, newSemaphore(t)
  PROVE  PeriodInv'
<1>. PICK f : f = [thread[t] EXCEPT !.pc = "inside"]
  OBVIOUS
<1>1. /\ thread[t].pc = "create" /\ UNCHANGED <<repr, times, overlap>> /\ (raced => raced')
      /\ thread' = [thread EXCEPT ![t] = f]
  BY DEF newSemaphore
<1>2. thread[t] \in Job /\ thread[t].todo # <<>>
  BY <1>1 DEF ActionInv, TypeOK, Consistent
<1>3. f \in Job /\ f.todo = thread[t].todo /\ f.pc = "inside"
  BY <1>2 DEF Job, Inside
<1>4. Becomes(t, f)
  BY <1>1, <1>2, <1>3 DEF Becomes, Consistent
<1>. QED
  BY <1>1, <1>3, <1>4, EnterPeriods

LEMMA AcquirePeriods ==
  ASSUME ActionAssumption, ActionInv, ActionInv', PeriodInv, NEW t \in Thread, acquire(t)
  PROVE  PeriodInv'
<1>1. /\ thread[t].pc = "acquire" /\ UNCHANGED <<repr, times, raced, overlap>>
      /\ \/ thread' = [thread EXCEPT ![t].pc = "inside", ![t].sem = None]
         \/ thread' = [thread EXCEPT ![t].pc = "wait"]
  BY DEF acquire
<1>2. thread[t] \in Job /\ thread[t].todo # <<>> /\ thread \in [Thread -> Job]
  BY <1>1 DEF ActionInv, TypeOK, Consistent
<1>3. CASE thread' = [thread EXCEPT ![t].pc = "inside", ![t].sem = None]
  <2>. PICK f : f = [thread[t] EXCEPT !.pc = "inside", !.sem = None]
    OBVIOUS
  <2>1. f \in Job /\ f.todo = thread[t].todo /\ f.pc = "inside"
    BY <1>2 DEF Job, Inside
  <2>2. thread' = [thread EXCEPT ![t] = f]
    <3>1. thread' = [thread EXCEPT ![t] = [[thread[t] EXCEPT !.pc = "inside"] EXCEPT !.sem = None]]
      BY <1>3
    <3>2. f = [[thread[t] EXCEPT !.pc = "inside"] EXCEPT !.sem = None]
      OBVIOUS
    <3>. QED
      BY <3>1, <3>2
  <2>3. Becomes(t, f)
    BY <1>2, <2>1, <2>2 DEF Becomes, Consistent
  <2>. QED
    BY <1>1, <2>1, <2>3, EnterPeriods
<1>4. CASE thread' = [thread EXCEPT ![t].pc = "wait"]
  <2>1. \A u \in Thread : Apart(u)
    BY <1>1, <1>2, <1>4 DEF Apart, Inside, Job
  <2>. QED
    BY <1>1, <2>1, OutsidePeriods
<1>. QED
  BY <1>1, <1>3, <1>4

\* A step of a job that stays in the section.
LEMMA InsidePeriods ==
  ASSUME ActionInv, ActionInv', PeriodInv, NEW t \in Thread, NEW a \in Action, IsInside(t, a),
         NEW f, Becomes(t, f), f.pc \in Inside, f.todo = thread[t].todo,
         \A b \in Action \ {a} : repr'[b] = repr[b] /\ times'[b] = times[b],
         times' \in [Action -> Executions], UNCHANGED <<sections, overlap>>,
         ~overlap /\ ~raced => Regular(repr'[a], times'[a][1], times'[a][2], f.pc, f.now)
  PROVE  PeriodInv'
<1>1. thread'[t] = f /\ \A u \in Thread \ {t} : thread'[u] = thread[u]
  BY Become DEF ActionInv
<1>2. \A b \in Action : (IsInside(t, b) <=> b = a) /\ (IsInside(t, b)' <=> b = a)
  BY <1>1 DEF IsInside, Handles, Inside
<1>3. raced' = raced
  BY DEF sections
<1>4. ~overlap /\ ~raced' => Fits(a, thread[t].pc, thread[t].now)'
  BY <1>1, <1>3 DEF Fits
<1>. QED
  BY <1>1, <1>2, <1>3, <1>4, JobPeriods

\* A job that leaves the section.
LEMMA LeavePeriods ==
  ASSUME ActionAssumption, ActionInv, ActionInv', PeriodInv, NEW t \in Thread, NEW a \in Action, IsInside(t, a),
         Leave(t, a, TRUE) \/ Leave(t, a, FALSE),
         \A b \in Action \ {a} : repr'[b] = repr[b], UNCHANGED <<times, overlap>>,
         ~overlap /\ ~raced => Regular(repr'[a], times[a][1], times[a][2], "idle", 0)
  PROVE  PeriodInv'
<1>1. PICK f : Becomes(t, f) /\ f.pc = "release"
  BY LeaveJob DEF IsInside, Handles, ActionInv
<1>2. thread'[t] = f /\ \A u \in Thread \ {t} : thread'[u] = thread[u]
  BY <1>1, Become DEF ActionInv
<1>3. \A b \in Action : (IsInside(t, b) <=> b = a) /\ ~IsInside(t, b)'
  BY <1>1, <1>2 DEF IsInside, Handles, Inside
<1>4. raced => raced'
  BY DEF Leave
<1>5. ~overlap /\ ~raced' => Fits(a, "idle", 0)'
  BY <1>4 DEF Fits
<1>6. times' \in [Action -> Executions]
  BY DEF PeriodInv
<1>. QED
  BY <1>2, <1>3, <1>4, <1>5, <1>6, JobPeriods

\* A job leaves the section without having executed the action.
LEMMA SkipPeriods ==
  ASSUME ActionAssumption, ActionInv, ActionInv', PeriodInv, NEW t \in Thread, thread[t].pc = "entered",
         NEW a, a = Head(thread[t].todo), Leave(t, a, TRUE) \/ Leave(t, a, FALSE),
         UNCHANGED <<repr, times, overlap>>
  PROVE  PeriodInv'
<1>1. a \in Action /\ IsInside(t, a)
  BY InsideOf DEF Inside
<1>2. ASSUME ~overlap, ~raced PROVE Regular(repr'[a], times[a][1], times[a][2], "idle", 0)
  <2>1. Regular(repr[a], times[a][1], times[a][2], "entered", thread[t].now)
    BY <1>1, <1>2, FitsNow DEF Fits
  <2>. QED
    BY <2>1, OtherPc
<1>. QED
  BY <1>1, <1>2, LeavePeriods

LEMMA ReadPeriods ==
  ASSUME ActionAssumption, ActionInv, ActionInv', PeriodInv, NEW t \in Thread, getActionRepr(t)
  PROVE  PeriodInv'
<1>. PICK a : a = Head(thread[t].todo)
  OBVIOUS
<1>. PICK f : f = [thread[t] EXCEPT !.pc = "entered", !.action = repr[a]]
  OBVIOUS
<1>1. /\ thread[t].pc = "inside" /\ thread' = [thread EXCEPT ![t] = f]
      /\ UNCHANGED <<repr, sections, times, overlap>>
  BY DEF getActionRepr
<1>2. /\ a \in Action /\ IsInside(t, a) /\ thread[t] \in Job /\ thread[t].todo # <<>>
      /\ repr \in [Action -> Repr \cup {None}]
  BY <1>1, InsideOf DEF Inside
<1>3. f \in Job /\ f.pc = "entered" /\ f.pc \in Inside /\ f.todo = thread[t].todo
  BY <1>2 DEF Job, Inside
<1>4. Becomes(t, f)
  BY <1>1, <1>2, <1>3 DEF Becomes, Consistent
<1>5. ASSUME ~overlap, ~raced PROVE Regular(repr[a], times[a][1], times[a][2], f.pc, f.now)
  <2>1. Regular(repr[a], times[a][1], times[a][2], "inside", thread[t].now)
    BY <1>1, <1>2, <1>5, FitsNow DEF Fits
  <2>. QED
    BY <1>3, <2>1, OtherPc
<1>6. times' \in [Action -> Executions]
  BY <1>1 DEF PeriodInv
<1>. QED
  BY <1>1, <1>2, <1>3, <1>4, <1>5, <1>6, InsidePeriods

LEMMA RetrievePeriods ==
  ASSUME ActionAssumption, ActionInv, ActionInv', PeriodInv, NEW t \in Thread, retrieve(t)
  PROVE  PeriodInv'
<1>. PICK a : a = Head(thread[t].todo)
  OBVIOUS
<1>. PICK f : f = [thread[t] EXCEPT !.pc = "sending", !.copy = actr[a]]
  OBVIOUS
<1>1. /\ thread[t].pc = "entered" /\ thread[t].action # None
      /\ UNCHANGED <<repr, times, overlap>> /\ evaluateSingleAction(t, a)
      /\ IF actr[a] = None THEN Leave(t, a, TRUE)
         ELSE thread' = [thread EXCEPT ![t] = f] /\ UNCHANGED sections
  BY DEF retrieve
<1>2. CASE actr[a] = None
  BY <1>1, <1>2, SkipPeriods
<1>3. CASE actr[a] # None
  <2>1. /\ a \in Action /\ IsInside(t, a) /\ thread[t] \in Job /\ thread[t].todo # <<>>
        /\ actr \in [Action -> Params \cup {None}]
    BY <1>1, InsideOf DEF Inside
  <2>2. actr[a] \in Params
    BY <1>3, <2>1
  <2>3. /\ f \in Job /\ f.pc = "sending" /\ f.pc \in Inside /\ f.todo = thread[t].todo
        /\ f.action = thread[t].action /\ f.copy = actr[a] /\ f.now = thread[t].now
    BY <2>1, <2>2 DEF Job, Inside
  <2>4. Becomes(t, f)
    BY <1>1, <1>3, <2>1, <2>3 DEF Becomes, Consistent
  <2>5. ASSUME ~overlap, ~raced PROVE Regular(repr[a], times[a][1], times[a][2], f.pc, f.now)
    <3>1. thread[t].action = repr[a]
      BY <1>1, <2>1, <2>5, InsideTold
    <3>2. Periodic(repr[a]) => repr[a].periodTS <= f.now
      BY <1>1, <2>3, <3>1 DEF evaluateSingleAction, Periodic
    <3>3. Regular(repr[a], times[a][1], times[a][2], "entered", thread[t].now)
      BY <1>1, <2>1, <2>5, FitsNow DEF Fits
    <3>. QED
      BY <2>3, <3>2, <3>3, OtherPc
  <2>6. times' \in [Action -> Executions]
    BY <1>1 DEF PeriodInv
  <2>. QED
    BY <1>1, <1>3, <2>1, <2>3, <2>4, <2>5, <2>6, InsidePeriods
<1>. QED
  BY <1>2, <1>3

\* An execution is in a later period than the one before.
LEMMA HandlePeriods ==
  ASSUME ActionAssumption, ActionInv, ActionInv', PeriodInv, NEW t \in Thread, handleRequest(t)
  PROVE  PeriodInv'
<1>. PICK a : a = Head(thread[t].todo)
  OBVIOUS
<1>. PICK n : n = thread[t].now
  OBVIOUS
<1>. PICK f : f = [thread[t] EXCEPT !.pc = "sent"]
  OBVIOUS
<1>1. thread[t].pc = "sending" /\ UNCHANGED <<repr, sections, overlap>>
      /\ thread' = [thread EXCEPT ![t] = f] /\ times' = [times EXCEPT ![a] = <<@[2], n>>]
  BY DEF handleRequest
<1>2. /\ a \in Action /\ IsInside(t, a) /\ thread[t] \in Job /\ thread[t].todo # <<>> /\ n \in 0..MaxTime
      /\ thread[t].action # None /\ thread[t].copy # None /\ times \in [Action -> Executions]
      /\ repr \in [Action -> Repr \cup {None}]
  BY <1>1, InsideOf DEF Inside, PeriodInv, ActionInv, TypeOK, Consistent
<1>3. /\ f \in Job /\ f.pc = "sent" /\ f.pc \in Inside /\ f.todo = thread[t].todo /\ f.now = n
      /\ f.action = thread[t].action /\ f.copy = thread[t].copy
  BY <1>2 DEF Job, Inside
<1>4. PICK x, y : x = times[a][1] /\ y = times[a][2]
  OBVIOUS
<1>5. y \in 0..MaxTime \cup {None} /\ <<y, n>> \in Executions
  BY <1>2, <1>4 DEF Executions
<1>6. times' \in [Action -> Executions] /\ times'[a] = <<y, n>> /\ \A b \in Action \ {a} : times'[b] = times[b]
  BY <1>1, <1>2, <1>4, <1>5
<1>7. ASSUME ~overlap, ~raced PROVE Regular(repr'[a], times'[a][1], times'[a][2], f.pc, f.now)
  <2>. PICK r : r = repr[a]
    OBVIOUS
  <2>1. Regular(r, x, y, "sending", n)
    BY <1>1, <1>2, <1>4, <1>7, FitsNow DEF Fits
  <2>2. ASSUME Periodic(r), y # None, (y - r.since) % r.ecp # 0
        PROVE  (y - r.since) \div r.ecp < (n - r.since) \div r.ecp
    <3>1. r \in Repr
      BY <1>2, <2>2 DEF Periodic
    <3>2. r.ecp \in Nat \ {0} /\ r.since \in Int /\ r.periodTS \in Int /\ n \in Int /\ y \in Int
      BY <1>2, <1>5, <2>2, <3>1, PeriodicEntry
    <3>3. r.periodTS <= n /\ (y - r.since) \div r.ecp < (r.periodTS - r.since) \div r.ecp
      BY <2>1, <2>2 DEF Regular
    <3>4. (r.periodTS - r.since) \div r.ecp <= (n - r.since) \div r.ecp
      <4>1. r.periodTS - r.since \in Int /\ n - r.since \in Int /\ r.periodTS - r.since <= n - r.since
        BY <3>2, <3>3
      <4>. QED
        BY <3>2, <4>1, DivMonotone
    <3>5. /\ (y - r.since) \div r.ecp \in Int /\ (r.periodTS - r.since) \div r.ecp \in Int
          /\ (n - r.since) \div r.ecp \in Int
      BY <3>2
    <3>. QED
      BY <3>3, <3>4, <3>5
  <2>3. ASSUME Periodic(r), y # None, (y - r.since) % r.ecp # 0
        PROVE  (y - r.since) \div r.ecp # (n - r.since) \div r.ecp
    <3>1. r \in Repr
      BY <1>2, <2>3 DEF Periodic
    <3>2. r.ecp \in Nat \ {0} /\ r.since \in Int /\ n \in Int /\ y \in Int
      BY <1>2, <1>5, <2>3, <3>1, PeriodicEntry
    <3>3. (y - r.since) \div r.ecp \in Int /\ (n - r.since) \div r.ecp \in Int
      BY <3>2
    <3>. QED
      BY <2>2, <2>3, <3>3
  <2>4. repr'[a] = r /\ times'[a][1] = y /\ times'[a][2] = n
    BY <1>1, <1>6
  <2>5. Regular(r, y, n, "sent", n)
    <3>1. Periodic(r) => (r.periodTS - r.since) % r.ecp = 0 /\ r.periodTS <= n
      BY <2>1, Zenon DEF Regular
    <3>. QED
      BY <2>3, <3>1, Zenon DEF Regular
  <2>. QED
    BY <1>3, <2>4, <2>5
<1>8. Becomes(t, f)
  BY <1>1, <1>2, <1>3 DEF Becomes, Consistent
<1>. QED
  BY <1>1, <1>2, <1>3, <1>6, <1>7, <1>8, InsidePeriods

\* The response is stored, or there is nothing to store it in.
LEMMA DbUpdatePeriods ==
  ASSUME ActionAssumption, ActionInv, ActionInv', PeriodInv, NEW t \in Thread, dbUpdate(t)
  PROVE  PeriodInv'
<1>. PICK a : a = Head(thread[t].todo)
  OBVIOUS
<1>. PICK f : f = [thread[t] EXCEPT !.pc = "stored"]
  OBVIOUS
<1>1. /\ thread[t].pc = "sent" /\ UNCHANGED <<repr, times, overlap>>
      /\ IF actr[a] = None THEN Leave(t, a, TRUE)
         ELSE thread' = [thread EXCEPT ![t] = f] /\ UNCHANGED sections
  BY DEF dbUpdate
<1>2. /\ a \in Action /\ IsInside(t, a) /\ thread[t] \in Job /\ thread[t].todo # <<>>
      /\ thread[t].action # None /\ thread[t].copy # None
  BY <1>1, InsideOf DEF Inside, ActionInv, TypeOK, Consistent
<1>3. CASE actr[a] = None
  <2>1. repr[a] = None
    BY <1>2, <1>3 DEF ActionInv, Existing
  <2>2. Regular(repr'[a], times[a][1], times[a][2], "idle", 0)
    BY <1>1, <2>1 DEF Regular, Periodic
  <2>. QED
    BY <1>1, <1>2, <1>3, <2>2, LeavePeriods
<1>4. CASE actr[a] # None
  <2>1. /\ f \in Job /\ f.pc = "stored" /\ f.pc \in Inside /\ f.todo = thread[t].todo
        /\ f.action = thread[t].action /\ f.copy = thread[t].copy /\ f.now = thread[t].now
    BY <1>2 DEF Job, Inside
  <2>2. Becomes(t, f)
    BY <1>1, <1>2, <1>4, <2>1 DEF Becomes, Consistent
  <2>3. ASSUME ~overlap, ~raced PROVE Regular(repr[a], times[a][1], times[a][2], f.pc, f.now)
    <3>1. Regular(repr[a], times[a][1], times[a][2], "sent", thread[t].now)
      BY <1>1, <1>2, <2>3, FitsNow DEF Fits
    <3>. QED
      BY <2>1, <3>1 DEF Regular
  <2>4. times' \in [Action -> Executions]
    BY <1>1 DEF PeriodInv
  <2>. QED
    BY <1>1, <1>2, <1>4, <2>1, <2>2, <2>3, <2>4, InsidePeriods
<1>. QED
  BY <1>3, <1>4

\* The next execution is allowed from the end of the period of the last one on.
LEMMA ReschedulePeriods ==
  ASSUME ActionAssumption, ActionInv, ActionInv', PeriodInv, NEW t \in Thread, reschedule(t)
  PROVE  PeriodInv'
<1>. PICK a : a = Head(thread[t].todo)
  OBVIOUS
<1>. PICK k : k = thread[t].action
  OBVIOUS
<1>. PICK n : n = thread[t].now
  OBVIOUS
<1>1. thread[t].pc = "stored" /\ UNCHANGED <<times, overlap>>
  BY DEF reschedule
<1>2. /\ a \in Action /\ IsInside(t, a) /\ n \in 0..MaxTime
      /\ k \in Repr /\ k # None /\ repr \in [Action -> Repr \cup {None}]
  <2>1. thread[t].pc \in Inside
    BY <1>1 DEF Inside
  <2>2. thread[t].action # None /\ thread[t] \in Job
    BY <1>1 DEF ActionInv, TypeOK, Consistent
  <2>. QED
    BY <2>1, <2>2, InsideOf DEF Job
<1>3. \/ (k.evm = "periodic" /\ k.ecp = None) /\ repr' = repr /\ Leave(t, a, TRUE)
      \/ /\ ~(k.evm = "periodic" /\ k.ecp = None)
         /\ repr' = IF repr[a] = None THEN repr ELSE [repr EXCEPT ![a] = Rescheduled(k, n)]
         /\ Leave(t, a, repr[a] = None /\ Rescheduled(k, n) # None)
  BY DEF reschedule
<1>4. Leave(t, a, TRUE) \/ Leave(t, a, FALSE)
  BY <1>3 DEF Leave
<1>6. \A b \in Action \ {a} : repr'[b] = repr[b]
  BY <1>2, <1>3
<1>7. ASSUME ~overlap, ~raced PROVE Regular(repr'[a], times[a][1], times[a][2], "idle", 0)
  <2>. PICK x, y : x = times[a][1] /\ y = times[a][2]
    OBVIOUS
  <2>0. k = repr[a]
    BY <1>1, <1>2, <1>7, InsideTold
  <2>1. Regular(k, x, y, "stored", n)
    BY <1>1, <1>2, <1>7, <2>0, FitsNow DEF Fits
  <2>3. CASE k.evm = "periodic" /\ k.ecp = None
    <3>1. repr'[a] = k /\ ~Periodic(k)
      BY <1>3, <2>0, <2>3 DEF Periodic
    <3>. QED
      BY <3>1 DEF Regular
  <2>4. CASE ~(k.evm = "periodic" /\ k.ecp = None)
    <3>. PICK r : r = Rescheduled(k, n)
      OBVIOUS
    <3>1. repr'[a] = r
      BY <1>2, <1>3, <2>0, <2>4
    <3>2. ASSUME Periodic(r)
          PROVE  /\ k.evm = "periodic" /\ k.ecp # None
                 /\ r.since = k.since /\ r.ecp = k.ecp
                 /\ r.periodTS = n + ((k.periodTS - n) % k.ecp)
      <4>1. r.evm = k.evm /\ k.evm = "periodic" /\ k.ecp # None
        BY <1>2, <2>4, <3>2, RescheduleType DEF Periodic
      <4>2. r = [k EXCEPT !.periodTS = n + ((k.periodTS - n) % k.ecp)]
        BY <4>1 DEF Rescheduled
      <4>. QED
        BY <1>2, <4>1, <4>2 DEF Repr
    <3>3. ASSUME Periodic(r)
          PROVE  /\ (r.periodTS - r.since) % r.ecp = 0
                 /\ (y - r.since) % r.ecp # 0 => (y - r.since) \div r.ecp < (r.periodTS - r.since) \div r.ecp
                 /\ x # None /\ (x - r.since) % r.ecp # 0 /\ (y - r.since) % r.ecp # 0 =>
                      (x - r.since) \div r.ecp # (y - r.since) \div r.ecp
      <4>1. Periodic(k) /\ y = n
        BY <1>2, <2>1, <3>2, <3>3 DEF Periodic, Regular
      <4>2. k.ecp \in Nat \ {0} /\ k.since \in Int /\ k.periodTS \in Int /\ n \in Int
        BY <1>2, <4>1, PeriodicEntry
      <4>3. (k.periodTS - k.since) % k.ecp = 0
        BY <2>1, <4>1 DEF Regular
      <4>4. r.periodTS \in Int
        BY <3>2, <3>3, <4>2
      <4>5. /\ (r.periodTS - k.since) % k.ecp = 0
            /\ (n - k.since) % k.ecp # 0 => (n - k.since) \div k.ecp < (r.periodTS - k.since) \div k.ecp
        <5>1. r.periodTS = n + ((k.periodTS - n) % k.ecp)
          BY <3>2, <3>3
        <5>2. Follows(k.ecp, k.periodTS, n, k.since, r.periodTS)
          BY <4>2, <4>4, NextFollows
        <5>. QED
          BY <4>3, <5>1, <5>2 DEF Follows
      <4>6. x # None /\ (x - k.since) % k.ecp # 0 /\ (y - k.since) % k.ecp # 0 =>
              (x - k.since) \div k.ecp # (y - k.since) \div k.ecp
        BY <2>1, <4>1 DEF Regular
      <4>. QED
        BY <3>2, <3>3, <4>1, <4>5, <4>6
    <3>4. Regular(r, x, y, "idle", 0)
      BY <3>3 DEF Regular
    <3>. QED
      BY <3>1, <3>4
  <2>. QED
    BY <2>3, <2>4
<1>. QED
  BY <1>1, <1>2, <1>4, <1>6, <1>7, LeavePeriods

LEMMA PeriodStep == ActionAssumption /\ ActionInv /\ PeriodInv /\ [Next]_actionVars => PeriodInv'
<1>. SUFFICES ASSUME ActionAssumption, ActionInv, PeriodInv, [Next]_actionVars PROVE PeriodInv'
  OBVIOUS
<1>0. ActionInv'
  BY ActionStep
<1>1. CASE Change
  <2>1. ASSUME NEW a \in Action, activate(a) PROVE PeriodInv'
    BY <2>1, ChangePeriods DEF activate, Changeable
  <2>2. ASSUME NEW a \in Action, update(a) PROVE PeriodInv'
    <3>1. (\E p : Restart(a, scheduleAction(p)) /\ p \in Params) \/ UNCHANGED <<repr, executed, times>>
      <4>1. actr[a] \in Params
        BY <2>2 DEF update, ActionInv, TypeOK
      <4>2. PICK evm \in Evm \cup {None}, ecp \in Ecp \cup {None} :
              \E p : /\ p = [evm |-> IF evm = None THEN actr[a].evm ELSE evm,
                             ecp |-> IF ecp = None THEN actr[a].ecp ELSE ecp]
                     /\ Restart(a, scheduleAction(p)) \/ UNCHANGED <<repr, executed, times>>
        BY <2>2, ZenonT(60) DEF update
      <4>. QED
        BY <4>1, <4>2, UpdateType
    <3>. QED
      BY <2>2, <3>1, ChangePeriods DEF update, Changeable
  <2>3. ASSUME NEW a \in Action, deactivate(a) PROVE PeriodInv'
    BY <2>3, ChangePeriods DEF deactivate, Changeable
  <2>. QED
    BY <1>1, <2>1, <2>2, <2>3 DEF Change
<1>2. CASE Event
  <2>1. PICK t \in Thread : evaluateActions(t)
    BY <1>2 DEF Event
  <2>2. UNCHANGED <<repr, sections, times, overlap>> /\ thread[t].pc = "idle"
        /\ \A u \in Thread \ {t} : thread'[u] = thread[u]
    BY <2>1 DEF evaluateActions, ActionInv, TypeOK
  <2>3. thread'[t].pc \in {"idle", "next"}
    BY <2>1, EvaluateJob, Become DEF ActionInv
  <2>4. \A u \in Thread : Apart(u)
    BY <2>2, <2>3 DEF Apart, Inside
  <2>. QED
    BY <2>2, <2>4, OutsidePeriods DEF sections
<1>3. CASE Tick
  BY <1>3, OutsidePeriods DEF Tick, Apart, sections
<1>4. ASSUME NEW t \in Thread, JobStep(t) PROVE PeriodInv'
  <2>1. CASE skip(t)
    BY <1>0, <2>1, SkipPeriods DEF skip
  <2>2. CASE lookupSemaphore(t)
    BY <2>2, LookupKeeps, OutsidePeriods DEF lookupSemaphore, sections
  <2>3. CASE releaseSemaphore(t)
    BY <2>3, ReleaseKeeps, OutsidePeriods DEF releaseSemaphore
  <2>. QED
    BY <1>0, <1>4, <2>1, <2>2, <2>3, NewPeriods, AcquirePeriods, ReadPeriods, RetrievePeriods, HandlePeriods,
       DbUpdatePeriods, ReschedulePeriods DEF JobStep
<1>5. CASE UNCHANGED actionVars
  BY <1>5, OutsidePeriods DEF actionVars, Apart
<1>. QED
  BY <1>1, <1>2, <1>3, <1>4, <1>5 DEF Next

\* An action with a period is executed at most once inside of a period, whenever the events come, however long
\* their jobs wait for each other and whatever the period is, as long as no two jobs have undone its critical
\* section and it is not changed while it is executed.
THEOREM OncePeriodAlways ==
  ASSUME ActionAssumption
  PROVE  Spec => []OnceInPeriod
<1>1. ASSUME Init PROVE PeriodInv
  <2>1. times = [a \in Action |-> <<None, None>>] /\ \A a \in Action : repr[a] = None
    BY <1>1 DEF Init
  <2>2. times \in [Action -> Executions]
    BY <2>1 DEF Executions
  <2>. QED
    BY <2>1, <2>2 DEF PeriodInv, RegularNow, Fits, Regular, Periodic
<1>2. ASSUME PeriodInv PROVE OnceInPeriod
  <2> SUFFICES ASSUME ~overlap, ~raced, NEW a \in Action, Periodic(repr[a])
               PROVE  OncePerPeriod(a, repr[a].ecp)
    BY DEF OnceInPeriod, Periodic
  <2>1. \E pc, now : Fits(a, pc, now)
    BY <1>2 DEF PeriodInv, RegularNow, Executing
  <2>. QED
    BY <2>1 DEF OncePerPeriod, Period, Within, Fits, Regular
<1>. QED
  BY <1>1, <1>2, ActionInit, ActionStep, PeriodStep, PTL DEF Spec
=============================================================================
