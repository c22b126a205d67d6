-------------------------- MODULE ResourceTreeProofs --------------------------
(***************************************************************************)
(* The tables of the resource tree, for every tree of paths and any number *)
(* of threads: requests that overlap in time and are about unrelated paths *)
(* leave four tables that tell the same tree, and implement a tree of      *)
(* names.                                                                  *)
(***************************************************************************)
EXTENDS ResourceTree, SequenceTheorems, TLAPS

(***************************************************************************)
(* The inductive invariant. A resource is in a table up to, or from, the   *)
(* step of the request that is working on it which changes this table.     *)
(***************************************************************************)
StoredPc == {"identify", "structure", "link", "activate", "update", "reload", "check", "list",
             "children", "remove"}
IdentifiedPc == (StoredPc \ {"identify"}) \union {"unidentify"}
StructuredPc == (IdentifiedPc \ {"structure"}) \union {"unstructure"}
LinkedPc == (StructuredPc \ {"link"}) \union {"unlink"}

\* The CSEBase is in all tables.
RootThere ==
  /\ CseRi \in stored \intersect identifiers \intersect linked
  /\ info[CseRi] = [pi |-> CseRi, srn |-> Root]
  /\ structured[Root] = CseRi

Path(r) == info[r].srn

\* Requests that overlap are about unrelated paths.
Apart ==
  \A t, u \in Thread :
    Running(t) /\ Running(u) /\ t # u => Unrelated(Path(Target(t)), Path(Target(u)))

\* A resource is below a parent that is listed with its children.
Placed(r) ==
  /\ r # CseRi
  /\ Path(r) # Root /\ Parent[Path(r)] = Path(info[r].pi)
  /\ info[r].pi \in linked

LinkedPlaced == \A r \in linked \ {CseRi} : Placed(r)

WorkingOn(r) == \E t \in Thread : Running(t) /\ thread[t].stack[1].ri = r

\* A resource that no request is working on is in all tables or in none.
Whole(r) ==
  /\ r \in stored <=> r \in linked
  /\ r \in identifiers <=> r \in linked
  /\ r \in linked => structured[Path(r)] = r

Complete == \A r \in Ri : WorkingOn(r) \/ Whole(r)

NamesTold ==
  \A s \in Srn : structured[s] # None =>
    /\ Path(structured[s]) = s
    /\ structured[s] \in linked \/ WorkingOn(structured[s])

Kids(p) == {q \in linked \ {CseRi} : info[q].pi = p}

ListsTold == \A p \in linked : ch[p] = Kids(p)

\* What is true of the request f that a thread is processing. Its resource is where the request has put
\* it, or not taken it from yet.
InTables(f) ==
  LET c == f.stack[1].ri IN
  /\ c \in stored <=> f.pc \in StoredPc
  /\ c \in identifiers <=> f.pc \in IdentifiedPc
  /\ structured[Path(c)] = IF f.pc \in StructuredPc THEN c ELSE None
  /\ c \in linked <=> f.pc \in LinkedPc

\* A resource that is created or removed has no children, ...
TopTold(f) ==
  /\ f.pc \in CreatePc => f.mode = "create"
  /\ f.pc \in DeletePc => f.mode = "delete"
  /\ f.mode = "create" => Len(f.stack) = 1
  /\ f.mode = "create" \/ f.pc \in RemovePc => Kids(f.stack[1].ri) = {}
  /\ f.pc = "children" => Kids(f.stack[1].ri) = f.stack[1].todo

\* ... and one that waits for the removal of a child has this and those that are still to be deleted.
StackTold(f) ==
  \A i \in 2..Len(f.stack) :
    /\ Kids(f.stack[i].ri) = f.stack[i].todo \union {f.stack[i-1].ri}
    /\ f.stack[i-1].ri \notin f.stack[i].todo

\* Frames lie strictly below those they are on top of.
StackBelow(f) ==
  \A i, j \in 1..Len(f.stack) : i < j =>
    /\ Path(f.stack[i].ri) \in Below[Path(f.stack[j].ri)]
    /\ Path(f.stack[i].ri) # Path(f.stack[j].ri)

StackPlaced(f) == \A i \in 1..Len(f.stack) : Placed(f.stack[i].ri)

Fits(f) == InTables(f) /\ TopTold(f) /\ StackTold(f) /\ StackBelow(f) /\ StackPlaced(f)

AllFit == \A t \in Thread : Running(t) => Fits(thread[t])

TreeInv ==
  /\ TypeOK /\ RootThere /\ Apart /\ LinkedPlaced /\ Complete /\ NamesTold /\ ListsTold /\ AllFit

-----------------------------------------------------------------------------
(* Stacks.                                                                 *)

\* A frame on top of a stack, of which the first frame is replaced.
LEMMA Push ==
  ASSUME NEW S, NEW q \in Seq(S), q # <<>>, NEW x \in S, NEW y \in S
  PROVE  LET st == <<x, y>> \o Tail(q) IN
         /\ st \in Seq(S) /\ st # <<>>
         /\ Len(st) = Len(q) + 1
         /\ st[1] = x /\ Head(st) = x /\ st[2] = y
         /\ \A i \in 3..Len(st) : st[i] = q[i-1]
<1>1. Tail(q) \in Seq(S) /\ Len(Tail(q)) = Len(q) - 1 /\ \A i \in 1..Len(Tail(q)) : Tail(q)[i] = q[i+1]
  OBVIOUS
<1>2. <<x, y>> \in Seq(S) /\ Len(<<x, y>>) = 2
  OBVIOUS
<1>. QED
  BY <1>1, <1>2

\* The first frame is replaced.
LEMMA Replace ==
  ASSUME NEW S, NEW q \in Seq(S), q # <<>>, NEW x \in S
  PROVE  LET st == <<x>> \o Tail(q) IN
         /\ st \in Seq(S) /\ st # <<>>
         /\ Len(st) = Len(q)
         /\ st[1] = x /\ Head(st) = x
         /\ \A i \in 2..Len(st) : st[i] = q[i]
<1>1. /\ Tail(q) \in Seq(S) /\ Len(Tail(q)) = Len(q) - 1 /\ Len(q) \in Nat \ {0}
      /\ \A i \in 1..Len(Tail(q)) : Tail(q)[i] = q[i+1]
  BY HeadTailProperties, EmptySeq, LenProperties
<1>2. <<x>> \in Seq(S) /\ Len(<<x>>) = 1
  OBVIOUS
<1>. QED
  BY <1>1, <1>2

\* The first of several frames is removed.
LEMMA Pop ==
  ASSUME NEW S, NEW q \in Seq(S), q # <<>>, Len(q) # 1
  PROVE  /\ Tail(q) \in Seq(S) /\ Tail(q) # <<>>
         /\ Len(Tail(q)) = Len(q) - 1 /\ Len(q) > 1
         /\ Head(Tail(q)) = q[2]
         /\ \A i \in 1..Len(Tail(q)) : Tail(q)[i] = q[i+1]
<1>1. Len(q) \in Nat /\ Len(q) > 1
  <2>1. Len(q) \in Nat \ {0}
    BY HeadTailProperties, EmptySeq, LenProperties
  <2>2. \A n \in Nat \ {0} : n # 1 => n > 1
    OBVIOUS
  <2>. QED
    BY <2>1, <2>2
<1>2. /\ Tail(q) \in Seq(S) /\ Len(Tail(q)) = Len(q) - 1
      /\ \A i \in 1..Len(Tail(q)) : Tail(q)[i] = q[i+1]
  BY HeadTailProperties
<1>3. Tail(q) # <<>>
  <2>1. Len(Tail(q)) # 0
    BY <1>1, <1>2
  <2>. QED
    BY <2>1, EmptySeq
<1>4. Head(Tail(q)) = Tail(q)[1]
  BY <1>2, <1>3
<1>. QED
  BY <1>1, <1>2, <1>3, <1>4

-----------------------------------------------------------------------------
(* Types.                                                                  *)

LEMMA ReturnType ==
  ASSUME TypeOK, NEW t \in Thread, Running(t), Return(t)
  PROVE  /\ thread' \in [Thread -> Request \union {Idle}]
         /\ \A u \in Thread : thread'[u] # Idle => thread'[u].stack # <<>>
<1>1. thread[t] \in Request /\ thread[t].stack \in Seq(Frame) /\ thread[t].stack # <<>>
  BY DEF TypeOK, Running, Request
<1>2. CASE thread[t].mode = "create" \/ Len(thread[t].stack) = 1
  BY <1>2 DEF TypeOK, Return
<1>3. CASE ~(thread[t].mode = "create" \/ Len(thread[t].stack) = 1)
  <2>1. Tail(thread[t].stack) \in Seq(Frame) /\ Tail(thread[t].stack) # <<>>
    BY <1>1, <1>3, Pop
  <2>2. thread' = [thread EXCEPT ![t] = [thread[t] EXCEPT !.pc = "children", !.stack = Tail(thread[t].stack)]]
    BY <1>3 DEF Return, TypeOK
  <2>3. [thread[t] EXCEPT !.pc = "children", !.stack = Tail(thread[t].stack)] \in Request
    BY <1>1, <2>1 DEF Request, DeletePc
  <2>. QED
    BY <2>1, <2>2, <2>3, <1>1 DEF TypeOK, Request
<1>. QED
  BY <1>2, <1>3

LEMMA TypeStep == TreeAssumption /\ TypeOK /\ [Next]_vars => TypeOK'
<1> SUFFICES ASSUME TreeAssumption, TypeOK, [Next]_vars PROVE TypeOK'
  OBVIOUS
<1> USE DEF Goto, Finish
<1>1. ASSUME NEW t \in Thread, NEW r \in Ri, processDeleteRequest(t, r) PROVE TypeOK'
  <2>1. [mode |-> "delete", pc |-> "check", stack |-> <<[ri |-> r, todo |-> {}]>>] \in Request
    BY DEF Request, DeletePc, Frame
  <2>. QED
    BY <1>1, <2>1 DEF processDeleteRequest, TypeOK, tables
<1>2. ASSUME NEW t \in Thread, NEW r \in Ri, NEW p \in Ri, NEW s \in Srn, processCreateRequest(t, r, p, s)
      PROVE  TypeOK'
  <2>1. [mode |-> "create", pc |-> "insert", stack |-> <<[ri |-> r, todo |-> {}]>>] \in Request
    BY DEF Request, CreatePc, Frame
  <2>. QED
    BY <1>2, <2>1 DEF processCreateRequest, TypeOK
<1>3. ASSUME NEW t \in Thread, Step(t) PROVE TypeOK'
  <2>1. Running(t) /\ thread[t] \in Request /\ thread[t].stack \in Seq(Frame) /\ thread[t].stack # <<>>
    BY SMTT(30), <1>3 DEF Step, insertResource, upsertIdentifier, upsertChildResource, activate, dbUpdate, dbReload,
                willBeDeactivated, retrieveDirectChildResources, deleteChildResources, deleteResource,
                deleteIdentifier, removeChildResource, At, Running, Idle, TypeOK, Request
  <2>2. Current(t) \in Ri /\ Top(t) \in Frame /\ info[Current(t)].pi \in Ri /\ info[Current(t)].srn \in Srn
    <3>1. Head(thread[t].stack) \in Frame
    BY <2>1
  <3>. QED
    BY <3>1 DEF Current, Top, Frame, TypeOK
  <2>3. ASSUME NEW pc \in CreatePc \union DeletePc \union RemovePc, Goto(t, pc)
        PROVE  /\ thread' \in [Thread -> Request \union {Idle}]
               /\ \A u \in Thread : thread'[u] # Idle => thread'[u].stack # <<>>
    BY <2>1, <2>3 DEF TypeOK, Request
  <2>4. ASSUME Finish(t)
        PROVE  /\ thread' \in [Thread -> Request \union {Idle}]
               /\ \A u \in Thread : thread'[u] # Idle => thread'[u].stack # <<>>
    BY <2>4 DEF TypeOK
  <2>5. CASE insertResource(t)
    BY <2>2, <2>3, <2>5 DEF insertResource, TypeOK, CreatePc
  <2>6. CASE upsertIdentifier(t)
    BY SMTT(30), <2>2, <2>3, <2>6 DEF upsertIdentifier, TypeOK, CreatePc
  <2>7. CASE upsertChildResource(t)
    <3> DEFINE r == Current(t)  p == info[r].pi
    <3>1. CASE p \in linked
      <4>1. ch' \in [Ri -> SUBSET Ri] /\ linked' \in SUBSET Ri
        BY <2>2, <2>7, <3>1 DEF upsertChildResource, TypeOK
      <4>. QED
        BY <2>3, <2>7, <3>1, <4>1 DEF upsertChildResource, TypeOK, CreatePc
    <3>2. CASE p \notin linked
      <4>1. ch' \in [Ri -> SUBSET Ri] /\ linked' \in SUBSET Ri
        BY <2>2, <2>7, <3>2 DEF upsertChildResource, TypeOK
      <4>. QED
        BY <2>4, <2>7, <3>2, <4>1 DEF upsertChildResource, TypeOK
    <3>. QED
      BY <3>1, <3>2
  <2>8. CASE activate(t)
    BY <2>3, <2>8 DEF activate, TypeOK, CreatePc, RemovePc, tables
  <2>9. CASE dbUpdate(t)
    BY <2>3, <2>9 DEF dbUpdate, TypeOK, CreatePc, RemovePc, tables
  <2>10. CASE dbReload(t)
    BY <2>4, <2>10 DEF dbReload, TypeOK, tables
  <2>11. CASE willBeDeactivated(t)
    BY <2>3, <2>4, <2>11 DEF willBeDeactivated, TypeOK, DeletePc, tables
  <2>12. CASE retrieveDirectChildResources(t)
    <3>1. Children(Current(t)) \in SUBSET Ri
      BY <2>2 DEF Children, TypeOK
    <3>2. CASE Listable(Current(t))
      <4> DEFINE st == <<[ri |-> Current(t), todo |-> Children(Current(t))]>> \o Tail(thread[t].stack)
                 new == [thread[t] EXCEPT !.pc = "children", !.stack = st]
      <4>1. st \in Seq(Frame) /\ st # <<>>
        BY <2>1, <2>2, <3>1, Replace DEF Frame
      <4> HIDE DEF st
      <4>2. new \in Request /\ new.stack = st
        BY <2>1, <4>1 DEF Request, DeletePc
      <4>3. thread' = [thread EXCEPT ![t] = new]
        BY <2>12, <3>2 DEF retrieveDirectChildResources, TypeOK, st
      <4> HIDE DEF new
      <4>. QED
        BY <4>1, <4>2, <4>3, <2>12 DEF TypeOK, retrieveDirectChildResources, tables
    <3>3. CASE ~Listable(Current(t))
      BY <2>4, <2>12, <3>3 DEF retrieveDirectChildResources, TypeOK, tables
    <3>. QED
      BY <3>2, <3>3
  <2>13. CASE deleteChildResources(t)
    <3>1. CASE Goto(t, "remove")
      BY <2>3, <3>1, <2>13 DEF deleteChildResources, TypeOK, RemovePc, tables
    <3>2. CASE ~Goto(t, "remove")
      <4>1. PICK c \in Top(t).todo :
              thread' = [thread EXCEPT ![t].pc = "list",
                       ![t].stack = <<[ri |-> c, todo |-> {}],
                                      [ri |-> Current(t), todo |-> Top(t).todo \ {c}]>>
                                    \o Tail(@)]
        BY <3>2, <2>13 DEF deleteChildResources
      <4> DEFINE st == <<[ri |-> c, todo |-> {}], [ri |-> Current(t), todo |-> Top(t).todo \ {c}]>>
                         \o Tail(thread[t].stack)
                 new == [thread[t] EXCEPT !.pc = "list", !.stack = st]
      <4>2. [ri |-> c, todo |-> {}] \in Frame /\ [ri |-> Current(t), todo |-> Top(t).todo \ {c}] \in Frame
        BY <2>2 DEF Frame
      <4>3. st \in Seq(Frame) /\ st # <<>>
        BY <4>2, <2>1, Push
      <4>4. thread' = [thread EXCEPT ![t] = new]
        BY <4>1 DEF TypeOK
      <4> HIDE DEF st
      <4>5. new \in Request /\ new.stack = st
        BY <2>1, <4>3 DEF Request, DeletePc
      <4> HIDE DEF new
      <4>. QED
        BY <4>3, <4>4, <4>5, <2>13 DEF TypeOK, deleteChildResources, tables
    <3>. QED
      BY <3>1, <3>2
  <2>14. CASE deleteResource(t)
    BY <2>1, <2>3, <2>14, ReturnType DEF deleteResource, TypeOK, RemovePc
  <2>15. CASE deleteIdentifier(t)
    BY <2>1, <2>2, <2>3, <2>15, ReturnType DEF deleteIdentifier, TypeOK, RemovePc
  <2>16. CASE removeChildResource(t)
    BY <2>1, <2>2, <2>4, <2>16, ReturnType DEF removeChildResource, TypeOK
  <2>. QED
    BY <1>3, <2>5, <2>6, <2>7, <2>8, <2>9, <2>10, <2>11, <2>12, <2>13, <2>14, <2>15, <2>16 DEF Step
<1>4. CASE UNCHANGED vars
  BY <1>4 DEF TypeOK, vars
<1>. QED
  BY <1>1, <1>2, <1>3, <1>4 DEF Next

\* Every variable of the resource tree keeps its type, for any tree of paths and any number of requests,
\* also when they are about the same paths.
THEOREM TypeCorrect ==
  ASSUME TreeAssumption
  PROVE  Spec => []TypeOK
<1>1. Init => TypeOK
  BY DEF Init, TypeOK, TreeAssumption
<1>. QED
  BY <1>1, TypeStep, PTL DEF Spec

-----------------------------------------------------------------------------
(* Paths and frames.                                                       *)

\* What a request may work on.
Territory(t) == Below[Path(Target(t))]

LEMMA Shape ==
  ASSUME TypeOK, NEW t \in Thread, Running(t)
  PROVE  /\ thread[t] \in Request /\ thread[t].stack \in Seq(Frame) /\ thread[t].stack # <<>>
         /\ Len(thread[t].stack) \in Nat \ {0}
         /\ \A i \in 1..Len(thread[t].stack) :
              /\ thread[t].stack[i] \in Frame /\ thread[t].stack[i].ri \in Ri
              /\ Path(thread[t].stack[i].ri) \in Srn
              /\ info[thread[t].stack[i].ri].pi \in Ri
         /\ Top(t) = thread[t].stack[1] /\ Current(t) = thread[t].stack[1].ri
         /\ Current(t) \in Ri /\ Path(Current(t)) \in Srn /\ info[Current(t)].pi \in Ri
         /\ Target(t) \in Ri /\ Path(Target(t)) \in Srn
<1>1. thread[t] \in Request /\ thread[t].stack \in Seq(Frame) /\ thread[t].stack # <<>>
  BY DEF TypeOK, Running, Request
<1>2. Len(thread[t].stack) \in Nat \ {0}
  BY <1>1, EmptySeq
<1>3. \A i \in 1..Len(thread[t].stack) : thread[t].stack[i] \in Frame
  BY <1>1, ElementOfSeq
<1>4. ASSUME NEW i \in 1..Len(thread[t].stack)
      PROVE  /\ thread[t].stack[i].ri \in Ri
             /\ Path(thread[t].stack[i].ri) \in Srn
             /\ info[thread[t].stack[i].ri].pi \in Ri
  BY <1>3 DEF Frame, TypeOK, Path
<1>5. Top(t) = thread[t].stack[1]
  BY <1>1, <1>2 DEF Top
<1>6. 1 \in 1..Len(thread[t].stack) /\ Len(thread[t].stack) \in 1..Len(thread[t].stack)
  BY <1>2
<1>. QED
  BY <1>1, <1>2, <1>3, <1>4, <1>5, <1>6 DEF Current, Target

LEMMA Paths ==
  ASSUME TreeAssumption
  PROVE  /\ \A s \in Srn : s \in Below[s]
         /\ \A a \in Srn, s \in Srn \ {Root} : Parent[s] \in Below[a] => s \in Below[a]
         /\ \A s \in Srn \ {Root} : Parent[s] \in Srn /\ Parent[s] # s /\ s \in Below[Parent[s]]
         /\ \A a, b, s \in Srn : Unrelated(a, b) => ~(s \in Below[a] /\ s \in Below[b])
<1>1. \A s \in Srn : s \in Below[s]
  BY DEF TreeAssumption
<1>2. \A a \in Srn, s \in Srn \ {Root} : Parent[s] \in Below[a] => s \in Below[a]
  BY DEF TreeAssumption
<1>3. \A s \in Srn \ {Root} : Parent[s] \in Srn
  BY DEF TreeAssumption
<1>4. \A s \in Srn \ {Root} : Parent[s] # s /\ s \in Below[Parent[s]]
  BY <1>1, <1>2, <1>3 DEF TreeAssumption
<1>5. \A a, b, s \in Srn : Unrelated(a, b) => ~(s \in Below[a] /\ s \in Below[b])
  BY DEF TreeAssumption, Unrelated
<1>. QED
  BY <1>1, <1>2, <1>3, <1>4, <1>5

\* Everything on the stack of a request is below its target.
LEMMA OnOwnPaths ==
  ASSUME TreeAssumption, TreeInv, NEW t \in Thread, Running(t), NEW i \in 1..Len(thread[t].stack)
  PROVE  Path(thread[t].stack[i].ri) \in Territory(t)
<1> DEFINE st == thread[t].stack
<1>1. Len(st) \in Nat \ {0} /\ Path(Target(t)) \in Srn
  BY Shape DEF TreeInv
<1>2. StackBelow(thread[t])
  BY DEF TreeInv, AllFit, Fits
<1>3. CASE i = Len(st)
  BY <1>1, <1>3, Paths DEF Territory, Target
<1>4. CASE i # Len(st)
  <2>1. i < Len(st) /\ Len(st) \in 1..Len(st)
    BY <1>1, <1>4
  <2>. QED
    BY <1>2, <2>1 DEF StackBelow, Territory, Target
<1>. QED
  BY <1>3, <1>4

\* A resource on the path of one request has nothing to do with the frames of another.
LEMMA Foreign ==
  ASSUME TreeAssumption, TreeInv, NEW t \in Thread, NEW u \in Thread, t # u, Running(t), Running(u),
         NEW r \in Ri, Placed(r), Path(r) \in Territory(t),
         NEW i \in 1..Len(thread[u].stack)
  PROVE  LET q == thread[u].stack[i].ri IN
         /\ q # r /\ info[q].pi # r /\ info[r].pi # q /\ Path(q) # Path(r)
<1> DEFINE q == thread[u].stack[i].ri
<1>1. q \in Ri /\ Path(q) \in Srn /\ Path(r) \in Srn /\ Path(Target(t)) \in Srn /\ Path(Target(u)) \in Srn
  BY Shape DEF TreeInv, TypeOK, Path
<1>2. Path(q) \in Territory(u)
  BY OnOwnPaths
<1>3. Unrelated(Path(Target(t)), Path(Target(u)))
  BY DEF TreeInv, Apart
<1>4. \A s \in Srn : ~(s \in Territory(t) /\ s \in Territory(u))
  BY <1>1, <1>3, Paths DEF Territory
<1>5. Placed(q)
  BY DEF TreeInv, AllFit, Fits, StackPlaced
<1>6. Path(q) # Path(r) /\ q # r
  BY <1>1, <1>2, <1>4
<1>7. info[q].pi # r
  <2>1. Parent[Path(q)] = Path(r) => Path(q) \in Territory(t)
    BY <1>1, <1>5, Paths DEF Territory, Placed
  <2>. QED
    BY <1>1, <1>2, <1>4, <1>5, <2>1 DEF Placed
<1>8. info[r].pi # q
  <2>1. Parent[Path(r)] = Path(q) => Path(r) \in Territory(u)
    BY <1>1, <1>2, Paths DEF Territory, Placed
  <2>. QED
    BY <1>1, <1>4, <2>1 DEF Placed
<1>. QED
  BY <1>6, <1>7, <1>8

\* Nor has one that is unrelated to every request with any frame.
LEMMA Fresh ==
  ASSUME TreeAssumption, TreeInv, Isolated, NEW s \in Srn, MayStart(s),
         NEW u \in Thread, Running(u), NEW i \in 1..Len(thread[u].stack)
  PROVE  /\ Path(thread[u].stack[i].ri) # s
         /\ s # Root => Path(thread[u].stack[i].ri) # Parent[s]
         /\ Unrelated(s, Path(Target(u)))
<1>1. Path(Target(u)) \in Srn /\ Path(thread[u].stack[i].ri) \in Srn
  BY Shape DEF TreeInv
<1>2. Unrelated(s, Path(Target(u)))
  BY DEF MayStart, Path
<1>3. Path(thread[u].stack[i].ri) \in Territory(u)
  BY OnOwnPaths
<1>4. s # Root /\ Parent[s] \in Territory(u) => s \in Territory(u)
  BY <1>1, Paths DEF Territory
<1>. QED
  BY <1>2, <1>3, <1>4 DEF Unrelated, Territory

-----------------------------------------------------------------------------
(* A step of one request.                                                  *)

LEMMA CurrentPlaced ==
  ASSUME TreeAssumption, TreeInv, NEW t \in Thread, Running(t)
  PROVE  /\ Placed(Current(t)) /\ Path(Current(t)) \in Territory(t)
         /\ Current(t) # CseRi /\ Path(Current(t)) # Root /\ info[Current(t)].pi # Current(t)
         /\ Fits(thread[t]) /\ Current(t) = thread[t].stack[1].ri
         /\ \A i \in 2..Len(thread[t].stack) :
              thread[t].stack[i].ri # Current(t) /\ Path(thread[t].stack[i].ri) # Path(Current(t))
<1>1. Fits(thread[t])
  BY DEF TreeInv, AllFit
<1>2. Len(thread[t].stack) \in Nat \ {0} /\ Current(t) = thread[t].stack[1].ri /\ Path(Current(t)) \in Srn
  BY Shape DEF TreeInv
<1>3. Placed(Current(t)) /\ Path(Current(t)) \in Territory(t)
  BY <1>1, <1>2, OnOwnPaths DEF Fits, StackPlaced
<1>4. info[Current(t)].pi # Current(t)
  BY <1>2, <1>3, Paths DEF Placed
<1>5. \A i \in 2..Len(thread[t].stack) : Path(Current(t)) # Path(thread[t].stack[i].ri)
  BY <1>1, <1>2 DEF Fits, StackBelow
<1>. QED
  BY <1>1, <1>2, <1>3, <1>4, <1>5 DEF Placed

\* A step that stays on the path of its request keeps what is true of all others.
LEMMA OutsideKeeps ==
  ASSUME TreeAssumption, TreeInv, TypeOK', NEW t \in Thread, Running(t), info' = info,
         \A u \in Thread \ {t} : thread'[u] = thread[u],
         NEW c, c = Current(t),
         \A r \in Ri \ {c} : /\ r \in stored' <=> r \in stored
                             /\ r \in identifiers' <=> r \in identifiers
                             /\ r \in linked' <=> r \in linked,
         \A s \in Srn \ {Path(c)} : structured'[s] = structured[s],
         structured'[Path(c)] \in {c, None},
         c \in linked /\ c \notin linked' => Kids(c) = {},
         WorkingOn(c)' \/ Whole(c)',
         structured'[Path(c)] = c => c \in linked' \/ WorkingOn(c)'
  PROVE  /\ RootThere' /\ LinkedPlaced' /\ Complete' /\ NamesTold'
         /\ \A u \in Thread \ {t} : Running(u)' => Fits(thread[u])'
         /\ \A p \in Ri : p # info[c].pi => Kids(p)' = Kids(p)
<1>1. /\ c \in Ri /\ Path(c) \in Srn /\ Placed(c) /\ Path(c) \in Territory(t)
      /\ c # CseRi /\ Path(c) # Root /\ info[c].pi # c /\ info[c].pi \in Ri
      /\ c = thread[t].stack[1].ri /\ Fits(thread[t])
  BY CurrentPlaced, Shape DEF TreeInv
<1>2. linked \subseteq Ri /\ linked' \subseteq Ri /\ CseRi \in Ri /\ None \notin Ri
  BY DEF TreeInv, TypeOK, TreeAssumption
<1>3. \A r : Path(r)' = Path(r)
  BY DEF Path
<1>4. \A r \in Ri \ {c} : WorkingOn(r) => WorkingOn(r)'
  BY <1>1 DEF WorkingOn, Running
<1>5. structured[Path(c)] \in {c, None}
  BY <1>1 DEF Fits, InTables
<1>7. RootThere'
  BY <1>1, <1>2 DEF TreeInv, RootThere, TreeAssumption
<1>8. LinkedPlaced'
  <2> SUFFICES ASSUME NEW r \in linked', r # CseRi PROVE Placed(r)'
    BY DEF LinkedPlaced
  <2>1. Placed(r)
    BY <1>1, <1>2 DEF TreeInv, LinkedPlaced
  <2>2. info[r].pi \in linked /\ info[r].pi \in Ri
    BY <2>1, <1>2 DEF Placed
  <2>3. info[r].pi \in linked'
    <3>1. CASE info[r].pi # c
      BY <2>2, <3>1
    <3>2. CASE info[r].pi = c /\ c \notin linked'
      <4>1. r \in Kids(c)
        BY <1>1, <1>2, <3>2 DEF Kids
      <4>. QED
        BY <2>2, <3>2, <4>1
    <3>. QED
      BY <3>1, <3>2
  <2>. QED
    BY <1>3, <2>1, <2>3 DEF Placed
<1>9. Complete'
  <2> SUFFICES ASSUME NEW r \in Ri, ~WorkingOn(r)' PROVE Whole(r)'
    BY DEF Complete
  <2>1. CASE r = c
    BY <2>1
  <2>2. CASE r # c
    <3>1. Whole(r)
      BY <1>4, <2>2 DEF TreeInv, Complete
    <3>2. r \in linked => Path(r) # Path(c) /\ Path(r) \in Srn
      BY <1>2, <1>5, <2>2, <3>1 DEF Whole, TreeInv, TypeOK, Path
    <3>. QED
      BY <1>3, <2>2, <3>1, <3>2 DEF Whole
  <2>. QED
    BY <2>1, <2>2
<1>10. NamesTold'
  <2> SUFFICES ASSUME NEW s \in Srn, NEW q, q = structured'[s], q # None
               PROVE  info[q].srn = s /\ (q \in linked' \/ WorkingOn(q)')
    BY DEF NamesTold, Path
  <2>1. CASE s = Path(c)
    BY <2>1 DEF Path
  <2>2. CASE s # Path(c)
    <3>1. q = structured[s] /\ info[q].srn = s /\ q \in Ri /\ (q \in linked \/ WorkingOn(q))
      BY <2>2 DEF TreeInv, NamesTold, TypeOK, Path
    <3>2. q # c
      BY <2>2, <3>1 DEF Path
    <3>. QED
      BY <3>1, <3>2, <1>4
  <2>. QED
    BY <2>1, <2>2
<1>11. \A p \in Ri : p # info[c].pi => Kids(p)' = Kids(p)
  BY <1>2 DEF Kids
<1>12. ASSUME NEW u \in Thread \ {t}, Running(u)' PROVE Fits(thread[u])'
  <2>1. Running(u) /\ thread'[u] = thread[u] /\ Fits(thread[u])
    BY <1>12 DEF Running, TreeInv, AllFit
  <2> DEFINE f == thread[u]
  <2>2. /\ Len(f.stack) \in Nat \ {0}
        /\ \A i \in 1..Len(f.stack) : f.stack[i].ri \in Ri /\ Path(f.stack[i].ri) \in Srn
    BY <2>1, Shape DEF TreeInv
  <2>3. \A i \in 1..Len(f.stack) :
          LET q == f.stack[i].ri IN q # c /\ info[q].pi # c /\ info[c].pi # q /\ Path(q) # Path(c)
    BY SMTT(30), <1>1, <2>1, Foreign
  <2>4. \A i \in 1..Len(f.stack) : Kids(f.stack[i].ri)' = Kids(f.stack[i].ri)
    BY <2>2, <2>3, <1>11
  <2>5. 1 \in 1..Len(f.stack)
    BY <2>2
  <2> HIDE DEF f
  <2>6. InTables(f)'
    BY <1>3, <2>1, <2>2, <2>3, <2>5 DEF Fits, InTables, f
  <2>7. TopTold(f)'
    BY <2>1, <2>4, <2>5 DEF Fits, TopTold, f
  <2>8. StackTold(f)'
    BY <2>1, <2>2, <2>4 DEF Fits, StackTold, f
  <2>9. StackBelow(f)'
    BY <1>3, <2>1 DEF Fits, StackBelow, f
  <2>10. StackPlaced(f)'
    <3> SUFFICES ASSUME NEW i \in 1..Len(f.stack) PROVE Placed(f.stack[i].ri)'
      BY <2>1 DEF StackPlaced, f
    <3>1. Placed(f.stack[i].ri)
      BY <2>1 DEF Fits, StackPlaced, f
    <3>. QED
      BY <1>2, <1>3, <2>1, <2>3, <3>1 DEF Placed, f
  <2>. QED
    BY <2>6, <2>7, <2>8, <2>9, <2>10 DEF Fits, f
<1>. QED
  BY <1>7, <1>8, <1>9, <1>10, <1>11, <1>12

LEMMA ApartKeeps ==
  ASSUME TreeInv, NEW t \in Thread, Running(t), info' = info,
         \A u \in Thread \ {t} : thread'[u] = thread[u],
         Running(t)' => Target(t)' = Target(t)
  PROVE  Apart'
<1>1. \A u \in Thread : Running(u)' => Running(u) /\ Target(u)' = Target(u)
  BY DEF Running, Target
<1>. QED
  BY <1>1 DEF TreeInv, Apart, Path

\* What a step does to the resource it works on. The rest of the tables stays.
Outside(c) ==
  /\ info' = info
  /\ \A r \in Ri \ {c} : /\ r \in stored' <=> r \in stored
                         /\ r \in identifiers' <=> r \in identifiers
                         /\ r \in linked' <=> r \in linked
  /\ \A s \in Srn \ {Path(c)} : structured'[s] = structured[s]

\* The request goes on with the same resource.
LEMMA GotoKeeps ==
  ASSUME TreeAssumption, TreeInv, TypeOK', ListsTold', NEW t \in Thread, Running(t),
         NEW pc, pc # "children", Goto(t, pc),
         NEW c, c = Current(t), Outside(c),
         c \in stored' <=> pc \in StoredPc,
         c \in identifiers' <=> pc \in IdentifiedPc,
         structured'[Path(c)] = IF pc \in StructuredPc THEN c ELSE None,
         c \in linked' <=> pc \in LinkedPc,
         c \in linked => c \in linked',
         thread[t].mode = "create" \/ linked' = linked,
         pc \in CreatePc => thread[t].mode = "create",
         pc \in DeletePc => thread[t].mode = "delete",
         pc \in RemovePc => Kids(c) = {}
  PROVE  TreeInv'
<1> DEFINE f == thread[t]
<1>1. /\ f \in Request /\ Len(f.stack) \in Nat \ {0}
      /\ \A i \in 1..Len(f.stack) : f.stack[i].ri \in Ri
      /\ c \in Ri /\ c = f.stack[1].ri /\ info[c].pi # c /\ Fits(f)
      /\ \A i \in 2..Len(f.stack) : f.stack[i].ri # c
  BY Shape, CurrentPlaced DEF TreeInv
<1>2. /\ thread'[t].stack = f.stack /\ thread'[t].mode = f.mode /\ thread'[t].pc = pc
      /\ \A u \in Thread \ {t} : thread'[u] = thread[u]
  BY <1>1 DEF TreeInv, TypeOK, Goto, Request
<1>3. Running(t)'
  BY SMTT(30), <1>1, <1>2 DEF Running, Idle, Request
<1>4. WorkingOn(c)'
  BY <1>1, <1>2, <1>3 DEF WorkingOn
<1>5. /\ RootThere' /\ LinkedPlaced' /\ Complete' /\ NamesTold'
      /\ \A u \in Thread \ {t} : Running(u)' => Fits(thread[u])'
      /\ \A p \in Ri : p # info[c].pi => Kids(p)' = Kids(p)
  BY <1>2, <1>4, OutsideKeeps DEF Outside
<1>6. Apart'
  BY <1>2, ApartKeeps DEF Target, Outside
<1>7. Kids(c)' = Kids(c)
  BY <1>1, <1>5
<1>8. \A r : Path(r)' = Path(r)
  BY DEF Path, Outside
<1>9. Fits(thread[t])'
  <2>1. InTables(thread[t])'
    BY <1>1, <1>2, <1>8 DEF InTables
  <2>2. TopTold(thread[t])'
    BY <1>1, <1>2, <1>7 DEF TopTold, Fits
  <2>3. StackTold(thread[t])'
    <3>1. CASE linked' = linked
      <4>1. \A p : Kids(p)' = Kids(p)
        BY <3>1 DEF Kids, Outside
      <4>. QED
        BY <1>1, <1>2, <4>1 DEF StackTold, Fits
    <3>2. CASE f.mode = "create"
      BY SMTT(30), <1>1, <1>2, <3>2 DEF StackTold, TopTold, Fits
    <3>. QED
      BY <3>1, <3>2
  <2>4. StackBelow(thread[t])'
    BY SMTT(30), <1>1, <1>2, <1>8 DEF StackBelow, Fits
  <2>5. StackPlaced(thread[t])'
    <3>1. \A r \in Ri : r \in linked => r \in linked'
      BY DEF Outside
    <3>2. linked \subseteq Ri
      BY DEF TreeInv, TypeOK
    <3>3. \A r : Placed(r) => Placed(r)'
      BY <1>8, <3>1, <3>2 DEF Placed, Outside
    <3>. QED
      BY <1>1, <1>2, <3>3 DEF StackPlaced, Fits
  <2>. QED
    BY <2>1, <2>2, <2>3, <2>4, <2>5 DEF Fits
<1>. QED
  BY <1>5, <1>6, <1>9 DEF TreeInv, AllFit

\* The request ends and leaves its resource in all tables.
LEMMA FinishKeeps ==
  ASSUME TreeAssumption, TreeInv, TypeOK', NEW t \in Thread, Running(t), Finish(t), UNCHANGED tables,
         thread[t].pc \in StoredPc \intersect IdentifiedPc \intersect StructuredPc \intersect LinkedPc
  PROVE  TreeInv'
<1>. PICK c : c = Current(t)
  OBVIOUS
<1>1. Fits(thread[t]) /\ c = thread[t].stack[1].ri
  BY CurrentPlaced
<1>2. ~Running(t)' /\ \A u \in Thread \ {t} : thread'[u] = thread[u]
  BY DEF TreeInv, TypeOK, Finish, Running
<1>3. Whole(c)' /\ structured'[Path(c)] = c /\ c \in linked'
  BY <1>1 DEF Fits, InTables, Whole, tables, Path
<1>4. /\ RootThere' /\ LinkedPlaced' /\ Complete' /\ NamesTold'
      /\ \A u \in Thread \ {t} : Running(u)' => Fits(thread[u])'
  <2>1. info' = info /\ structured' = structured /\ stored' = stored /\ identifiers' = identifiers
        /\ linked' = linked
    BY DEF tables
  <2>. QED
    BY <1>2, <1>3, <2>1, OutsideKeeps
<1>5. Apart'
  BY <1>2, ApartKeeps DEF tables
<1>6. ListsTold'
  BY DEF TreeInv, ListsTold, Kids, tables
<1>. QED
  BY <1>2, <1>4, <1>5, <1>6 DEF TreeInv, AllFit

-----------------------------------------------------------------------------
(* CREATE.                                                                 *)

LEMMA AtRunning ==
  ASSUME TypeOK, NEW t \in Thread, NEW pc, pc # "idle", At(t, pc)
  PROVE  Running(t)
BY DEF At, Running, Idle

LEMMA InsertKeeps ==
  ASSUME TreeAssumption, TreeInv, TypeOK', NEW t \in Thread, insertResource(t)
  PROVE  TreeInv'
<1>. PICK c : c = Current(t)
  OBVIOUS
<1>1. Running(t)
  BY AtRunning DEF insertResource, TreeInv
<1>2. Fits(thread[t]) /\ c = thread[t].stack[1].ri /\ c \in Ri
  BY <1>1, CurrentPlaced, Shape DEF TreeInv
<1>3. ListsTold' /\ Outside(c)
  BY <1>2 DEF TreeInv, ListsTold, Kids, Outside, insertResource
<1>4. thread[t].pc = "insert" /\ Goto(t, "identify") /\ c \in stored'
  BY DEF insertResource, At
<1>5. /\ c \in stored' <=> "identify" \in StoredPc
      /\ c \in identifiers' <=> "identify" \in IdentifiedPc
      /\ structured'[Path(c)] = IF "identify" \in StructuredPc THEN c ELSE None
      /\ c \in linked' <=> "identify" \in LinkedPc
  BY <1>2, <1>4 DEF insertResource, Fits, InTables, StoredPc, IdentifiedPc, StructuredPc, LinkedPc
<1>6. linked' = linked /\ thread[t].mode = "create"
  BY <1>2, <1>4 DEF insertResource, Fits, TopTold, CreatePc
<1>7. "identify" \notin RemovePc \union DeletePc
  BY DEF RemovePc, DeletePc
<1>. QED
  BY <1>1, <1>3, <1>4, <1>5, <1>6, <1>7, GotoKeeps

LEMMA UpsertIdentifierKeeps ==
  ASSUME TreeAssumption, TreeInv, TypeOK', NEW t \in Thread, upsertIdentifier(t)
  PROVE  TreeInv'
<1>. PICK c : c = Current(t)
  OBVIOUS
<1>1. Running(t)
  BY AtRunning DEF upsertIdentifier, TreeInv
<1>2. Fits(thread[t]) /\ c = thread[t].stack[1].ri /\ c \in Ri /\ Path(c) \in Srn
  BY <1>1, CurrentPlaced, Shape DEF TreeInv
<1>3. CASE thread[t].pc = "identify"
  <2>1. identifiers' = identifiers \union {c} /\ Goto(t, "structure")
        /\ UNCHANGED <<stored, info, structured, linked, ch>>
    BY <1>3 DEF upsertIdentifier, At
  <2>2. ListsTold' /\ Outside(c)
    BY <1>2, <2>1 DEF TreeInv, ListsTold, Kids, Outside
  <2>3. /\ c \in stored' <=> "structure" \in StoredPc
        /\ c \in identifiers' <=> "structure" \in IdentifiedPc
        /\ structured'[Path(c)] = IF "structure" \in StructuredPc THEN c ELSE None
        /\ c \in linked' <=> "structure" \in LinkedPc
    BY <1>2, <1>3, <2>1 DEF Fits, InTables, StoredPc, IdentifiedPc, StructuredPc, LinkedPc
  <2>4. "structure" \notin RemovePc \union DeletePc /\ thread[t].mode = "create"
    BY <1>2, <1>3 DEF RemovePc, DeletePc, Fits, TopTold, CreatePc
  <2>. QED
    BY <1>1, <2>1, <2>2, <2>3, <2>4, GotoKeeps
<1>4. CASE thread[t].pc = "structure"
  <2>1. structured' = [structured EXCEPT ![Path(c)] = c] /\ Goto(t, "link")
        /\ UNCHANGED <<stored, info, identifiers, linked, ch>>
    BY <1>4 DEF upsertIdentifier, At, Path
  <2>2. structured'[Path(c)] = c /\ \A s \in Srn \ {Path(c)} : structured'[s] = structured[s]
    BY <1>2, <2>1 DEF TreeInv, TypeOK
  <2>3. ListsTold' /\ Outside(c)
    BY <1>2, <2>1, <2>2 DEF TreeInv, ListsTold, Kids, Outside
  <2>4. /\ c \in stored' <=> "link" \in StoredPc
        /\ c \in identifiers' <=> "link" \in IdentifiedPc
        /\ structured'[Path(c)] = IF "link" \in StructuredPc THEN c ELSE None
        /\ c \in linked' <=> "link" \in LinkedPc
    BY <1>2, <1>4, <2>1, <2>2 DEF Fits, InTables, StoredPc, IdentifiedPc, StructuredPc, LinkedPc
  <2>5. "link" \notin RemovePc \union DeletePc /\ thread[t].mode = "create"
    BY <1>2, <1>4 DEF RemovePc, DeletePc, Fits, TopTold, CreatePc
  <2>. QED
    BY <1>1, <2>1, <2>3, <2>4, <2>5, GotoKeeps
<1>. QED
  BY <1>3, <1>4 DEF upsertIdentifier, At

LEMMA UpsertChildKeeps ==
  ASSUME TreeAssumption, TreeInv, TypeOK', NEW t \in Thread, upsertChildResource(t)
  PROVE  TreeInv'
<1>. PICK c : c = Current(t)
  OBVIOUS
<1>. PICK p : p = info[c].pi
  OBVIOUS
<1>1. Running(t) /\ thread[t].pc = "link"
  BY AtRunning DEF upsertChildResource, TreeInv, At
<1>2. Fits(thread[t]) /\ c = thread[t].stack[1].ri /\ c \in Ri /\ c # CseRi /\ p # c /\ Placed(c) /\ p \in Ri
  BY <1>1, CurrentPlaced, Shape DEF TreeInv
<1>3. p \in linked /\ c \notin linked
  BY <1>1, <1>2 DEF Placed, Fits, InTables, LinkedPc, StructuredPc, IdentifiedPc, StoredPc
<1>4. thread[t].mode = "create" /\ Kids(c) = {}
  BY <1>1, <1>2 DEF Fits, TopTold, CreatePc
<1>5. /\ linked' = linked \union {c} /\ ch' = [ch EXCEPT ![c] = {}, ![p] = @ \union {c}]
      /\ Goto(t, "activate") /\ UNCHANGED <<stored, info, identifiers, structured>>
  BY <1>3 DEF upsertChildResource
<1>6. ListsTold'
  <2> SUFFICES ASSUME NEW q \in linked' PROVE ch'[q] = Kids(q)'
    BY DEF ListsTold
  <2>1. linked \subseteq Ri /\ ch \in [Ri -> SUBSET Ri] /\ \A r \in linked : ch[r] = Kids(r)
    BY DEF TreeInv, TypeOK, ListsTold
  <2>2. CASE q = c
    <3>1. ch'[c] = {}
      BY <1>2, <1>5, <2>1
    <3>2. Kids(c)' = Kids(c)
      BY <1>2, <1>5 DEF Kids
    <3>. QED
      BY <1>4, <2>2, <3>1, <3>2
  <2>3. CASE q = p
    <3>1. ch'[p] = ch[p] \union {c}
      BY <1>2, <1>5, <2>1
    <3>2. Kids(p)' = Kids(p) \union {c}
      BY <1>2, <1>5 DEF Kids
    <3>. QED
      BY <1>3, <2>1, <2>3, <3>1, <3>2
  <2>4. CASE q # c /\ q # p
    <3>1. q \in linked /\ ch'[q] = ch[q]
      BY <1>2, <1>5, <2>1, <2>4
    <3>2. Kids(q)' = Kids(q)
      BY <1>2, <1>5, <2>4 DEF Kids
    <3>. QED
      BY <2>1, <3>1, <3>2
  <2>. QED
    BY <2>2, <2>3, <2>4
<1>7. Outside(c)
  BY <1>5 DEF Outside
<1>8. /\ c \in stored' <=> "activate" \in StoredPc
      /\ c \in identifiers' <=> "activate" \in IdentifiedPc
      /\ structured'[Path(c)] = IF "activate" \in StructuredPc THEN c ELSE None
      /\ c \in linked' <=> "activate" \in LinkedPc
  BY <1>1, <1>2, <1>5 DEF Fits, InTables, StoredPc, IdentifiedPc, StructuredPc, LinkedPc
<1>9. "activate" \notin RemovePc \union DeletePc
  BY DEF RemovePc, DeletePc
<1>. QED
  BY <1>1, <1>3, <1>4, <1>5, <1>6, <1>7, <1>8, <1>9, GotoKeeps

\* Steps in which the resource is in all tables.
WholePc == {"activate", "update", "reload", "check", "list", "children", "remove"}

LEMMA WholeCurrent ==
  ASSUME TreeAssumption, TreeInv, NEW t \in Thread, Running(t), thread[t].pc \in WholePc
  PROVE  /\ Current(t) \in stored \intersect identifiers \intersect linked
         /\ structured[Path(Current(t))] = Current(t)
         /\ thread[t].pc \in StoredPc \intersect IdentifiedPc \intersect StructuredPc \intersect LinkedPc
BY CurrentPlaced DEF Fits, InTables, WholePc, StoredPc, IdentifiedPc, StructuredPc, LinkedPc

\* The request goes on without a change of the tables.
LEMMA MoveKeeps ==
  ASSUME TreeAssumption, TreeInv, TypeOK', NEW t \in Thread, Running(t), thread[t].pc \in WholePc,
         NEW pc \in WholePc, pc # "children", Goto(t, pc), UNCHANGED tables,
         pc \in CreatePc => thread[t].mode = "create",
         pc \in DeletePc => thread[t].mode = "delete",
         pc = "remove" => Kids(Current(t)) = {}
  PROVE  TreeInv'
<1>. PICK c : c = Current(t)
  OBVIOUS
<1>1. /\ info' = info /\ stored' = stored /\ identifiers' = identifiers /\ structured' = structured
      /\ linked' = linked /\ ch' = ch
  BY DEF tables
<1>2. ListsTold' /\ Outside(c)
  BY <1>1 DEF TreeInv, ListsTold, Kids, Outside
<1>3. pc \in StoredPc /\ pc \in IdentifiedPc /\ pc \in StructuredPc /\ pc \in LinkedPc
  BY DEF WholePc, StoredPc, IdentifiedPc, StructuredPc, LinkedPc
<1>4. c \in stored /\ c \in identifiers /\ c \in linked /\ structured[Path(c)] = c
  BY WholeCurrent
<1>5. pc \in RemovePc => Kids(c) = {}
  BY DEF WholePc, RemovePc
<1>. QED
  BY <1>1, <1>2, <1>3, <1>4, <1>5, GotoKeeps

LEMMA ActivateKeeps ==
  ASSUME TreeAssumption, TreeInv, TypeOK', NEW t \in Thread, activate(t) \/ dbUpdate(t) \/ dbReload(t)
  PROVE  TreeInv'
<1>1. Running(t) /\ thread[t].pc \in {"activate", "update", "reload"} /\ UNCHANGED tables
  BY AtRunning DEF activate, dbUpdate, dbReload, At, TreeInv
<1>2. Fits(thread[t]) /\ Current(t) = thread[t].stack[1].ri
  BY <1>1, CurrentPlaced
<1>3. thread[t].mode = "create" /\ Kids(Current(t)) = {} /\ thread[t].pc \in WholePc
  BY <1>1, <1>2 DEF Fits, TopTold, CreatePc, WholePc
<1>4. CASE Finish(t)
  BY <1>1, <1>3, <1>4, WholeCurrent, FinishKeeps
<1>5. CASE ~Finish(t)
  <2>1. PICK pc \in {"update", "reload", "remove"} : Goto(t, pc)
    BY <1>5 DEF activate, dbUpdate, dbReload
  <2>2. pc \in WholePc /\ pc # "children" /\ pc \notin DeletePc
    BY DEF WholePc, DeletePc
  <2>. QED
    BY <1>1, <1>3, <2>1, <2>2, MoveKeeps
<1>. QED
  BY <1>4, <1>5

-----------------------------------------------------------------------------
(* DELETE.                                                                 *)

LEMMA CheckKeeps ==
  ASSUME TreeAssumption, TreeInv, TypeOK', NEW t \in Thread, willBeDeactivated(t)
  PROVE  TreeInv'
<1>1. Running(t) /\ thread[t].pc \in WholePc /\ UNCHANGED tables /\ (Goto(t, "list") \/ Finish(t))
  BY AtRunning DEF willBeDeactivated, At, TreeInv, WholePc
<1>2. CASE Finish(t)
  BY <1>1, <1>2, WholeCurrent, FinishKeeps
<1>3. CASE Goto(t, "list")
  <2>1. thread[t].mode = "delete"
    BY <1>1, CurrentPlaced DEF willBeDeactivated, At, Fits, TopTold, DeletePc
  <2>2. "list" \in WholePc /\ "list" \notin CreatePc
    BY DEF WholePc, CreatePc
  <2>. QED
    BY <1>1, <1>3, <2>1, <2>2, MoveKeeps
<1>. QED
  BY <1>1, <1>2, <1>3

LEMMA ListKeeps ==
  ASSUME TreeAssumption, TreeInv, TypeOK', NEW t \in Thread, retrieveDirectChildResources(t)
  PROVE  TreeInv'
<1>. PICK c : c = Current(t)
  OBVIOUS
<1>1. Running(t) /\ thread[t].pc = "list" /\ UNCHANGED tables
  BY AtRunning DEF retrieveDirectChildResources, At, TreeInv
<1>2. thread[t].pc \in WholePc
  BY <1>1 DEF WholePc
<1>3. CASE Finish(t)
  BY <1>1, <1>2, <1>3, WholeCurrent, FinishKeeps
<1>4. CASE ~Finish(t)
  <2> DEFINE f == thread[t]
  <2>a. PICK K : K = Children(c)
    OBVIOUS
  <2>b. PICK st : st = <<[ri |-> c, todo |-> K]>> \o Tail(f.stack)
    OBVIOUS
  <2>1. thread' = [thread EXCEPT ![t].pc = "children", ![t].stack = st]
    BY <1>4, <2>a, <2>b DEF retrieveDirectChildResources
  <2>2. /\ f \in Request /\ f.stack \in Seq(Frame) /\ f.stack # <<>> /\ Len(f.stack) \in Nat \ {0}
        /\ c \in Ri /\ c = f.stack[1].ri /\ Fits(f)
    BY <1>1, Shape, CurrentPlaced DEF TreeInv
  <2>3. c \in linked /\ K = Kids(c) /\ K \in SUBSET Ri
    BY <2>a, <1>1, <1>2, WholeCurrent DEF Children, TreeInv, ListsTold, TypeOK
  <2>4. /\ Len(st) = Len(f.stack) /\ st[1] = [ri |-> c, todo |-> K]
        /\ \A i \in 2..Len(st) : st[i] = f.stack[i]
    <3>1. [ri |-> c, todo |-> K] \in Frame
      BY <2>2, <2>3 DEF Frame
    <3>. QED
      BY <2>b, <2>2, <3>1, Replace
  <2>5. /\ thread'[t].stack = st /\ thread'[t].pc = "children" /\ thread'[t].mode = f.mode
        /\ \A u \in Thread \ {t} : thread'[u] = thread[u]
    BY <2>1, <2>2 DEF TreeInv, TypeOK, Request
  <2>6. Running(t)' /\ \A i \in 1..Len(st) : st[i].ri = f.stack[i].ri
    BY <2>2, <2>4, <2>5 DEF Running, Idle
  <2>7. WorkingOn(c)'
    BY <2>2, <2>4, <2>5, <2>6 DEF WorkingOn
  <2>8. /\ info' = info /\ stored' = stored /\ identifiers' = identifiers /\ structured' = structured
        /\ linked' = linked /\ ch' = ch
    BY <1>1 DEF tables
  <2>9. structured[Path(c)] = c
    BY <1>1, <1>2, WholeCurrent
  <2>10. /\ RootThere' /\ LinkedPlaced' /\ Complete' /\ NamesTold'
         /\ \A u \in Thread \ {t} : Running(u)' => Fits(thread[u])'
    BY <1>1, <2>5, <2>7, <2>8, <2>9, OutsideKeeps
  <2>11. Apart'
    <3>1. Target(t)' = Target(t)
      BY <2>2, <2>4, <2>5, <2>6 DEF Target
    <3>. QED
      BY <1>1, <2>5, <2>8, <3>1, ApartKeeps
  <2>12. ListsTold'
    BY <2>8 DEF TreeInv, ListsTold, Kids
  <2>13. Fits(thread[t])'
    <3>1. \A p : Kids(p)' = Kids(p) /\ Path(p)' = Path(p) /\ (Placed(p) => Placed(p)')
      BY <2>8 DEF Kids, Path, Placed
    <3>2. InTables(thread[t])'
      BY <1>1, <2>2, <2>4, <2>5, <2>8, <3>1 DEF Fits, InTables, StoredPc, IdentifiedPc, StructuredPc, LinkedPc
    <3>3. TopTold(thread[t])'
      BY <1>1, <2>2, <2>3, <2>4, <2>5, <3>1 DEF Fits, TopTold, CreatePc, RemovePc, DeletePc
    <3>4. StackTold(thread[t])'
      <4> SUFFICES ASSUME NEW i \in 2..Len(st)
                   PROVE  Kids(st[i].ri) = st[i].todo \cup {st[i - 1].ri} /\ st[i - 1].ri \notin st[i].todo
        BY <2>5, <3>1 DEF StackTold
      <4>1. StackTold(f) /\ i \in 2..Len(f.stack) /\ st[i] = f.stack[i]
        BY <2>2, <2>4 DEF Fits
      <4>2. i - 1 \in 1..Len(st) /\ st[i - 1].ri = f.stack[i - 1].ri
        BY <2>2, <2>4, <2>6
      <4>. QED
        BY <4>1, <4>2 DEF StackTold
    <3>5. StackBelow(thread[t])'
      BY <2>2, <2>4, <2>5, <2>6, <3>1 DEF Fits, StackBelow
    <3>6. StackPlaced(thread[t])'
      BY <2>2, <2>4, <2>5, <2>6, <3>1 DEF Fits, StackPlaced
    <3>. QED
      BY <3>2, <3>3, <3>4, <3>5, <3>6 DEF Fits
  <2>. QED
    BY <2>10, <2>11, <2>12, <2>13 DEF TreeInv, AllFit
<1>. QED
  BY <1>3, <1>4

\* A resource that is listed, is not below the current one, and no request works on it.
LEMMA OwnPath ==
  ASSUME TreeAssumption, TreeInv, NEW t \in Thread, Running(t), NEW r \in linked, Placed(r),
         Path(r) \in Territory(t), r # Current(t)
  PROVE  ~WorkingOn(r) /\ Whole(r)
<1>1. r \in Ri
  BY DEF TreeInv, TypeOK
<1>2. ASSUME NEW u \in Thread, Running(u) PROVE thread[u].stack[1].ri # r
  <2>1. 1 \in 1..Len(thread[u].stack)
    BY <1>2, Shape DEF TreeInv
  <2>2. CASE u = t
    BY <2>2, CurrentPlaced
  <2>3. CASE u # t
    BY <1>1, <1>2, <2>1, <2>3, Foreign
  <2>. QED
    BY <2>2, <2>3
<1>. QED
  BY <1>1, <1>2 DEF WorkingOn, TreeInv, Complete

LEMMA PushKeeps ==
  ASSUME TreeAssumption, TreeInv, TypeOK', NEW t \in Thread, Running(t), thread[t].pc = "children",
         UNCHANGED tables, NEW k \in Top(t).todo, NEW c, c = Current(t), NEW T, T = Top(t).todo \ {k},
         NEW st, st # <<>>, Len(st) = Len(thread[t].stack) + 1,
         st[1].ri = k, st[2].ri = c, st[2].todo = T,
         \A i \in 3..Len(st) : st[i] = thread[t].stack[i-1],
         thread'[t].stack = st, thread'[t].pc = "list", thread'[t].mode = thread[t].mode,
         \A u \in Thread \ {t} : thread'[u] = thread[u]
  PROVE  TreeInv'
<1> DEFINE f == thread[t]
<1>1. /\ f \in Request /\ f.stack \in Seq(Frame) /\ f.stack # <<>> /\ Len(f.stack) \in Nat \ {0}
      /\ \A i \in 1..Len(f.stack) : Path(f.stack[i].ri) \in Srn
      /\ c \in Ri /\ c = f.stack[1].ri /\ Fits(f) /\ Top(t) = f.stack[1] /\ Top(t) \in Frame
      /\ Path(c) \in Territory(t) /\ Path(Target(t)) \in Srn
  BY Shape, CurrentPlaced DEF TreeInv
<1>2. f.mode = "delete" /\ Kids(c) = Top(t).todo
  BY <1>1 DEF Fits, TopTold, DeletePc
<1>3. k \in linked /\ k \in Ri /\ info[k].pi = c /\ Placed(k) /\ Path(k) \in Srn \ {Root}
      /\ Parent[Path(k)] = Path(c)
  BY <1>2 DEF Kids, TreeInv, TypeOK, LinkedPlaced, Placed, Path
<1>4. Path(k) # Path(c) /\ k # c /\ Path(k) \in Below[Path(c)] /\ Path(k) \in Territory(t)
  BY <1>1, <1>3, Paths DEF Territory
<1>5. Whole(k)
  BY <1>3, <1>4, OwnPath
<1>6. /\ Len(st) = Len(f.stack) + 1 /\ st[1].ri = k /\ st[2].ri = c /\ st[2].todo = T
      /\ \A i \in 3..Len(st) : st[i] = f.stack[i-1]
  OBVIOUS
<1>7. /\ thread'[t].stack = st /\ thread'[t].pc = "list" /\ thread'[t].mode = "delete"
      /\ \A u \in Thread \ {t} : thread'[u] = thread[u]
  BY <1>2
<1>8. Running(t)' /\ st[1].ri = k /\ \A i \in 2..Len(st) : st[i].ri = f.stack[i-1].ri
  <2>1. Running(t)'
    <3>1. Idle.pc = "idle"
      BY DEF Idle
    <3>. QED
      BY <1>7, <3>1 DEF Running
  <2>2. ASSUME NEW i \in 2..Len(st) PROVE st[i].ri = f.stack[i-1].ri
    <3>1. CASE i = 2
      BY <1>1, <1>6, <3>1
    <3>2. CASE i # 2
      <4>1. i \in 3..Len(st)
        BY <1>1, <1>6, <3>2
      <4>. QED
        BY <1>6, <4>1
    <3>. QED
      BY <3>1, <3>2
  <2>. QED
    BY <1>6, <2>1, <2>2
<1>9. /\ info' = info /\ stored' = stored /\ identifiers' = identifiers /\ structured' = structured
      /\ linked' = linked /\ ch' = ch
  BY DEF tables
<1>10. Whole(c)' /\ structured'[Path(c)] = c /\ c \in linked'
  BY <1>9, WholeCurrent DEF WholePc, Whole, Path
<1>11. /\ RootThere' /\ LinkedPlaced' /\ Complete' /\ NamesTold'
       /\ \A u \in Thread \ {t} : Running(u)' => Fits(thread[u])'
  BY <1>7, <1>9, <1>10, OutsideKeeps
<1>12. Apart'
  <2>1. Len(st) \in 2..Len(st) /\ Len(st) - 1 = Len(f.stack)
    BY <1>1, <1>6
  <2>2. st[Len(st)].ri = f.stack[Len(f.stack)].ri
    BY <1>8, <2>1
  <2>3. Target(t)' = Target(t)
    BY <1>7, <2>2 DEF Target
  <2>. QED
    BY <1>7, <1>9, <2>3, ApartKeeps
<1>13. ListsTold'
  BY <1>9 DEF TreeInv, ListsTold, Kids
<1>14. Fits(thread[t])'
  <2>1. \A p : Kids(p)' = Kids(p) /\ Path(p)' = Path(p) /\ (Placed(p) => Placed(p)')
    BY <1>9 DEF Kids, Path, Placed
  <2>2. InTables(thread[t])'
    BY <1>3, <1>5, <1>7, <1>8, <1>9, <2>1
       DEF InTables, Whole, StoredPc, IdentifiedPc, StructuredPc, LinkedPc
  <2>3. TopTold(thread[t])'
    BY <1>7 DEF TopTold, CreatePc, RemovePc, DeletePc
  <2>4. StackTold(thread[t])'
    <3> SUFFICES ASSUME NEW i \in 2..Len(st)
                 PROVE  Kids(st[i].ri) = st[i].todo \union {st[i-1].ri} /\ st[i-1].ri \notin st[i].todo
      BY <1>7, <2>1 DEF StackTold
    <3>1. CASE i = 2
      BY <1>2, <1>6, <3>1
    <3>2. CASE i # 2
      <4>1. i \in 3..Len(st) /\ i-1 \in 2..Len(f.stack) /\ i-1 \in 2..Len(st)
        BY <1>1, <1>6, <3>2
      <4>. QED
        BY ZenonT(60), <1>1, <1>6, <1>8, <4>1 DEF Fits, StackTold
    <3>. QED
      BY <3>1, <3>2
  <2>5. StackBelow(thread[t])'
    <3> SUFFICES ASSUME NEW i \in 1..Len(st), NEW j \in 1..Len(st), i < j
                 PROVE  Path(st[i].ri) \in Below[Path(st[j].ri)] /\ Path(st[i].ri) # Path(st[j].ri)
      BY <1>7, <2>1 DEF StackBelow
    <3>1. j \in 2..Len(st) /\ st[j].ri = f.stack[j-1].ri /\ j-1 \in 1..Len(f.stack)
      BY <1>1, <1>6, <1>8
    <3>2. CASE i # 1
      <4>1. i \in 2..Len(st) /\ i-1 \in 1..Len(f.stack) /\ i-1 < j-1
        BY <1>1, <1>6, <3>2
      <4>2. st[i].ri = f.stack[i-1].ri
        BY <1>8, <4>1
      <4>3. /\ Path(f.stack[i-1].ri) \in Below[Path(f.stack[j-1].ri)]
            /\ Path(f.stack[i-1].ri) # Path(f.stack[j-1].ri)
        BY ZenonT(60), <1>1, <3>1, <4>1 DEF Fits, StackBelow
      <4>. QED
        BY <3>1, <4>2, <4>3
    <3>3. CASE i = 1 /\ j = 2
      BY <1>4, <1>6, <1>8, <3>3
    <3>4. CASE i = 1 /\ j # 2
      <4>1. Path(c) \in Below[Path(st[j].ri)] /\ Path(st[j].ri) \in Srn
        <5>1. 1 < j-1 /\ 1 \in 1..Len(f.stack)
          BY <1>1, <3>1, <3>4
        <5>. QED
          BY <1>1, <3>1, <5>1 DEF Fits, StackBelow
      <4>2. Path(k) # Path(st[j].ri)
        BY <1>3, <4>1 DEF TreeAssumption
      <4>3. Path(k) \in Below[Path(st[j].ri)]
        BY <1>3, <4>1, Paths
      <4>. QED
        BY <1>8, <3>4, <4>2, <4>3
    <3>. QED
      BY <3>2, <3>3, <3>4
  <2>6. StackPlaced(thread[t])'
    <3> SUFFICES ASSUME NEW i \in 1..Len(st) PROVE Placed(st[i].ri)
      BY <1>7, <2>1 DEF StackPlaced
    <3>1. i # 1 => i \in 2..Len(st) /\ i-1 \in 1..Len(f.stack)
      BY <1>1, <1>6
    <3>. QED
      BY <1>1, <1>3, <1>8, <3>1 DEF Fits, StackPlaced
  <2>. QED
    BY <2>2, <2>3, <2>4, <2>5, <2>6 DEF Fits
<1>. QED
  BY <1>11, <1>12, <1>13, <1>14 DEF TreeInv, AllFit

LEMMA ChildrenKeep ==
  ASSUME TreeAssumption, TreeInv, TypeOK', NEW t \in Thread, deleteChildResources(t)
  PROVE  TreeInv'
<1>1. Running(t) /\ thread[t].pc = "children" /\ UNCHANGED tables
  BY AtRunning DEF deleteChildResources, At, TreeInv
<1>2. CASE Top(t).todo = {} /\ Goto(t, "remove")
  <2>1. Kids(Current(t)) = {}
    BY <1>1, <1>2, Shape, CurrentPlaced DEF Fits, TopTold, TreeInv
  <2>2. "remove" \in WholePc /\ "children" \in WholePc /\ "remove" \notin CreatePc \union DeletePc
    BY DEF WholePc, CreatePc, DeletePc
  <2>. QED
    BY <1>1, <1>2, <2>1, <2>2, MoveKeeps
<1>3. ASSUME NEW k \in Top(t).todo,
             thread' = [thread EXCEPT ![t].pc = "list",
                          ![t].stack = <<[ri |-> k, todo |-> {}],
                                         [ri |-> Current(t), todo |-> Top(t).todo \ {k}]>>
                                       \o Tail(@)]
      PROVE  TreeInv'
  <2>1. PICK c, T : c = Current(t) /\ T = Top(t).todo \ {k}
    OBVIOUS
  <2>2. PICK st : st = <<[ri |-> k, todo |-> {}], [ri |-> c, todo |-> T]>> \o Tail(thread[t].stack)
    OBVIOUS
  <2>3. thread' = [thread EXCEPT ![t].pc = "list", ![t].stack = st]
    BY <1>3, <2>1, <2>2
  <2>4. /\ thread[t].stack \in Seq(Frame) /\ thread[t].stack # <<>>
        /\ [ri |-> k, todo |-> {}] \in Frame /\ [ri |-> c, todo |-> T] \in Frame
    <3>1. thread[t].stack \in Seq(Frame) /\ thread[t].stack # <<>> /\ c \in Ri
      BY <1>1, <2>1, Shape DEF TreeInv
    <3>2. Top(t) \in Frame
      BY <3>1 DEF Top
    <3>. QED
      BY <2>1, <3>1, <3>2 DEF Frame
  <2>5. /\ Len(st) = Len(thread[t].stack) + 1 /\ st # <<>>
        /\ st[1] = [ri |-> k, todo |-> {}] /\ st[2] = [ri |-> c, todo |-> T]
        /\ \A i \in 3..Len(st) : st[i] = thread[t].stack[i-1]
    BY <2>2, <2>4, Push
  <2>6. st[1].ri = k /\ st[2].ri = c /\ st[2].todo = T
    BY <2>5
  <2>7. /\ thread'[t].stack = st /\ thread'[t].pc = "list" /\ thread'[t].mode = thread[t].mode
        /\ \A u \in Thread \ {t} : thread'[u] = thread[u]
    <3>1. thread[t] \in Request
      BY <1>1, Shape DEF TreeInv
    <3>. QED
      BY <2>3, <3>1 DEF TreeInv, TypeOK, Request
  <2>. QED
    BY SMTT(30), <1>1, <2>1, <2>5, <2>6, <2>7, PushKeeps
<1>. QED
  BY <1>2, <1>3 DEF deleteChildResources

LEMMA DeleteResourceKeeps ==
  ASSUME TreeAssumption, TreeInv, TypeOK', NEW t \in Thread, deleteResource(t)
  PROVE  TreeInv'
<1>. PICK c : c = Current(t)
  OBVIOUS
<1>1. Running(t) /\ thread[t].pc = "remove"
  BY AtRunning DEF deleteResource, At, TreeInv
<1>2. Fits(thread[t]) /\ c = thread[t].stack[1].ri /\ c \in Ri
  BY <1>1, CurrentPlaced, Shape DEF TreeInv
<1>3. /\ c \in stored /\ stored' = stored \ {c} /\ Goto(t, "unidentify")
      /\ UNCHANGED <<info, identifiers, structured, linked, ch>>
  BY <1>1, WholeCurrent DEF deleteResource, WholePc
<1>4. ListsTold' /\ Outside(c)
  BY <1>2, <1>3 DEF TreeInv, ListsTold, Kids, Outside
<1>5. /\ c \in stored' <=> "unidentify" \in StoredPc
      /\ c \in identifiers' <=> "unidentify" \in IdentifiedPc
      /\ structured'[Path(c)] = IF "unidentify" \in StructuredPc THEN c ELSE None
      /\ c \in linked' <=> "unidentify" \in LinkedPc
  BY <1>1, <1>2, <1>3 DEF Fits, InTables, StoredPc, IdentifiedPc, StructuredPc, LinkedPc
<1>6. Kids(c) = {} /\ "unidentify" \notin CreatePc \union DeletePc
  BY <1>1, <1>2 DEF Fits, TopTold, RemovePc, CreatePc, DeletePc
<1>. QED
  BY <1>1, <1>3, <1>4, <1>5, <1>6, GotoKeeps

LEMMA DeleteIdentifierKeeps ==
  ASSUME TreeAssumption, TreeInv, TypeOK', NEW t \in Thread, deleteIdentifier(t)
  PROVE  TreeInv'
<1>. PICK c : c = Current(t)
  OBVIOUS
<1>1. Running(t)
  BY AtRunning DEF deleteIdentifier, TreeInv
<1>2. Fits(thread[t]) /\ c = thread[t].stack[1].ri /\ c \in Ri /\ Path(c) \in Srn /\ c # None
  BY <1>1, CurrentPlaced, Shape DEF TreeInv, TreeAssumption
<1>3. CASE thread[t].pc = "unidentify"
  <2>1. c \in identifiers
    BY <1>2, <1>3 DEF Fits, InTables, IdentifiedPc, StoredPc
  <2>2. /\ identifiers' = identifiers \ {c} /\ Goto(t, "unstructure")
        /\ UNCHANGED <<stored, info, structured, linked, ch>>
    BY <1>3, <2>1 DEF deleteIdentifier, At
  <2>3. ListsTold' /\ Outside(c)
    BY <1>2, <2>2 DEF TreeInv, ListsTold, Kids, Outside
  <2>4. /\ c \in stored' <=> "unstructure" \in StoredPc
        /\ c \in identifiers' <=> "unstructure" \in IdentifiedPc
        /\ structured'[Path(c)] = IF "unstructure" \in StructuredPc THEN c ELSE None
        /\ c \in linked' <=> "unstructure" \in LinkedPc
    BY <1>2, <1>3, <2>2 DEF Fits, InTables, StoredPc, IdentifiedPc, StructuredPc, LinkedPc
  <2>5. Kids(c) = {} /\ "unstructure" \notin CreatePc \union DeletePc
    BY <1>2, <1>3 DEF Fits, TopTold, RemovePc, CreatePc, DeletePc
  <2>. QED
    BY <1>1, <2>2, <2>3, <2>4, <2>5, GotoKeeps
<1>4. CASE thread[t].pc = "unstructure"
  <2>1. structured[Path(c)] = c
    BY <1>2, <1>4 DEF Fits, InTables, StructuredPc
  <2>2. /\ structured' = [structured EXCEPT ![Path(c)] = None] /\ Goto(t, "unlink")
        /\ UNCHANGED <<stored, info, identifiers, linked, ch>>
    BY <1>2, <1>4, <2>1 DEF deleteIdentifier, At, Path
  <2>3. structured'[Path(c)] = None /\ \A s \in Srn \ {Path(c)} : structured'[s] = structured[s]
    BY <1>2, <2>2 DEF TreeInv, TypeOK
  <2>4. ListsTold' /\ Outside(c)
    BY <1>2, <2>2, <2>3 DEF TreeInv, ListsTold, Kids, Outside
  <2>5. /\ c \in stored' <=> "unlink" \in StoredPc
        /\ c \in identifiers' <=> "unlink" \in IdentifiedPc
        /\ structured'[Path(c)] = IF "unlink" \in StructuredPc THEN c ELSE None
        /\ c \in linked' <=> "unlink" \in LinkedPc
    BY <1>2, <1>4, <2>2, <2>3 DEF Fits, InTables, StoredPc, IdentifiedPc, StructuredPc, LinkedPc
  <2>6. Kids(c) = {} /\ "unlink" \notin CreatePc \union DeletePc
    BY <1>2, <1>4 DEF Fits, TopTold, RemovePc, CreatePc, DeletePc
  <2>. QED
    BY <1>1, <2>2, <2>4, <2>5, <2>6, GotoKeeps
<1>. QED
  BY <1>3, <1>4 DEF deleteIdentifier, At

\* The record goes last, and with it the request or its top frame.
LEMMA Unlinking ==
  ASSUME TreeAssumption, TreeInv, NEW t \in Thread, NEW c, c = Current(t), removeChildResource(t)
  PROVE  LET p == info[c].pi IN
         /\ Running(t) /\ thread[t].pc = "unlink" /\ p \in linked /\ p # c /\ p \in Ri
         /\ linked' = linked \ {c} /\ ch' = [ch EXCEPT ![p] = @ \ {c}] /\ Return(t)
         /\ UNCHANGED <<stored, info, identifiers, structured>>
         /\ Kids(c) = {} /\ c \in linked /\ c \notin stored /\ c \notin identifiers
         /\ structured[Path(c)] = None
<1>1. Running(t) /\ thread[t].pc = "unlink"
  BY AtRunning DEF removeChildResource, TreeInv, At
<1>2. Fits(thread[t]) /\ c = thread[t].stack[1].ri /\ info[c].pi \in linked /\ info[c].pi # c /\ info[c].pi \in Ri
  BY <1>1, CurrentPlaced, Shape DEF TreeInv, Placed
<1>3. Kids(c) = {} /\ c \in linked /\ c \notin stored /\ c \notin identifiers /\ structured[Path(c)] = None
  BY <1>1, <1>2 DEF Fits, InTables, TopTold, RemovePc, StoredPc, IdentifiedPc, StructuredPc, LinkedPc
<1>. QED
  BY <1>1, <1>2, <1>3 DEF removeChildResource

LEMMA UnlinkKeepsTables ==
  ASSUME TreeAssumption, TreeInv, TypeOK', NEW t \in Thread, NEW c, c = Current(t), removeChildResource(t),
         NEW p, p = info[c].pi, \A u \in Thread \ {t} : thread'[u] = thread[u]
  PROVE  /\ RootThere' /\ LinkedPlaced' /\ Complete' /\ NamesTold' /\ ListsTold'
         /\ \A u \in Thread \ {t} : Running(u)' => Fits(thread[u])'
         /\ \A q \in Ri : q # p => Kids(q)' = Kids(q)
         /\ Kids(p)' = Kids(p) \ {c}
<1>1. /\ Running(t) /\ thread[t].pc = "unlink" /\ p \in linked /\ p # c /\ p \in Ri
      /\ linked' = linked \ {c} /\ ch' = [ch EXCEPT ![p] = @ \ {c}]
      /\ UNCHANGED <<stored, info, identifiers, structured>>
      /\ Kids(c) = {} /\ c \in linked /\ c \notin stored /\ c \notin identifiers
      /\ structured[Path(c)] = None
  BY Unlinking
<1>2. Whole(c)' /\ structured'[Path(c)] = None /\ c # None
  BY <1>1 DEF Whole, TreeInv, TypeOK, TreeAssumption
<1>3. /\ RootThere' /\ LinkedPlaced' /\ Complete' /\ NamesTold'
      /\ \A u \in Thread \ {t} : Running(u)' => Fits(thread[u])'
      /\ \A q \in Ri : q # p => Kids(q)' = Kids(q)
  BY <1>1, <1>2, OutsideKeeps
<1>4. Kids(p)' = Kids(p) \ {c}
  BY <1>1 DEF Kids
<1>5. ListsTold'
  <2> SUFFICES ASSUME NEW q \in linked' PROVE ch'[q] = Kids(q)'
    BY DEF ListsTold
  <2>1. q \in linked /\ q \in Ri /\ ch \in [Ri -> SUBSET Ri] /\ ch[q] = Kids(q)
    BY <1>1 DEF TreeInv, TypeOK, ListsTold
  <2>. QED
    BY <1>1, <1>3, <1>4, <2>1
<1>. QED
  BY <1>3, <1>4, <1>5

LEMMA UnlinkKeeps ==
  ASSUME TreeAssumption, TreeInv, TypeOK', NEW t \in Thread, removeChildResource(t)
  PROVE  TreeInv'
<1>. PICK c : c = Current(t)
  OBVIOUS
<1>. DEFINE f == thread[t]
<1>. PICK p : p = info[c].pi
  OBVIOUS
<1>1. /\ Running(t) /\ f.pc = "unlink" /\ p \in linked /\ p # c /\ p \in Ri /\ Return(t)
      /\ linked' = linked \ {c} /\ UNCHANGED <<stored, info, identifiers, structured>>
      /\ c \in linked
  BY Unlinking
<1>2. /\ f \in Request /\ f.stack \in Seq(Frame) /\ f.stack # <<>> /\ Len(f.stack) \in Nat \ {0}
      /\ \A i \in 1..Len(f.stack) : /\ f.stack[i].ri \in Ri /\ Path(f.stack[i].ri) \in Srn
                                    /\ Path(f.stack[i].ri) \in Territory(t)
      /\ c \in Ri /\ c = f.stack[1].ri /\ Fits(f) /\ c # CseRi
  BY <1>1, Shape, CurrentPlaced, OnOwnPaths DEF TreeInv
<1>3. CASE f.mode = "create" \/ Len(f.stack) = 1
  <2>1. ~Running(t)' /\ \A u \in Thread \ {t} : thread'[u] = thread[u]
    BY <1>1, <1>3 DEF Return, TreeInv, TypeOK, Running
  <2>2. Apart'
    BY <1>1, <2>1, ApartKeeps
  <2>. QED
    BY <2>1, <2>2, UnlinkKeepsTables DEF TreeInv, AllFit
<1>4. CASE f.mode # "create" /\ Len(f.stack) # 1
  <2>a. PICK st : st = Tail(f.stack)
    OBVIOUS
  <2>1. /\ st # <<>> /\ Len(st) = Len(f.stack) - 1 /\ Len(f.stack) > 1
        /\ \A i \in 1..Len(st) : st[i] = f.stack[i+1]
    BY <1>2, <1>4, <2>a, Pop
  <2>2. thread' = [thread EXCEPT ![t] = [thread[t] EXCEPT !.pc = "children", !.stack = st]]
    BY <1>1, <1>4, <2>a DEF Return
  <2>3. /\ thread'[t].stack = st /\ thread'[t].pc = "children" /\ thread'[t].mode = "delete"
        /\ \A u \in Thread \ {t} : thread'[u] = thread[u]
    BY <1>2, <1>4, <2>2 DEF TreeInv, TypeOK, Request
  <2>4. /\ RootThere' /\ LinkedPlaced' /\ Complete' /\ NamesTold' /\ ListsTold'
        /\ \A u \in Thread \ {t} : Running(u)' => Fits(thread[u])'
        /\ \A q \in Ri : q # p => Kids(q)' = Kids(q)
        /\ Kids(p)' = Kids(p) \ {c}
    BY <2>3, UnlinkKeepsTables
  <2>5. 1 \in 1..Len(st) /\ Len(st) \in 1..Len(st) /\ 2 \in 2..Len(f.stack) /\ Len(st) + 1 = Len(f.stack)
    BY <1>2, <2>1
  <2>6. Apart'
    <3>1. st[Len(st)] = f.stack[Len(f.stack)]
      BY <2>1, <2>5
    <3>2. Target(t)' = Target(t)
      BY <2>3, <3>1 DEF Target
    <3>. QED
      BY <1>1, <2>3, <3>2, ApartKeeps
  <2>7. \A i \in 1..Len(st) : i+1 \in 2..Len(f.stack) /\ i+1 \in 1..Len(f.stack)
    BY <1>2, <2>1
  <2>8. st[1] = f.stack[2] /\ Kids(st[1].ri) = st[1].todo \union {c} /\ c \notin st[1].todo
    BY <1>2, <2>1, <2>5 DEF Fits, StackTold
  <2>9. st[1].ri = p
    BY <2>8 DEF Kids
  <2>10. \A i \in 1..Len(st) : Path(st[i].ri) # Path(c) /\ st[i].ri # c /\ Path(c) \in Below[Path(st[i].ri)]
    <3> SUFFICES ASSUME NEW i \in 1..Len(st)
                 PROVE  Path(st[i].ri) # Path(c) /\ Path(c) \in Below[Path(st[i].ri)]
      OBVIOUS
    <3>1. 1 < i+1 /\ 1 \in 1..Len(f.stack)
      BY <1>2
    <3>2. /\ Path(f.stack[1].ri) \in Below[Path(f.stack[i+1].ri)]
          /\ Path(f.stack[1].ri) # Path(f.stack[i+1].ri)
      BY <1>2, <2>7, <3>1 DEF Fits, StackBelow
    <3>. QED
      BY <1>2, <2>1, <3>2
  <2>11. Fits(thread[t])'
    <3>1. \A r : Path(r)' = Path(r)
      BY <1>1 DEF Path
    <3>2. InTables(thread[t])'
      <4>1. Placed(p) /\ Path(p) \in Territory(t) /\ p # Current(t) /\ Path(p) # Path(c)
        <5>1. Placed(f.stack[2].ri) /\ Path(f.stack[2].ri) \in Territory(t)
          BY <1>2, <2>5, <2>7 DEF Fits, StackPlaced
        <5>. QED
          BY <2>5, <2>8, <2>9, <2>10, <5>1
      <4>2. Whole(p)
        BY <1>1, <4>1, OwnPath
      <4>. QED
        BY <1>1, <2>3, <2>9, <3>1, <4>1, <4>2
           DEF InTables, Whole, StoredPc, IdentifiedPc, StructuredPc, LinkedPc
    <3>3. TopTold(thread[t])'
      BY <2>3, <2>4, <2>8, <2>9 DEF TopTold, CreatePc, DeletePc, RemovePc
    <3>4. StackTold(thread[t])'
      <4> SUFFICES ASSUME NEW i \in 2..Len(st)
                   PROVE  Kids(st[i].ri)' = st[i].todo \union {st[i-1].ri} /\ st[i-1].ri \notin st[i].todo
        BY <2>3 DEF StackTold
      <4>1. i \in 1..Len(st) /\ i-1 \in 1..Len(st) /\ st[i] = f.stack[i+1] /\ st[i-1] = f.stack[i]
            /\ i+1 \in 2..Len(f.stack) /\ 2 < i+1
        BY <1>2, <2>1
      <4>2. Path(st[i].ri) # Path(p) /\ st[i].ri \in Ri
        <5>1. Path(f.stack[2].ri) # Path(f.stack[i+1].ri) /\ f.stack[i+1].ri \in Ri
          BY <1>2, <2>5, <2>7, <4>1 DEF Fits, StackBelow
        <5>. QED
          BY <2>8, <2>9, <4>1, <5>1
      <4>3. Kids(st[i].ri)' = Kids(st[i].ri)
        BY <2>4, <4>2
      <4>4. (i+1) - 1 = i
        BY <4>1
      <4>. QED
        BY <1>2, <4>1, <4>3, <4>4 DEF Fits, StackTold
    <3>5. StackBelow(thread[t])'
      <4> SUFFICES ASSUME NEW i \in 1..Len(st), NEW j \in 1..Len(st), i < j
                   PROVE  Path(st[i].ri) \in Below[Path(st[j].ri)] /\ Path(st[i].ri) # Path(st[j].ri)
        BY <2>3, <3>1 DEF StackBelow
      <4>1. i+1 < j+1
        OBVIOUS
      <4>2. /\ Path(f.stack[i+1].ri) \in Below[Path(f.stack[j+1].ri)]
            /\ Path(f.stack[i+1].ri) # Path(f.stack[j+1].ri)
        BY <1>2, <2>7, <4>1 DEF Fits, StackBelow
      <4>. QED
        BY <2>1, <4>2
    <3>6. StackPlaced(thread[t])'
      <4> SUFFICES ASSUME NEW i \in 1..Len(st) PROVE Placed(st[i].ri)'
        BY <2>3 DEF StackPlaced
      <4>1. st[i] = f.stack[i+1] /\ i+1 \in 1..Len(f.stack)
        BY <2>1, <2>7
      <4>2. Placed(st[i].ri) /\ Path(st[i].ri) \in Srn
        BY <1>2, <4>1 DEF Fits, StackPlaced
      <4>3. info[st[i].ri].pi # c
        BY <2>10, <4>2 DEF Placed, TreeAssumption
      <4>. QED
        BY <1>1, <3>1, <4>2, <4>3 DEF Placed
    <3>. QED
      BY <3>2, <3>3, <3>4, <3>5, <3>6 DEF Fits
  <2>. QED
    BY <2>4, <2>6, <2>11 DEF TreeInv, AllFit
<1>. QED
  BY <1>3, <1>4

-----------------------------------------------------------------------------
(* A request starts.                                                       *)

\* The new request has nothing to do with those that are running.
LEMMA StartKeeps ==
  ASSUME TreeAssumption, Isolated, TreeInv, TypeOK', NEW t \in Thread, ~Running(t),
         NEW r \in Ri, NEW s \in Srn, MayStart(s),
         UNCHANGED <<stored, identifiers, structured, linked, ch>>,
         NEW f, f # Idle, f.stack = <<[ri |-> r, todo |-> {}]>>,
         thread' = [thread EXCEPT ![t] = f],
         info'[r].srn = s,
         info' = info \/ Unused(r),
         \A q \in Ri \ {r} : info'[q] = info[q],
         Fits(thread[t])'
  PROVE  TreeInv'
<1>1. /\ thread'[t] = f /\ \A u \in Thread \ {t} : thread'[u] = thread[u]
      /\ Running(t)' /\ Target(t)' = r /\ f.stack[1].ri = r /\ Len(f.stack) = 1
  BY DEF TreeInv, TypeOK, Running, Target
<1>2. \A u \in Thread \ {t} : Running(u)' => Running(u) /\ Target(u)' = Target(u)
  BY <1>1 DEF Running, Target
<1>3. linked \subseteq Ri /\ CseRi \in Ri /\ None \notin Ri /\ CseRi \in linked
  BY DEF TreeInv, TypeOK, TreeAssumption, RootThere
<1>4. ASSUME NEW u \in Thread, Running(u), NEW i \in 1..Len(thread[u].stack), NEW q, q = thread[u].stack[i].ri
      PROVE  q \in Ri /\ info'[q] = info[q] /\ info'[info[q].pi] = info[info[q].pi] /\ q # r
  <2>1. q \in Ri /\ info[q].pi \in Ri /\ i \in DOMAIN thread[u].stack
    BY <1>4, Shape DEF TreeInv
  <2>2. CASE info' = info
    <3>1. Path(q) # s
      BY <1>4, Fresh
    <3>. QED
      BY <2>1, <2>2, <3>1 DEF Path
  <2>3. CASE Unused(r)
    BY <1>4, <2>1, <2>3 DEF Unused
  <2>. QED
    BY <2>2, <2>3
<1>5. \A q \in linked : info'[q] = info[q] /\ info'[info[q].pi] = info[info[q].pi]
  <2> SUFFICES ASSUME NEW q \in linked, Unused(r)
               PROVE  info'[q] = info[q] /\ info'[info[q].pi] = info[info[q].pi]
    OBVIOUS
  <2>1. q # r /\ r # CseRi
    BY <1>3 DEF Unused
  <2>2. info[q].pi # r
    BY SMTT(30), <2>1 DEF Unused, TreeInv, LinkedPlaced, Placed, RootThere
  <2>. QED
    BY <1>3, <2>1, <2>2 DEF TreeInv, TypeOK
<1>6. \A q \in linked : Path(q)' = Path(q) /\ Path(info[q].pi)' = Path(info[q].pi)
  BY <1>5 DEF Path
<1>7. \A p : Kids(p)' = Kids(p)
  BY <1>5 DEF Kids
<1>8. RootThere'
  BY <1>3, <1>5 DEF TreeInv, RootThere
<1>9. Apart'
  <2> SUFFICES ASSUME NEW u \in Thread, NEW v \in Thread, u # v, Running(u)', Running(v)'
               PROVE  Unrelated(Path(Target(u))', Path(Target(v))')
    BY DEF Apart, Unrelated
  <2>1. ASSUME NEW w \in Thread \ {t}, Running(w)'
        PROVE  Running(w) /\ Path(Target(w))' = Path(Target(w)) /\ Unrelated(s, Path(Target(w)))
    <3>1. Running(w) /\ Target(w)' = Target(w)
      BY <1>2, <2>1
    <3>2. Len(thread[w].stack) \in 1..Len(thread[w].stack)
      BY <3>1, Shape DEF TreeInv
    <3>3. info'[Target(w)] = info[Target(w)]
      BY <1>4, <3>1, <3>2 DEF Target
    <3>4. Unrelated(s, Path(Target(w)))
      BY <3>1, <3>2, Fresh
    <3>. QED
      BY <3>1, <3>3, <3>4 DEF Path
  <2>2. Path(Target(t))' = s
    BY <1>1 DEF Path
  <2>3. CASE u # t /\ v # t
    BY <1>2, <2>1, <2>3 DEF TreeInv, Apart
  <2>4. CASE u = t
    BY <2>1, <2>2, <2>4
  <2>5. CASE v = t
    BY <2>1, <2>2, <2>5 DEF Unrelated
  <2>. QED
    BY <2>3, <2>4, <2>5
<1>10. LinkedPlaced'
  BY <1>5, <1>6 DEF TreeInv, LinkedPlaced, Placed
<1>11. \A q \in Ri : WorkingOn(q) => WorkingOn(q)'
  BY <1>1 DEF WorkingOn, Running
<1>12. WorkingOn(r)'
  BY <1>1 DEF WorkingOn
<1>13. Complete'
  BY <1>11, <1>12 DEF TreeInv, Complete, Whole, Path
<1>14. NamesTold'
  <2> SUFFICES ASSUME NEW x \in Srn, structured[x] # None
               PROVE  /\ info'[structured[x]].srn = x
                      /\ structured[x] \in linked \/ WorkingOn(structured[x])'
    BY DEF NamesTold, Path
  <2>1. structured[x] \in Ri /\ info[structured[x]].srn = x
    BY DEF TreeInv, TypeOK, NamesTold, Path
  <2>2. info'[structured[x]] = info[structured[x]]
    BY <2>1 DEF Unused
  <2>. QED
    BY <1>11, <2>1, <2>2 DEF TreeInv, NamesTold
<1>15. ListsTold'
  BY <1>7 DEF TreeInv, ListsTold
<1>16. ASSUME NEW u \in Thread \ {t}, Running(u)' PROVE Fits(thread[u])'
  <2>1. Running(u) /\ thread'[u] = thread[u] /\ Fits(thread[u])
    BY <1>1, <1>16 DEF Running, TreeInv, AllFit
  <2> DEFINE g == thread[u]
  <2>2. /\ Len(g.stack) \in Nat \ {0}
        /\ \A i \in 1..Len(g.stack) :
             LET q == g.stack[i].ri IN
             /\ q \in Ri /\ info'[q] = info[q] /\ info'[info[q].pi] = info[info[q].pi]
    BY SMTT(30), <1>4, <2>1, Shape DEF TreeInv
  <2>3. \A i \in 1..Len(g.stack) : Path(g.stack[i].ri)' = Path(g.stack[i].ri)
    BY <2>1, <2>2 DEF Path
  <2>4. 1 \in 1..Len(g.stack)
    BY SMTT(30), <2>2
  <2> HIDE DEF g
  <2>5. InTables(g)'
    BY <2>1, <2>3, <2>4 DEF Fits, InTables, g
  <2>6. TopTold(g)'
    BY <1>7, <2>1 DEF Fits, TopTold, g
  <2>7. StackTold(g)'
    BY <1>7, <2>1 DEF Fits, StackTold, g
  <2>8. StackBelow(g)'
    BY <2>1, <2>3 DEF Fits, StackBelow, g
  <2>9. StackPlaced(g)'
    <3> SUFFICES ASSUME NEW i \in 1..Len(g.stack), NEW q, q = g.stack[i].ri PROVE Placed(q)'
      BY <2>1 DEF StackPlaced, g
    <3>1. Placed(q)
      BY <2>1 DEF Fits, StackPlaced, g
    <3>2. info'[q] = info[q] /\ info'[info[q].pi] = info[info[q].pi]
      BY <2>2
    <3>. QED
      BY <3>1, <3>2 DEF Placed, Path
  <2>. QED
    BY <2>5, <2>6, <2>7, <2>8, <2>9 DEF Fits, g
<1>. QED
  BY <1>8, <1>9, <1>10, <1>13, <1>14, <1>15, <1>16 DEF TreeInv, AllFit

\* A path that no running request is about, nor about one above it, is as the tables say.
LEMMA Quiet ==
  ASSUME TreeAssumption, Isolated, TreeInv, NEW s \in Srn, MayStart(s), NEW q \in Ri,
         Path(q) = s \/ (s # Root /\ Path(q) = Parent[s])
  PROVE  ~WorkingOn(q) /\ Whole(q)
<1>1. ~WorkingOn(q)
  <2> SUFFICES ASSUME NEW u \in Thread, Running(u), thread[u].stack[1].ri = q PROVE FALSE
    BY DEF WorkingOn
  <2>1. 1 \in 1..Len(thread[u].stack)
    BY Shape DEF TreeInv
  <2>. QED
    BY <2>1, Fresh
<1>. QED
  BY <1>1 DEF TreeInv, Complete

LEMMA StartDeleteKeeps ==
  ASSUME TreeAssumption, Isolated, TreeInv, TypeOK', NEW t \in Thread, NEW r \in Ri, processDeleteRequest(t, r)
  PROVE  TreeInv'
<1> DEFINE f == [mode |-> "delete", pc |-> "check", stack |-> <<[ri |-> r, todo |-> {}]>>]
<1>1. /\ ~Running(t) /\ r \in stored /\ r # CseRi /\ MayStart(Path(r)) /\ Path(r) \in Srn
      /\ UNCHANGED <<stored, info, identifiers, structured, linked, ch>>
      /\ thread' = [thread EXCEPT ![t] = f] /\ thread'[t] = f
  BY DEF processDeleteRequest, tables, TreeInv, TypeOK, Path
<1>2. Whole(r) /\ r \in linked
  BY <1>1, Quiet DEF Whole
<1>3. Placed(r)
  BY <1>1, <1>2 DEF TreeInv, LinkedPlaced
<1>4. /\ Len(f.stack) = 1 /\ f.stack[1].ri = r /\ 2..Len(f.stack) = {} /\ 1..Len(f.stack) = {1}
      /\ f.pc = "check" /\ f.mode = "delete" /\ f # Idle
  BY DEF Idle
<1> HIDE DEF f
<1>5. Fits(thread[t])'
  <2>1. InTables(thread[t])'
    BY <1>1, <1>2, <1>4 DEF InTables, Whole, Path, StoredPc, IdentifiedPc, StructuredPc, LinkedPc
  <2>2. TopTold(thread[t])'
    BY <1>1, <1>4 DEF TopTold, CreatePc, DeletePc, RemovePc
  <2>3. StackTold(thread[t])' /\ StackBelow(thread[t])'
    BY <1>1, <1>4 DEF StackTold, StackBelow
  <2>4. StackPlaced(thread[t])'
    BY SMTT(30), <1>1, <1>3, <1>4 DEF StackPlaced, Placed, Path
  <2>. QED
    BY <2>1, <2>2, <2>3, <2>4 DEF Fits
<1>. QED
  BY <1>1, <1>4, <1>5, StartKeeps DEF f, Path

LEMMA StartCreateKeeps ==
  ASSUME TreeAssumption, Isolated, TreeInv, TypeOK', NEW t \in Thread, NEW r \in Ri, NEW p \in Ri,
         NEW s \in Srn \ {Root}, processCreateRequest(t, r, p, s)
  PROVE  TreeInv'
<1> DEFINE f == [mode |-> "create", pc |-> "insert", stack |-> <<[ri |-> r, todo |-> {}]>>]
<1>1. /\ ~Running(t) /\ p \in stored /\ Parent[s] = Path(p) /\ ~HasResource(s) /\ Unused(r) /\ MayStart(s)
      /\ UNCHANGED <<stored, identifiers, structured, linked, ch>>
      /\ thread' = [thread EXCEPT ![t] = f] /\ thread'[t] = f
      /\ info'[r] = [pi |-> p, srn |-> s] /\ \A q \in Ri \ {r} : info'[q] = info[q]
  BY DEF processCreateRequest, TreeInv, TypeOK, Path
<1>2. p \in linked /\ p # r /\ r # CseRi /\ Path(p)' = Path(p)
  <2>1. Whole(p)
    BY <1>1, Quiet
  <2>. QED
    BY <1>1, <2>1 DEF Whole, Unused, Path, TreeInv, RootThere
<1>3. structured[s] = None
  <2> SUFFICES ASSUME structured[s] # None PROVE FALSE
    OBVIOUS
  <2>1. structured[s] \in Ri /\ Path(structured[s]) = s
    BY DEF TreeInv, TypeOK, NamesTold
  <2>2. ~WorkingOn(structured[s]) /\ Whole(structured[s])
    BY <1>1, <2>1, Quiet
  <2>3. structured[s] \in linked
    BY <2>2 DEF TreeInv, NamesTold
  <2>. QED
    BY <1>1, <2>2, <2>3 DEF Whole, HasResource
<1>4. Kids(r)' = {}
  <2> SUFFICES ASSUME NEW q \in linked, q # CseRi, info'[q].pi = r PROVE FALSE
    BY <1>1 DEF Kids
  <2>1. q \in Ri /\ q # r
    BY <1>1 DEF Unused, TreeInv, TypeOK
  <2>2. info[q].pi \in linked
    BY DEF TreeInv, LinkedPlaced, Placed
  <2>. QED
    BY <1>1, <2>1, <2>2 DEF Unused
<1>5. /\ Len(f.stack) = 1 /\ f.stack[1].ri = r /\ 2..Len(f.stack) = {} /\ 1..Len(f.stack) = {1}
      /\ f.pc = "insert" /\ f.mode = "create" /\ f # Idle
  BY DEF Idle
<1> HIDE DEF f
<1>6. Fits(thread[t])'
  <2>1. InTables(thread[t])'
    BY SMTT(30), <1>1, <1>3, <1>5 DEF InTables, Unused, Path, StoredPc, IdentifiedPc, StructuredPc, LinkedPc
  <2>2. TopTold(thread[t])'
    BY <1>1, <1>4, <1>5 DEF TopTold, CreatePc, DeletePc, RemovePc
  <2>3. StackTold(thread[t])' /\ StackBelow(thread[t])'
    BY <1>1, <1>5 DEF StackTold, StackBelow
  <2>4. StackPlaced(thread[t])'
    BY SMTT(30), <1>1, <1>2, <1>5 DEF StackPlaced, Placed, Path
  <2>. QED
    BY <2>1, <2>2, <2>3, <2>4 DEF Fits
<1>7. f.stack = <<[ri |-> r, todo |-> {}]>>
  BY DEF f
<1>8. info'[r].srn = s
  BY <1>1
<1>. QED
  BY ZenonT(60), <1>1, <1>5, <1>6, <1>7, <1>8, StartKeeps

-----------------------------------------------------------------------------
(* The invariant.                                                          *)

LEMMA InitInv == TreeAssumption /\ Init => TreeInv
<1> SUFFICES ASSUME TreeAssumption, Init PROVE TreeInv
  OBVIOUS
<1>1. TypeOK
  BY DEF Init, TypeOK, TreeAssumption
<1>2. \A t \in Thread : ~Running(t)
  BY DEF Init, Running
<1>3. linked = {CseRi} /\ stored = {CseRi} /\ identifiers = {CseRi} /\ \A r \in Ri : Path(r) = Root
  BY DEF Init, Path
<1>4. \A s \in Srn : structured[s] # None => s = Root /\ structured[s] = CseRi
  BY DEF Init
<1>5. RootThere
  BY DEF Init, RootThere, TreeAssumption
<1>6. LinkedPlaced /\ ListsTold
  BY <1>3 DEF LinkedPlaced, ListsTold, Kids, Init, TreeAssumption
<1>7. Complete
  BY <1>3, <1>5 DEF Complete, Whole, RootThere
<1>8. NamesTold
  BY <1>3, <1>4 DEF NamesTold, TreeAssumption
<1>. QED
  BY <1>1, <1>2, <1>5, <1>6, <1>7, <1>8 DEF TreeInv, Apart, AllFit

LEMMA InvStep == TreeAssumption /\ Isolated /\ TreeInv /\ [Next]_vars => TreeInv'
<1> SUFFICES ASSUME TreeAssumption, Isolated, TreeInv, [Next]_vars PROVE TreeInv'
  OBVIOUS
<1>1. TypeOK'
  BY TypeStep DEF TreeInv
<1>2. ASSUME NEW t \in Thread, Step(t) PROVE TreeInv'
  BY <1>1, <1>2, InsertKeeps, UpsertIdentifierKeeps, UpsertChildKeeps, ActivateKeeps, CheckKeeps, ListKeeps,
     ChildrenKeep, DeleteResourceKeeps, DeleteIdentifierKeeps, UnlinkKeeps DEF Step
<1>3. ASSUME NEW t \in Thread, NEW r \in Ri, processDeleteRequest(t, r) PROVE TreeInv'
  BY <1>1, <1>3, StartDeleteKeeps
<1>4. ASSUME NEW t \in Thread, NEW r \in Ri, NEW p \in Ri, NEW s \in Srn \ {Root},
             processCreateRequest(t, r, p, s)
      PROVE  TreeInv'
  BY <1>1, <1>4, StartCreateKeeps
<1>5. CASE UNCHANGED vars
  <2>0. /\ stored' = stored /\ info' = info /\ identifiers' = identifiers /\ structured' = structured
        /\ linked' = linked /\ ch' = ch /\ thread' = thread
    BY <1>5 DEF vars
  <2>1. /\ \A r : Path(r)' = Path(r)
        /\ \A r : Kids(r)' = Kids(r)
    BY <2>0 DEF Path, Kids
  <2>2. /\ \A r : Placed(r) => Placed(r)'
        /\ \A r : Whole(r) => Whole(r)'
        /\ \A r : WorkingOn(r) => WorkingOn(r)'
    BY <2>0, <2>1 DEF Placed, Whole, WorkingOn, Running
  <2>3. RootThere' /\ Apart' /\ LinkedPlaced' /\ Complete'
    BY <2>0, <2>1, <2>2 DEF TreeInv, RootThere, Apart, LinkedPlaced, Complete, Running, Target
  <2>4. NamesTold' /\ ListsTold'
    BY <2>0, <2>1, <2>2 DEF TreeInv, NamesTold, ListsTold
  <2>5. AllFit'
    <3> SUFFICES ASSUME NEW t \in Thread, Running(t), NEW f, f = thread[t], thread'[t] = f PROVE Fits(f)'
      BY <2>0 DEF AllFit, Running
    <3>1. Fits(f)
      BY DEF TreeInv, AllFit
    <3>2. InTables(f)'
      BY <2>0, <2>1, <3>1 DEF Fits, InTables
    <3>3. TopTold(f)'
      BY <2>1, <3>1 DEF Fits, TopTold
    <3>4. StackTold(f)'
      BY <2>1, <3>1 DEF Fits, StackTold
    <3>5. StackBelow(f)'
      BY <2>1, <3>1 DEF Fits, StackBelow
    <3>6. StackPlaced(f)'
      BY <2>2, <3>1 DEF Fits, StackPlaced
    <3>. QED
      BY <3>2, <3>3, <3>4, <3>5, <3>6 DEF Fits
  <2>. QED
    BY <1>1, <2>3, <2>4, <2>5 DEF TreeInv
<1>. QED
  BY <1>2, <1>3, <1>4, <1>5 DEF Next

LEMMA Invariant ==
  ASSUME TreeAssumption, Isolated
  PROVE  Spec => []TreeInv
BY InitInv, InvStep, PTL DEF Spec

\* A resource whose path is settled is not being worked on.
LEMMA SettledQuiet ==
  ASSUME TreeAssumption, TreeInv, NEW r \in Ri, Settled(Path(r))
  PROVE  Whole(r) /\ ~WorkingOn(r)
<1>1. ASSUME NEW t \in Thread, Running(t), thread[t].stack[1].ri = r PROVE FALSE
  BY <1>1, CurrentPlaced DEF Settled, Territory, Path
<1>. QED
  BY <1>1 DEF WorkingOn, TreeInv, Complete

\* Requests that overlap in time and are about unrelated paths leave the four tables in agreement
\* wherever no request is working, whatever the interleaving of their steps and wherever a request fails.
THEOREM TablesAlwaysAgree ==
  ASSUME TreeAssumption, Isolated
  PROVE  Spec => []TablesAgree
<1>1. ASSUME TreeInv PROVE TablesAgree
  <2>1. stored \subseteq Ri /\ linked \subseteq Ri /\ identifiers \subseteq Ri
    BY <1>1 DEF TreeInv, TypeOK
  <2>2. ASSUME NEW r \in Ri, Settled(info[r].srn)
        PROVE  Whole(r) /\ ~WorkingOn(r)
    BY <1>1, <2>2, SettledQuiet DEF Path
  <2>3. ASSUME NEW r \in stored, Settled(info[r].srn)
        PROVE  /\ r \in identifiers /\ r \in linked /\ structured[info[r].srn] = r
               /\ r # CseRi => r \in ch[info[r].pi]
    <3>1. r \in identifiers /\ r \in linked /\ structured[info[r].srn] = r
      BY <2>1, <2>2, <2>3 DEF Whole, Path
    <3>2. r # CseRi => r \in Kids(info[r].pi) /\ info[r].pi \in linked
      BY <1>1, <3>1 DEF TreeInv, LinkedPlaced, Placed, Kids
    <3>. QED
      BY <1>1, <3>1, <3>2 DEF TreeInv, ListsTold
  <2>4. ASSUME NEW s \in Srn, Settled(s), structured[s] # None
        PROVE  structured[s] \in stored /\ info[structured[s]].srn = s
    <3>1. structured[s] \in Ri /\ info[structured[s]].srn = s
      BY <1>1, <2>4 DEF TreeInv, TypeOK, NamesTold, Path
    <3>2. structured[s] \in linked
      BY <1>1, <2>2, <2>4, <3>1 DEF TreeInv, NamesTold
    <3>. QED
      BY <2>2, <2>4, <3>1, <3>2 DEF Whole
  <2>5. ASSUME NEW r \in identifiers \union linked, Settled(info[r].srn) PROVE r \in stored
    BY <2>1, <2>2, <2>5 DEF Whole
  <2>6. ASSUME NEW p \in linked, NEW r \in ch[p], Settled(info[r].srn) PROVE r \in stored /\ info[r].pi = p
    <3>1. r \in linked /\ info[r].pi = p
      BY <1>1 DEF TreeInv, ListsTold, Kids
    <3>. QED
      BY <2>5, <2>6, <3>1
  <2>. QED
    BY <2>3, <2>4, <2>5, <2>6 DEF TablesAgree
<1>. QED
  BY <1>1, Invariant, PTL

\* When no request is running, the children of every resource can be listed.
THEOREM ListingAlwaysWorks ==
  ASSUME TreeAssumption, Isolated
  PROVE  Spec => []ListingWorks
<1>1. ASSUME TreeInv PROVE ListingWorks
  <2> SUFFICES ASSUME \A t \in Thread : ~Running(t), NEW p \in stored, p \in linked PROVE ch[p] \subseteq stored
    BY DEF ListingWorks, Listable, Children
  <2>1. ch[p] \subseteq linked /\ linked \subseteq Ri
    BY <1>1 DEF TreeInv, ListsTold, Kids, TypeOK
  <2>2. \A r \in Ri : Whole(r)
    BY <1>1 DEF TreeInv, Complete, WorkingOn
  <2>. QED
    BY <2>1, <2>2 DEF Whole
<1>. QED
  BY <1>1, Invariant, PTL

-----------------------------------------------------------------------------
(* The tree of names.                                                      *)

\* The resource that a request works on is the only one of its path, and its parent is complete.
LEMMA OnlyOne ==
  ASSUME TreeAssumption, TreeInv, NEW t \in Thread, Running(t), NEW c, c = Current(t),
         NEW q \in Ri, q # c
  PROVE  /\ (q \in stored \/ q \in linked) /\ Path(q) = Path(c) => structured[Path(c)] = q
         /\ q = info[c].pi => q \in stored
         /\ q \in stored /\ q # CseRi /\ Path(q) # Root /\ Parent[Path(q)] = Path(c) => q \in linked /\ Placed(q)
<1>1. c \in Ri /\ Placed(c) /\ Path(c) \in Territory(t) /\ c = thread[t].stack[1].ri /\ Path(c) \in Srn
  BY CurrentPlaced, Shape DEF TreeInv
<1>2. ASSUME NEW u \in Thread, Running(u), thread[u].stack[1].ri = q
      PROVE  u # t /\ Path(q) # Path(c) /\ q # info[c].pi
  <2>1. u # t /\ 1 \in 1..Len(thread[u].stack)
    BY <1>1, <1>2, Shape DEF TreeInv
  <2>. QED
    BY <1>1, <1>2, <2>1, Foreign
<1>3. WorkingOn(q) \/ Whole(q)
  BY DEF TreeInv, Complete
<1>4. (q \in stored \/ q \in linked) /\ Path(q) = Path(c) => structured[Path(c)] = q
  BY <1>2, <1>3 DEF WorkingOn, Whole
<1>5. q = info[c].pi => q \in stored
  BY <1>1, <1>2, <1>3 DEF WorkingOn, Whole, Placed
<1>6. ASSUME q \in stored, q # CseRi, Path(q) # Root, Parent[Path(q)] = Path(c)
      PROVE  q \in linked /\ Placed(q)
  <2>1. ~WorkingOn(q)
    <3> SUFFICES ASSUME NEW u \in Thread, Running(u), thread[u].stack[1].ri = q PROVE FALSE
      BY DEF WorkingOn
    <3>1. u # t
      BY <1>2
    <3>2. Path(q) \in Srn /\ Path(Target(t)) \in Srn /\ Path(Target(u)) \in Srn
      BY Shape DEF TreeInv, TypeOK, Path
    <3>3. Path(q) \in Territory(u)
      BY CurrentPlaced
    <3>4. Path(q) \in Territory(t)
      BY <1>1, <1>6, <3>2, Paths DEF Territory
    <3>5. Unrelated(Path(Target(t)), Path(Target(u)))
      BY <3>1 DEF TreeInv, Apart
    <3>. QED
      BY <3>2, <3>3, <3>4, <3>5, Paths DEF Territory
  <2>. QED
    BY <1>3, <1>6, <2>1 DEF Whole, TreeInv, LinkedPlaced
<1>. QED
  BY <1>4, <1>5, <1>6

\* No two resources get the same structured name.
LEMMA Unique == ASSUME TreeAssumption, TreeInv PROVE UniqueSrn
<1> SUFFICES ASSUME NEW r \in stored, NEW q \in stored, Path(r) = Path(q), r # q PROVE FALSE
  BY DEF UniqueSrn, Path
<1>1. r \in Ri /\ q \in Ri
  BY DEF TreeInv, TypeOK
<1>2. ASSUME NEW a \in stored, NEW b \in stored, a # b, Path(a) = Path(b), WorkingOn(a) PROVE FALSE
  <2>1. PICK t \in Thread : Running(t) /\ a = Current(t)
    BY <1>2, Shape DEF WorkingOn, TreeInv
  <2>2. structured[Path(a)] = b
    BY <1>2, <2>1, OnlyOne DEF TreeInv, TypeOK
  <2>3. structured[Path(a)] \in {a, None} /\ None \notin Ri /\ b \in Ri
    BY <2>1, CurrentPlaced DEF Fits, InTables, TreeAssumption, TreeInv, TypeOK
  <2>. QED
    BY <1>2, <2>2, <2>3
<1>3. Whole(r) /\ Whole(q)
  BY <1>1, <1>2 DEF TreeInv, Complete
<1>. QED
  BY <1>3 DEF Whole

\* No two resources get the same structured name, also while requests are running.
THEOREM NamesUnique ==
  ASSUME TreeAssumption, Isolated
  PROVE  Spec => []UniqueSrn
BY Invariant, Unique, PTL

Names == {info[r].srn : r \in stored}

LEMMA InsertCreates ==
  ASSUME TreeAssumption, TreeInv, NEW t \in Thread, insertResource(t)
  PROVE  \E s \in Srn \ {Root} : Tree!Create(s)
<1>. PICK c : c = Current(t)
  OBVIOUS
<1>1. Running(t) /\ thread[t].pc = "insert" /\ stored' = stored \union {c} /\ info' = info
  BY AtRunning DEF insertResource, TreeInv, At
<1>2. Placed(c) /\ Path(c) \in Srn \ {Root} /\ c \in Ri /\ Fits(thread[t]) /\ c = thread[t].stack[1].ri
      /\ info[c].pi # c /\ info[c].pi \in Ri
  BY <1>1, CurrentPlaced, Shape DEF TreeInv
<1>3. c \notin stored /\ structured[Path(c)] = None
  BY <1>1, <1>2 DEF Fits, InTables, StoredPc, IdentifiedPc, StructuredPc
<1>4. Path(c) \notin Names
  <2> SUFFICES ASSUME NEW q \in stored, Path(q) = Path(c) PROVE FALSE
    BY DEF Names, Path
  <2>1. q \in Ri /\ q # c /\ q # None
    BY <1>3 DEF TreeInv, TypeOK, TreeAssumption
  <2>. QED
    BY <1>1, <1>3, <2>1, OnlyOne
<1>5. Parent[Path(c)] \in Names
  <2>1. info[c].pi \in stored
    BY <1>1, <1>2, OnlyOne
  <2>. QED
    BY <1>2, <2>1 DEF Names, Placed, Path
<1>6. Names' = Names \union {Path(c)}
  BY <1>1 DEF Names, Path
<1>. QED
  BY <1>2, <1>4, <1>5, <1>6 DEF Tree!Create, Names

LEMMA DeleteDeletes ==
  ASSUME TreeAssumption, TreeInv, NEW t \in Thread, deleteResource(t)
  PROVE  \E s \in Srn \ {Root} : Tree!Delete(s)
<1>. PICK c : c = Current(t)
  OBVIOUS
<1>1. Running(t) /\ thread[t].pc = "remove" /\ stored' = stored \ {c} /\ info' = info
  BY AtRunning DEF deleteResource, TreeInv, At
<1>2. Placed(c) /\ Path(c) \in Srn \ {Root} /\ c \in Ri /\ Fits(thread[t]) /\ c = thread[t].stack[1].ri
  BY <1>1, CurrentPlaced, Shape DEF TreeInv
<1>3. c \in stored /\ structured[Path(c)] = c /\ Kids(c) = {} /\ c \in linked
  BY <1>1, <1>2 DEF Fits, InTables, TopTold, RemovePc, StoredPc, IdentifiedPc, StructuredPc, LinkedPc
<1>4. \A x \in Srn \ {Root} : Parent[x] = Path(c) => x \notin Names
  <2> SUFFICES ASSUME NEW q \in stored, Path(q) \in Srn \ {Root}, Parent[Path(q)] = Path(c) PROVE FALSE
    BY DEF Names, Path
  <2>1. q \in Ri /\ q # CseRi /\ q # c
    BY Paths DEF TreeInv, TypeOK, RootThere, Path
  <2>2. q \in linked /\ Placed(q)
    BY <1>1, <2>1, OnlyOne
  <2>3. info[q].pi \in linked /\ Path(info[q].pi) = Path(c) /\ info[q].pi \in Ri
    BY <2>1, <2>2 DEF Placed, TreeInv, TypeOK
  <2>4. info[q].pi = c
    BY <1>1, <1>3, <2>3, OnlyOne
  <2>. QED
    BY <1>3, <2>1, <2>2, <2>4 DEF Kids
<1>5. Path(c) \in Names /\ Names' = Names \ {Path(c)}
  <2>1. \A q \in stored : Path(q) = Path(c) => q = c
    BY <1>3, Unique DEF UniqueSrn, Path
  <2>. QED
    BY <1>1, <1>3, <2>1 DEF Names, Path
<1>. QED
  BY <1>2, <1>4, <1>5 DEF Tree!Delete, Names

\* Every other step leaves the names alone.
LEMMA OthersStutter ==
  ASSUME TreeInv, [Next]_vars, \A t \in Thread : ~insertResource(t) /\ ~deleteResource(t)
  PROVE  Names' = Names
<1>1. ASSUME NEW t \in Thread, Step(t) PROVE stored' = stored /\ info' = info
  BY <1>1 DEF Step, upsertIdentifier, upsertChildResource, activate, dbUpdate, dbReload, willBeDeactivated,
              retrieveDirectChildResources, deleteChildResources, deleteIdentifier, removeChildResource, tables
<1>2. ASSUME NEW t \in Thread, NEW r \in Ri, processDeleteRequest(t, r) PROVE stored' = stored /\ info' = info
  BY <1>2 DEF processDeleteRequest, tables
<1>3. ASSUME NEW t \in Thread, NEW r \in Ri, NEW p \in Ri, NEW s \in Srn, processCreateRequest(t, r, p, s)
      PROVE  stored' = stored /\ \A q \in stored : info'[q] = info[q]
  BY <1>3 DEF processCreateRequest, Unused, TreeInv, TypeOK
<1>. QED
  BY <1>1, <1>2, <1>3 DEF Next, Names, vars

\* The four tables implement a tree of names: a resource appears under its name when this is free and its
\* parent is there, and goes when nothing is below it.
THEOREM ImplementsTree ==
  ASSUME TreeAssumption, Isolated
  PROVE  Spec => TreeSpec
<1>1. Init => Tree!Init
  BY DEF Init, Tree!Init, TreeAssumption
<1>2. TreeInv /\ [Next]_vars => [Tree!Next]_Names
  <2> SUFFICES ASSUME TreeInv, [Next]_vars PROVE Tree!Next \/ Names' = Names
    OBVIOUS
  <2>1. ASSUME NEW t \in Thread, insertResource(t) PROVE Tree!Next
    BY <2>1, InsertCreates DEF Tree!Next
  <2>2. ASSUME NEW t \in Thread, deleteResource(t) PROVE Tree!Next
    BY <2>2, DeleteDeletes DEF Tree!Next
  <2>. QED
    BY <2>1, <2>2, OthersStutter
<1>3. TreeInv /\ [Next]_vars => [Tree!Next]_{info[r].srn : r \in stored}
  BY <1>2 DEF Names
<1>. QED
  BY <1>1, <1>3, Invariant, PTL DEF Spec, TreeSpec, Tree!Spec
=============================================================================
