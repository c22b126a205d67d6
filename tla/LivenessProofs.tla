--------------------------- MODULE LivenessProofs ---------------------------
(***************************************************************************)
(* Components that wait. Registrations: node links and the lists of        *)
(* hosted AEs agree, for any number of AEs and nodes, and however a run of *)
(* the monitor deletes what it has found. A database file: close() loses   *)
(* no change that was announced before it left its loop, however the file  *)
(* writer and the writes to the tables interleave: such a change is in the *)
(* file, announced by changed, or in the hands of the file writer; and     *)
(* close() goes on only when changed is reset, and returns only when the   *)
(* file writer is not writing any more. Batch notifications: they are sent *)
(* in order and no notification is sent twice, for any number of threads,  *)
(* actors and notifications: only one process is sending                   *)
(* (lockBatchNotification), what was sent is older than what it has        *)
(* collected, and that is older than what was stored since it emptied the  *)
(* table.                                                                  *)
(***************************************************************************)
EXTENDS MCLiveness, Naturals, TLAPS

(***************************************************************************)
(* The inductive invariant of the registrations.                           *)
(***************************************************************************)
\* An AE with a node link is entered at this node, and the node is there.
LinkEntered == \A a \in Ae \ astray : Exists(a) /\ nl[a] # None => nl[a] = __node__[a] /\ Exists(nl[a])

\* The node an AE is entered at knows it.
EnteredListed ==
  \A a \in Ae \ astray : Exists(a) /\ __node__[a] # None /\ Exists(__node__[a]) => a \in hael[__node__[a]]

\* The nodes there are, and those that AEs are entered at, have been created.
NodesUsed ==
  /\ \A n \in Node : Exists(n) => n \in used
  /\ \A a \in Ae : Exists(a) /\ __node__[a] # None => __node__[a] \in used

\* A run of the monitor knows the AEs of a node that it is about to delete.
FoundListed ==
  \A s \in expirations, a \in Ae \ astray : s.ri \in Node /\ Exists(a) /\ __node__[a] = s.ri => a \in s.hael

\* Where resources expire one at a time, the lists have no other AEs, and the monitor deletes what is there as
\* it is.
OneAtATime ==
  /\ \A n \in Node : Exists(n) => \A a \in hael[n] : Exists(a) /\ nl[a] = n
  /\ \A r, s \in et : r = s
  /\ \A s \in expirations : Exists(s.ri) /\ s = Contents(s.ri)
  /\ \A r, s \in expirations : r = s

\* What holds where nothing goes wrong.
Calm == undisturbed => astray = {} /\ (~together => OneAtATime)

LinkInv == TypeOK /\ LinkEntered /\ EnteredListed /\ NodesUsed /\ FoundListed /\ Calm

\* The invariant holds where nothing exists.
LEMMA Initially == Init => LinkInv
<1> SUFFICES ASSUME Init PROVE LinkInv
  OBVIOUS
<1> USE DEF Init
<1>1. TypeOK
  BY DEF TypeOK, Resource
<1>2. LinkEntered /\ EnteredListed /\ NodesUsed /\ FoundListed /\ Calm
  BY DEF LinkEntered, EnteredListed, NodesUsed, FoundListed, Calm, OneAtATime, Exists
<1> QED BY <1>1, <1>2 DEF LinkInv

\* The operators on links and lists keep their types.
LEMMA MovedType ==
  ASSUME TypeOK, NEW a \in Ae, NEW from, NEW to
  PROVE  Moved(a, from, to) \in [Node -> SUBSET Ae]
BY DEF Moved, TypeOK

LEMMA ValidatedType ==
  ASSUME TypeOK, NEW a \in Ae, NEW from, NEW to
  PROVE  Validated(a, from, to) \in [Node -> SUBSET Ae]
BY MovedType DEF Validated, TypeOK

\* What the monitor finds are contents of a resource.
LEMMA ContentsType == ASSUME TypeOK, NEW r \in Resource PROVE Contents(r) \in Snapshot
BY RegistrationAssumption DEF TypeOK, Resource, Contents, Snapshot

LEMMA UnlinkedType ==
  ASSUME TypeOK, NEW r \in Snapshot, NEW l \in Unlinked(r)
  PROVE  l \in [Ae -> Node \cup {None}]
BY DEF Unlinked, TypeOK

LEMMA DeletionType ==
  ASSUME TypeOK, NEW r \in Snapshot, deleteLocalResource(r)
  PROVE  /\ table' \subseteq Resource /\ used' \subseteq Node
         /\ nl' \in [Ae -> Node \cup {None}] /\ __node__' \in [Ae -> Node \cup {None}]
         /\ hael' \in [Node -> SUBSET Ae] /\ et' \subseteq table'
         /\ astray' \subseteq Ae /\ undisturbed' \in BOOLEAN /\ together' \in BOOLEAN
<1>1. nl' \in [Ae -> Node \cup {None}]
  BY UnlinkedType DEF deleteLocalResource
<1>2. hael' \in [Node -> SUBSET Ae]
  BY DEF deleteLocalResource, TypeOK
<1>3. table' \subseteq Resource /\ et' \subseteq table'
  BY DEF deleteLocalResource, TypeOK
<1> QED BY <1>1, <1>2, <1>3 DEF deleteLocalResource, TypeOK

\* Every step keeps the types.
LEMMA TypeStep == ASSUME TypeOK, Next PROVE TypeOK'
<1>1. ASSUME NEW n \in Node, createNode(n) PROVE TypeOK'
  BY <1>1 DEF createNode, TypeOK, Resource
<1>2. ASSUME NEW a \in Ae, createAE(a) PROVE TypeOK'
  <2>1. hael' \in [Node -> SUBSET Ae]
    BY <1>2, ValidatedType DEF createAE
  <2>2. astray' \subseteq Ae
    BY <1>2 DEF createAE, Entered, TypeOK
  <2> QED BY <1>2, <2>1, <2>2 DEF createAE, TypeOK, Resource
<1>3. ASSUME NEW a \in Ae, updateAE(a) PROVE TypeOK'
  <2>1. hael' \in [Node -> SUBSET Ae]
    BY <1>3, ValidatedType DEF updateAE
  <2>2. astray' \subseteq Ae
    BY <1>3 DEF updateAE, Entered, Failed, TypeOK
  <2> QED BY <1>3, <2>1, <2>2 DEF updateAE, TypeOK
<1>4. ASSUME NEW r \in Resource, Delete(r) PROVE TypeOK'
  <2>1. Contents(r) \in Snapshot
    BY ContentsType
  <2> QED BY <1>4, <2>1, DeletionType DEF Delete, TypeOK, Snapshot, Resource
<1>5. ASSUME NEW r \in Resource, Expire(r) PROVE TypeOK'
  BY <1>5 DEF Expire, TypeOK, Exists
<1>6. CASE expirationDBMonitor
  BY <1>6, ContentsType DEF expirationDBMonitor, TypeOK
<1>7. CASE ExpireNext
  <2> PICK r \in expirations :
       IF Exists(r.ri)
       THEN deleteLocalResource(r) /\ expirations' = IF deactivateFails(r) THEN {} ELSE expirations \ {r}
       ELSE /\ expirations' = expirations \ {r}
            /\ UNCHANGED <<table, used, nl, __node__, hael, et, astray, undisturbed, together>>
    BY <1>7 DEF ExpireNext
  <2>1. r \in Snapshot /\ expirations' \subseteq Snapshot
    BY DEF TypeOK
  <2>2. CASE Exists(r.ri)
    BY <2>1, <2>2, DeletionType DEF TypeOK, Snapshot, Resource
  <2>3. CASE ~Exists(r.ri)
    BY <2>1, <2>3 DEF TypeOK, Snapshot, Resource
  <2> QED BY <2>2, <2>3
<1> QED BY <1>1, <1>2, <1>3, <1>4, <1>5, <1>6, <1>7 DEF Next

\* What is in a list after an AE has moved.
LEMMA MovedHas ==
  ASSUME TypeOK, NEW a \in Ae, NEW from, NEW to, from # to, NEW n \in Node, NEW b
  PROVE  b \in Moved(a, from, to)[n] <=> (b \in hael[n] /\ (b # a \/ n # from)) \/ (b = a /\ n = to)
<1>1. Moved(a, from, to)[n] =
        CASE n = to -> hael[n] \cup {a} [] n = from -> hael[n] \ {a} [] OTHER -> hael[n]
  BY DEF Moved
<1>2. CASE n = to
  <2>1. Moved(a, from, to)[n] = hael[n] \cup {a}
    BY <1>1, <1>2
  <2> QED BY <1>2, <2>1
<1>3. CASE n # to /\ n = from
  <2>1. Moved(a, from, to)[n] = hael[n] \ {a}
    BY <1>1, <1>3
  <2> QED BY <1>3, <2>1
<1>4. CASE n # to /\ n # from
  <2>1. Moved(a, from, to)[n] = hael[n]
    BY <1>1, <1>4
  <2> QED BY <1>4, <2>1
<1> QED BY <1>2, <1>3, <1>4

\* The parts of the invariant.
Good == LinkEntered /\ EnteredListed /\ NodesUsed /\ FoundListed /\ Calm

\* No AE is entered at a node that is new.
LEMMA CreateNodeStep ==
  ASSUME LinkInv, NEW n \in Node, createNode(n)
  PROVE  Good'
<1> USE RegistrationAssumption DEF createNode, LinkInv, TypeOK, Exists
<1>1. LinkEntered'
  BY DEF LinkEntered
<1>2. EnteredListed'
  BY DEF EnteredListed, NodesUsed
<1>3. NodesUsed'
  BY DEF NodesUsed
<1>4. FoundListed'
  BY DEF FoundListed
<1>5. Calm'
  BY DEF Calm, OneAtATime, Request
<1> QED BY <1>1, <1>2, <1>3, <1>4, <1>5 DEF Good

\* A new AE is in the list of its node, and in no other.
LEMMA CreateAEStep ==
  ASSUME LinkInv, NEW a \in Ae, createAE(a)
  PROVE  Good'
<1> USE RegistrationAssumption DEF LinkInv, Exists
<1>t. TypeOK /\ TypeOK'
  <2>1. Next
    BY DEF Next
  <2> QED BY <2>1, TypeStep
<1>a. /\ a \notin table /\ UNCHANGED <<used, et, expirations, undisturbed, together>>
      /\ undisturbed => expirations = {}
  BY DEF createAE, Request
<1> PICK n \in Node \cup {None}, refused \in BOOLEAN :
      /\ undisturbed => ~refused /\ (n # None => Exists(n))
      /\ hael' = Validated(a, None, n)
      /\ IF refused \/ validateFails(None, n) THEN UNCHANGED <<table, nl, __node__, astray>>
         ELSE /\ table' = table \cup {a} /\ astray' = Entered(a, None, n)
              /\ nl' = [nl EXCEPT ![a] = n] /\ __node__' = [__node__ EXCEPT ![a] = n]
  BY DEF createAE
<1>h. \A m \in Node : \A b : b \in hael'[m] <=> b \in hael[m] \/ (b = a /\ m = n /\ n \in table)
  <2>1. CASE n = None
    BY <2>1 DEF Validated
  <2>2. CASE n # None
    <3>1. hael' = Moved(a, None, IF n \in table THEN n ELSE None)
      BY <2>2 DEF Validated
    <3>2. CASE n \in table
      BY <3>1, <3>2, <2>2, <1>t, MovedHas
    <3>3. CASE n \notin table
      <4>1. hael' = hael
        BY <3>1, <3>3 DEF Moved, TypeOK
      <4> QED BY <4>1, <3>3
    <3> QED BY <3>2, <3>3
  <2> QED BY <2>1, <2>2
<1>1. CASE refused \/ validateFails(None, n)
  <2>1. UNCHANGED <<table, nl, __node__, astray>>
    BY <1>1
  <2>2. ~undisturbed
    BY <1>1 DEF validateFails
  <2> QED BY <1>a, <1>h, <1>t, <2>1, <2>2 DEF Good, LinkEntered, EnteredListed, NodesUsed, FoundListed, Calm, TypeOK
<1>2. CASE ~(refused \/ validateFails(None, n))
  <2>a. /\ table' = table \cup {a} /\ astray' = Entered(a, None, n)
        /\ nl' = [nl EXCEPT ![a] = n] /\ __node__' = [__node__ EXCEPT ![a] = n]
    BY <1>2
  <2>n. n # None => n \in Node /\ n \in table
    BY <1>2 DEF validateFails
  <2>s. /\ \A b \in Ae \ astray' : b # a => b \notin astray
        /\ a \notin astray' => n = None \/ \A s \in expirations : s.ri # n
        /\ undisturbed => astray' = {}
    BY <2>a, <1>a DEF Entered, Calm
  <2>1. LinkEntered'
    BY <1>a, <2>a, <2>n, <2>s, <1>t DEF LinkEntered, TypeOK
  <2>2. EnteredListed'
    BY <1>a, <2>a, <2>n, <2>s, <1>h, <1>t DEF EnteredListed, TypeOK
  <2>3. NodesUsed'
    BY <1>a, <2>a, <2>n, <1>t DEF NodesUsed, TypeOK
  <2>4. FoundListed'
    BY <1>a, <2>a, <2>s, <1>t DEF FoundListed, TypeOK
  <2>5. undisturbed /\ ~together => OneAtATime'
    BY <1>a, <2>a, <2>n, <1>h, <1>t DEF Calm, OneAtATime, TypeOK
  <2> QED BY <2>1, <2>2, <2>3, <2>4, <2>5, <2>s, <1>a DEF Good, Calm
<1> QED BY <1>1, <1>2

\* An AE moves from the list of the node it was entered at to the list of another one.
LEMMA UpdateAEStep ==
  ASSUME LinkInv, NEW a \in Ae, updateAE(a)
  PROVE  Good'
<1> USE RegistrationAssumption DEF LinkInv, Exists
<1>t. TypeOK /\ TypeOK'
  <2>1. Next
    BY DEF Next
  <2> QED BY <2>1, TypeStep
<1>a. /\ a \in table /\ UNCHANGED <<table, used, expirations, undisturbed, together>>
      /\ undisturbed => expirations = {}
  BY DEF updateAE, Request
<1> DEFINE from == __node__[a]
<1>f. from \in Node \cup {None}
  BY DEF TypeOK
<1> PICK n \in Node \cup {None}, refused \in BOOLEAN :
      /\ hael' = Validated(a, from, n)
      /\ undisturbed => ~refused /\ (n # None => Exists(n)) /\ (validateFails(from, n) => hael' = hael)
      /\ IF refused \/ validateFails(from, n)
         THEN astray' = Failed(a, from) /\ UNCHANGED <<nl, __node__, et>>
         ELSE /\ astray' = Entered(a, from, n)
              /\ nl' = [nl EXCEPT ![a] = n] /\ __node__' = [__node__ EXCEPT ![a] = n]
              /\ et' \in {et, et \ {a}}
  BY DEF updateAE
<1> HIDE DEF from
<1>h. \A m \in Node : \A b : b # a => (b \in hael'[m] <=> b \in hael[m])
  BY <1>t, MovedHas DEF Validated, Moved, TypeOK
<1>1. CASE refused \/ validateFails(from, n)
  <2>1. astray' = Failed(a, from) /\ UNCHANGED <<nl, __node__, et>>
    BY <1>1
  <2>s. /\ \A b \in Ae \ astray' : b \notin astray
        /\ a \notin astray' => hael' = hael \/ from = None
        /\ undisturbed => hael' = hael /\ astray' = {}
    BY <2>1, <1>1 DEF Failed, Calm
  <2>2. LinkEntered' /\ NodesUsed' /\ FoundListed'
    BY <2>1, <2>s, <1>a DEF LinkEntered, NodesUsed, FoundListed
  <2>3. EnteredListed'
    BY <2>1, <2>s, <1>a, <1>h, <1>t DEF EnteredListed, from, TypeOK
  <2>4. Calm'
    BY <2>1, <2>s, <1>a DEF Calm, OneAtATime
  <2> QED BY <2>2, <2>3, <2>4 DEF Good
<1>2. CASE ~(refused \/ validateFails(from, n))
  <2>1. /\ astray' = Entered(a, from, n)
        /\ nl' = [nl EXCEPT ![a] = n] /\ __node__' = [__node__ EXCEPT ![a] = n]
        /\ et' \in {et, et \ {a}}
    BY <1>2
  <2>h. /\ from = n => hael' = hael
        /\ from # n => \A m \in Node : a \in hael'[m] <=> (a \in hael[m] /\ m # from) \/ m = n
        /\ from # n => n \in Node /\ n \in table
    <3>1. CASE from = n
      BY <3>1 DEF Validated
    <3>2. CASE from # n
      <4>1. n \in Node /\ n \in table
        BY <3>2, <1>2 DEF validateFails
      <4>2. hael' = Moved(a, from, n)
        BY <3>2, <4>1, <1>2, <1>f DEF Validated, validateFails
      <4> QED BY <4>1, <4>2, <3>2, <1>t, <1>f, MovedHas
    <3> QED BY <3>1, <3>2
  <2>s. /\ \A b \in Ae \ astray' : b # a => b \notin astray
        /\ a \notin astray' /\ from = n => a \notin astray /\ (n = None \/ n \in table)
        /\ a \notin astray' /\ from # n => \A s \in expirations : s.ri # n
        /\ undisturbed => astray' = {}
    BY <2>1, <1>a DEF Entered, Calm
  <2>2. LinkEntered'
    BY <2>1, <2>h, <2>s, <1>a, <1>t DEF LinkEntered, TypeOK
  <2>3. EnteredListed'
    BY <2>1, <2>h, <1>h, <2>s, <1>a, <1>t DEF EnteredListed, TypeOK, from
  <2>4. NodesUsed'
    BY <2>1, <2>h, <1>a, <1>t DEF NodesUsed, TypeOK, from
  <2>5. FoundListed'
    BY <2>1, <2>s, <1>a, <1>t DEF FoundListed, TypeOK, from
  <2>6. ASSUME undisturbed, ~together PROVE OneAtATime'
    <3>1. OneAtATime /\ astray = {} /\ expirations = {}
      BY <1>a, <2>6 DEF Calm
    <3>2. ASSUME NEW m \in Node, m \in table', NEW b \in hael'[m] PROVE b \in table' /\ nl'[b] = m
      <4>1. CASE b = a
        <5>1. m = n
          BY <2>h, <3>2, <3>1, <4>1, <1>a, <1>t DEF OneAtATime, LinkEntered, TypeOK, from
        <5> QED BY <4>1, <5>1, <2>1, <1>a, <1>t DEF TypeOK
      <4>2. CASE b # a
        BY <1>h, <3>2, <3>1, <4>2, <2>1, <1>a, <1>t DEF OneAtATime, TypeOK
      <4> QED BY <4>1, <4>2
    <3>3. \A r, s \in et' : r = s
      BY <2>1, <3>1 DEF OneAtATime
    <3> QED BY <3>1, <3>2, <3>3, <1>a DEF OneAtATime
  <2> QED BY <2>2, <2>3, <2>4, <2>5, <2>6, <2>s, <1>a DEF Good, Calm
<1> QED BY <1>1, <1>2

\* A deletion of an AE or a node, of which r are contents that still know all its AEs.
LEMMA DeletionStep ==
  ASSUME TypeOK, TypeOK', LinkEntered, EnteredListed, NodesUsed,
         NEW r \in Snapshot, Exists(r.ri), deleteLocalResource(r),
         r.ri \in Node => \A a \in Ae \ astray : Exists(a) /\ __node__[a] = r.ri => a \in r.hael
  PROVE  /\ LinkEntered' /\ EnteredListed' /\ NodesUsed'
         /\ \A n \in Node : hael'[n] \subseteq hael[n]
<1> USE RegistrationAssumption DEF Exists
<1>1. \A n \in Node : hael'[n] \subseteq hael[n] /\ \A b \in hael[n] : b = r.ri \/ b \in hael'[n]
  BY DEF deleteLocalResource, TypeOK, Snapshot
<1>2. /\ table' \subseteq table /\ used' = used /\ __node__' = __node__ /\ astray' = astray
      /\ \A x \in table : x = r.ri \/ x \in table'
      /\ \A a \in Ae : nl'[a] \in {nl[a], None}
  <2>1. \A a \in Ae : nl'[a] \in {nl[a], None}
    BY DEF deleteLocalResource, Unlinked, TypeOK
  <2> QED BY <2>1 DEF deleteLocalResource
<1>3. ASSUME deactivateFails(r) PROVE table' = table /\ hael' = hael
  BY <1>3 DEF deleteLocalResource
<1>4. ASSUME ~deactivateFails(r) PROVE table' = table \ {r.ri}
  BY <1>4 DEF deleteLocalResource
<1>5. LinkEntered'
  <2> SUFFICES ASSUME NEW a \in Ae \ astray, a \in table', nl'[a] # None
               PROVE  nl'[a] = __node__'[a] /\ nl'[a] \in table'
    BY <1>2 DEF LinkEntered
  <2>1. a \in table /\ nl'[a] = nl[a] /\ nl[a] = __node__[a] /\ nl[a] \in table
    BY <1>2 DEF LinkEntered
  <2>2. CASE nl[a] = r.ri /\ ~deactivateFails(r)
    <3>1. nl[a] \in Node
      BY <2>1, <2>2 DEF TypeOK
    <3>2. a \in r.hael
      BY <2>1, <2>2, <3>1
    <3>3. nl' = [x \in Ae |-> IF x \in r.hael /\ nl[x] = r.ri THEN None ELSE nl[x]]
      BY <3>1, <2>2 DEF deleteLocalResource, Unlinked
    <3> QED BY <3>2, <3>3, <2>1, <2>2
  <2> QED BY <2>1, <2>2, <1>2, <1>3
<1>6. EnteredListed'
  <2> SUFFICES ASSUME NEW a \in Ae \ astray, a \in table', __node__'[a] # None, __node__'[a] \in table'
               PROVE  a \in hael'[__node__'[a]]
    BY <1>2 DEF EnteredListed
  <2>1. a \in hael[__node__[a]] /\ __node__[a] \in Node
    BY <1>2 DEF EnteredListed, TypeOK
  <2>2. CASE deactivateFails(r)
    BY <2>1, <2>2, <1>2, <1>3
  <2>3. CASE ~deactivateFails(r)
    BY <2>1, <2>3, <1>1, <1>2, <1>4
  <2> QED BY <2>2, <2>3
<1>7. NodesUsed'
  BY <1>2 DEF NodesUsed
<1> QED BY <1>1, <1>5, <1>6, <1>7

\* A deletion of what is there as it is, in lists that have no other AEs, succeeds.
LEMMA OneDeletionStep ==
  ASSUME TypeOK, TypeOK', LinkEntered, OneAtATime, astray = {}, NEW x \in Resource, Exists(x), deleteLocalResource(Contents(x))
  PROVE  /\ ~deactivateFails(Contents(x))
         /\ \A n \in Node : n \in table' => \A a \in hael'[n] : a \in table' /\ nl'[a] = n
         /\ \A r, s \in et' : r = s
<1> USE RegistrationAssumption DEF Exists
<1> DEFINE r == Contents(x)
<1>0. r.ri = x /\ r.nl = (IF x \in Ae THEN nl[x] ELSE None) /\ r.hael = (IF x \in Node THEN hael[x] ELSE {})
  BY DEF Contents
<1> HIDE DEF r
<1>1. ~deactivateFails(r)
  BY <1>0 DEF deactivateFails, LinkEntered, OneAtATime
<1>2. table' = table \ {x} /\ et' \subseteq et
  BY <1>0, <1>1 DEF deleteLocalResource, r
<1>3. ASSUME NEW n \in Node, n \in table', NEW a \in hael'[n] PROVE a \in table' /\ nl'[a] = n
  <2>1. CASE x \in Ae
    <3>1. nl' = nl /\ hael' = IF nl[x] # None THEN [hael EXCEPT ![nl[x]] = @ \ {x}] ELSE hael
      BY <2>1, <1>0, <1>1 DEF deleteLocalResource, Unlinked, r
    <3>2. a \in hael[n] /\ a \in Ae
      BY <3>1 DEF TypeOK
    <3>3. a \in table /\ nl[a] = n
      BY <3>2, <1>3, <1>2 DEF OneAtATime
    <3>4. a # x
      BY <3>1, <3>3, <1>3 DEF TypeOK
    <3> QED BY <3>1, <3>3, <3>4, <1>2
  <2>2. CASE x \in Node
    <3>1. hael' = hael /\ nl' = [b \in Ae |-> IF b \in hael[x] /\ nl[b] = x THEN None ELSE nl[b]]
      BY <2>2, <1>0, <1>1 DEF deleteLocalResource, Unlinked, r
    <3>2. a \in hael[n] /\ a \in Ae
      BY <3>1 DEF TypeOK
    <3>3. a \in table /\ nl[a] = n /\ n # x
      BY <3>2, <1>3, <1>2 DEF OneAtATime
    <3> QED BY <2>2, <3>1, <3>2, <3>3, <1>2
  <2> QED BY <2>1, <2>2 DEF Resource
<1>4. \A q, s \in et' : q = s
  BY <1>2 DEF OneAtATime
<1> QED BY <1>1, <1>3, <1>4 DEF r

\* A request deletes what is there as it is.
LEMMA DeleteStep ==
  ASSUME LinkInv, NEW x \in Resource, Delete(x)
  PROVE  Good'
<1> USE DEF LinkInv
<1>t. TypeOK /\ TypeOK'
  <2>1. Next
    BY DEF Next
  <2> QED BY <2>1, TypeStep
<1>a. /\ Exists(x) /\ deleteLocalResource(Contents(x)) /\ (undisturbed => expirations = {})
      /\ UNCHANGED <<expirations, astray, undisturbed, together>>
  BY DEF Delete, Request, deleteLocalResource
<1>1. LinkEntered' /\ EnteredListed' /\ NodesUsed'
  <2>1. Contents(x) \in Snapshot
    BY <1>t, ContentsType
  <2>2. Contents(x).ri = x /\ (x \in Node => Contents(x).hael = hael[x])
    BY DEF Contents
  <2>3. x \in Node => \A a \in Ae \ astray : Exists(a) /\ __node__[a] = x => a \in hael[x]
    BY <1>a, RegistrationAssumption DEF EnteredListed
  <2> QED BY <1>t, <1>a, <2>1, <2>2, <2>3, DeletionStep
<1>2. FoundListed'
  BY <1>a DEF FoundListed, deleteLocalResource, Exists
<1>3. Calm'
  <2>1. ASSUME undisturbed, ~together PROVE OneAtATime'
    BY <2>1, <1>t, <1>a, OneDeletionStep DEF Calm, OneAtATime, Exists
  <2> QED BY <2>1, <1>a DEF Calm
<1> QED BY <1>1, <1>2, <1>3 DEF Good

\* Expiration times change no links, and pass one at a time where they should.
LEMMA ExpireStep ==
  ASSUME LinkInv, NEW r \in Resource, Expire(r)
  PROVE  Good'
<1> USE DEF LinkInv, Expire, Exists
<1>1. LinkEntered' /\ EnteredListed' /\ NodesUsed' /\ FoundListed'
  BY DEF LinkEntered, EnteredListed, NodesUsed, FoundListed
<1>2. Calm'
  BY DEF Calm, OneAtATime, Request
<1> QED BY <1>1, <1>2 DEF Good

\* The monitor finds what is there as it is.
LEMMA MonitorStep ==
  ASSUME LinkInv, expirationDBMonitor
  PROVE  Good'
<1> USE DEF LinkInv, expirationDBMonitor, Exists
<1>1. LinkEntered' /\ EnteredListed' /\ NodesUsed'
  BY DEF LinkEntered, EnteredListed, NodesUsed
<1>2. FoundListed'
  BY RegistrationAssumption DEF FoundListed, EnteredListed, Contents, TypeOK
<1>3. ASSUME undisturbed, ~together PROVE OneAtATime'
  <2>1. OneAtATime
    BY <1>3 DEF Calm
  <2>2. \A s \in expirations' : s.ri \in et /\ s = Contents(s.ri)
    BY DEF Contents
  <2>3. \A s \in expirations' : Exists(s.ri)' /\ s = Contents(s.ri)'
    BY <2>2 DEF Contents, TypeOK
  <2>4. \A r, s \in expirations' : r = s
    BY <2>1, <2>2 DEF OneAtATime
  <2> QED BY <2>1, <2>3, <2>4 DEF OneAtATime
<1> QED BY <1>1, <1>2, <1>3 DEF Good, Calm

\* The AEs of a node get fewer while the monitor deletes: what it has found has them all.
LEMMA ExpireNextStep ==
  ASSUME LinkInv, ExpireNext
  PROVE  Good'
<1> USE DEF LinkInv
<1>t. TypeOK /\ TypeOK'
  <2>1. Next
    BY DEF Next
  <2> QED BY <2>1, TypeStep
<1> PICK r \in expirations :
      IF Exists(r.ri)
      THEN deleteLocalResource(r) /\ expirations' = IF deactivateFails(r) THEN {} ELSE expirations \ {r}
      ELSE /\ expirations' = expirations \ {r}
           /\ UNCHANGED <<table, used, nl, __node__, hael, et, astray, undisturbed, together>>
  BY DEF ExpireNext
<1>r. r \in Snapshot /\ r.ri \in Resource
  BY DEF TypeOK, Snapshot
<1>1. CASE Exists(r.ri)
  <2>a. deleteLocalResource(r) /\ expirations' \subseteq expirations /\ table' \subseteq table
        /\ UNCHANGED <<__node__, astray, undisturbed, together>>
    BY <1>1 DEF deleteLocalResource
  <2>1. LinkEntered' /\ EnteredListed' /\ NodesUsed'
    BY <1>1, <1>t, <1>r, <2>a, DeletionStep DEF FoundListed
  <2>2. FoundListed'
    BY <2>a DEF FoundListed, Exists
  <2>3. ASSUME undisturbed, ~together PROVE OneAtATime'
    <3>1. OneAtATime /\ r = Contents(r.ri) /\ astray = {}
      BY <2>3 DEF Calm, OneAtATime
    <3>2. deleteLocalResource(Contents(r.ri))
      BY <3>1, <2>a
    <3>3. /\ ~deactivateFails(r)
          /\ \A n \in Node : n \in table' => \A a \in hael'[n] : a \in table' /\ nl'[a] = n
          /\ \A q, s \in et' : q = s
      BY <1>1, <1>t, <1>r, <3>1, <3>2, OneDeletionStep
    <3>4. expirations' = {}
      BY <1>1, <3>1, <3>3 DEF OneAtATime
    <3> QED BY <3>3, <3>4 DEF OneAtATime, Exists
  <2> QED BY <2>1, <2>2, <2>3, <2>a DEF Good, Calm
<1>2. CASE ~Exists(r.ri)
  <2>1. LinkEntered' /\ EnteredListed' /\ NodesUsed' /\ FoundListed'
    BY <1>2 DEF LinkEntered, EnteredListed, NodesUsed, FoundListed, Exists
  <2>2. Calm'
    BY <1>2 DEF Calm, OneAtATime, Exists, Contents
  <2> QED BY <2>1, <2>2 DEF Good
<1> QED BY <1>1, <1>2

\* The invariant holds in every reachable state.
LEMMA LinkInvariant == Spec => []LinkInv
<1>1. LinkInv /\ [Next]_registrationVars => LinkInv'
  <2> SUFFICES ASSUME LinkInv, [Next]_registrationVars PROVE LinkInv'
    OBVIOUS
  <2>1. CASE Next
    <3>1. TypeOK'
      BY <2>1, TypeStep DEF LinkInv
    <3>2. Good'
      BY <2>1, CreateNodeStep, CreateAEStep, UpdateAEStep, DeleteStep, ExpireStep, MonitorStep,
         ExpireNextStep DEF Next
    <3> QED BY <3>1, <3>2 DEF LinkInv, Good
  <2>2. CASE UNCHANGED registrationVars
    BY <2>2 DEF registrationVars, LinkInv, TypeOK, LinkEntered, EnteredListed, NodesUsed, FoundListed, Calm,
         OneAtATime, Exists, Contents, Snapshot
  <2> QED BY <2>1, <2>2
<1> QED BY <1>1, Initially, PTL DEF Spec

\* Every variable of the registrations keeps its type; et has only resources that are there.
THEOREM TypeCorrect == Spec => []TypeOK
  BY LinkInvariant, PTL DEF LinkInv

\* An AE with a node link is entered at a node that exists and has it in its list (AE.validate,
\* NOD.deactivate), as long as no update of it has failed half way, no run of the monitor had found the node
\* before, and it has not been linked again with a deleted node; where nothing of this happens and resources
\* expire one at a time the lists have no others, and none that is gone.
THEOREM LinksAlwaysMatch == Spec => []LinksMatch
<1>1. LinkInv => LinksMatch
  <2> SUFFICES ASSUME LinkInv PROVE LinksMatch
    OBVIOUS
  <2>1. \A a \in Ae \ astray : Exists(a) /\ nl[a] # None => nl[a] = __node__[a] /\ Exists(nl[a]) /\ a \in hael[nl[a]]
    BY DEF LinkInv, LinkEntered, EnteredListed
  <2>2. undisturbed /\ ~together => \A n \in Node : Exists(n) => \A a \in hael[n] : Exists(a) /\ nl[a] = n
    BY DEF LinkInv, Calm, OneAtATime
  <2> QED BY <2>1, <2>2 DEF LinksMatch
<1> QED BY <1>1, LinkInvariant, PTL

(***************************************************************************)
(* The database file.                                                      *)
(***************************************************************************)
Closing == {"stopRunning", "sendEvent", "waitLoop", "closed"}

\* The announced changes are in the file, or about to be written.
DueWritten == file >= due \/ writer = "dump" \/ (writer = "write" /\ dumped >= due)

\* As long as changed does not say otherwise; when close() has left its loop, whatever is changed then.
OnItsWay == ~changed \/ client \in Closing => DueWritten

\* The file holds an older state than what is being written.
Newer == file <= data /\ due <= data /\ (writer = "write" => file <= dumped /\ dumped <= data)

\* Whoever has changed the data last, announces all of it.
Announced == client \in {"open", "waitChange"} /\ (\A t \in Table : writing[t] # "setChanged") => due = data

StoreInv ==
  /\ Store!TypeOK /\ OnItsWay /\ Newer /\ Announced
  /\ client = "closed" => writer \in {"start", "ended"}

\* What is counted is a number.
LEMMA Counts == ASSUME Store!TypeOK PROVE data \in Nat /\ file \in Nat /\ dumped \in Nat /\ due \in Nat /\ MaxWrite \in Nat
BY LivenessAssumption DEF Store!TypeOK, Store!Count, Store!StorageAssumption

\* The invariant holds for a file that was just opened.
LEMMA StoreInitially == Store!Init => StoreInv
<1> SUFFICES ASSUME Store!Init PROVE StoreInv
  OBVIOUS
<1>1. Store!TypeOK
  <2>1. data \in 0..MaxWrite /\ file \in 0..MaxWrite /\ dumped \in 0..MaxWrite /\ due \in 0..MaxWrite
    BY LivenessAssumption DEF Store!Init, Store!StorageAssumption
  <2>2. writing \in [Table -> {"idle", "setChanged", "setEvent"}]
    BY DEF Store!Init
  <2> QED BY <2>1, <2>2, Zenon DEF Store!Init, Store!TypeOK, Store!Count
<1>2. OnItsWay /\ Newer /\ Announced
  BY DEF Store!Init, OnItsWay, DueWritten, Newer, Announced
<1> QED BY <1>1, <1>2 DEF Store!Init, StoreInv

\* write() makes the file out of date, and announces it.
LEMMA WriteStep == ASSUME StoreInv, NEW t \in Table, Store!write(t) PROVE StoreInv'
<1> USE DEF Store!write, Store!Writing, Store!flags
<1>0. data \in Nat /\ file \in Nat /\ dumped \in Nat /\ due \in Nat /\ MaxWrite \in Nat
  BY Counts DEF StoreInv
<1>1. Store!TypeOK'
  <2>1. (data \in Store!Count /\ file \in Store!Count /\ dumped \in Store!Count /\ due \in Store!Count)'
    BY <1>0 DEF StoreInv, Store!TypeOK, Store!Count
  <2>2. writing' \in [Table -> {"idle", "setChanged", "setEvent"}]
    BY DEF StoreInv, Store!TypeOK
  <2>3. changed' \in BOOLEAN /\ writeEvent' \in BOOLEAN /\ UNCHANGED <<running, shuttingDown, client, writer>>
    BY Zenon DEF StoreInv, Store!TypeOK
  <2> QED BY <2>1, <2>2, <2>3, Zenon DEF StoreInv, Store!TypeOK
<1>2. OnItsWay'
  BY <1>0 DEF StoreInv, Store!TypeOK, OnItsWay, DueWritten, Newer, Closing
<1>3. Newer'
  BY <1>0 DEF StoreInv, Store!TypeOK, Newer
<1>4. Announced'
  BY <1>0 DEF StoreInv, Store!TypeOK, Announced
<1>5. client' = "closed" => writer' \in {"start", "ended"}
  BY DEF StoreInv
<1> QED BY <1>1, <1>2, <1>3, <1>4, <1>5 DEF StoreInv

\* close() goes on only when no change is announced.
LEMMA CloseStep == ASSUME StoreInv, Store!close \/ Store!closeStep PROVE StoreInv'
<1> USE DEF Store!close, Store!closeStep, Store!Client, Store!flags
<1>1. Store!TypeOK'
  <2>1. UNCHANGED <<data, file, dumped, due, changed, writing, writer>>
    OBVIOUS
  <2>2. /\ writeEvent' \in BOOLEAN /\ running' \in BOOLEAN /\ shuttingDown' \in BOOLEAN
        /\ client' \in {"open", "waitChange", "stopRunning", "sendEvent", "waitLoop", "closed"}
    BY Zenon DEF StoreInv, Store!TypeOK
  <2> QED BY <2>1, <2>2, Zenon DEF StoreInv, Store!TypeOK, Store!Count
<1>2. OnItsWay'
  BY DEF StoreInv, OnItsWay, DueWritten, Closing
<1>3. Newer' /\ Announced'
  BY DEF StoreInv, Newer, Announced
<1>4. client' = "closed" => writer' \in {"start", "ended"}
  BY DEF StoreInv
<1> QED BY <1>1, <1>2, <1>3, <1>4 DEF StoreInv

\* The file writer takes the announcement back before it reads the data.
LEMMA FileWriterStep == ASSUME StoreInv, Store!_fileWriter PROVE StoreInv'
<1> USE DEF Store!_fileWriter, Store!_fileWriterStart, Store!_fileWriterLoop, Store!_fileWriterWait,
            Store!_fileWriterDelay, Store!_fileWriterReset, Store!_fileWriterWrite, Store!_fileWriterClear, Store!Writer, Store!flags
<1>0. data \in Nat /\ file \in Nat /\ dumped \in Nat /\ due \in Nat
  BY Counts DEF StoreInv
<1>1. Store!TypeOK'
  <2>1. (data \in Store!Count /\ file \in Store!Count /\ dumped \in Store!Count /\ due \in Store!Count)'
    BY DEF StoreInv, Store!TypeOK
  <2>2. writer' \in {"start", "loop", "wait", "delay", "reset", "dump", "write", "clear", "ended"}
    BY DEF StoreInv, Store!TypeOK
  <2>3. changed' \in BOOLEAN /\ writeEvent' \in BOOLEAN /\ UNCHANGED <<running, shuttingDown, writing, client>>
    BY Zenon DEF StoreInv, Store!TypeOK
  <2> QED BY <2>1, <2>2, <2>3, Zenon DEF StoreInv, Store!TypeOK
<1>2. OnItsWay'
  BY <1>0 DEF StoreInv, OnItsWay, DueWritten, Newer
<1>3. Newer'
  BY <1>0 DEF StoreInv, Store!TypeOK, Newer
<1>4. Announced'
  BY DEF StoreInv, Announced
<1>5. client' = "closed" => writer' \in {"start", "ended"}
  BY DEF StoreInv
<1> QED BY <1>1, <1>2, <1>3, <1>4, <1>5 DEF StoreInv

\* A step is one of the database file, or leaves it alone.
LEMMA StoreSteps == ASSUME NextOne PROVE Store!Next \/ UNCHANGED Store!vars
BY DEF NextOne, storageVars, Store!vars, Store!storage, Store!flags

\* The invariant holds in every reachable state; a file that is not looked at is closed.
LEMMA StoreInvariant == SpecOne => []StoreInv
<1> DEFINE allVars == <<component, storageVars, batchVars, registrationVars>>
<1>1. InitOne => StoreInv
  <2>1. Closed => StoreInv
    <3> SUFFICES ASSUME Closed PROVE StoreInv
      OBVIOUS
    <3>1. data \in 0..MaxWrite /\ file \in 0..MaxWrite /\ dumped \in 0..MaxWrite /\ due \in 0..MaxWrite
      BY LivenessAssumption DEF Closed, Store!StorageAssumption
    <3>2. writing \in [Table -> {"idle", "setChanged", "setEvent"}]
      BY DEF Closed
    <3>3. Store!TypeOK
      BY <3>1, <3>2, Zenon DEF Closed, Store!TypeOK, Store!Count
    <3> QED BY <3>3 DEF Closed, StoreInv, OnItsWay, DueWritten, Newer, Announced
  <2> QED BY <2>1, StoreInitially DEF InitOne
<1>2. StoreInv /\ [NextOne]_allVars => StoreInv'
  <2>1. StoreInv /\ UNCHANGED Store!vars => StoreInv'
    BY DEF StoreInv, Store!TypeOK, OnItsWay, DueWritten, Newer, Announced, Closing, Store!vars, Store!storage,
           Store!flags
  <2>2. UNCHANGED allVars => UNCHANGED Store!vars
    BY DEF storageVars, Store!vars, Store!storage, Store!flags
  <2> QED BY <2>1, <2>2, StoreSteps, WriteStep, CloseStep, FileWriterStep DEF Store!Next
<1> QED BY <1>1, <1>2, PTL DEF SpecOne

\* When close() has returned, the file has every change that was announced before it left its loop, however
\* many threads write to the tables of the file before, meanwhile and afterwards; and while the file is open
\* the last write() that has announced its change has announced all (TinyDBBufferedStorage.close).
THEOREM CloseSaves == SpecOne => []CloseSavesAll
<1>1. StoreInv => CloseSavesAll
  BY DEF StoreInv, OnItsWay, DueWritten, Announced, CloseSavesAll, Store!CloseSavesAll, Closing
<1> QED BY <1>1, StoreInvariant, PTL

\* The file only ever changes to a newer state of the database (TinyDBBufferedStorage._fileWriter).
THEOREM FileAdvancesHolds == SpecOne => Store!FileAdvances
<1> DEFINE allVars == <<component, storageVars, batchVars, registrationVars>>
<1>1. StoreInv /\ Store!Next => file' >= file
  <2> SUFFICES ASSUME StoreInv, Store!Next PROVE file' >= file
    OBVIOUS
  <2>0. file \in Nat
    BY Counts DEF StoreInv
  <2>1. CASE (\E t \in Table : Store!write(t)) \/ Store!close \/ Store!closeStep
    BY <2>0, <2>1 DEF Store!write, Store!close, Store!closeStep
  <2>2. CASE Store!_fileWriter
    BY <2>0, <2>2 DEF StoreInv, Newer, Store!_fileWriter, Store!_fileWriterStart,
         Store!_fileWriterLoop, Store!_fileWriterWait, Store!_fileWriterDelay, Store!_fileWriterReset,
         Store!_fileWriterWrite, Store!_fileWriterClear, Store!Writer
  <2> QED BY <2>1, <2>2 DEF Store!Next
<1>2. StoreInv /\ [NextOne]_allVars => [file' >= file]_(Store!vars)
  <2>1. UNCHANGED allVars => UNCHANGED Store!vars
    BY DEF storageVars, Store!vars, Store!storage, Store!flags
  <2> QED BY <1>1, <2>1, StoreSteps
<1> QED BY <1>2, StoreInvariant, PTL DEF Store!FileAdvances, SpecOne
-----------------------------------------------------------------------------
(***************************************************************************)
(* The inductive invariant of the batch notifications.                     *)
(***************************************************************************)
Older(S, T) == \A m \in S, n \in T : m < n

OneSender ==
  \A p, q \in Batch!Process : pc[p] \in Batch!Sending /\ pc[q] \in Batch!Sending => p = q

\* A process has a batch only while it sends it.
BatchInUse ==
  \A p \in Batch!Process : pc[p] \notin {"remove", "send"} => batch[p] = {}

SentFirst ==
  /\ Older(sent, notifications)
  /\ \A p \in Batch!Process : pc[p] = "remove" => batch[p] \subseteq notifications
  /\ \A p \in Batch!Process : pc[p] = "send" =>
       Older(sent, batch[p]) /\ Older(batch[p], notifications)

BatchInv == Batch!TypeOK /\ OneSender /\ BatchInUse /\ SentFirst

\* The invariant holds while nothing has been stored.
LEMMA BatchInitially == Batch!Init => BatchInv
  BY LivenessAssumption
  DEF Batch!BatchAssumption, Batch!Init, BatchInv, Batch!TypeOK, OneSender, BatchInUse, SentFirst, Older,
      Batch!Process, Batch!Sending,
      Batch!ThreadPc, Batch!ActorPc

\* A step that moves a process that is not sending, and does not let it begin,
\* leaves the invariant alone if the table, the batches and sent do not change.
LEMMA OutsideTheLock ==
  ASSUME BatchInv, Batch!TypeOK',
         UNCHANGED <<notifications, batch, sent>>,
         \A p \in Batch!Process : pc'[p] # pc[p] => pc[p] \notin Batch!Sending /\ pc'[p] \notin Batch!Sending
  PROVE  BatchInv'
  BY DEF BatchInv, OneSender, BatchInUse, SentFirst, Older, Batch!Sending

\* The steps of a thread that do not touch the table keep it.
LEMMA BatchThreadStep ==
  ASSUME BatchInv, NEW t \in Thread,
         \/ Batch!_handleSubscriptionNotification(t) \/ Batch!_flushBatchNotifications(t)
         \/ Batch!countBatchNotifications(t) \/ Batch!_stopNotificationBatchWorker(t)
         \/ Batch!_startNewBatchNotificationWorker(t) \/ Batch!removeSubscription(t)
  PROVE  BatchInv'
<1>1. t \in Batch!Process /\ Thread \intersect Actor = {}
  BY LivenessAssumption DEF Batch!BatchAssumption, Batch!Process
<1>2. Batch!TypeOK'
  <2>1. CASE Batch!_stopNotificationBatchWorker(t)
    BY <1>1, <2>1 DEF BatchInv, Batch!TypeOK, Batch!_stopNotificationBatchWorker, Batch!Process,
        Batch!Sending,
                      Batch!ThreadPc, Batch!ActorPc
  <2>2. CASE Batch!_startNewBatchNotificationWorker(t)
    BY <1>1, <2>2 DEF BatchInv, Batch!TypeOK, Batch!_startNewBatchNotificationWorker, Batch!Goto,
        Batch!Process,
                      Batch!Sending, Batch!ThreadPc, Batch!ActorPc
  <2>3. CASE Batch!_handleSubscriptionNotification(t) \/ Batch!_flushBatchNotifications(t)
             \/ Batch!countBatchNotifications(t) \/ Batch!removeSubscription(t)
    BY <1>1, <2>3 DEF BatchInv, Batch!TypeOK, Batch!_handleSubscriptionNotification,
         Batch!_flushBatchNotifications, Batch!countBatchNotifications, Batch!removeSubscription,
         Batch!Goto, Batch!Process, Batch!Sending, Batch!ThreadPc, Batch!ActorPc
  <2> QED BY <2>1, <2>2, <2>3
<1>3. \A p \in Batch!Process : pc'[p] # pc[p] => pc[p] \notin Batch!Sending /\ pc'[p] \notin Batch!Sending
  BY <1>1 DEF BatchInv, Batch!TypeOK, Batch!_handleSubscriptionNotification, Batch!_flushBatchNotifications,
       Batch!countBatchNotifications, Batch!_stopNotificationBatchWorker,
       Batch!_startNewBatchNotificationWorker, Batch!removeSubscription, Batch!Goto, Batch!Process,
           Batch!Sending
<1>4. UNCHANGED <<notifications, batch, sent>>
  BY DEF Batch!_handleSubscriptionNotification, Batch!_flushBatchNotifications,
       Batch!countBatchNotifications, Batch!_stopNotificationBatchWorker,
       Batch!_startNewBatchNotificationWorker, Batch!removeSubscription
<1> QED BY <1>2, <1>3, <1>4, OutsideTheLock

\* A notification that is stored is newer than all the others.
LEMMA StoreNoteStep ==
  ASSUME BatchInv, NEW t \in Thread, Batch!addBatchNotification(t)
  PROVE  BatchInv'
<1>1. t \in Batch!Process /\ Thread \intersect Actor = {}
  BY LivenessAssumption DEF Batch!BatchAssumption, Batch!Process
<1>2. 1..last \subseteq 1..last' /\ last' \in Nat /\ \A n \in 1..last : n < last + 1
  BY DEF Batch!addBatchNotification, BatchInv, Batch!TypeOK
<1>3. Batch!TypeOK'
  BY <1>1, <1>2 DEF BatchInv, Batch!TypeOK, Batch!addBatchNotification, Batch!Goto, Batch!Process,
      Batch!Sending,
                    Batch!ThreadPc, Batch!ActorPc
<1>4. OneSender' /\ BatchInUse'
  BY <1>1 DEF BatchInv, Batch!TypeOK, Batch!addBatchNotification, Batch!Goto, OneSender, BatchInUse,
      Batch!Sending,
              Batch!Process
<1>5. SentFirst'
  BY <1>1, <1>2 DEF BatchInv, Batch!TypeOK, SentFirst, Older, Batch!addBatchNotification, Batch!Goto,
      Batch!Process
<1> QED BY <1>3, <1>4, <1>5 DEF BatchInv

\* An actor that begins or ends keeps it.
LEMMA BatchActorStep ==
  ASSUME BatchInv, NEW a \in Actor, Batch!ActorRuns(a) \/ Batch!ActorEnds(a)
  PROVE  BatchInv'
<1>1. a \in Batch!Process /\ Thread \intersect Actor = {}
  BY LivenessAssumption DEF Batch!BatchAssumption, Batch!Process
<1>2. Batch!TypeOK'
  BY <1>1 DEF BatchInv, Batch!TypeOK, Batch!ActorRuns, Batch!ActorEnds, Batch!Goto, Batch!Process,
      Batch!Sending, Batch!ThreadPc, Batch!ActorPc
<1>3. \A p \in Batch!Process : pc'[p] # pc[p] => pc[p] \notin Batch!Sending /\ pc'[p] \notin Batch!Sending
  BY <1>1 DEF BatchInv, Batch!TypeOK, Batch!ActorRuns, Batch!ActorEnds, Batch!Goto, Batch!Process,
      Batch!Sending
<1> QED BY <1>2, <1>3, OutsideTheLock DEF Batch!ActorRuns, Batch!ActorEnds

\* The steps under the lock, and taking it, keep it.
LEMMA BatchSendStep ==
  ASSUME BatchInv, NEW p \in Batch!Process,
         \/ Batch!lockBatchNotification(p) \/ Batch!getBatchNotifications(p)
         \/ Batch!removeBatchNotifications(p) \/ Batch!handleSendRequest(p)
  PROVE  BatchInv'
<1>1. Batch!AfterSending(p) \notin Batch!Sending
  BY DEF Batch!AfterSending, Batch!Sending
<1>2. Batch!TypeOK'
  BY ZenonT(60), LivenessAssumption
  DEF Batch!BatchAssumption, BatchInv, Batch!TypeOK, Batch!lockBatchNotification,
      Batch!getBatchNotifications, Batch!removeBatchNotifications,
      Batch!handleSendRequest, Batch!AfterSending, Batch!Goto, Batch!Process, Batch!Sending, Batch!ThreadPc,
          Batch!ActorPc
<1>3. OneSender'
  BY <1>1 DEF BatchInv, Batch!TypeOK, OneSender, Batch!lockBatchNotification, Batch!getBatchNotifications,
      Batch!removeBatchNotifications, Batch!handleSendRequest, Batch!Goto, Batch!Sending, Batch!Process
<1>4. BatchInUse'
  BY <1>1 DEF BatchInv, Batch!TypeOK, BatchInUse, Batch!lockBatchNotification, Batch!getBatchNotifications,
      Batch!removeBatchNotifications, Batch!handleSendRequest, Batch!Goto, Batch!Sending, Batch!Process
<1>5. SentFirst'
  <2>1. CASE Batch!lockBatchNotification(p)
    BY <2>1 DEF BatchInv, Batch!TypeOK, SentFirst, Older, Batch!lockBatchNotification, Batch!Goto,
        Batch!Process
  <2>2. CASE Batch!getBatchNotifications(p)
    BY <2>2, <1>1 DEF BatchInv, Batch!TypeOK, OneSender, SentFirst, Older, Batch!getBatchNotifications,
         Batch!Goto, Batch!Sending, Batch!Process
  <2>3. CASE Batch!removeBatchNotifications(p)
    BY <2>3 DEF BatchInv, Batch!TypeOK, OneSender, SentFirst, Older, Batch!removeBatchNotifications,
         Batch!Goto, Batch!Sending, Batch!Process
  <2>4. CASE Batch!handleSendRequest(p)
    BY <2>4, <1>1 DEF BatchInv, Batch!TypeOK, OneSender, SentFirst, Older, Batch!handleSendRequest,
         Batch!Goto, Batch!Sending, Batch!Process
  <2> QED BY <2>1, <2>2, <2>3, <2>4
<1> QED BY <1>2, <1>3, <1>4, <1>5 DEF BatchInv

\* Every step keeps the invariant.
LEMMA BatchInductive == BatchInv /\ [Batch!Next]_(Batch!vars) => BatchInv'
<1> SUFFICES ASSUME BatchInv, [Batch!Next]_(Batch!vars) PROVE BatchInv'
  OBVIOUS
<1>1. ASSUME NEW p \in Batch!Process, Batch!Step(p) PROVE BatchInv'
  BY <1>1, BatchSendStep, StoreNoteStep, BatchThreadStep, BatchActorStep DEF Batch!Step
<1>2. ASSUME NEW t \in Thread,
             Batch!_handleSubscriptionNotification(t) \/ Batch!_flushBatchNotifications(t)
      PROVE  BatchInv'
  BY <1>2, BatchThreadStep
<1>3. CASE UNCHANGED Batch!vars
  BY <1>3 DEF Batch!vars, Batch!batchVars, BatchInv, Batch!TypeOK, OneSender, BatchInUse, SentFirst, Older
<1> QED BY <1>1, <1>2, <1>3 DEF Batch!Next

\* A step is one of the batch notifications, or leaves them alone.
LEMMA BatchSteps == ASSUME NextOne PROVE Batch!Next \/ UNCHANGED Batch!vars
BY DEF NextOne, batchVars, Batch!vars, Batch!batchVars

\* The invariant holds in every reachable state.
LEMMA BatchInvariant == SpecOne => []BatchInv
<1> DEFINE allVars == <<component, storageVars, batchVars, registrationVars>>
<1>1. InitOne => BatchInv
  BY BatchInitially DEF InitOne
<1>2. BatchInv /\ [NextOne]_allVars => BatchInv'
  <2>1. UNCHANGED allVars => UNCHANGED Batch!vars
    BY DEF batchVars, Batch!vars, Batch!batchVars
  <2> QED BY <2>1, BatchSteps, BatchInductive
<1> QED BY <1>1, <1>2, PTL DEF SpecOne

\* The types of the batch notifications: nothing is collected or sent that was not stored.
THEOREM BatchTypeCorrect == SpecOne => []Batch!TypeOK
BY BatchInvariant, PTL DEF BatchInv

\* With any number of threads and actors that send batches, a notification leaves at most once, and never after
\* one that was stored later (NotificationManager._sendSubscriptionAggregatedBatchNotification).
THEOREM InOrderHolds == SpecOne => InOrder
<1> DEFINE allVars == <<component, storageVars, batchVars, registrationVars>>
           Ordered == \A p \in Batch!Process : pc[p] = "send" /\ sent' # sent =>
                        \A m \in batch[p], n \in sent : n < m
<1>1. BatchInv => Ordered
  BY DEF BatchInv, SentFirst, Older
<1>2. BatchInv /\ [NextOne]_allVars => [Ordered]_(Batch!vars)
  BY <1>1
<1> QED BY <1>2, BatchInvariant, PTL DEF InOrder, Batch!InOrder, SpecOne
=============================================================================
