-------------------------- MODULE RegistrationManager --------------------------
(***************************************************************************)
(* The registration of AEs that name the node they are hosted on, the      *)
(* lists of hosted AEs that the <node> resources keep, and the monitor     *)
(* that deletes expired resources.                                         *)
(***************************************************************************)
CONSTANTS Ae, Node, None

ASSUME RegistrationAssumption == Ae \cap Node = {} /\ None \notin Ae \cup Node

Resource == Ae \cup Node

VARIABLES
  table,        \* the existing resources
  used,         \* the nodes there have been: an identifier is not used again
  nl,           \* nodeLink of an AE
  __node__,     \* internal attribute: the node an AE has been entered at
  hael,         \* hosted AEs of a node
  et,           \* whether the expiration time of a resource has passed
  expirations,  \* what is left of the resources a run of the monitor has found, with their contents then
  astray,       \* history: AEs that a request which failed half way has taken out of the list of their node,
                \* those entered at a node that a run of the monitor had found before, and those linked again
                \* with a node that has been deleted
  undisturbed,  \* no request is refused half way or names a node that is gone, and none comes during a run of
                \* the monitor
  together      \* several resources may expire before the monitor runs; neither ever changes

registrationVars == <<table, used, nl, __node__, hael, et, expirations, astray, undisturbed, together>>

Exists(r) == r \in table

Snapshot == [ri : Resource, nl : Node \cup {None}, hael : SUBSET Ae]

TypeOK ==
  /\ table \subseteq Resource /\ used \subseteq Node
  /\ nl \in [Ae -> Node \cup {None}] /\ __node__ \in [Ae -> Node \cup {None}]
  /\ hael \in [Node -> SUBSET Ae]
  /\ et \subseteq table /\ expirations \subseteq Snapshot /\ astray \subseteq Ae
  /\ undisturbed \in BOOLEAN /\ together \in BOOLEAN

Init ==
  /\ table = {} /\ used = {}
  /\ nl = [a \in Ae |-> None] /\ __node__ = [a \in Ae |-> None]
  /\ hael = [n \in Node |-> {}]
  /\ et = {} /\ expirations = {} /\ astray = {}
  /\ undisturbed \in BOOLEAN /\ together \in BOOLEAN

-----------------------------------------------------------------------------
(* Requests.                                                               *)

Request == undisturbed => expirations = {}

\* Mutant: the AE stays in the list of the node before.
MovedOnly(a, from, to) ==
  [n \in Node |-> IF n = to THEN hael[n] \cup {a} ELSE hael[n]]

\* An AE is taken out of the list of a node, and entered at another one.
Moved(a, from, to) ==
  [n \in Node |-> CASE n = to -> hael[n] \cup {a} [] n = from -> hael[n] \ {a} [] OTHER -> hael[n]]

\* The lists when the AE has a new node link. A node that is not found ends the request; the list of the
\* node before has been changed by then. The new node is looked for also when the link is removed: there is
\* none with this identifier, so that no AE loses its link in this way.
validateFails(from, to) == from # to /\ (to = None \/ \E n \in {from, to} \ {None} : ~Exists(n))
Validated(a, from, to) ==
  IF from # to /\ (from # None => Exists(from))
  THEN Moved(a, from, IF to # None /\ Exists(to) THEN to ELSE None)
  ELSE hael

createNode(n) ==
  /\ Request /\ n \notin used
  /\ table' = table \cup {n} /\ used' = used \cup {n}
  /\ hael' = [hael EXCEPT ![n] = {}]
  /\ UNCHANGED <<nl, __node__, et, expirations, astray, undisturbed, together>>

\* Which AEs are not where a run of the monitor, or the AE, believes: after a request that has entered the AE
\* at a node, and one that has failed.
Entered(a, from, to) ==
  CASE from = to -> IF to = None \/ Exists(to) THEN astray ELSE astray \cup {a}
    [] from # to /\ \E s \in expirations : s.ri = to -> astray \cup {a}
    [] OTHER -> astray \ {a}
Failed(a, from) == IF hael' = hael \/ from = None THEN astray ELSE astray \cup {a}

\* The AE is entered at its node before its other attributes are checked: a creation that is refused
\* then, is left in the list.
createAE(a) ==
  /\ Request /\ ~Exists(a)
  /\ \E n \in Node \cup {None}, refused \in BOOLEAN :
       /\ undisturbed => ~refused /\ (n # None => Exists(n))
       /\ hael' = Validated(a, None, n)
       /\ IF refused \/ validateFails(None, n) THEN UNCHANGED <<table, nl, __node__, astray>>
          ELSE /\ table' = table \cup {a} /\ astray' = Entered(a, None, n)
               /\ nl' = [nl EXCEPT ![a] = n] /\ __node__' = [__node__ EXCEPT ![a] = n]
  /\ UNCHANGED <<used, et, expirations, undisturbed, together>>

updateAE(a) ==
  /\ Request /\ Exists(a)
  /\ \E n \in Node \cup {None}, refused \in BOOLEAN :
       /\ hael' = Validated(a, __node__[a], n)
       /\ undisturbed => ~refused /\ (n # None => Exists(n)) /\ (validateFails(__node__[a], n) => hael' = hael)
       /\ IF refused \/ validateFails(__node__[a], n)
          THEN astray' = Failed(a, __node__[a]) /\ UNCHANGED <<nl, __node__, et>>
          ELSE /\ astray' = Entered(a, __node__[a], n)
               /\ nl' = [nl EXCEPT ![a] = n] /\ __node__' = [__node__ EXCEPT ![a] = n]
               /\ et' \in {et, et \ {a}}
  /\ UNCHANGED <<table, used, expirations, undisturbed, together>>

\* deactivate() of a resource, of which r are the contents: whether it fails, and what it leaves.
deactivateFails(r) ==
  \/ r.ri \in Ae /\ r.nl # None /\ ~Exists(r.nl)
  \/ r.ri \in Node /\ \E a \in r.hael : ~Exists(a)

\* Mutant: a node leaves the links of its AEs.
UnlinkedNot(r) == {nl}

\* A node takes itself from its AEs one by one, up to the first that does not exist.
Unlinked(r) ==
  IF r.ri \in Node
  THEN {[a \in Ae |-> IF a \in done /\ nl[a] = r.ri THEN None ELSE nl[a]] :
          done \in IF deactivateFails(r) THEN SUBSET {a \in r.hael : Exists(a)} ELSE {r.hael}}
  ELSE {nl}

deleteLocalResource(r) ==
  /\ nl' \in Unlinked(r)
  /\ IF deactivateFails(r) THEN UNCHANGED <<table, hael, et>>
     ELSE /\ table' = table \ {r.ri}
          /\ et' = et \ {r.ri}
          /\ hael' = IF r.ri \in Ae /\ r.nl # None THEN [hael EXCEPT ![r.nl] = @ \ {r.ri}] ELSE hael
  /\ UNCHANGED <<used, __node__, astray, undisturbed, together>>

Contents(r) == [ri |-> r, nl |-> IF r \in Ae THEN nl[r] ELSE None, hael |-> IF r \in Node THEN hael[r] ELSE {}]

Delete(r) ==
  /\ Request /\ Exists(r)
  /\ undisturbed => ~deactivateFails(Contents(r))
  /\ deleteLocalResource(Contents(r))
  /\ UNCHANGED expirations

-----------------------------------------------------------------------------
(* Expiration.                                                             *)

Expire(r) ==
  /\ Exists(r) /\ r \notin et /\ Request /\ (et = {} \/ together)
  /\ et' = et \cup {r}
  /\ UNCHANGED <<table, used, nl, __node__, hael, expirations, astray, undisturbed, together>>

\* The search of a run of the monitor.
expirationDBMonitor ==
  /\ expirations = {} /\ et # {}
  /\ expirations' = {Contents(r) : r \in et}
  /\ UNCHANGED <<table, used, nl, __node__, hael, et, astray, undisturbed, together>>

\* The next resource of the run: the databases find them in orders of their own. A deletion that fails ends
\* the run.
ExpireNext ==
  \E r \in expirations :
    IF Exists(r.ri)
    THEN /\ deleteLocalResource(r)
         /\ expirations' = IF deactivateFails(r) THEN {} ELSE expirations \ {r}
    ELSE /\ expirations' = expirations \ {r}
         /\ UNCHANGED <<table, used, nl, __node__, hael, et, astray, undisturbed, together>>

Next ==
  \/ \E n \in Node : createNode(n)
  \/ \E a \in Ae : createAE(a) \/ updateAE(a)
  \/ \E r \in Resource : Delete(r) \/ Expire(r)
  \/ expirationDBMonitor \/ ExpireNext

Spec == Init /\ [][Next]_registrationVars

\* The monitor is a periodic worker, that goes on after an exception.
Fairness == WF_registrationVars(expirationDBMonitor) /\ WF_registrationVars(ExpireNext)

FairSpec == Spec /\ Fairness

-----------------------------------------------------------------------------
(* Properties.                                                             *)

\* An AE with a node link is entered at this node, the node exists and has the AE in its list (AE.validate,
\* NOD.deactivate), whatever requests fail and come during a run of the monitor; except AEs for which this
\* has gone wrong: an update that failed half way has taken them out of the list, a run of the monitor had
\* found the node before they were entered there, or they have been linked again with a node that has been
\* deleted: it is the one they were entered at, and not looked for. In a system where none of this happens, and where linked
\* resources do not expire together, the AE is in no other list, and no AE is in a list that does not exist.
LinksMatch ==
  /\ \A a \in Ae \ astray : Exists(a) /\ nl[a] # None => nl[a] = __node__[a] /\ Exists(nl[a]) /\ a \in hael[nl[a]]
  /\ undisturbed /\ ~together => \A n \in Node : Exists(n) => \A a \in hael[n] : Exists(a) /\ nl[a] = n

\* A resource whose expiration time has passed is deleted, or gets another one. Only after a request that
\* failed, or when linked resources expire together, run after run of the monitor may end at a resource
\* that cannot be deleted.
Failing == \E r \in expirations : Exists(r.ri) /\ deactivateFails(r)

Expires ==
  \A r \in Resource : r \in et ~> r \notin et \/ (Failing /\ (together \/ ~undisturbed))

\* Resources expire when their expiration time has passed. It does not hold, not even in an undisturbed
\* system: the monitor deletes a node as it was when it searched. If an AE of it has been deleted in the
\* same run this fails after the other AEs have lost their links. When they are gone the node stays for
\* ever, and no run gets beyond it.
AlwaysExpires ==
  \A r \in Resource : r \in et ~> r \notin et \/ ~undisturbed

\* When a node is deleted, the AEs that it hosts are not linked with it any more. It does not hold: the
\* internal attribute stays, and makes every later update of the AE fail.
NodeForgotten ==
  undisturbed => \A a \in Ae : Exists(a) /\ __node__[a] # None => Exists(__node__[a])
=============================================================================
