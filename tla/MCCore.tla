------------------------------- MODULE MCCore -------------------------------
(* The scheduler with workers that are started once, and the resource tree. They share no state: each   *)
(* behaviour is one of a single component, while the other stays in its initial state.                  *)
EXTENDS MCBackgroundWorker

CONSTANTS Thread, Ri, Srn, Root, CseRi, None, Parent, Below, Isolated, root, a, ab, b

VARIABLES
  component,  \* never changes
  stored, info, identifiers, structured, linked, ch, thread

treeVars == <<stored, info, identifiers, structured, linked, ch, thread>>

\* The CSEBase with two paths below it, one of which has a path below it.
MCSrn == {root, a, ab, b}
MCParent == a :> root @@ b :> root @@ ab :> a
MCBelow == root :> MCSrn @@ a :> {a, ab} @@ ab :> {ab} @@ b :> {b}

Resources == INSTANCE ResourceTreeProofs

ASSUME CoreAssumption == Resources!TreeAssumption

InitOne == component \in {"pool", "tree"} /\ Init /\ Resources!Init

NextOne ==
  /\ UNCHANGED component
  /\ IF component = "pool" THEN Next ELSE UNCHANGED vars
  /\ IF component = "tree" THEN Resources!Next ELSE UNCHANGED treeVars

SpecOne == InitOne /\ [][NextOne]_<<component, vars, treeVars>>

\* The fairness of the component.
FairSpecOne ==
  /\ SpecOne
  /\ WF_vars(component = "pool" /\ Tick) /\ WF_vars(component = "pool" /\ TimerFires)
  /\ WF_vars(component = "pool" /\ _execQueueEmpty)
  /\ \A w \in Worker : SF_vars(component = "pool" /\ _execQueue(w)) /\ WF_vars(component = "pool" /\ JobNext(w))
  /\ \A c \in Client : WF_vars(component = "pool" /\ \E w \in Worker : ClientStep(c, w))
  /\ \A t \in Thread : WF_treeVars(component = "tree" /\ Resources!Step(t))

------------------------------------------------------------------------------
(* Properties of the tree, as the module states them.                      *)

\* Where no request is working, the four tables tell the same tree.
TablesAgree == Resources!TablesAgree

\* What is listed below a resource is there.
ListingWorks == Resources!ListingWorks

\* A deletion ends with the resource gone.
DeleteSucceeds == Resources!DeleteSucceeds

\* The tables implement a tree of names.
TreeSpec == Resources!TreeSpec
=============================================================================
