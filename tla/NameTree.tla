------------------------------ MODULE NameTree ------------------------------
(***************************************************************************)
(* What the CSE promises about its resource tree: names come below names   *)
(* that exist, a name is taken once, and only leaves go.                   *)
(***************************************************************************)
CONSTANTS Srn, Root, Parent

VARIABLE tree

Init == tree = {Root}

Create(s) == s \notin tree /\ Parent[s] \in tree /\ tree' = tree \union {s}

Delete(s) ==
  /\ s \in tree
  /\ \A c \in Srn \ {Root} : Parent[c] = s => c \notin tree
  /\ tree' = tree \ {s}

Next == \E s \in Srn \ {Root} : Create(s) \/ Delete(s)

Spec == Init /\ [][Next]_tree
=============================================================================
