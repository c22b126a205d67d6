--------------------------- MODULE MCResourceTree ---------------------------
(* A CSEBase with two paths below it, one of which has a path below it.   *)
EXTENDS ResourceTree, TLC

CONSTANTS root, a, ab, b, cse, r1, r2, r3, t1, t2

MCSrn == {root, a, ab, b}
MCParent == a :> root @@ b :> root @@ ab :> a
MCBelow == root :> MCSrn @@ a :> {a, ab} @@ ab :> {ab} @@ b :> {b}
MCSymmetry == Permutations({r1, r2, r3}) \union Permutations({t1, t2})
===========================================================================
