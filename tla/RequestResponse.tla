---------------------------- MODULE RequestResponse ----------------------------
(***************************************************************************)
(* What forwarding a request to another entity promises: the entity gets    *)
(* the request at most once, one answer of it is accepted, and whoever      *)
(* forwarded the request ends once, with the answer to this very request or *)
(* without one.                                                             *)
(***************************************************************************)
CONSTANT Exchange

VARIABLES asked,      \* requests that were forwarded
          seen,       \* requests the target has got
          answered,   \* requests with an accepted answer
          ended,      \* requests whose sender goes on
          answers     \* requests whose sender goes on with its answer

rrVars == <<asked, seen, answered, ended, answers>>

RRInit == asked = {} /\ seen = {} /\ answered = {} /\ ended = {} /\ answers = {}

Ask(x) == /\ x \notin asked \cup ended
          /\ asked' = asked \cup {x}
          /\ UNCHANGED <<seen, answered, ended, answers>>

Deliver(S) == /\ S # {}
              /\ S \subseteq asked \ seen
              /\ seen' = seen \cup S
              /\ UNCHANGED <<asked, answered, ended, answers>>

Answer(x) == /\ x \in seen \ answered
             /\ answered' = answered \cup {x}
             /\ UNCHANGED <<asked, seen, ended, answers>>

End(x) == /\ x \notin ended
          /\ ended' = ended \cup {x}
          /\ \/ x \in answered /\ answers' = answers \cup {x}
             \/ UNCHANGED answers
          /\ UNCHANGED <<asked, seen, answered>>

RRNext == \/ \E x \in Exchange : Ask(x) \/ Answer(x) \/ End(x)
          \/ \E S \in SUBSET Exchange : Deliver(S)

RRSpec == RRInit /\ [][RRNext]_rrVars
=============================================================================
