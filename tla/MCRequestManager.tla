--------------------------- MODULE MCRequestManager ---------------------------
EXTENDS RequestManager
CONSTANTS x1, x2, x3, a, o, r1, r2, r3, p1, p2, n1
MCReq ==
  [x \in Exchange |->
     CASE x = x1 -> [rqi |-> r1, from |-> o, to |-> a, rt |-> "nonBlockingRequestAsynch"]
       [] x = x2 -> [rqi |-> r2, from |-> a, to |-> a, rt |-> "flexBlocking"]
       [] x = x3 -> [rqi |-> r3, from |-> o, to |-> o, rt |-> "nonBlockingRequestSynch"]]
MCPch == [p \in Poller |-> a]
=============================================================================
