SPECIFICATION FairSpec
CONSTANTS
  x1 = x1
  x2 = x2
  x3 = x3
  a = a
  o = o
  r1 = r1
  r2 = r2
  r3 = r3
  p1 = p1
  p2 = p2
  n1 = n1
  None = None
  Exchange = {x1, x2}
  Entity = {a, o}
  Rqi = {r1, r2}
  Req <- MCReq
  Poller = {p1, p2}
  Pch <- MCPch
  Notifier = {n1}
INVARIANTS AnswerAccepted EntryExpires
PROPERTIES ExchangeSpec StatusUpdated
