SPECIFICATION Spec
CONSTANTS
  p1 = p1
  w1 = w1
  None = None
  Peer = {p1}
  WS = {w1}
  Sender = {}
  MaxMessage = 2
  Overlap = {FALSE}
CHECK_DEADLOCK FALSE
INVARIANTS HandledOnce
