SPECIFICATION FairSpecOne
CONSTANTS
  Table = {identifiers, srn}
  Locked = identifiers
  identifiers = identifiers
  srn = srn
  MaxWrite = 4
  Overlap = {TRUE, FALSE}
  None = None
  t1 = t1
  t2 = t2
  Thread = {t1, t2}
  Actor = {a1, a2}
  a2 = a2
  Num = 2
  Nse = TRUE
  MaxNote = 4
  Ae = {a1}
  Node = {n1, n2}
  a1 = a1
  n1 = n1
  n2 = n2
CHECK_DEADLOCK FALSE
INVARIANTS CloseSavesAll LinksMatch
PROPERTIES EventuallyWritten InOrder EventuallySent Expires
