SPECIFICATION FairSpecOne
CONSTANTS
  t1 = t1
  t2 = t2
  Thread = {t1, t2}
  c1 = c1
  c2 = c2
  c3 = c3
  s1 = s1
  s3 = s3
  s4 = s4
  x1 = x1
  Crs = {c1, c2, c3}
  Sub = {s1, s3, s4, x1}
  OverlapCrs = {c1}
  Job = {1, 2, 3}
  Task = {k1, k2, k3, e1}
  Endless = {e1}
  _balanceTarget = 0
  _balanceLatency = 2
  _balanceReduceFactor = 1
  k1 = k1
  k2 = k2
  k3 = k3
  e1 = e1
  Overlap = {TRUE, FALSE}
  None = None
  Caller = {h1, h2}
  h1 = h1
  h2 = h2
  Resetter = {r1}
  r1 = r1
  Topic = {q1, q2, q3}
  q1 = q1
  q2 = q2
  q3 = q3
  MaxDrop = 2
CHECK_DEADLOCK FALSE
INVARIANTS AllOrNothing
PROPERTIES RequestsEnd TasksRun StopEnds ShutdownEnds
