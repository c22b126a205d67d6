SPECIFICATION FairSpecOne
CONSTANTS
  periodic = periodic
  actor = actor
  Worker <- MCWorker
  Client = {c1, c2}
  c1 = c1
  c2 = c2
  MaxDelay = 2
  Interval <- MCInterval
  MaxCount <- MCMaxCount
  Dispose = {periodic, actor}
  Api = {"start", "stop"}
  MaxFired = 2
  MaxInFlight = 2
  root = root
  a = a
  ab = ab
  b = b
  cse = cse
  r1 = r1
  r2 = r2
  r3 = r3
  t1 = t1
  t2 = t2
  None = None
  Thread = {t1, t2}
  Ri = {cse, r1, r2, r3}
  Srn <- MCSrn
  Parent <- MCParent
  Below <- MCBelow
  Root = root
  CseRi = cse
  Isolated = TRUE
INVARIANTS OneSchedule NeverLost MaxCountRespected TablesAgree ListingWorks
PROPERTIES StartedRuns DeleteSucceeds TreeSpec
