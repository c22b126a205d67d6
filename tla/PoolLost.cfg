SPECIFICATION Spec
CONSTANTS
  periodic = periodic
  actor = actor
  Worker <- MCWorker
  Client = {c1}
  MaxDelay = 2
  Interval <- MCInterval
  MaxCount <- MCMaxCount
  Dispose = {periodic, actor}
  Api = {"start", "startAgain"}
  MaxFired = 2
  MaxInFlight = 2
INVARIANTS NeverLost
