SPECIFICATION Spec
CONSTANTS
  periodic = periodic
  actor = actor
  Worker <- MCWorker
  Client = {c1}
  MaxDelay = 2
  Interval <- MCInterval
  MaxCount <- MCMaxCount
  Dispose = {actor}
  Api = {"start", "startAgain", "stop", "remove", "restart", "workNow"}
  MaxFired = 2
  MaxInFlight = 2
  c1 = c1
INVARIANTS TimerCoversQueue
