CONSTANTS
  a1 = a1  a2 = a2  d1 = d1  d2 = d2  t1 = t1  t2 = t2  t3 = t3
  Agents = {a1}
  Devices = {d1}
  TaskIds = {t1, t2}
  NoTask = NoTask
  NoLock = NoLock
  NoPromise = NoPromise
  Requests <- FewRequests
  TicksPerSecond = 1
  MaxClock = 4
  Grace = 1
  PublishInterval = 2
  StateFile = TRUE
  MayCrash = FALSE
  TornWrites = FALSE
  ClockMayStepBack = TRUE
SPECIFICATION FairSpec
INVARIANTS
  PromiseInv
PROPERTIES
  LockReleased
