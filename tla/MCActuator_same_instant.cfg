CONSTANTS
  a1 = a1  a2 = a2  d1 = d1  d2 = d2  t1 = t1  t2 = t2  t3 = t3
  Agents = {a1, a2}
  Devices = {d1, d2}
  TaskIds = {t1, t2, t3}
  NoTask = NoTask
  NoLock = NoLock
  NoPromise = NoPromise
  Requests <- InstantRequests
  TicksPerSecond = 2
  MaxClock = 6
  Grace = 2
  PublishInterval = 4
  StateFile = FALSE
  MayCrash = FALSE
  TornWrites = FALSE
  ClockMayStepBack = FALSE
SPECIFICATION Spec
SYMMETRY Symmetry
INVARIANTS
  AssertionsHold
