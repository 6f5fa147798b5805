SPECIFICATION Spec
CONSTANTS
  Panelists = {p1, p2}
  p1 = p1
  p2 = p2
  Concurrency = 2
  MaxRound = 2
  MaxThreads = 2
  FailClosed = FALSE
  Faults <- CrashOnly
INVARIANTS BarrierHolds
CHECK_DEADLOCK FALSE
