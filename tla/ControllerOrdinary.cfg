SPECIFICATION PerseveringSpec
CONSTANTS
  Panelists = {p1, p2, p3}
  p1 = p1
  p2 = p2
  p3 = p3
  Concurrency = 2
  MaxRound = 3
  MaxThreads = 3
  FailClosed = FALSE
  Faults = {}
INVARIANTS TypeOK AdviceHonoured
PROPERTIES ImplementsBarrier RoundsComplete
CHECK_DEADLOCK FALSE
