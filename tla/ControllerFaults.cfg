SPECIFICATION FairSpec
CONSTANTS
  Panelists = {p1, p2}
  p1 = p1
  p2 = p2
  Concurrency = 2
  MaxRound = 2
  MaxThreads = 4
  FailClosed = TRUE
  Faults <- AllFaults
INVARIANTS RoundsInOrder OneConversation FinalizedSound
PROPERTIES AnswersKept CallsReturn
CHECK_DEADLOCK FALSE
