SPECIFICATION FairSpec
CONSTANTS
  Workers = {w1, w2}
  w1 = w1
  w2 = w2
  Retries = 1
  MaxAsks = 1
INVARIANTS TypeOK OwnAnswer PendingExact NoneForgotten AnswerHasRoom
PROPERTIES CallsReturn
CHECK_DEADLOCK FALSE
