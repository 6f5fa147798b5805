SPECIFICATION FairSpec
CONSTANTS
  Workers = {w1, w2, w3}
  w1 = w1
  w2 = w2
  w3 = w3
  Retries = 1
INVARIANTS TypeOK HandshakeFirst
PROPERTIES WorkersReturn
CHECK_DEADLOCK FALSE
