SPECIFICATION Spec
CONSTANTS
  Controllers = {c1, c2}
  Moderators = {m1}
  Roster <- Panel
  Offsets <- StartOffsets
  Limits <- PageLimits
  MaxSaves = 3
INVARIANTS TypeOK SerialLosesNothing
PROPERTIES AtomicForReaders PagingCovers
CHECK_DEADLOCK FALSE
