SPECIFICATION Spec
CONSTANTS
  Modes <- AllModes
  Artifacts <- TwoSnapshots
  Catalog <- FourSeeds
  Blocks <- AllBlocks
INVARIANTS TypeOK AuthorityEarned EveryClaimPlaced FailedTextMarked ReportsAgree ModeEarned
PROPERTIES AnswersAtOnce
CHECK_DEADLOCK FALSE
