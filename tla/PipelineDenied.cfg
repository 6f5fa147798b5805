SPECIFICATION Spec
CONSTANTS
  Modes <- StrictMode
  Artifacts <- TwoSnapshots
  Catalog <- FourSeeds
  Blocks <- AllBlocks
INVARIANTS DenialIsEmptyAnswer
CHECK_DEADLOCK FALSE
