SPECIFICATION Spec
CONSTANTS
  Modes <- StrictMode
  Artifacts <- TwoSnapshots
  Catalog <- FourSeeds
  Blocks <- AllBlocks
INVARIANTS JobNeverAborts
CHECK_DEADLOCK FALSE
