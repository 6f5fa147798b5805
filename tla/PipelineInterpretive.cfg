SPECIFICATION Spec
CONSTANTS
  Modes <- StrictMode
  Artifacts <- TwoSnapshots
  Catalog <- FourSeeds
  Blocks <- AllBlocks
INVARIANTS InterpretiveNeverCited
CHECK_DEADLOCK FALSE
