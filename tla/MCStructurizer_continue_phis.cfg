SPECIFICATION MCSpec
CONSTANTS
  MaxBlocks = 3
  MaxBranches = 3
  MaxInner = 1
  LostPhis = TRUE
  Blocks <- LoopedBlocks
  Entry = 1
  NoBlock = 0
  Functions <- MCLooped
  SourcesOf <- MCSourcesOf
  Contents <- MCContents
  MaxIterations = 3
PROPERTY ImplementsControlFlow
CHECK_DEADLOCK FALSE
