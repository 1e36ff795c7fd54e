SPECIFICATION MCSpec
CONSTANTS
  MaxBlocks = 4
  MaxBranches = 3
  MaxInner = 3
  LostPhis = FALSE
  Blocks <- LoopedBlocks
  Entry = 1
  NoBlock = 0
  Functions <- MCLooped
  SourcesOf <- MCSourcesOf
  Contents <- MCContents
  MaxIterations = 3
INVARIANTS NeverThrows JumpsHaveTargets
PROPERTIES ImplementsControlFlow ProgramsGoOn
CHECK_DEADLOCK FALSE
