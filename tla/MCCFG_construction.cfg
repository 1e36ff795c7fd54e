SPECIFICATION StructuredSpec
CONSTANTS
  MaxBlocks = 5
  MaxBranches = 2
  Entry = 1
  NoBlock = 0
  Blocks <- MCBlocks
  Functions <- MCFunctions
INVARIANTS TypeOK EdgesDescend ClimbsInTheTree DominatorsAreExact DominatorsAreReal MergeIsOutside OutsideComesFirst
PROPERTY ConstructionEnds
CHECK_DEADLOCK FALSE
