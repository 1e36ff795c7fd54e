SPECIFICATION StructuredScopeSpec
CONSTANTS
  MaxBlocks = 5
  MaxBranches = 2
  Blocks <- MCBlocks
  Entry = 1
  NoBlock = 0
  Functions <- MCScopedFunctions
  VariablesOf <- MCVariablesOf
INVARIANTS
  ScopeTypeOK
  ArgumentsKeepTheirValue
  OrderDoesNotMatter
  LoopDominatorsAreInnermost
  AccessesSeeTheDeclaration
  ChainsComeFirst
  ValuesOutliveIterations
  LoopVariablesStayInTheLoop
CHECK_DEADLOCK FALSE
