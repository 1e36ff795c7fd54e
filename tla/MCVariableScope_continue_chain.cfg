SPECIFICATION ScopeSpec
CONSTANTS
  MaxBlocks = 1
  MaxBranches = 2
  Blocks = {1, 2, 3, 4, 5, 6}
  Entry = 1
  NoBlock = 0
  Functions <- ContinueChain
  VariablesOf <- MCVariablesOf
INVARIANTS
  AccessesSeeTheDeclaration
CHECK_DEADLOCK FALSE
