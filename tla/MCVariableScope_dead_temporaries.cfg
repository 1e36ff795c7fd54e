SPECIFICATION ScopeSpec
CONSTANTS
  MaxBlocks = 1
  MaxBranches = 2
  Blocks = {1, 2, 3}
  Entry = 1
  NoBlock = 0
  Functions <- DeadCode
  VariablesOf <- MCVariablesOf
INVARIANTS
  AnalysisCompletes
CHECK_DEADLOCK FALSE
