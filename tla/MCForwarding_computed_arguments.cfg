SPECIFICATION Spec
CONSTANTS
  Families <- Computed_Arguments
  N = 5
  Programs <- MCPrograms
  Locals = {"local"}
  Params = {"param"}
  Phis = {"phi"}
  Globals = {"private"}
  Buffers = {"bufA", "bufB", "bufR"}
  Images = {"image"}
  Restricted = {"bufR"}
  Constants = {"push"}
  NoVar = "none"
  MaxDeps = 3
  MaxIterations = 3
INVARIANTS
  ForwardedReadsAreCurrent
CHECK_DEADLOCK FALSE
