SPECIFICATION FairSpec
CONSTANTS
  Families <- Motion
  N = 7
  Programs <- MCPrograms
  Locals = {"local"}
  Params = {"param"}
  Phis = {"phi"}
  Globals = {"private"}
  Buffers = {"bufA", "bufB", "bufR"}
  Images = {"image"}
  Restricted = {"bufR"}
  Constants = {"push"}
  NoVar = "none"
  MaxDeps = 3
  MaxIterations = 3
INVARIANTS
  TypeOK
  ForwardedReadsAreCurrent
  DerivativesStayInTheirBlock
  EffectsHappenOnceInOrder
  NoRepeatedWork
  AlwaysForwardProgress
PROPERTIES
  CompileTerminates
CHECK_DEADLOCK FALSE
