SPECIFICATION Spec
CONSTANTS
  Main = Main
  outer = outer
  inner = inner
  image = image
  other_image = other_image
  sampler = sampler
  other_sampler = other_sampler
  outer_image = outer_image
  outer_sampler = outer_sampler
  inner_image = inner_image
  inner_sampler = inner_sampler
  Dummy = Dummy
  Functions <- MCFunctions
  Globals = {image, other_image, sampler, other_sampler}
  Parameters = {outer_image, outer_sampler, inner_image, inner_sampler}
  Shaders <- MCSampledShaders
  Rank <- MCRank
INVARIANTS TypeOK SamplesTheRightPair NeverThrows ListedPairsAreSampled ComparisonIsExact
CHECK_DEADLOCK FALSE
