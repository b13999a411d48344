SPECIFICATION Spec
CONSTANTS
  Exponents <- MCExponents
  Coefficient = 3328
  Products <- MCProducts
INVARIANTS
  LayersHoldResidues
  NothingWraps
  InverseOfProduct
  CachedProductIsProduct
  PipelineIsButterflies
CHECK_DEADLOCK FALSE
