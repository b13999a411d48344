SPECIFICATION Spec
CONSTANTS
  Depths = {1, 4, 5, 10, 11, 12}
  Highs = {0, 1, 2028, 2029, 63506, 63507, 65535}
INVARIANTS
  ReduceIsExact
  SumsReduceExactly
  ConstMulIsExact
  CompressRounds
  LanesAreTheField
CHECK_DEADLOCK FALSE
