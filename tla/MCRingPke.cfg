SPECIFICATION PkeSpec
CONSTANTS
  ParameterSets <- MCParameterSets
  KeySeeds = {d1, d2}
  Coins = {r1}
  Messages = {m1, m2}
  None = None
INVARIANTS
  MatrixCancels
  ForeignKeyGarbles
  StreamsAreSeparate
  OperandsFit
CHECK_DEADLOCK FALSE
