SPECIFICATION Spec
CONSTANTS
  Etas = {2, 3}
  Seeds = {sigma}
  PrfBit <- MCPrfBit
  Firsts = {0, 3, 250, 255}
  Counts = {1, 2, 3, 4, 5, 6, 7, 8, 9, 10, 11, 12}
INVARIANTS
  NthStream
  DrawsOwnBits
CHECK_DEADLOCK FALSE
