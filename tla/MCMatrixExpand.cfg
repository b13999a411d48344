SPECIFICATION ExpandFairSpec
CONSTANTS
  Ranks = {2, 3, 4}
  ElementSize = 3
  PerBlock = 1
  FirstBlocks = 3
INVARIANTS
  EntriesOfTheirStreams
  TransposedIsTranspose
PROPERTIES
  Expands
CHECK_DEADLOCK FALSE
