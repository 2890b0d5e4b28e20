CONSTANTS
  Total = 4
  Handles = {h1, h2, h3}
  Sizes <- MCSizes
  Offsets <- MCOffsets
SPECIFICATION LoopSpec
PROPERTIES
  ImplementsHeap
  CallsReturn
