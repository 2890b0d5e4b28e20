CONSTANTS
  Total = 5
  Handles = {h1, h2, h3}
  Sizes <- MCSizes
  Offsets <- MCOffsets
SPECIFICATION Spec
INVARIANTS
  TypeOK
  Disjoint
  ChainsIntact
  NoLeak
  RecentIsFree
PROPERTIES
  SpillsOnlyWhenFull
  ImplementsAllocator
