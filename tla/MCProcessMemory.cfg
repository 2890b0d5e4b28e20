CONSTANTS
  Total = 3
  Sizes <- MCSizes
  Offsets = {0}
  Handles <- MCHandles
  Procs = {p1, p2}
  KERNEL = KERNEL
  NoProcess = NoProcess
  MaxAllocations = 2
SPECIFICATION ProcessSpec
CONSTRAINT Bound
SYMMETRY Symmetry
INVARIANTS
  AllocationsUsable
  Isolation
PROPERTIES
  ExitReturnsAll
