CONSTANTS
  SectorSize = 4
  SectorsPerCluster = 2
  EntrySize = 1
  RootStart = 5
  DataStart = 10
  MaxDescriptors = 2
  Paths <- MCPaths
  Layouts <- MCLayouts
  MaxSlots = 12
  Lengths = {0, 3, 8}
  MaxPos = 11
SPECIFICATION Spec
INVARIANTS
  ReadsOwnBytes
  OpensRightFile
