CONSTANTS
  Files <- MCFiles
  PageSize = 4
  ProgramAddress = 32
  StackSize = 8
  ImageAddress = 64
  StackMemory = 96
  LastPage = 30
SPECIFICATION Spec
INVARIANTS
  ImageAndStackMapped
  WritesConfined
