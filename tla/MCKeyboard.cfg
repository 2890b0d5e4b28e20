CONSTANTS
  Size = 3
  MaxKeys = 5
  MaxReads = 7
SPECIFICATION KeyboardSpec
INVARIANTS
  UnreadIntact
  ReadsInOrder
PROPERTIES
  TypedIsRead
