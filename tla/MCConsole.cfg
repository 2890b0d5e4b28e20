CONSTANTS
  BufferSize = 4
  Margin = 5
  Width = 18
  Height = 26
  FontWidth = 2
  FontHeight = 4
  MaxKeys = 9
SPECIFICATION Spec
INVARIANTS
  ReturnsEditedLine
  ShowsEditedLine
  CursorOnScreen
