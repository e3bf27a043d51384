\* A turn that was allowed when the key went down.
CONSTANTS
  Rows = 6
  Cols = 5
  ClearTop = 2
  StartCol = 1
  XDelay = 1
  YDelay = 3
  FastDelay = 2
  FrameGap = 2
  ResetGap = 2
  ResetHold = 3
  ScoreMod = 4
  Sels = {3}
  Keys = {"none", "A", "D", "S", "W"}
  MaxCells = 4
SPECIFICATION Spec
CONSTRAINT StackBound
PROPERTIES TurnStaysOnBoard
