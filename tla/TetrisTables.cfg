\* The tables of the five bent pieces in all their orientations, one landed piece in the way.
CONSTANTS
  Rows = 5
  Cols = 4
  ClearTop = 2
  StartCol = 0
  XDelay = 1
  YDelay = 2
  FastDelay = 2
  FrameGap = 1
  ResetGap = 1
  ResetHold = 1
  ScoreMod = 1
  Sels = {1, 2, 4, 5, 6}
  Keys = {"none", "A", "D", "W"}
  MaxCells = 4
SPECIFICATION Spec
CONSTRAINT StackBound
PROPERTIES FallIsClear DecisionMatchesBoard
