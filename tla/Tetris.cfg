\* Squares and long pieces, turned, pushed and dropped in every way, fill and clear rows of four cells.
CONSTANTS
  Rows = 4
  Cols = 4
  ClearTop = 1
  StartCol = 0
  XDelay = 1
  YDelay = 3
  FastDelay = 2
  FrameGap = 4
  ResetGap = 2
  ResetHold = 5
  ScoreMod = 2
  Sels = {0, 3}
  Keys = {"none", "A", "D", "S", "W"}
  MaxCells = 16
SPECIFICATION FairSpec
INVARIANTS TypeOK ColumnsBounded RowsBounded QuietAtFrame ResetEmpties
PROPERTIES BoardIsAPlayfield PiecesKeepComing
