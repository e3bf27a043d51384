\* A frame of six lines of four pixels, sync on two lines: 48 edges of Clk.
CONSTANTS
  H_TOTAL = 4
  V_TOTAL = 6
  SyncFirst = 3
  SyncEnd = 5
  FrameGap = 37
  ResetGap = 2
  ResetHold = 2
SPECIFICATION BoardSpec
INVARIANTS PulseOnlyWhenDue PlaysUnlocked
PROPERTIES OnePulsePerFrame FramesKeepComing EveryPieceAtFrames
