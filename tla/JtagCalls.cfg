SPECIFICATION FairSpec
CONSTANTS BufLen = 2 FifoLen = 2 Threshold = 0 Chars = {"a"}
  HasTimer = TRUE IntMax = 4 Timeout = 2 Timeouts = {0}
  MaxPiece = 2 Uses <- WaitingUses
INVARIANTS ForeverIsForever
PROPERTIES CallsReturn
