SPECIFICATION Spec
CONSTANTS BufLen = 3 FifoLen = 2 Threshold = 1 Chars = {"a", "b"}
  HasTimer = FALSE IntMax = 4 Timeout = 2 Timeouts = {}
  MaxPiece = 2 Uses <- TransferUses
INVARIANTS SlotsApart FifoHasSpace ReceiveNotStuck TransmitNotStuck
PROPERTIES ReceivesInOrder SendsInOrder
