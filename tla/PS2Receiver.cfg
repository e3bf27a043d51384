\* Two ordinary keys (A and D) and an extended one (left arrow), overlapping in
\* every order.
CONSTANTS
  Plain = {28, 35}
  Extended = {107}
  E0 = 224
  F0 = 240
  None = 0
  MaxWire = 4
  MinLow = 3
  MinHigh = 1
SPECIFICATION ReceiverFairSpec
INVARIANTS ShownKeyIsDown IgnoredKeyIsDown
PROPERTIES LetGoIsSeen DecodesBytes
