------------------------------ MODULE BoardOps ------------------------------
(***************************************************************************)
(* The playing field of board.sv as a value: the set of occupied cells.    *)
(* The hardware keeps a four-bit colour per cell; every decision tests it  *)
(* against zero only, so the colour is left out.                           *)
(***************************************************************************)
EXTENDS Integers

CONSTANTS
  Rows,      \* 22 in the code
  Cols,      \* 11 in the code
  ClearTop   \* the topmost row tested for completeness, 6 in the code

ASSUME GridAssumption ==
  /\ Rows \in Nat \ {0}
  /\ Cols \in Nat \ {0}
  /\ ClearTop \in 0..(Rows - 1)

Grid == (0..(Rows - 1)) \X (0..(Cols - 1))

\* A row is complete when none of its cells is zero.
Full(b, i) == \A c \in 0..(Cols - 1) : <<i, c>> \in b

\* The complete rows among those the if-chain of board.sv tests: rows 21 down
\* to 6.  The rows above them are never tested.
Clearable(b) == { i \in ClearTop..(Rows - 1) : Full(b, i) }

\* The chain takes the first branch that is true, the lowest row on screen.
FirstClearable(b, k) ==
  /\ k \in Clearable(b)
  /\ \A i \in Clearable(b) : i <= k

\* Where cells outside the array may end up if they are written: a cell beyond
\* the right edge wherever a flattened index puts it, a cell below the bottom
\* row nowhere.
Flattened(x) ==
  LET i == x[1] * Cols + x[2] IN << i \div Cols, i % Cols >>

Strays(cells) == { Flattened(x) : x \in cells \ Grid } \cap Grid

\* A variant that copies the row above into every row but k.
ClearRowButLast(b, k) ==
  { x \in Grid : IF x[1] >= k THEN x \in b
                              ELSE x[1] > 0 /\ <<x[1] - 1, x[2]>> \in b }

\* Row k disappears, the rows above it move down by one, row 0 becomes blank
\* and the rows below k keep their contents.
ClearRow(b, k) ==
  { x \in Grid : IF x[1] > k THEN x \in b
                             ELSE x[1] > 0 /\ <<x[1] - 1, x[2]>> \in b }
=============================================================================
