-------------------------- MODULE TetrisProperties --------------------------
(***************************************************************************)
(* What the game should guarantee, stated over the state of Tetris.        *)
(***************************************************************************)
EXTENDS Tetris

\* The board and the score as the other modules are entitled to see them, and
\* the piece as block_motion and choose_block place it.  A reset also raises
\* new_shape, but no piece has settled then.
Field == INSTANCE Playfield WITH wanted <- new_shape /\ resetHeld = 0,
                                 piece <- PieceCells

\* Whenever a frame pulse may come, the board has no complete line left to
\* remove and the new piece has been drawn.  board.sv gives the removal of a
\* line precedence over painting (the if at line 158 follows the paint branch,
\* and the last nonblocking assignment wins), so a pulse that found a line
\* still there could land a piece and lose it; and a pulse before choose_block
\* has drawn the piece would move the old one.  Nothing in the code orders
\* these; only the distance between two frames does.
QuietAtFrame ==
  FrameDue => Clearable(board) = {} /\ ~new_shape

\* Sideways, a piece never leaves the board on the left and never passes the
\* right edge by more than one column (block_motion.sv:245, 380, 527-534 and
\* the turning guard of rotate_block.sv:44).
ColumnsBounded ==
  /\ 0 <= X_Pos
  /\ X_Pos + block_size_x <= Cols + 1

\* However it is turned and driven, the upper left corner of a piece stays
\* high enough for its flattest orientation to fit above the bottom
\* (block_motion.sv:537-540, rotate_block.sv:30).
RowsBounded ==
  /\ 0 <= Y_Pos
  /\ Y_Pos + block_size_y <= Rows \/ Y_Pos + block_size_x <= Rows

\* A reset that has lasted as long as a press of the button does has emptied
\* the board and the score, although each complete line takes precedence over
\* the reset for one edge (board.sv:17-24 against 158-636).
ResetEmpties ==
  resetHeld = ResetHold => board = {} /\ score = 0

----------------------------------------------------------------------------
\* A piece that is wholly on the board and covers no occupied cell.
InPlace == PieceCells \subseteq Grid /\ PieceCells \cap board = {}

\* A frame that only lowers the piece, from a place that is free, never pushes
\* it into the stack: the cells block_motion tests (lines 83-238) are the ones
\* the piece is about to cover, for every shape and orientation.
FallIsClear ==
  [][ MoveEdge /\ InPlace /\ X_Pos' = X_Pos /\ shape' = shape
        => PieceCells' \cap board' = {} ]_vars

\* The decision a key press leaves in the motion register is the right one for
\* the place where it is taken: the piece is sent sideways exactly when every
\* cell it would enter is free (block_motion.sv:243-511).
DecisionMatchesBoard ==
  [][ MoveEdge /\ InPlace /\ ~AtFloor =>
        /\ GoLeft => (X_Motion' = -1 <=>
             \A x \in PieceCells : <<x[1], x[2] - 1>> \notin board)
        /\ GoRight => (X_Motion' = 1 <=>
             \A x \in PieceCells : <<x[1], x[2] + 1>> \notin board) ]_vars

\* What the comments of the code promise, and the code does not keep.

\* Turning keeps a piece on the board.  rotate_block.sv:30 says of its guard
\* "check if beyond boundary: if yes, stay horizontal and don't allow
\* rotation"; the guard is evaluated when the key goes down, the turn happens
\* when it comes up, and the piece falls in between.
TurnStaysOnBoard ==
  [][ IdleEdge /\ ~new_shape /\ PieceCells \subseteq Grid
        => PieceCells' \subseteq Grid ]_vars

\* A sideways step enters free cells only.  block_motion.sv:240 announces
\* "CHECK IF BLOCK RUNS INTO ANOTHER BLOCK (X DIRECTION)"; line 547 adds the
\* motion decided in an earlier frame, perhaps for another row.
SlideIsClear ==
  [][ MoveEdge /\ InPlace /\ Y_Pos' = Y_Pos /\ shape' = shape
        => PieceCells' \cap board' = {} ]_vars

----------------------------------------------------------------------------
\* The core implements the playing field of Playfield.tla: whenever
\* choose_block is told that a piece has landed, board.sv has painted all of
\* its cells and no others, since its paint branch and its line-clearing chain
\* never meet on one edge; and nothing else changes the board but a complete
\* line removed, lowest first, and a reset.
BoardIsAPlayfield == Field!FieldSpec

\* No sequence of keys keeps a piece up: a new one is called for again and
\* again (choose_block.sv:18-21), because counter_y runs whatever is pressed.
PiecesKeepComing == []<>new_shape
=============================================================================
