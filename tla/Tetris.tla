------------------------------- MODULE Tetris -------------------------------
(***************************************************************************)
(* The synchronous core of the game: block_motion.sv, rotate_block.sv,     *)
(* choose_block.sv and board.sv wired together as tetris_top.sv wires      *)
(* them.  All four are clocked by Clk, so one step of this specification   *)
(* is one rising edge of Clk and every register takes its new value from   *)
(* the old values of all the others.                                       *)
(*                                                                         *)
(* Three things come from outside: the keyboard register (keyboard.sv),    *)
(* the frame pulse (one Clk edge in about 840000, VGA_controller.sv), and  *)
(* the reset button.                                                       *)
(*                                                                         *)
(* Positions are in cells.  A cell is Step_Size = 9 pixels; the code's     *)
(* X_Pos is 270 + 9 * X_Pos here, and its Y_Pos is 135 + 9 * Y_Pos.        *)
(***************************************************************************)
EXTENDS BoardOps, Tetrominoes

CONSTANTS
  StartCol,   \* column of a new piece, (297 - 270) / 9 = 3
  XDelay,     \* frames before a sideways step, 6
  YDelay,     \* frames before a downward step, 50
  FastDelay,  \* the same while the down key is held, 5
  FrameGap,   \* clock edges between two frame pulses, at least (840000 in fact)
  ResetGap,   \* clock edges from the release of reset to a frame pulse
  ResetHold,  \* clock edges a press of the reset button lasts, at least
  ScoreMod,   \* the score is a 16-bit register: 2^16
  Sels,       \* the selectors the LFSR may supply
  Keys        \* what the keyboard register may show

\* "none" stands for keypress = 0; the others for keypress = 1 with keycode
\* 1C, 23, 1B, 1D, or any code the game ignores.
AllKeys == { "none", "A", "D", "S", "W", "other" }

ASSUME TetrisAssumption ==
  /\ StartCol \in Nat
  /\ StartCol + 4 <= Cols
  /\ Rows >= 4
  /\ XDelay \in Nat \ {0}
  /\ FastDelay \in Nat \ {0, 1}
  /\ YDelay \in Nat \ {0, 1}
  /\ FrameGap \in Nat \ {0}
  /\ ResetGap \in Nat \ {0}
  /\ ResetHold \in Nat \ {0}
  /\ ScoreMod \in Nat \ {0}
  /\ Sels \subseteq BlockSels /\ Sels # {}
  /\ Keys \subseteq AllKeys

VARIABLES
  key,         \* keyboard.sv: press and keyCode
  rotation,    \* rotate_block.sv: the n of Rotate_n or Rotate_n_wait
  waiting,     \* rotate_block.sv: the state is a Rotate_n_wait
  new_shape,   \* choose_block.sv: a new piece is to be drawn
  block_sel,   \* choose_block.sv: the current piece
  X_Pos, Y_Pos, X_Motion, Y_Motion, counter_x, counter_y,  \* block_motion.sv
  board,       \* board.sv: the occupied cells
  score,       \* board.sv: lines removed
  frameWait,   \* clock edges that must still pass before a frame pulse
  resetHeld    \* clock edges the reset button has been down, up to ResetHold

rotateVars == <<rotation, waiting>>
chooseVars == <<new_shape, block_sel>>
motionVars == <<X_Pos, Y_Pos, X_Motion, Y_Motion, counter_x, counter_y>>
boardVars == <<board, score>>
timeVars == <<frameWait, resetHeld>>
vars == <<key, rotateVars, chooseVars, motionVars, boardVars, timeVars>>

TypeOK ==
  /\ key \in AllKeys
  /\ rotation \in Rotations
  /\ waiting \in BOOLEAN
  /\ new_shape \in BOOLEAN
  /\ block_sel \in BlockSels
  /\ X_Pos \in Int
  /\ Y_Pos \in Int
  /\ X_Motion \in {-1, 0, 1}
  /\ Y_Motion \in {0, 1}
  /\ counter_x \in 0..XDelay
  /\ counter_y \in 0..(YDelay - 1)
  /\ board \in SUBSET Grid
  /\ score \in 0..(ScoreMod - 1)
  /\ frameWait \in Nat
  /\ resetHeld \in 0..ResetHold

----------------------------------------------------------------------------
\* The piece in play.

\* rot_sel: every Rotate_n_wait state drives the default, orientation 0
\* (rotate_block.sv:85-96), so a piece shows its first orientation for as long
\* as the key that turned it stays down.
rot_sel == IF waiting THEN 0 ELSE rotation

shape == Shape(block_sel, rot_sel)
block_size_x == Width[shape]
block_size_y == Height[shape]

At(d) == <<Y_Pos + d[1], X_Pos + d[2]>>
PieceCells == { At(d) : d \in Cells[shape] }

\* A read of cells of the board.  An index outside the array is don't-care to
\* the synthesis tool, so such a cell reads as whatever "stray" says.
Hits(probe, stray) ==
  \E d \in probe : IF At(d) \in Grid THEN At(d) \in board ELSE stray

----------------------------------------------------------------------------
\* board.sv

\* The nonblocking assignments of the line-clearing chain come last in the
\* block, so a complete line takes the whole board and the score away from
\* anything else that would write them on the same edge.
ClearLine ==
  \E k \in Clearable(board) :
    /\ FirstClearable(board, k)
    /\ board' = ClearRow(board, k)
    /\ score' = (score + 1) % ScoreMod

\* A variant that paints a piece only if all of it is on the board.
PaintIfOnBoard ==
  /\ Clearable(board) = {}
  /\ board' = IF PieceCells \subseteq Grid THEN board \cup PieceCells ELSE board
  /\ UNCHANGED score

\* Every cell of the piece is written; what a write outside the array does the
\* synthesis tool decides.
Paint ==
  /\ Clearable(board) = {}
  /\ \E spill \in SUBSET Strays(PieceCells) :
       board' = board \cup (PieceCells \cap Grid) \cup spill
  /\ UNCHANGED score

BoardEdge(at_bottom) ==
  \/ ClearLine
  \/ at_bottom /\ Paint
  \/ ~at_bottom /\ Clearable(board) = {} /\ UNCHANGED boardVars

\* A variant that leaves the score.
BoardResetKeepsScore ==
  \/ ClearLine
  \/ Clearable(board) = {} /\ board' = {} /\ UNCHANGED score

BoardReset ==
  \/ ClearLine
  \/ Clearable(board) = {} /\ board' = {} /\ score' = 0

----------------------------------------------------------------------------
\* choose_block.sv

ChooseEdge(at_bottom) ==
  \/ at_bottom /\ new_shape' = TRUE /\ UNCHANGED block_sel
  \/ ~at_bottom /\ new_shape /\ new_shape' = FALSE /\ block_sel' \in Sels
  \/ ~at_bottom /\ ~new_shape /\ UNCHANGED chooseVars

----------------------------------------------------------------------------
\* rotate_block.sv

\* The bounds test made when the key goes down.
RoomToTurn ==
  IF rotation % 2 = 0 THEN Y_Pos + block_size_x <= Rows
                      ELSE X_Pos + block_size_y <= Cols

RotateEdge ==
  \/ new_shape /\ rotation' = 0 /\ waiting' = FALSE
  \/ /\ ~new_shape /\ ~waiting /\ key = "W" /\ RoomToTurn
     /\ waiting' = TRUE /\ UNCHANGED rotation
  \/ /\ ~new_shape /\ waiting /\ key = "none"
     /\ waiting' = FALSE /\ rotation' = (rotation + 1) % 4
  \/ /\ ~new_shape
     /\ IF waiting THEN key # "none" ELSE ~(key = "W" /\ RoomToTurn)
     /\ UNCHANGED rotateVars

----------------------------------------------------------------------------
\* block_motion.sv, the combinational block of a frame pulse

\* A variant that forgets the floor.
LandsOnBlocksOnly(stray) == Hits(Below(shape), stray)

AtBottom(stray) == Y_Motion = 0 \/ Hits(Below(shape), stray)

GoLeft == key = "A" /\ X_Pos > 0
GoRight == key = "D" /\ X_Pos + block_size_x < Cols
AtSide == X_Pos + block_size_x >= Cols \/ X_Pos <= 0

\* A variant that notices the floor one row late.
AtFloorLate == Y_Pos + block_size_y > Rows

AtFloor == Y_Pos + block_size_y >= Rows

\* move_horiz is raised by an accepted key and also by touching either side.
move_horiz == GoLeft \/ GoRight \/ AtSide

\* A variant without the stop at either side.
NoStopAtSide(stray) ==
  IF AtFloor THEN 0
  ELSE IF GoLeft THEN IF Hits(LeftOf(shape), stray) THEN 0 ELSE -1
  ELSE IF GoRight THEN IF Hits(RightOf(shape), stray) THEN 0 ELSE 1
  ELSE X_Motion

X_Motion_in(stray) ==
  IF AtFloor THEN 0
  ELSE IF GoLeft THEN IF Hits(LeftOf(shape), stray) THEN 0 ELSE -1
  ELSE IF GoRight THEN IF Hits(RightOf(shape), stray) THEN 0 ELSE 1
  ELSE IF AtSide THEN 0 ELSE X_Motion

Y_Motion_in ==
  IF AtFloor THEN 0
  ELSE IF key = "S" \/ Y_Pos <= 0 THEN 1 ELSE Y_Motion

\* A sideways step uses the motion register, which holds the decision of an
\* earlier frame, not the one being made now.
StepSideways == move_horiz /\ counter_x = XDelay

\* A variant whose fast count replaces the slow one.
FastCountOnly ==
  IF key = "S" THEN counter_y + 1 = FastDelay ELSE counter_y + 1 = YDelay

\* fast_drop compares for equality: pressed late, it waits for the slow count.
StepDown ==
  \/ counter_y + 1 = YDelay
  \/ key = "S" /\ counter_y + 1 = FastDelay

MotionFrame(stray) ==
  /\ X_Pos' = IF StepSideways THEN X_Pos + X_Motion ELSE X_Pos
  /\ counter_x' = IF StepSideways THEN 0
                  ELSE IF move_horiz THEN counter_x + 1 ELSE counter_x
  /\ Y_Pos' = IF StepDown THEN Y_Pos + Y_Motion ELSE Y_Pos
  /\ counter_y' = IF StepDown THEN 0 ELSE counter_y + 1
  /\ X_Motion' = X_Motion_in(stray)
  /\ Y_Motion' = Y_Motion_in

MotionStart ==
  /\ X_Pos' = StartCol
  /\ Y_Pos' = 0
  /\ X_Motion' = 0
  /\ Y_Motion' = 1
  /\ counter_x' = 0
  /\ counter_y' = 0

----------------------------------------------------------------------------
Init ==
  /\ key \in Keys
  /\ rotation = 0 /\ waiting = FALSE
  /\ new_shape = TRUE /\ block_sel \in BlockSels
  /\ X_Pos = StartCol /\ Y_Pos = 0
  /\ X_Motion = 0 /\ Y_Motion = 1
  /\ counter_x = 0 /\ counter_y = 0
  /\ board = {} /\ score = 0
  /\ frameWait = ResetGap /\ resetHeld = ResetHold

\* The button stays down for ResetHold edges before anything else may happen.
ResetReleased == resetHeld \in {0, ResetHold}

\* A clock edge without a frame pulse: at_bottom is low and block_motion keeps
\* its registers.
IdleEdge ==
  /\ ResetReleased
  /\ BoardEdge(FALSE) /\ ChooseEdge(FALSE) /\ RotateEdge
  /\ frameWait' = IF frameWait > 0 THEN frameWait - 1 ELSE 0
  /\ resetHeld' = 0
  /\ UNCHANGED <<key, motionVars>>

FrameDue == ResetReleased /\ frameWait = 0

\* A frame pulse on which the piece is found to rest: it is painted, and the
\* next one is called for.
LandEdge ==
  /\ FrameDue
  /\ \E stray \in BOOLEAN : AtBottom(stray)
  /\ MotionStart /\ BoardEdge(TRUE) /\ ChooseEdge(TRUE) /\ RotateEdge
  /\ frameWait' = FrameGap
  /\ resetHeld' = 0
  /\ UNCHANGED key

\* A frame pulse on which it is not.
MoveEdge ==
  /\ FrameDue
  /\ \E stray \in BOOLEAN : ~AtBottom(stray)
  /\ \E stray \in BOOLEAN : MotionFrame(stray)
  /\ BoardEdge(FALSE) /\ ChooseEdge(FALSE) /\ RotateEdge
  /\ frameWait' = FrameGap
  /\ resetHeld' = 0
  /\ UNCHANGED key

\* A clock edge with the reset button down.  The keyboard register is the one
\* piece of state the button does not touch.
ResetEdge ==
  /\ MotionStart
  /\ rotation' = 0 /\ waiting' = FALSE
  /\ new_shape' = TRUE /\ UNCHANGED block_sel
  /\ BoardReset
  /\ frameWait' = ResetGap
  /\ resetHeld' = IF resetHeld < ResetHold THEN resetHeld + 1 ELSE ResetHold
  /\ UNCHANGED key

\* keyboard.sv shows another key, or none.
KeyEvent ==
  /\ key' \in Keys \ {key}
  /\ UNCHANGED <<rotateVars, chooseVars, motionVars, boardVars, timeVars>>

Next == IdleEdge \/ LandEdge \/ MoveEdge \/ ResetEdge \/ KeyEvent

Spec == Init /\ [][Next]_vars

\* The clock and the video timing never stop; the player may.
Fairness == WF_vars(IdleEdge) /\ WF_vars(LandEdge \/ MoveEdge)

FairSpec == Spec /\ Fairness
=============================================================================
