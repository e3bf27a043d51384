---------------------------- MODULE TetrisProofs ----------------------------
(***************************************************************************)
(* Proofs about Tetris, for every size of board, every delay and every set *)
(* of pieces and keys.                                                     *)
(***************************************************************************)
EXTENDS TetrisProperties, TLAPS

----------------------------------------------------------------------------
(* The hand-typed tables, entry by entry: the sizes of a turned piece, and
   that the cells block_motion reads are those the piece would enter. *)

\* The two dimensions of a piece as it is drawn: a piece lies flat first.
LongSide(sel) == Width[Shape(sel, 0)]
ShortSide(sel) == Height[Shape(sel, 0)]

\* Every selector and rotation has a shape, its sides are between one and four
\* cells long, and a quarter turn exchanges them (choose_block.sv:60-185).
LEMMA ShapeSizes ==
  ASSUME NEW sel \in BlockSels, NEW rot \in Rotations
  PROVE  /\ Shape(sel, rot) \in Shapes
         /\ LongSide(sel) \in 1..4 /\ ShortSide(sel) \in 1..2
         /\ ShortSide(sel) <= LongSide(sel)
         /\ rot \in {0, 2} => /\ Width[Shape(sel, rot)] = LongSide(sel)
                              /\ Height[Shape(sel, rot)] = ShortSide(sel)
         /\ rot \in {1, 3} => /\ Width[Shape(sel, rot)] = ShortSide(sel)
                              /\ Height[Shape(sel, rot)] = LongSide(sel)
<1>1. rot = 0 \/ rot = 1 \/ rot = 2 \/ rot = 3  BY DEF Rotations
<1>2. sel = 0 \/ sel = 1 \/ sel = 2 \/ sel = 3 \/ sel = 4 \/ sel = 5 \/ sel = 6
  BY DEF BlockSels
<1>3. CASE sel = 0
  BY <1>1, <1>3 DEF Shape, ShapeTable, LongSide, ShortSide, Width, Height, Shapes
<1>4. CASE sel = 1
  BY <1>1, <1>4 DEF Shape, ShapeTable, LongSide, ShortSide, Width, Height, Shapes
<1>5. CASE sel = 2
  BY <1>1, <1>5 DEF Shape, ShapeTable, LongSide, ShortSide, Width, Height, Shapes
<1>6. CASE sel = 3
  BY <1>1, <1>6 DEF Shape, ShapeTable, LongSide, ShortSide, Width, Height, Shapes
<1>7. CASE sel = 4
  BY <1>1, <1>7 DEF Shape, ShapeTable, LongSide, ShortSide, Width, Height, Shapes
<1>8. CASE sel = 5
  BY <1>1, <1>8 DEF Shape, ShapeTable, LongSide, ShortSide, Width, Height, Shapes
<1>9. CASE sel = 6
  BY <1>1, <1>9 DEF Shape, ShapeTable, LongSide, ShortSide, Width, Height, Shapes
<1>10. QED  BY <1>2, <1>3, <1>4, <1>5, <1>6, <1>7, <1>8, <1>9

\* The tables of block_motion.sv are complete and exact with respect to the
\* cells board.sv paints.  A piece moved down covers only cells it covered
\* before and cells the landing test reads (lines 83-238).  A piece moved
\* sideways covers only cells it covered before and cells the key's test reads,
\* and every cell read is one it would cover (lines 245-376, 380-511).
THEOREM TablesFit ==
  ASSUME NEW s \in Shapes
  PROVE  /\ \A d \in Cells[s] : <<d[1] + 1, d[2]>> \in Cells[s] \cup Below(s)
         /\ \A d \in Cells[s] : <<d[1], d[2] - 1>> \in Cells[s] \cup LeftOf(s)
         /\ \A e \in LeftOf(s) : <<e[1], e[2] + 1>> \in Cells[s]
         /\ \A d \in Cells[s] : <<d[1], d[2] + 1>> \in Cells[s] \cup RightOf(s)
         /\ \A e \in RightOf(s) : <<e[1], e[2] - 1>> \in Cells[s]
<1> USE DEF Cells, Below, LeftOf, RightOf, BelowTable, LeftTable, RightTable
<1>1. CASE s = "O"  BY <1>1
<1>2. CASE s = "I_horiz"  BY <1>2
<1>3. CASE s = "I_vert"  BY <1>3
<1>4. CASE s = "Z_horiz"  BY <1>4
<1>5. CASE s = "Z_vert"  BY <1>5
<1>6. CASE s = "S_horiz"  BY <1>6
<1>7. CASE s = "S_vert"  BY <1>7
<1>8. CASE s = "J_left"  BY <1>8
<1>9. CASE s = "J_up"  BY <1>9
<1>10. CASE s = "J_right"  BY <1>10
<1>11. CASE s = "J_down"  BY <1>11
<1>12. CASE s = "L_left"  BY <1>12
<1>13. CASE s = "L_up"  BY <1>13
<1>14. CASE s = "L_right"  BY <1>14
<1>15. CASE s = "L_down"  BY <1>15
<1>16. CASE s = "T_left"  BY <1>16
<1>17. CASE s = "T_up"  BY <1>17
<1>18. CASE s = "T_right"  BY <1>18
<1>19. CASE s = "T_down"  BY <1>19
<1> HIDE DEF Cells, Below, LeftOf, RightOf
<1>20. QED
  BY <1>1, <1>2, <1>3, <1>4, <1>5, <1>6, <1>7, <1>8, <1>9, <1>10, <1>11, <1>12,
     <1>13, <1>14, <1>15, <1>16, <1>17, <1>18, <1>19 DEF Shapes

\* Every cell of a piece lies inside its bounding box, and the cells are
\* offsets of integers.
LEMMA CellsInBox ==
  ASSUME NEW s \in Shapes
  PROVE  /\ \A d \in Cells[s] \cup Below(s) \cup LeftOf(s) \cup RightOf(s) :
              d[1] \in Int /\ d[2] \in Int /\ d = <<d[1], d[2]>>
         /\ \A d \in Cells[s] : /\ 0 <= d[1] /\ d[1] < Height[s]
                                /\ 0 <= d[2] /\ d[2] < Width[s]
<1> USE DEF Cells, Below, LeftOf, RightOf, BelowTable, LeftTable, RightTable,
            Height, Width
<1>1. CASE s = "O"  BY <1>1
<1>2. CASE s = "I_horiz"  BY <1>2
<1>3. CASE s = "I_vert"  BY <1>3
<1>4. CASE s = "Z_horiz"  BY <1>4
<1>5. CASE s = "Z_vert"  BY <1>5
<1>6. CASE s = "S_horiz"  BY <1>6
<1>7. CASE s = "S_vert"  BY <1>7
<1>8. CASE s = "J_left"  BY <1>8
<1>9. CASE s = "J_up"  BY <1>9
<1>10. CASE s = "J_right"  BY <1>10
<1>11. CASE s = "J_down"  BY <1>11
<1>12. CASE s = "L_left"  BY <1>12
<1>13. CASE s = "L_up"  BY <1>13
<1>14. CASE s = "L_right"  BY <1>14
<1>15. CASE s = "L_down"  BY <1>15
<1>16. CASE s = "T_left"  BY <1>16
<1>17. CASE s = "T_up"  BY <1>17
<1>18. CASE s = "T_right"  BY <1>18
<1>19. CASE s = "T_down"  BY <1>19
<1> HIDE DEF Cells, Below, LeftOf, RightOf, Height, Width
<1>20. QED
  BY <1>1, <1>2, <1>3, <1>4, <1>5, <1>6, <1>7, <1>8, <1>9, <1>10, <1>11, <1>12,
     <1>13, <1>14, <1>15, <1>16, <1>17, <1>18, <1>19 DEF Shapes

----------------------------------------------------------------------------
(* Sizes. *)

\* block_size_x of a piece in a state of rotate_block.
WidthOf(sel, rot, wait) == Width[Shape(sel, IF wait THEN 0 ELSE rot)]

\* What block_motion needs to know of block_size_x and block_size_y.
LEMMA SidesOfPiece ==
  ASSUME TypeOK
  PROVE  /\ LongSide(block_sel) \in 1..4 /\ ShortSide(block_sel) \in 1..2
         /\ ShortSide(block_sel) <= LongSide(block_sel)
         /\ rot_sel \in {0, 2} => /\ block_size_x = LongSide(block_sel)
                                  /\ block_size_y = ShortSide(block_sel)
         /\ rot_sel \in {1, 3} => /\ block_size_x = ShortSide(block_sel)
                                  /\ block_size_y = LongSide(block_sel)
         /\ rot_sel \in {0, 1, 2, 3}
         /\ block_size_x = WidthOf(block_sel, rotation, waiting)
         /\ block_size_y \in 1..4
<1>1. block_sel \in BlockSels /\ rot_sel \in Rotations
  BY DEF TypeOK, rot_sel, Rotations
<1>2. block_size_x = WidthOf(block_sel, rotation, waiting)
  BY DEF block_size_x, shape, rot_sel, WidthOf
<1>3. QED
  BY <1>1, <1>2, ShapeSizes DEF block_size_x, block_size_y, shape, Rotations

LEMMA SidesAfter ==
  ASSUME TypeOK'
  PROVE  /\ WidthOf(block_sel', rotation', waiting') \in 1..4
         /\ ShortSide(block_sel') \in 1..2
         /\ ~waiting' /\ rotation' \in {1, 3} =>
              WidthOf(block_sel', rotation', waiting') = ShortSide(block_sel')
         /\ waiting' \/ rotation' \in {0, 2} =>
              WidthOf(block_sel', rotation', waiting') = LongSide(block_sel')
<1>1. block_sel' \in BlockSels /\ (IF waiting' THEN 0 ELSE rotation') \in Rotations
  BY DEF TypeOK, Rotations
<1>2. QED
  BY <1>1, ShapeSizes DEF WidthOf, Rotations, ShortSide, LongSide

----------------------------------------------------------------------------
(* Types. *)

\* Removing a row leaves a set of cells of the grid, and the score in range.
LEMMA BoardEdgeType ==
  ASSUME TypeOK, ClearLine \/ Paint \/ UNCHANGED boardVars
                 \/ (board' = {} /\ score' = 0)
  PROVE  board' \in SUBSET Grid /\ score' \in 0..(ScoreMod - 1)
<1>1. ScoreMod \in Nat \ {0}  BY TetrisAssumption
<1>2. CASE ClearLine
  BY <1>1, <1>2 DEF ClearLine, ClearRow, TypeOK
<1>3. CASE Paint
  BY <1>3 DEF Paint, Strays, TypeOK
<1>4. CASE UNCHANGED boardVars
  BY <1>4 DEF boardVars, TypeOK
<1>5. CASE board' = {} /\ score' = 0
  BY <1>1, <1>5
<1>6. QED  BY <1>2, <1>3, <1>4, <1>5

\* One case of rotate_block keeps its registers in range.
LEMMA RotateEdgeType ==
  ASSUME TypeOK, RotateEdge
  PROVE  rotation' \in Rotations /\ waiting' \in BOOLEAN
<1>1. rotation' \in Rotations
  BY DEF TypeOK, RotateEdge, rotateVars, Rotations
<1>2. waiting' \in BOOLEAN
  BY Zenon DEF TypeOK, RotateEdge, rotateVars
<1>3. QED  BY <1>1, <1>2

\* The delay counters are compared for equality with their limits (lines 546
\* and 555), so they must never pass them.
LEMMA MotionFrameType ==
  ASSUME TypeOK, NEW stray \in BOOLEAN, MotionFrame(stray)
  PROVE  /\ X_Pos' \in Int /\ Y_Pos' \in Int
         /\ X_Motion' \in {-1, 0, 1} /\ Y_Motion' \in {0, 1}
         /\ counter_x' \in 0..XDelay /\ counter_y' \in 0..(YDelay - 1)
<1> USE DEF TypeOK
<1>1. XDelay \in Nat \ {0} /\ YDelay \in Nat \ {0, 1}  BY TetrisAssumption
<1>2. X_Pos' \in Int /\ Y_Pos' \in Int  BY DEF MotionFrame
<1>3. X_Motion' \in {-1, 0, 1}  BY DEF MotionFrame, X_Motion_in
<1>4. Y_Motion' \in {0, 1}  BY DEF MotionFrame, Y_Motion_in
<1>5. counter_x' \in 0..XDelay  BY <1>1 DEF MotionFrame, StepSideways
<1>6. counter_y' \in 0..(YDelay - 1)  BY <1>1 DEF MotionFrame, StepDown
<1>7. QED  BY <1>2, <1>3, <1>4, <1>5, <1>6

LEMMA MotionStartType ==
  ASSUME MotionStart
  PROVE  /\ X_Pos' \in Int /\ Y_Pos' \in Int
         /\ X_Motion' \in {-1, 0, 1} /\ Y_Motion' \in {0, 1}
         /\ counter_x' \in 0..XDelay /\ counter_y' \in 0..(YDelay - 1)
BY TetrisAssumption DEF MotionStart

LEMMA InitType == Init => TypeOK
<1> SUFFICES ASSUME Init PROVE TypeOK
  OBVIOUS
<1>1. rotation \in Rotations  BY DEF Init, Rotations
<1>2. waiting \in BOOLEAN /\ new_shape \in BOOLEAN  BY Zenon DEF Init
<1>3. /\ X_Pos \in Int /\ Y_Pos \in Int
      /\ X_Motion \in {-1, 0, 1} /\ Y_Motion \in {0, 1}
      /\ counter_x \in 0..XDelay /\ counter_y \in 0..(YDelay - 1)
  BY TetrisAssumption DEF Init
<1>4. /\ board \in SUBSET Grid /\ score \in 0..(ScoreMod - 1)
      /\ frameWait \in Nat /\ resetHeld \in 0..ResetHold
  BY TetrisAssumption DEF Init
<1>5. key \in AllKeys /\ block_sel \in BlockSels
  BY TetrisAssumption DEF Init
<1>6. QED  BY <1>1, <1>2, <1>3, <1>4, <1>5 DEF TypeOK

LEMMA NextType == TypeOK /\ [Next]_vars => TypeOK'
<1> SUFFICES ASSUME TypeOK, [Next]_vars PROVE TypeOK'
  OBVIOUS
<1>0. /\ FrameGap \in Nat /\ ResetGap \in Nat /\ ResetHold \in Nat \ {0}
      /\ Sels \subseteq BlockSels /\ Keys \subseteq AllKeys
  BY TetrisAssumption
<1>1. CASE IdleEdge
  <2>1. board' \in SUBSET Grid /\ score' \in 0..(ScoreMod - 1)
    BY <1>1, BoardEdgeType DEF IdleEdge, BoardEdge
  <2>2. rotation' \in Rotations /\ waiting' \in BOOLEAN
    BY <1>1, RotateEdgeType DEF IdleEdge
  <2>3. new_shape' \in BOOLEAN /\ block_sel' \in BlockSels
    BY <1>0, <1>1 DEF IdleEdge, ChooseEdge, chooseVars, TypeOK
  <2>4. frameWait' \in Nat /\ resetHeld' \in 0..ResetHold
    BY <1>0, <1>1 DEF IdleEdge, TypeOK
  <2>5. QED
    BY <1>1, <2>1, <2>2, <2>3, <2>4 DEF IdleEdge, motionVars, TypeOK
<1>2. CASE LandEdge
  <2>1. board' \in SUBSET Grid /\ score' \in 0..(ScoreMod - 1)
    BY <1>2, BoardEdgeType DEF LandEdge, BoardEdge
  <2>2. rotation' \in Rotations /\ waiting' \in BOOLEAN
    BY <1>2, RotateEdgeType DEF LandEdge
  <2>3. new_shape' \in BOOLEAN /\ block_sel' \in BlockSels
    BY <1>2 DEF LandEdge, ChooseEdge, TypeOK
  <2>4. QED
    BY <1>0, <1>2, <2>1, <2>2, <2>3, MotionStartType DEF LandEdge, TypeOK
<1>3. CASE MoveEdge
  <2>1. board' \in SUBSET Grid /\ score' \in 0..(ScoreMod - 1)
    BY <1>3, BoardEdgeType DEF MoveEdge, BoardEdge
  <2>2. rotation' \in Rotations /\ waiting' \in BOOLEAN
    BY <1>3, RotateEdgeType DEF MoveEdge
  <2>3. new_shape' \in BOOLEAN /\ block_sel' \in BlockSels
    BY <1>0, <1>3 DEF MoveEdge, ChooseEdge, chooseVars, TypeOK
  <2>4. PICK stray \in BOOLEAN : MotionFrame(stray)
    BY <1>3 DEF MoveEdge
  <2>5. QED
    BY <1>0, <1>3, <2>1, <2>2, <2>3, <2>4, MotionFrameType DEF MoveEdge, TypeOK
<1>4. CASE ResetEdge
  <2>1. board' \in SUBSET Grid /\ score' \in 0..(ScoreMod - 1)
    BY <1>4, BoardEdgeType DEF ResetEdge, BoardReset
  <2>2. resetHeld' \in 0..ResetHold
    BY <1>0, <1>4 DEF ResetEdge, TypeOK
  <2>3. rotation' \in Rotations  BY <1>4 DEF ResetEdge, Rotations
  <2>4. waiting' \in BOOLEAN /\ new_shape' \in BOOLEAN
    BY <1>4, Zenon DEF ResetEdge
  <2>5. QED
    BY <1>0, <1>4, <2>1, <2>2, <2>3, <2>4, MotionStartType DEF ResetEdge, TypeOK
<1>5. CASE KeyEvent
  BY <1>0, <1>5 DEF KeyEvent, rotateVars, chooseVars, motionVars, boardVars,
                    timeVars, TypeOK
<1>6. CASE UNCHANGED vars
  BY <1>6 DEF vars, rotateVars, chooseVars, motionVars, boardVars, timeVars,
              TypeOK
<1>7. QED  BY <1>1, <1>2, <1>3, <1>4, <1>5, <1>6 DEF Next

\* Every register stays in its range; in particular neither delay counter
\* ever passes the value it is compared with (block_motion.sv:546, 555).
THEOREM TypeCorrect == Spec => []TypeOK
<1>1. QED  BY InitType, NextType, PTL DEF Spec

----------------------------------------------------------------------------
(* Where the piece can be. *)

\* A piece that choose_block has not drawn yet stands at the start.
FreshInv ==
  new_shape => /\ frameWait > 0
               /\ X_Pos = StartCol /\ Y_Pos = 0 /\ X_Motion = 0

\* A piece that is sent left has a column to its left, or has just arrived.
LeftInv ==
  /\ 0 <= X_Pos
  /\ X_Pos = 0 /\ X_Motion = -1 => counter_x = 0

\* A piece that is sent right is inside the right edge, so one step that was
\* decided too early takes it one column out and no further.
RightInv ==
  /\ X_Pos + WidthOf(block_sel, rotation, waiting) <= Cols + 1
  /\ X_Motion = 1 => X_Pos + WidthOf(block_sel, rotation, waiting) <= Cols

\* A piece that is lying on the bottom row and still sent down has just
\* arrived there, and the next frame stops it before it is lowered again.
BottomInv ==
  /\ 0 <= Y_Pos
  /\ Y_Pos + ShortSide(block_sel) <= Rows
  /\ Y_Pos + ShortSide(block_sel) = Rows /\ Y_Motion = 1 => counter_y = 0

PlaceInv == FreshInv /\ LeftInv /\ RightInv /\ BottomInv

\* What turning does to the width: a piece becomes wider only on the edge on
\* which the key is accepted, and rotate_block.sv:44 has then checked the room.
LEMMA TurnFits ==
  ASSUME TypeOK, TypeOK', RotateEdge, ~new_shape, UNCHANGED block_sel
  PROVE  \/ WidthOf(block_sel', rotation', waiting')
              <= WidthOf(block_sel, rotation, waiting)
         \/ /\ key = "W"
            /\ X_Pos + WidthOf(block_sel', rotation', waiting') <= Cols
<1> DEFINE long == LongSide(block_sel)  short == ShortSide(block_sel)
           w == WidthOf(block_sel, rotation, waiting)
<1>1. /\ long \in 1..4 /\ short \in 1..2 /\ short <= long
      /\ rot_sel \in {0, 2} => w = long /\ block_size_y = short
      /\ rot_sel \in {1, 3} => w = short /\ block_size_y = long
      /\ rot_sel \in {0, 1, 2, 3}
      /\ block_size_x = w
  BY SidesOfPiece
<1>2. /\ ~waiting' /\ rotation' \in {1, 3} => w' = short
      /\ waiting' \/ rotation' \in {0, 2} => w' = long
  BY SidesAfter
<1>3. X_Pos \in Int /\ rotation \in {0, 1, 2, 3} /\ rotation' \in {0, 1, 2, 3}
  BY DEF TypeOK, Rotations
<1>4. CASE waiting
  \* A waiting piece is shown flat: no orientation is wider.
  <2>1. w = long  BY <1>1, <1>4 DEF rot_sel
  <2>2. w' \in {long, short}  BY <1>2, <1>3
  <2>3. QED  BY <1>1, <2>1, <2>2
<1>5. CASE ~waiting /\ key = "W" /\ RoomToTurn
  <2>1. w' = long
    BY <1>2, <1>5 DEF RotateEdge
  <2>2. CASE rotation \in {0, 2}
    BY <1>1, <1>5, <2>1, <2>2 DEF rot_sel
  <2>3. CASE rotation \in {1, 3}
    BY <1>1, <1>3, <1>5, <2>1, <2>3 DEF rot_sel, RoomToTurn
  <2>4. QED  BY <1>3, <2>2, <2>3
<1>6. CASE ~waiting /\ ~(key = "W" /\ RoomToTurn)
  <2>1. rotation' = rotation /\ waiting' = waiting
    BY <1>6 DEF RotateEdge, rotateVars
  <2>2. w' = w  BY <2>1
  <2>3. w \in {long, short}  BY <1>1
  <2>4. QED  BY <1>1, <2>2, <2>3
<1>7. QED  BY <1>4, <1>5, <1>6

\* A piece at the start has room for every orientation.
LEMMA StartFits ==
  ASSUME TypeOK, X_Pos = StartCol, Y_Pos = 0, X_Motion = 0
  PROVE  LeftInv /\ RightInv /\ BottomInv
<1>1. /\ WidthOf(block_sel, rotation, waiting) \in 1..4
      /\ ShortSide(block_sel) \in 1..2
  BY SidesOfPiece
<1>2. StartCol \in Nat /\ Rows \in Nat /\ Cols \in Nat
      /\ StartCol + 4 <= Cols /\ Rows >= 4
  BY GridAssumption, TetrisAssumption
<1>3. QED  BY <1>1, <1>2 DEF LeftInv, RightInv, BottomInv

LEMMA PlaceIdle ==
  ASSUME TypeOK, TypeOK', PlaceInv, IdleEdge
  PROVE  PlaceInv'
<1>0. /\ Cols \in Nat /\ Rows \in Nat /\ Rows >= 4 /\ StartCol \in Nat
      /\ StartCol + 4 <= Cols /\ XDelay \in Nat \ {0}
      /\ FastDelay \in Nat \ {0, 1} /\ YDelay \in Nat \ {0, 1}
      /\ X_Pos \in Int /\ X_Pos' \in Int /\ Y_Pos \in Int /\ Y_Pos' \in Int
  BY GridAssumption, TetrisAssumption DEF TypeOK
<1>1. /\ X_Pos' = X_Pos /\ Y_Pos' = Y_Pos /\ X_Motion' = X_Motion
      /\ Y_Motion' = Y_Motion /\ counter_x' = counter_x /\ counter_y' = counter_y
  BY DEF IdleEdge, motionVars
<1>2. ~new_shape'  BY DEF IdleEdge, ChooseEdge, chooseVars
<1>3. CASE new_shape
  <2>1. X_Pos' = StartCol /\ Y_Pos' = 0 /\ X_Motion' = 0
    BY <1>1, <1>3 DEF PlaceInv, FreshInv
  <2>2. LeftInv /\ RightInv /\ BottomInv
    BY DEF PlaceInv
  <2>3. /\ WidthOf(block_sel', rotation', waiting') \in 1..4
        /\ ShortSide(block_sel') \in 1..2
    BY SidesAfter
  <2>4. QED
    BY <1>0, <1>2, <2>1, <2>3 DEF PlaceInv, FreshInv, LeftInv, RightInv, BottomInv
<1>4. CASE ~new_shape
  <2>1. UNCHANGED block_sel /\ RotateEdge
    BY <1>4 DEF IdleEdge, ChooseEdge, chooseVars
  <2>2. ShortSide(block_sel') = ShortSide(block_sel)
    BY <2>1
  <2>3. \/ WidthOf(block_sel', rotation', waiting')
             <= WidthOf(block_sel, rotation, waiting)
        \/ X_Pos + WidthOf(block_sel', rotation', waiting') <= Cols
    BY <1>4, <2>1, TurnFits
  <2>4. /\ WidthOf(block_sel, rotation, waiting) \in Int
        /\ WidthOf(block_sel', rotation', waiting') \in Int
    BY SidesOfPiece, SidesAfter
  <2>5. RightInv'
    BY <1>0, <1>1, <2>3, <2>4 DEF PlaceInv, RightInv
  <2>6. LeftInv' /\ BottomInv'
    BY <1>1, <2>2 DEF PlaceInv, LeftInv, BottomInv
  <2>7. QED  BY <1>2, <2>5, <2>6 DEF PlaceInv, FreshInv
<1>5. QED  BY <1>3, <1>4

LEMMA PlaceStart ==
  ASSUME TypeOK', MotionStart, frameWait' > 0
  PROVE  PlaceInv'
<1>1. X_Pos' = StartCol /\ Y_Pos' = 0 /\ X_Motion' = 0
  BY DEF MotionStart
<1>2. /\ WidthOf(block_sel', rotation', waiting') \in 1..4
      /\ ShortSide(block_sel') \in 1..2
  BY SidesAfter
<1>3. QED
  BY <1>1, <1>2, GridAssumption, TetrisAssumption
  DEF PlaceInv, FreshInv, LeftInv, RightInv, BottomInv

LEMMA PlaceMove ==
  ASSUME TypeOK, TypeOK', PlaceInv, MoveEdge
  PROVE  PlaceInv'
<1>0. /\ Cols \in Nat /\ Rows \in Nat /\ Rows >= 4 /\ StartCol \in Nat
      /\ StartCol + 4 <= Cols /\ XDelay \in Nat \ {0}
      /\ FastDelay \in Nat \ {0, 1} /\ YDelay \in Nat \ {0, 1}
      /\ X_Pos \in Int /\ X_Pos' \in Int /\ Y_Pos \in Int /\ Y_Pos' \in Int
  BY GridAssumption, TetrisAssumption DEF TypeOK
<1> DEFINE w == WidthOf(block_sel, rotation, waiting)
           short == ShortSide(block_sel)
<1>1. ~new_shape
  BY DEF MoveEdge, FrameDue, PlaceInv, FreshInv
<1>2. UNCHANGED chooseVars /\ RotateEdge
  BY <1>1 DEF MoveEdge, ChooseEdge
<1>3. PICK stray \in BOOLEAN : MotionFrame(stray)
  BY DEF MoveEdge
<1>4. w \in 1..4 /\ w' \in 1..4 /\ short \in 1..2 /\ short' = short
      /\ short <= block_size_y /\ block_size_y \in 1..4 /\ block_size_x = w
  BY <1>2, SidesOfPiece, SidesAfter DEF chooseVars
<1>5. w' <= w \/ (key = "W" /\ X_Pos + w' <= Cols)
  BY <1>1, <1>2, TurnFits DEF chooseVars
<1>6. /\ X_Pos' = IF StepSideways THEN X_Pos + X_Motion ELSE X_Pos
      /\ counter_x' = IF StepSideways THEN 0
                      ELSE IF move_horiz THEN counter_x + 1 ELSE counter_x
      /\ Y_Pos' = IF StepDown THEN Y_Pos + Y_Motion ELSE Y_Pos
      /\ counter_y' = IF StepDown THEN 0 ELSE counter_y + 1
  BY <1>3 DEF MotionFrame
<1>7. LeftInv'
  <2>1. StepSideways => counter_x > 0
    BY <1>0 DEF StepSideways, TypeOK
  <2>2. X_Pos' = 0 /\ X_Motion' = -1 => counter_x' = 0
    <3>1. X_Motion' = -1 => ~AtSide \/ GoLeft
      BY <1>3 DEF MotionFrame, X_Motion_in
    <3>2. X_Motion' = -1 => X_Pos > 0
      BY <1>0, <3>1 DEF AtSide, GoLeft, PlaceInv, LeftInv, TypeOK
    <3>3. QED  BY <1>0, <1>6, <3>2 DEF TypeOK
  <2>3. 0 <= X_Pos'
    BY <1>0, <1>6, <2>1 DEF PlaceInv, LeftInv, TypeOK
  <2>4. QED  BY <2>2, <2>3 DEF LeftInv
<1>8. RightInv'
  <2>1. X_Pos + w <= Cols + 1 /\ (X_Motion = 1 => X_Pos + w <= Cols)
    BY DEF PlaceInv, RightInv
  <2>2. X_Motion' = 1 => \/ GoRight
                         \/ ~AtSide /\ ~GoLeft /\ X_Motion = 1
    BY <1>3 DEF MotionFrame, X_Motion_in
  <2>3. GoRight => key = "D" /\ X_Pos + w < Cols
    BY <1>4 DEF GoRight
  <2>4. ~AtSide => X_Pos + w < Cols
    BY <1>0, <1>4 DEF AtSide
  <2>5. X_Pos' <= X_Pos + 1 /\ (X_Pos' > X_Pos => X_Motion = 1)
    BY <1>0, <1>6 DEF TypeOK
  <2>6. X_Pos' + w' <= Cols + 1
    BY <1>0, <1>4, <1>5, <2>1, <2>5
  <2>7. ASSUME X_Motion' = 1 PROVE X_Pos' + w' <= Cols
    <3>1. X_Pos + w < Cols  BY <2>2, <2>3, <2>4, <2>7
    <3>2. CASE w' <= w
      BY <1>0, <1>4, <2>5, <3>1, <3>2
    <3>3. CASE key = "W" /\ X_Pos + w' <= Cols
      \* The turning key is down, so nothing moves the piece sideways.
      <4>1. ~GoRight /\ ~GoLeft  BY <3>3 DEF GoRight, GoLeft
      <4>2. ~move_horiz
        BY <2>2, <2>7, <4>1 DEF move_horiz
      <4>3. X_Pos' = X_Pos  BY <1>6, <4>2 DEF StepSideways
      <4>4. QED  BY <3>3, <4>3
    <3>4. QED  BY <1>5, <3>2, <3>3
  <2>8. QED  BY <2>6, <2>7 DEF RightInv
<1>9. BottomInv'
  <2>1. /\ 0 <= Y_Pos /\ Y_Pos + short <= Rows
        /\ Y_Pos + short = Rows /\ Y_Motion = 1 => counter_y = 0
    BY DEF PlaceInv, BottomInv
  <2>2. StepDown => counter_y > 0
    BY <1>0 DEF StepDown, TypeOK
  <2>3. Y_Pos' + short <= Rows /\ 0 <= Y_Pos'
    BY <1>0, <1>4, <1>6, <2>1, <2>2 DEF TypeOK
  <2>4. Y_Pos' + short = Rows /\ Y_Motion' = 1 => counter_y' = 0
    <3>1. Y_Motion' = 1 => ~AtFloor
      BY <1>3 DEF MotionFrame, Y_Motion_in
    <3>2. Y_Motion' = 1 => Y_Pos + short < Rows
      BY <1>0, <1>4, <3>1 DEF AtFloor, TypeOK
    <3>3. QED  BY <1>0, <1>4, <1>6, <3>2 DEF TypeOK
  <2>5. QED  BY <1>4, <2>3, <2>4 DEF BottomInv
<1>10. FreshInv'
  BY <1>1, <1>2 DEF FreshInv, chooseVars
<1>11. QED  BY <1>7, <1>8, <1>9, <1>10 DEF PlaceInv

LEMMA PlaceInit == Init => PlaceInv
<1> SUFFICES ASSUME Init PROVE PlaceInv
  OBVIOUS
<1>1. X_Pos = StartCol /\ Y_Pos = 0 /\ X_Motion = 0 /\ frameWait > 0
  BY TetrisAssumption DEF Init
<1>2. QED  BY <1>1, InitType, StartFits DEF PlaceInv, FreshInv

LEMMA PlaceNext == TypeOK /\ TypeOK' /\ PlaceInv /\ [Next]_vars => PlaceInv'
<1> SUFFICES ASSUME TypeOK, TypeOK', PlaceInv, [Next]_vars PROVE PlaceInv'
  OBVIOUS
<1>1. CASE IdleEdge  BY <1>1, PlaceIdle
<1>2. CASE LandEdge
  <2>1. frameWait' > 0  BY <1>2, TetrisAssumption DEF LandEdge
  <2>2. QED  BY <1>2, <2>1, PlaceStart DEF LandEdge
<1>3. CASE MoveEdge  BY <1>3, PlaceMove
<1>4. CASE ResetEdge
  <2>1. frameWait' > 0  BY <1>4, TetrisAssumption DEF ResetEdge
  <2>2. QED  BY <1>4, <2>1, PlaceStart DEF ResetEdge
<1>5. CASE UNCHANGED <<rotateVars, chooseVars, motionVars, timeVars>>
  BY <1>5 DEF rotateVars, chooseVars, motionVars, timeVars, PlaceInv, FreshInv,
     LeftInv, RightInv, BottomInv
<1>6. QED
  BY <1>1, <1>2, <1>3, <1>4, <1>5 DEF Next, KeyEvent, vars

\* The invariant the two bounds are parts of.
LEMMA PlaceCorrect == Spec => []PlaceInv
<1>1. Init => TypeOK /\ PlaceInv  BY InitType, PlaceInit
<1>2. TypeOK /\ PlaceInv /\ [Next]_vars => (TypeOK /\ PlaceInv)'
  BY NextType, PlaceNext
<1>3. QED  BY <1>1, <1>2, PTL DEF Spec

\* A piece never leaves the board on the left and never passes the right edge
\* by more than one column, whatever is pressed when (block_motion.sv:245, 380,
\* 527-534, rotate_block.sv:44).
THEOREM ColumnsCorrect == Spec => []ColumnsBounded
<1>1. TypeOK /\ PlaceInv => ColumnsBounded
  BY SidesOfPiece DEF PlaceInv, LeftInv, RightInv, ColumnsBounded
<1>2. QED  BY <1>1, TypeCorrect, PlaceCorrect, PTL

\* A piece never sinks below the row its flattest orientation needs, and never
\* rises above the board (block_motion.sv:537-540, rotate_block.sv:30).
THEOREM RowsCorrect == Spec => []RowsBounded
<1>1. TypeOK /\ PlaceInv => RowsBounded
  BY SidesOfPiece DEF PlaceInv, BottomInv, RowsBounded
<1>2. QED  BY <1>1, TypeCorrect, PlaceCorrect, PTL

----------------------------------------------------------------------------
(* Complete lines are gone before anything else happens to the board. *)

\* What the distance between two frames, and the time a hand needs to press
\* and release a button, must be for the board to be ready: a line takes one
\* clock edge to remove, and there are no more lines than rows.
EnoughTime == FrameGap >= Rows /\ ResetHold > Rows

\* The n topmost rows are blank.
BlankDownTo(b, n) == \A x \in b : x[1] >= n

\* While lines are being removed after a landing, at least one row has become
\* blank at the top on every clock edge.
ClearingInv ==
  resetHeld = 0 =>
    Clearable(board) = {} \/ BlankDownTo(board, FrameGap - frameWait)

\* The same while the reset button is down, until no line is left and the
\* reset gets through.
WipingInv ==
  resetHeld > 0 =>
    \/ board = {} /\ score = 0
    \/ resetHeld <= Rows /\ BlankDownTo(board, resetHeld)

BoardInv == ClearingInv /\ WipingInv

\* Removing a line leaves one more blank row, and the line was below the blank
\* rows.
LEMMA ClearRowBlanks ==
  ASSUME NEW b \in SUBSET Grid, NEW k \in Clearable(b), NEW n \in Int,
         \A x \in b : x[1] >= n
  PROVE  /\ n <= k /\ k < Rows
         /\ \A x \in ClearRow(b, k) : x[1] >= n + 1
<1>1. Rows \in Nat /\ Cols \in Nat \ {0} /\ ClearTop \in Nat
  BY GridAssumption
<1>2. k \in ClearTop..(Rows - 1) /\ Full(b, k)
  BY DEF Clearable
<1>3. <<k, 0>> \in b
  <2>1. 0 \in 0..(Cols - 1)  BY <1>1
  <2>2. QED  BY <1>2, <2>1 DEF Full
<1>4. n <= k
  <2>1. <<k, 0>>[1] >= n  BY <1>3
  <2>2. QED  BY <1>1, <1>2, <2>1
<1>5. ASSUME NEW x \in ClearRow(b, k) PROVE x[1] >= n + 1
  <2>1. x \in Grid /\ x[1] \in Int  BY <1>1 DEF ClearRow, Grid
  <2>2. CASE x[1] > k
    BY <1>1, <1>2, <1>4, <2>1, <2>2
  <2>3. CASE ~(x[1] > k)
    <3>1. <<x[1] - 1, x[2]>> \in b  BY <2>3 DEF ClearRow
    <3>2. <<x[1] - 1, x[2]>>[1] >= n  BY <3>1
    <3>3. QED  BY <2>1, <3>2
  <2>4. QED  BY <2>2, <2>3
<1>6. QED  BY <1>1, <1>2, <1>4, <1>5

\* An empty board has no complete line: a row has at least one cell.
LEMMA NothingToClear ==
  ASSUME NEW b, b = {}
  PROVE  Clearable(b) = {}
<1>1. 0 \in 0..(Cols - 1)  BY GridAssumption
<1>2. QED  BY <1>1 DEF Clearable, Full

LEMMA ClearLineStep ==
  ASSUME TypeOK, ClearLine, NEW n \in Int, BlankDownTo(board, n)
  PROVE  n < Rows /\ BlankDownTo(board', n + 1)
<1>1. PICK k \in Clearable(board) : board' = ClearRow(board, k)
  BY DEF ClearLine
<1>2. board \in SUBSET Grid  BY DEF TypeOK
<1>3. \A x \in board : x[1] >= n  BY DEF BlankDownTo
<1>4. n <= k /\ k < Rows /\ \A x \in ClearRow(board, k) : x[1] >= n + 1
  BY <1>2, <1>3, ClearRowBlanks
<1>5. k \in Int  BY GridAssumption DEF Clearable
<1>6. QED  BY <1>1, <1>4, <1>5, GridAssumption DEF BlankDownTo

\* When a frame pulse comes, every line is gone.
LEMMA QuietLemma ==
  ASSUME EnoughTime, TypeOK, PlaceInv, BoardInv, FrameDue
  PROVE  Clearable(board) = {} /\ ~new_shape
<1>1. ~new_shape  BY DEF FrameDue, PlaceInv, FreshInv
<1>2. Rows \in Nat /\ FrameGap \in Nat /\ ResetHold \in Nat \ {0}
  BY GridAssumption, TetrisAssumption
<1>3. CASE resetHeld = 0
  <2>1. Clearable(board) = {} \/ BlankDownTo(board, FrameGap)
    BY <1>2, <1>3 DEF BoardInv, ClearingInv, FrameDue
  <2>2. BlankDownTo(board, FrameGap) => board = {}
    BY <1>2 DEF EnoughTime, BlankDownTo, TypeOK, Grid
  <2>3. QED  BY <1>1, <2>1, <2>2, NothingToClear
<1>4. CASE resetHeld = ResetHold
  <2>1. board = {}
    BY <1>2, <1>4 DEF BoardInv, WipingInv, EnoughTime
  <2>2. QED  BY <1>1, <2>1, NothingToClear
<1>5. QED  BY <1>3, <1>4 DEF FrameDue, ResetReleased

LEMMA BoardIdle ==
  ASSUME EnoughTime, TypeOK, BoardInv, IdleEdge
  PROVE  BoardInv'
<1>1. /\ resetHeld' = 0 /\ ResetReleased /\ BoardEdge(FALSE)
      /\ frameWait' = IF frameWait > 0 THEN frameWait - 1 ELSE 0
  BY DEF IdleEdge
<1>2. Rows \in Nat /\ FrameGap \in Nat /\ ResetHold \in Nat \ {0}
      /\ frameWait \in Nat
  BY GridAssumption, TetrisAssumption DEF TypeOK
<1>3. ClearingInv'
  <2>1. CASE ClearLine
    <3>1. board # {}  BY <2>1, NothingToClear DEF ClearLine
    <3>2. resetHeld = 0
      BY <1>1, <1>2, <3>1 DEF ResetReleased, BoardInv, WipingInv, EnoughTime
    <3>3. BlankDownTo(board, FrameGap - frameWait)
      BY <2>1, <3>2 DEF BoardInv, ClearingInv, ClearLine
    <3>4. /\ FrameGap - frameWait < Rows
          /\ BlankDownTo(board', FrameGap - frameWait + 1)
      BY <1>2, <2>1, <3>3, ClearLineStep
    <3>5. frameWait > 0  BY <1>2, <3>4 DEF EnoughTime
    <3>6. FrameGap - frameWait' = FrameGap - frameWait + 1
      BY <1>1, <1>2, <3>5
    <3>7. QED  BY <3>4, <3>6 DEF ClearingInv, BlankDownTo
  <2>2. CASE Clearable(board) = {} /\ UNCHANGED boardVars
    BY <2>2 DEF boardVars, ClearingInv, Clearable, Full
  <2>3. QED  BY <1>1, <2>1, <2>2 DEF BoardEdge
<1>4. WipingInv'  BY <1>1 DEF WipingInv
<1>5. QED  BY <1>3, <1>4 DEF BoardInv

LEMMA BoardLand ==
  ASSUME EnoughTime, TypeOK, TypeOK', PlaceInv, BoardInv, LandEdge
  PROVE  BoardInv' /\ Paint
<1>1. Clearable(board) = {}  BY QuietLemma DEF LandEdge
<1>2. Paint  BY <1>1 DEF LandEdge, BoardEdge, ClearLine
<1>3. frameWait' = FrameGap /\ resetHeld' = 0  BY DEF LandEdge
<1>4. BlankDownTo(board', 0)
  <2>1. board' \in SUBSET Grid  BY DEF TypeOK
  <2>2. \A x \in Grid : x[1] >= 0  BY GridAssumption DEF Grid
  <2>3. QED  BY <2>1, <2>2 DEF BlankDownTo
<1>5. FrameGap - frameWait' = 0  BY <1>3, TetrisAssumption
<1>6. QED
  BY <1>2, <1>3, <1>4, <1>5 DEF BoardInv, ClearingInv, WipingInv, BlankDownTo

LEMMA BoardMove ==
  ASSUME EnoughTime, TypeOK, PlaceInv, BoardInv, MoveEdge
  PROVE  BoardInv' /\ UNCHANGED boardVars
<1>1. Clearable(board) = {}  BY QuietLemma DEF MoveEdge
<1>2. UNCHANGED boardVars  BY <1>1 DEF MoveEdge, BoardEdge, ClearLine
<1>3. Clearable(board') = {}  BY <1>1, <1>2 DEF boardVars
<1>4. resetHeld' = 0  BY DEF MoveEdge
<1>5. QED
  BY <1>2, <1>3, <1>4 DEF BoardInv, ClearingInv, WipingInv, Clearable, Full

LEMMA BoardWipe ==
  ASSUME EnoughTime, TypeOK, BoardInv, ResetEdge
  PROVE  BoardInv'
<1>1. Rows \in Nat /\ ResetHold \in Nat \ {0} /\ resetHeld \in 0..ResetHold
  BY GridAssumption, TetrisAssumption DEF TypeOK
<1>2. resetHeld' = IF resetHeld < ResetHold THEN resetHeld + 1 ELSE ResetHold
  BY DEF ResetEdge
<1>3. resetHeld' > 0  BY <1>1, <1>2
<1>4. CASE ClearLine
  <2>1. board # {}  BY <1>4, NothingToClear DEF ClearLine
  <2>2. BlankDownTo(board, resetHeld)
    <3>1. CASE resetHeld = 0
      BY <3>1, GridAssumption DEF BlankDownTo, TypeOK, Grid
    <3>2. CASE resetHeld > 0
      BY <2>1, <3>2 DEF BoardInv, WipingInv
    <3>3. QED  BY <1>1, <3>1, <3>2
  <2>3. resetHeld < Rows /\ BlankDownTo(board', resetHeld + 1)
    BY <1>1, <1>4, <2>2, ClearLineStep
  <2>4. resetHeld' = resetHeld + 1
    BY <1>1, <1>2, <2>3 DEF EnoughTime
  <2>5. resetHeld' <= Rows /\ BlankDownTo(board', resetHeld')
    BY <1>1, <2>3, <2>4 DEF BlankDownTo
  <2>6. QED  BY <1>3, <2>5 DEF BoardInv, WipingInv, ClearingInv
<1>5. CASE board' = {} /\ score' = 0
  BY <1>3, <1>5 DEF BoardInv, WipingInv, ClearingInv
<1>6. QED  BY <1>4, <1>5 DEF ResetEdge, BoardReset

LEMMA BoardStep ==
  ASSUME EnoughTime, TypeOK, TypeOK', PlaceInv, BoardInv, [Next]_vars
  PROVE  BoardInv'
<1>1. CASE IdleEdge  BY <1>1, BoardIdle
<1>2. CASE LandEdge  BY <1>2, BoardLand
<1>3. CASE MoveEdge  BY <1>3, BoardMove
<1>4. CASE ResetEdge  BY <1>4, BoardWipe
<1>5. CASE UNCHANGED <<boardVars, timeVars>>
  BY <1>5 DEF boardVars, timeVars, BoardInv, ClearingInv, WipingInv,
              BlankDownTo, Clearable, Full
<1>6. QED
  BY <1>1, <1>2, <1>3, <1>4, <1>5 DEF Next, KeyEvent, vars

\* The whole inductive invariant.
IInv == TypeOK /\ PlaceInv /\ BoardInv

LEMMA IInvCorrect ==
  ASSUME EnoughTime
  PROVE  Spec => []IInv
<1>1. Init => IInv
  <2> SUFFICES ASSUME Init PROVE BoardInv
    BY InitType, PlaceInit DEF IInv
  <2>1. board = {} /\ score = 0  BY DEF Init
  <2>2. Clearable(board) = {}  BY <2>1, NothingToClear
  <2>3. QED  BY <2>1, <2>2 DEF BoardInv, ClearingInv, WipingInv
<1>2. IInv /\ [Next]_vars => IInv'
  BY NextType, PlaceNext, BoardStep DEF IInv
<1>3. QED  BY <1>1, <1>2, PTL DEF Spec

\* If two frames are at least as many clock edges apart as the board has rows,
\* a frame pulse never meets a complete line or a piece that is not drawn yet,
\* so no landing is lost to the clearing chain (board.sv:158) and choose_block
\* has always answered (choose_block.sv:20).
THEOREM QuietCorrect ==
  ASSUME EnoughTime
  PROVE  Spec => []QuietAtFrame
<1>1. IInv => QuietAtFrame
  BY QuietLemma DEF IInv, QuietAtFrame
<1>2. QED  BY <1>1, IInvCorrect, PTL

\* If the reset button stays down for more clock edges than the board has
\* rows, the board and the score are empty when it comes up, although the
\* clearing chain takes precedence over the reset (board.sv:17, 158).
THEOREM ResetCorrect ==
  ASSUME EnoughTime
  PROVE  Spec => []ResetEmpties
<1>1. IInv => ResetEmpties
  BY GridAssumption, TetrisAssumption
  DEF IInv, BoardInv, WipingInv, ResetEmpties, EnoughTime
<1>2. QED  BY <1>1, IInvCorrect, PTL

----------------------------------------------------------------------------
(* The core implements the playing field. *)

wantedNow == new_shape /\ resetHeld = 0

LEMMA FieldRemoves ==
  ASSUME ClearLine, wantedNow' = FALSE
  PROVE  Field!RemoveLine
BY DEF ClearLine, FirstClearable, Clearable, Full, ClearRow, Grid, wantedNow,
       Field!RemoveLine, Field!FirstClearable, Field!Clearable, Field!Full,
       Field!ClearRow, Field!Grid

LEMMA FieldSettles ==
  ASSUME Paint, wantedNow = FALSE, wantedNow' = TRUE
  PROVE  Field!Settle
BY DEF Paint, Clearable, Full, Grid, Strays, Flattened, wantedNow,
       Field!Settle, Field!Clearable, Field!Full, Field!Grid,
       Field!Strays, Field!Flattened

\* Every step of the core is a step of the playing field, or changes nothing
\* the playing field knows of.
LEMMA FieldStep ==
  ASSUME EnoughTime, IInv, IInv', [Next]_vars
  PROVE  [Field!FieldNext]_Field!fieldVars
<1> USE DEF IInv
<1>1. CASE IdleEdge
  <2>1. wantedNow' = FALSE
    BY <1>1 DEF IdleEdge, ChooseEdge, chooseVars, wantedNow
  <2>2. CASE ClearLine
    BY <2>1, <2>2, FieldRemoves DEF Field!FieldNext
  <2>3. CASE UNCHANGED boardVars
    BY <2>1, <2>3
    DEF boardVars, wantedNow, Field!FieldNext, Field!Draw, Field!fieldVars
  <2>4. QED  BY <1>1, <2>2, <2>3 DEF IdleEdge, BoardEdge
<1>2. CASE LandEdge
  <2>1. Paint  BY <1>2, BoardLand
  <2>2. wantedNow = FALSE /\ wantedNow' = TRUE
    BY <1>2, QuietLemma DEF LandEdge, ChooseEdge, wantedNow
  <2>3. QED  BY <2>1, <2>2, FieldSettles DEF Field!FieldNext
<1>3. CASE MoveEdge
  <2>1. UNCHANGED boardVars  BY <1>3, BoardMove
  <2>2. wantedNow = FALSE /\ wantedNow' = FALSE
    BY <1>3, QuietLemma DEF MoveEdge, ChooseEdge, chooseVars, wantedNow
  <2>3. QED
    BY <2>1, <2>2 DEF boardVars, wantedNow, Field!fieldVars
<1>4. CASE ResetEdge
  <2>1. wantedNow' = FALSE
    <3>1. resetHeld' > 0
      BY <1>4, TetrisAssumption DEF ResetEdge, TypeOK
    <3>2. QED  BY <3>1 DEF wantedNow
  <2>2. CASE ClearLine
    BY <2>1, <2>2, FieldRemoves DEF Field!FieldNext
  <2>3. CASE board' = {} /\ score' = 0
    BY <2>1, <2>3 DEF wantedNow, Field!FieldNext, Field!Wipe
  <2>4. QED  BY <1>4, <2>2, <2>3 DEF ResetEdge, BoardReset
<1>5. CASE UNCHANGED <<chooseVars, boardVars, timeVars>>
  BY <1>5 DEF chooseVars, boardVars, timeVars, wantedNow, Field!fieldVars
<1>6. QED
  BY <1>1, <1>2, <1>3, <1>4, <1>5 DEF Next, KeyEvent, vars

\* The core implements Playfield: whatever is pressed when, the board changes
\* only by a piece settling, one complete line leaving, or a reset; and when a
\* piece lands, all of its cells on the board are occupied from then on, none
\* that was occupied is freed, and no other cell is painted (board.sv:16-155
\* and 157-165, choose_block.sv:18-21).
THEOREM PlayfieldImplemented ==
  ASSUME EnoughTime
  PROVE  Spec => BoardIsAPlayfield
<1>1. Init => Field!FieldInit
  BY TetrisAssumption DEF Init, Field!FieldInit
<1>2. IInv /\ IInv' /\ [Next]_vars => [Field!FieldNext]_Field!fieldVars
  BY FieldStep
<1>3. QED
  BY <1>1, <1>2, IInvCorrect, PTL DEF Spec, BoardIsAPlayfield, Field!FieldSpec

----------------------------------------------------------------------------
(* The cells block_motion reads are the ones that matter. *)

LEMMA ShapeInPlay ==
  ASSUME TypeOK
  PROVE  shape \in Shapes
<1>1. block_sel \in BlockSels /\ rot_sel \in Rotations
  BY DEF TypeOK, rot_sel, Rotations
<1>2. QED  BY <1>1, ShapeSizes DEF shape

\* One frame that keeps the column and the shape leaves a free piece free.
LEMMA FallStep ==
  ASSUME EnoughTime, IInv, IInv', MoveEdge, InPlace,
         X_Pos' = X_Pos, shape' = shape
  PROVE  PieceCells' \cap board' = {}
<1>1. shape \in Shapes  BY ShapeInPlay DEF IInv
<1>2. board' = board  BY BoardMove DEF IInv, boardVars
<1>3. PICK stray \in BOOLEAN : ~AtBottom(stray)
  BY DEF MoveEdge
<1>4. Y_Pos' = Y_Pos \/ Y_Pos' = Y_Pos + 1
  BY DEF MoveEdge, MotionFrame, IInv, TypeOK
<1>5. X_Pos \in Int /\ Y_Pos \in Int /\ board \subseteq Grid
  BY DEF IInv, TypeOK
<1>6. SUFFICES ASSUME NEW d \in Cells[shape]
               PROVE  <<Y_Pos' + d[1], X_Pos + d[2]>> \notin board
  BY <1>2 DEF PieceCells, At
<1>7. CASE Y_Pos' = Y_Pos
  BY <1>7 DEF InPlace, PieceCells, At
<1>8. CASE Y_Pos' = Y_Pos + 1
  <2> DEFINE e == <<d[1] + 1, d[2]>>
  <2>1. d[1] \in Int /\ d[2] \in Int  BY <1>1, CellsInBox
  <2>2. At(e) = <<Y_Pos' + d[1], X_Pos + d[2]>>
    BY <1>5, <1>8, <2>1 DEF At
  <2>3. e \in Cells[shape] \cup Below(shape)  BY <1>1, TablesFit
  <2>4. CASE e \in Cells[shape]
    BY <2>2, <2>4 DEF InPlace, PieceCells
  <2>5. CASE e \in Below(shape)
    BY <1>3, <1>5, <2>2, <2>5 DEF AtBottom, Hits
  <2>6. QED  BY <2>3, <2>4, <2>5
<1>9. QED  BY <1>4, <1>7, <1>8

\* Falling never drives a piece into the stack: for every shape the landing
\* test of block_motion.sv:83-238 reads each cell the piece may enter next.
THEOREM FallCorrect ==
  ASSUME EnoughTime
  PROVE  Spec => FallIsClear
<1>1. IInv /\ IInv' /\ [Next]_vars =>
        [ MoveEdge /\ InPlace /\ X_Pos' = X_Pos /\ shape' = shape
            => PieceCells' \cap board' = {} ]_vars
  BY FallStep
<1>2. QED  BY <1>1, IInvCorrect, PTL DEF Spec, FallIsClear

\* A probe beside a piece that is in place stays on the board.
LEMMA ProbeOnGrid ==
  ASSUME TypeOK, InPlace, NEW probe, NEW shift \in {-1, 1},
         0 <= X_Pos + shift, X_Pos + shift + block_size_x <= Cols,
         \A e \in probe : /\ e[1] \in Int /\ e[2] \in Int
                          /\ <<e[1], e[2] - shift>> \in Cells[shape]
  PROVE  \A e \in probe : At(e) \in Grid
<1> SUFFICES ASSUME NEW e \in probe PROVE At(e) \in Grid
  OBVIOUS
<1>1. shape \in Shapes  BY ShapeInPlay
<1>2. X_Pos \in Int /\ Y_Pos \in Int /\ Cols \in Int /\ Rows \in Int
  BY GridAssumption DEF TypeOK
<1> DEFINE d == <<e[1], e[2] - shift>>
<1>3. d \in Cells[shape]  OBVIOUS
<1>4. At(d) \in Grid  BY <1>3 DEF InPlace, PieceCells
<1>5. Y_Pos + e[1] \in 0..(Rows - 1)  BY <1>4 DEF At, Grid
<1>6. block_size_x \in Int /\ block_size_x = Width[shape]
  BY SidesOfPiece DEF block_size_x
<1>7. 0 <= d[2] /\ d[2] < Width[shape]  BY <1>1, <1>3, CellsInBox
<1>8. PICK w \in Int, i \in Int : w = block_size_x /\ i = e[2]
  BY <1>6
<1>9. X_Pos + e[2] \in 0..(Cols - 1)
  <2>1. 0 <= i - shift /\ i - shift < w  BY <1>6, <1>7, <1>8
  <2>2. 0 <= X_Pos + shift /\ X_Pos + shift + w <= Cols  BY <1>8
  <2>3. X_Pos + i \in 0..(Cols - 1)  BY <1>2, <2>1, <2>2
  <2>4. QED  BY <1>8, <2>3
<1>10. QED  BY <1>5, <1>9 DEF At, Grid

\* The outcome of a test of one side, for a probe that fits the shape.
LEMMA SideTest ==
  ASSUME TypeOK, InPlace, NEW probe, NEW shift \in {-1, 1}, NEW stray,
         0 <= X_Pos + shift, X_Pos + shift + block_size_x <= Cols,
         \A d \in Cells[shape] :
           <<d[1], d[2] + shift>> \in Cells[shape] \cup probe,
         \A e \in probe : /\ e[1] \in Int /\ e[2] \in Int
                          /\ e = <<e[1], e[2]>>
                          /\ <<e[1], e[2] - shift>> \in Cells[shape]
  PROVE  ~Hits(probe, stray)
           <=> \A x \in PieceCells : <<x[1], x[2] + shift>> \notin board
<1>1. shape \in Shapes  BY ShapeInPlay
<1>2. X_Pos \in Int /\ Y_Pos \in Int  BY DEF TypeOK
<1>3. \A e \in probe : At(e) \in Grid  BY ProbeOnGrid
<1>4. Hits(probe, stray) <=> \E e \in probe : At(e) \in board
  BY <1>3 DEF Hits
<1>5. ASSUME NEW e \in probe, At(e) \in board
      PROVE  \E x \in PieceCells : <<x[1], x[2] + shift>> \in board
  <2> DEFINE d == <<e[1], e[2] - shift>>
  <2>1. d \in Cells[shape] /\ e[1] \in Int /\ e[2] \in Int  OBVIOUS
  <2>2. At(d) \in PieceCells  BY <2>1 DEF PieceCells
  <2>3. <<At(d)[1], At(d)[2] + shift>> = At(e)
    BY <1>2, <2>1 DEF At
  <2>4. QED  BY <1>5, <2>2, <2>3
<1>6. ASSUME NEW x \in PieceCells, <<x[1], x[2] + shift>> \in board
      PROVE  \E e \in probe : At(e) \in board
  <2>1. PICK d \in Cells[shape] : x = At(d)  BY DEF PieceCells
  <2> DEFINE e == <<d[1], d[2] + shift>>
  <2>2. d[1] \in Int /\ d[2] \in Int  BY <1>1, CellsInBox
  <2>3. At(e) = <<x[1], x[2] + shift>>  BY <1>2, <2>1, <2>2 DEF At
  <2>4. e \notin Cells[shape]
    BY <1>6, <2>3 DEF InPlace, PieceCells
  <2>5. e \in probe  BY <2>4
  <2>6. QED  BY <1>6, <2>3, <2>5
<1>7. QED  BY <1>4, <1>5, <1>6

LEMMA DecisionStep ==
  ASSUME EnoughTime, IInv, IInv', MoveEdge, InPlace, ~AtFloor
  PROVE  /\ GoLeft => (X_Motion' = -1 <=>
              \A x \in PieceCells : <<x[1], x[2] - 1>> \notin board)
         /\ GoRight => (X_Motion' = 1 <=>
              \A x \in PieceCells : <<x[1], x[2] + 1>> \notin board)
<1>1. shape \in Shapes /\ TypeOK  BY ShapeInPlay DEF IInv
<1>2. PICK stray \in BOOLEAN : MotionFrame(stray)  BY DEF MoveEdge
<1>3. X_Motion' = X_Motion_in(stray)  BY <1>2 DEF MotionFrame
<1>4. PICK w \in 1..4 : w = block_size_x /\ w = WidthOf(block_sel, rotation, waiting)
  BY <1>1, SidesOfPiece
<1>5. X_Pos \in Int /\ Cols \in Int /\ 0 <= X_Pos /\ X_Pos + w <= Cols + 1
  BY <1>1, <1>4, GridAssumption
  DEF TypeOK, IInv, PlaceInv, LeftInv, RightInv
<1>6. ASSUME GoLeft
      PROVE  X_Motion' = -1 <=>
               \A x \in PieceCells : <<x[1], x[2] - 1>> \notin board
  <2> DEFINE probe == LeftOf(shape)
  <2>1. X_Motion' = IF Hits(probe, stray) THEN 0 ELSE -1
    BY <1>3, <1>6 DEF X_Motion_in
  <2>2. 0 <= X_Pos + (-1)  BY <1>5, <1>6 DEF GoLeft
  <2>3. X_Pos + (-1) + block_size_x <= Cols
    <3>1. X_Pos + (-1) + w <= Cols  BY <1>5
    <3>2. QED  BY <1>4, <3>1
  <2>4. \A d \in Cells[shape] :
          <<d[1], d[2] + (-1)>> \in Cells[shape] \cup probe
    <3>1. \A d \in Cells[shape] : d[2] + (-1) = d[2] - 1
      BY <1>1, CellsInBox
    <3>2. QED  BY <1>1, <3>1, TablesFit
  <2>5. \A e \in probe : /\ e[1] \in Int /\ e[2] \in Int /\ e = <<e[1], e[2]>>
                         /\ <<e[1], e[2] - (-1)>> \in Cells[shape]
    <3>1. \A e \in probe : /\ e[1] \in Int /\ e[2] \in Int /\ e = <<e[1], e[2]>>
      BY <1>1, CellsInBox
    <3>2. \A e \in probe : e[2] - (-1) = e[2] + 1  BY <3>1
    <3>3. QED  BY <1>1, <3>1, <3>2, TablesFit
  <2> HIDE DEF probe
  <2>6. ~Hits(probe, stray)
          <=> \A x \in PieceCells : <<x[1], x[2] + (-1)>> \notin board
    BY <1>1, <2>2, <2>3, <2>4, <2>5, SideTest
  <2>7. \A x \in PieceCells : x[2] + (-1) = x[2] - 1
    BY <1>1, <1>5, CellsInBox DEF PieceCells, At
  <2>8. X_Motion' = -1 <=> ~Hits(probe, stray)  BY <2>1
  <2>9. QED  BY <2>6, <2>7, <2>8
<1>7. ASSUME GoRight
      PROVE  X_Motion' = 1 <=>
               \A x \in PieceCells : <<x[1], x[2] + 1>> \notin board
  <2> DEFINE probe == RightOf(shape)
  <2>1. X_Motion' = IF Hits(probe, stray) THEN 0 ELSE 1
    BY <1>3, <1>7 DEF X_Motion_in, GoRight, GoLeft
  <2>2. 0 <= X_Pos + 1  BY <1>5
  <2>3. X_Pos + 1 + block_size_x <= Cols
    <3>1. X_Pos + w < Cols  BY <1>4, <1>7 DEF GoRight
    <3>2. X_Pos + 1 + w <= Cols  BY <1>5, <3>1
    <3>3. QED  BY <1>4, <3>2
  <2>4. \A d \in Cells[shape] :
          <<d[1], d[2] + 1>> \in Cells[shape] \cup probe
    BY <1>1, TablesFit
  <2>5. \A e \in probe : /\ e[1] \in Int /\ e[2] \in Int /\ e = <<e[1], e[2]>>
                         /\ <<e[1], e[2] - 1>> \in Cells[shape]
    BY <1>1, CellsInBox, TablesFit
  <2> HIDE DEF probe
  <2>6. ~Hits(probe, stray)
          <=> \A x \in PieceCells : <<x[1], x[2] + 1>> \notin board
    BY <1>1, <2>2, <2>3, <2>4, <2>5, SideTest
  <2>7. X_Motion' = 1 <=> ~Hits(probe, stray)  BY <2>1
  <2>8. QED  BY <2>6, <2>7
<1>8. QED  BY <1>6, <1>7

\* The decision about a sideways step is right for the place where it is
\* taken: for every shape the tests of block_motion.sv:243-511 read exactly the
\* cells the piece would enter.
THEOREM DecisionCorrect ==
  ASSUME EnoughTime
  PROVE  Spec => DecisionMatchesBoard
<1>1. IInv /\ IInv' /\ [Next]_vars =>
        [ MoveEdge /\ InPlace /\ ~AtFloor =>
            /\ GoLeft => (X_Motion' = -1 <=>
                 \A x \in PieceCells : <<x[1], x[2] - 1>> \notin board)
            /\ GoRight => (X_Motion' = 1 <=>
                 \A x \in PieceCells : <<x[1], x[2] + 1>> \notin board) ]_vars
  BY DecisionStep
<1>2. QED  BY <1>1, IInvCorrect, PTL DEF Spec, DecisionMatchesBoard
============================================================================
