---------------------------- MODULE Tetrominoes ----------------------------
(***************************************************************************)
(* The nineteen shapes of the Tetris core as the code tabulates them.      *)
(* Four different modules of the hardware describe every shape by hand:    *)
(* choose_block.sv (which shape a selector and a rotation give, and its    *)
(* bounding box), board.sv (the four cells painted when it lands) and      *)
(* block_motion.sv (the cells read to decide whether it may fall, or move  *)
(* left or right).  Each table is transcribed here from its own module;    *)
(* nothing makes them agree but the care of whoever typed them.            *)
(*                                                                         *)
(* A cell is <<row, column>>, an offset from the piece's upper left corner *)
(* (Y_Pos, X_Pos); rows grow downwards.                                    *)
(***************************************************************************)
EXTENDS Integers

\* block_sel is LFSR_out % 7 (choose_block.sv:23).
BlockSels == 0..6

\* rot_sel chooses among four orientations.
Rotations == 0..3

\* The outcome of the case statement of choose_block: which of the choose_*
\* wires is raised for a selector (first index, from 1) and a rotation.
ShapeTable ==
  << << "O",       "O",      "O",       "O"       >>,
     << "Z_horiz", "Z_vert", "Z_horiz", "Z_vert"  >>,
     << "S_horiz", "S_vert", "S_horiz", "S_vert"  >>,
     << "I_horiz", "I_vert", "I_horiz", "I_vert"  >>,
     << "L_right", "L_down", "L_left",  "L_up"    >>,
     << "J_left",  "J_up",   "J_right", "J_down"  >>,
     << "T_down",  "T_left", "T_up",    "T_right" >> >>

Shape(sel, rot) == ShapeTable[sel + 1][rot + 1]

Shapes == { "O", "I_horiz", "I_vert", "Z_horiz", "Z_vert", "S_horiz", "S_vert",
            "J_left", "J_up", "J_right", "J_down",
            "L_left", "L_up", "L_right", "L_down",
            "T_left", "T_up", "T_right", "T_down" }

\* block_size_x and block_size_y in cells: 10, 19, 28 and 37 pixels are
\* 1, 2, 3 and 4 cells of nine pixels (and one pixel).
Width ==
  [ O |-> 2, I_horiz |-> 4, I_vert |-> 1, Z_horiz |-> 3, Z_vert |-> 2,
    S_horiz |-> 3, S_vert |-> 2,
    J_left |-> 3, J_up |-> 2, J_right |-> 3, J_down |-> 2,
    L_left |-> 3, L_up |-> 2, L_right |-> 3, L_down |-> 2,
    T_left |-> 2, T_up |-> 3, T_right |-> 2, T_down |-> 3 ]

Height ==
  [ O |-> 2, I_horiz |-> 1, I_vert |-> 4, Z_horiz |-> 2, Z_vert |-> 3,
    S_horiz |-> 2, S_vert |-> 3,
    J_left |-> 2, J_up |-> 3, J_right |-> 2, J_down |-> 3,
    L_left |-> 2, L_up |-> 3, L_right |-> 2, L_down |-> 3,
    T_left |-> 3, T_up |-> 2, T_right |-> 3, T_down |-> 2 ]

----------------------------------------------------------------------------
\* The cells board.sv paints when the piece lands.
Cells ==
  [ O       |-> { <<0,0>>, <<1,0>>, <<0,1>>, <<1,1>> },
    I_horiz |-> { <<0,0>>, <<0,1>>, <<0,2>>, <<0,3>> },
    I_vert  |-> { <<0,0>>, <<1,0>>, <<2,0>>, <<3,0>> },
    Z_horiz |-> { <<0,0>>, <<0,1>>, <<1,1>>, <<1,2>> },
    Z_vert  |-> { <<0,1>>, <<1,0>>, <<1,1>>, <<2,0>> },
    S_horiz |-> { <<0,1>>, <<0,2>>, <<1,0>>, <<1,1>> },
    S_vert  |-> { <<0,0>>, <<1,0>>, <<1,1>>, <<2,1>> },
    J_up    |-> { <<0,1>>, <<1,1>>, <<2,1>>, <<2,0>> },
    J_down  |-> { <<0,0>>, <<0,1>>, <<1,0>>, <<2,0>> },
    J_left  |-> { <<0,0>>, <<0,1>>, <<0,2>>, <<1,2>> },
    J_right |-> { <<0,0>>, <<1,0>>, <<1,1>>, <<1,2>> },
    L_up    |-> { <<0,0>>, <<1,0>>, <<2,0>>, <<2,1>> },
    L_down  |-> { <<0,0>>, <<0,1>>, <<1,1>>, <<2,1>> },
    L_left  |-> { <<1,0>>, <<1,1>>, <<1,2>>, <<0,2>> },
    L_right |-> { <<0,0>>, <<0,1>>, <<0,2>>, <<1,0>> },
    T_up    |-> { <<0,1>>, <<1,0>>, <<1,1>>, <<1,2>> },
    T_down  |-> { <<0,0>>, <<0,1>>, <<0,2>>, <<1,1>> },
    T_left  |-> { <<0,1>>, <<1,0>>, <<1,1>>, <<2,1>> },
    T_right |-> { <<0,0>>, <<1,0>>, <<2,0>>, <<1,1>> } ]

\* The cells block_motion reads to see whether the piece has landed on the
\* stack (lines 83-238).
BelowTable ==
  [ O       |-> { <<2,0>>, <<2,1>> },
    I_horiz |-> { <<1,0>>, <<1,1>>, <<1,2>>, <<1,3>> },
    I_vert  |-> { <<4,0>> },
    Z_horiz |-> { <<1,0>>, <<2,1>>, <<2,2>> },
    Z_vert  |-> { <<3,0>>, <<2,1>> },
    S_horiz |-> { <<2,0>>, <<2,1>>, <<1,2>> },
    S_vert  |-> { <<2,0>>, <<3,1>> },
    J_up    |-> { <<3,0>>, <<3,1>> },
    J_down  |-> { <<3,0>>, <<1,1>> },
    J_left  |-> { <<1,0>>, <<1,1>>, <<2,2>> },
    J_right |-> { <<2,0>>, <<2,1>>, <<2,2>> },
    L_up    |-> { <<3,0>>, <<3,1>> },
    L_down  |-> { <<3,1>>, <<1,0>> },
    L_left  |-> { <<2,0>>, <<2,1>>, <<2,2>> },
    L_right |-> { <<2,0>>, <<1,1>>, <<1,2>> },
    T_up    |-> { <<2,0>>, <<2,1>>, <<2,2>> },
    T_down  |-> { <<1,0>>, <<2,1>>, <<1,2>> },
    T_left  |-> { <<2,0>>, <<3,1>> },
    T_right |-> { <<3,0>>, <<2,1>> } ]

\* The cells read when the left key is down (lines 247-373).
LeftTable ==
  [ O       |-> { <<0,-1>>, <<1,-1>> },
    I_horiz |-> { <<0,-1>> },
    I_vert  |-> { <<0,-1>>, <<1,-1>>, <<2,-1>>, <<3,-1>> },
    Z_horiz |-> { <<0,-1>>, <<1,0>> },
    Z_vert  |-> { <<0,0>>, <<1,-1>>, <<2,-1>> },
    S_horiz |-> { <<0,0>>, <<1,-1>> },
    S_vert  |-> { <<0,-1>>, <<1,-1>>, <<2,0>> },
    J_up    |-> { <<0,0>>, <<1,0>>, <<2,-1>> },
    J_down  |-> { <<0,-1>>, <<1,-1>>, <<2,-1>> },
    J_left  |-> { <<0,-1>>, <<1,1>> },
    J_right |-> { <<0,-1>>, <<1,-1>> },
    L_up    |-> { <<0,-1>>, <<1,-1>>, <<2,-1>> },
    L_down  |-> { <<0,-1>>, <<1,0>>, <<2,0>> },
    L_left  |-> { <<1,-1>>, <<0,1>> },
    L_right |-> { <<0,-1>>, <<1,-1>> },
    T_up    |-> { <<0,0>>, <<1,-1>> },
    T_down  |-> { <<0,-1>>, <<1,0>> },
    T_left  |-> { <<0,0>>, <<1,-1>>, <<2,0>> },
    T_right |-> { <<0,-1>>, <<1,-1>>, <<2,-1>> } ]

\* The cells read when the right key is down (lines 382-508).
RightTable ==
  [ O       |-> { <<0,2>>, <<1,2>> },
    I_horiz |-> { <<0,4>> },
    I_vert  |-> { <<0,1>>, <<1,1>>, <<2,1>>, <<3,1>> },
    Z_horiz |-> { <<0,2>>, <<1,3>> },
    Z_vert  |-> { <<0,2>>, <<1,2>>, <<2,1>> },
    S_horiz |-> { <<0,3>>, <<1,2>> },
    S_vert  |-> { <<0,1>>, <<1,2>>, <<2,2>> },
    J_up    |-> { <<0,2>>, <<1,2>>, <<2,2>> },
    J_down  |-> { <<0,2>>, <<1,1>>, <<2,1>> },
    J_left  |-> { <<0,3>>, <<1,3>> },
    J_right |-> { <<0,1>>, <<1,3>> },
    L_up    |-> { <<0,1>>, <<1,1>>, <<2,2>> },
    L_down  |-> { <<0,2>>, <<1,2>>, <<2,2>> },
    L_left  |-> { <<0,3>>, <<1,3>> },
    L_right |-> { <<0,3>>, <<1,1>> },
    T_up    |-> { <<0,2>>, <<1,3>> },
    T_down  |-> { <<0,3>>, <<1,2>> },
    T_left  |-> { <<0,2>>, <<1,2>>, <<2,2>> },
    T_right |-> { <<0,1>>, <<1,2>>, <<2,1>> } ]

----------------------------------------------------------------------------
\* Slips that hand-typed tables invite: two shapes are tested under one of
\* their columns only; a table entry is copied from the mirror image.
BelowOneColumn(s) ==
  IF s \in {"S_vert", "T_left"} THEN { <<3,1>> } ELSE BelowTable[s]
LeftOfMirror(s) ==
  IF s = "S_horiz" THEN LeftTable["Z_horiz"]
  ELSE IF s = "T_left" THEN LeftTable["T_right"] ELSE LeftTable[s]

Below(s) == BelowTable[s]
LeftOf(s) == LeftTable[s]
RightOf(s) == RightTable[s]
============================================================================
