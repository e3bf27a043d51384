----------------------------- MODULE Playfield -----------------------------
(***************************************************************************)
(* What the board promises to its users, choose_block, block_motion and    *)
(* Color_Mapper, without clocks, frames, keys or motion: the piece in play *)
(* settles whole, where it is, whenever the next one is called for;        *)
(* complete lines leave one at a time and are counted one at a time; and   *)
(* only a reset empties the board.  Nothing else changes it.  In           *)
(* particular a piece settles only when no complete line is still waiting  *)
(* to be removed: no landing is ever lost.                                 *)
(***************************************************************************)
EXTENDS BoardOps

CONSTANT ScoreMod   \* the score register counts modulo this, 2^16 in the code

VARIABLES
  piece,   \* cells of the piece in play, an input: how it moves is not said here
  board,   \* occupied cells
  score,   \* lines removed since the last reset
  wanted   \* a piece has settled and its successor has not been drawn

fieldVars == <<board, score, wanted>>

FieldInit == board = {} /\ score = 0 /\ wanted = FALSE

\* The piece becomes part of the stack: its cells on the board are occupied
\* from now on, every cell that was occupied stays, and no other cell changes,
\* unless the piece sticks out and one of its outer cells has strayed there.
Settle ==
  /\ Clearable(board) = {}
  /\ \E stray \in SUBSET Strays(piece) :
       board' = board \cup (piece \cap Grid) \cup stray
  /\ ~wanted /\ wanted' = TRUE
  /\ UNCHANGED score

\* The next piece is drawn.
Draw == wanted /\ wanted' = FALSE /\ UNCHANGED <<board, score>>

\* One complete line is removed and counted.
RemoveLine ==
  \E k \in Clearable(board) :
    /\ FirstClearable(board, k)
    /\ board' = ClearRow(board, k)
    /\ score' = (score + 1) % ScoreMod
    /\ wanted' = FALSE

\* A reset empties the board and the score together.
Wipe == board' = {} /\ score' = 0 /\ wanted' = FALSE

FieldNext == Settle \/ Draw \/ RemoveLine \/ Wipe

FieldSpec == FieldInit /\ [][FieldNext]_fieldVars
=============================================================================
