----------------------------- MODULE GameClock -----------------------------
(***************************************************************************)
(* The two free-running parts of tetris_top together: the piece generator  *)
(* and the source of the frame pulse, which share Clk and Reset_h and      *)
(* nothing else.  What joins them is the game, which takes a piece from    *)
(* the generator only after a frame pulse (Tetris): a pulse that lands a   *)
(* piece raises new_shape, and choose_block reads the generator on the     *)
(* next edge.  The pieces a player can get are therefore those the         *)
(* generator shows at one phase of the frame.                              *)
(***************************************************************************)
EXTENDS FrameTiming

VARIABLE LFSR_out

Generator == INSTANCE LFSR

boardVars == <<vars, LFSR_out>>

PowerUp == Init /\ Generator!Init

BoardEdge ==
  /\ ClockEdge
  /\ IF Reset_h THEN Generator!Reset ELSE Generator!Clock

BoardSpec == PowerUp /\ [][BoardEdge]_boardVars /\ WF_boardVars(BoardEdge)

\* A frame pulse never meets a generator that is locked up, although that is
\* how it may power up.  The header of LFSR.sv says "MUST RESET BOARD BEFORE
\* PLAYING BECAUSE LFSR GENERATES VALUES UPON RESET".
PlaysUnlocked == Acting => ~Generator!LockedUp

\* Once the reset button is left alone, each of the seven pieces would be drawn
\* at infinitely many frame pulses: the selector is a remainder modulo 7 of a
\* register that visits 31 of its 256 values (choose_block.sv:23), looked at
\* once in a frame only, and a frame that is a multiple of 31 edges long would
\* offer the same piece for ever.
EveryPieceAtFrames ==
  <>[]~Reset_h =>
    \A s \in 0..6 : []<>(Acting /\ Generator!Draw(Generator!Shifted(LFSR_out)) = s)
=============================================================================
