---------------------------- MODULE FrameTiming ----------------------------
(***************************************************************************)
(* Where the frame pulse of the game comes from.  VGA_controller.sv counts *)
(* pixels on VGA_CLK, a PLL output at half the frequency of Clk and in     *)
(* phase with it (vga_clk.v), and lowers VGA_VS for two lines of every     *)
(* frame; block_motion.sv:40-44 turns each rising edge of VGA_VS into a    *)
(* pulse of one Clk period.  A reset restarts the frame and itself lowers  *)
(* VGA_VS, so the end of a reset makes a pulse too.                        *)
(*                                                                         *)
(* The module exists to justify how Tetris.tla admits frame pulses: the    *)
(* variable frameWait counts down exactly as it does there, and            *)
(* PulseOnlyWhenDue says that it has always run out when a pulse acts.     *)
(***************************************************************************)
EXTENDS Integers

CONSTANTS
  H_TOTAL,     \* 800 pixels to a line
  V_TOTAL,     \* 525 lines to a frame
  SyncFirst,   \* VGA_VS is low from line 490
  SyncEnd,     \* up to, not including, line 492
  FrameGap,    \* as in Tetris
  ResetGap,    \* as in Tetris
  ResetHold    \* clock edges a press of the reset button lasts, at least

ASSUME TimingAssumption ==
  /\ H_TOTAL \in Nat \ {0, 1}
  /\ V_TOTAL \in Nat
  /\ SyncFirst \in 1..SyncEnd /\ SyncEnd \in 1..(V_TOTAL - 1)
  /\ SyncFirst < SyncEnd
  /\ FrameGap \in Nat /\ ResetGap \in Nat /\ ResetHold \in Nat \ {0}

VARIABLES
  Reset_h,                 \* the button, registered by tetris_top
  VGA_CLK,                 \* the pixel clock rises with the next edge of Clk
  h_counter, v_counter, VGA_VS,               \* VGA_controller
  frame_clk_delayed, frame_clk_rising_edge,   \* block_motion
  frameWait,               \* edges until a pulse is acceptable to Tetris
  resetHeld                \* edges the button has been down, up to ResetHold

vgaVars == <<h_counter, v_counter, VGA_VS>>
edgeVars == <<frame_clk_delayed, frame_clk_rising_edge>>
vars == <<Reset_h, VGA_CLK, vgaVars, edgeVars, frameWait, resetHeld>>

\* The button has been down since power-up.
Init ==
  /\ Reset_h = TRUE /\ VGA_CLK \in BOOLEAN
  /\ h_counter = 0 /\ v_counter = 0 /\ VGA_VS = FALSE
  /\ frame_clk_delayed = FALSE /\ frame_clk_rising_edge = FALSE
  /\ frameWait = ResetGap /\ resetHeld = ResetHold

----------------------------------------------------------------------------
LastPixel == h_counter + 1 = H_TOTAL
h_counter_in == IF LastPixel THEN 0 ELSE h_counter + 1

v_counter_in ==
  IF ~LastPixel THEN v_counter
  ELSE IF v_counter + 1 = V_TOTAL THEN 0 ELSE v_counter + 1

\* Sync taken from every line, as the horizontal one is.
SyncEveryLine == h_counter_in # 0

VGA_VS_in == ~(SyncFirst <= v_counter_in /\ v_counter_in < SyncEnd)

\* The video registers, on those edges of Clk that are edges of VGA_CLK.
VgaEdge ==
  IF ~VGA_CLK THEN UNCHANGED vgaVars
  ELSE IF Reset_h THEN h_counter' = 0 /\ v_counter' = 0 /\ VGA_VS' = FALSE
  ELSE h_counter' = h_counter_in /\ v_counter' = v_counter_in /\ VGA_VS' = VGA_VS_in

\* The level of VGA_VS instead of its edge.
LevelDetector ==
  /\ frame_clk_delayed' = VGA_VS
  /\ frame_clk_rising_edge' = VGA_VS

\* A delayed copy that only ever rises.
StickyDetector ==
  /\ frame_clk_delayed' = (frame_clk_delayed \/ VGA_VS)
  /\ frame_clk_rising_edge' = (VGA_VS /\ ~frame_clk_delayed)

\* The edge detector has no reset.
EdgeDetector ==
  /\ frame_clk_delayed' = VGA_VS
  /\ frame_clk_rising_edge' = (VGA_VS /\ ~frame_clk_delayed)

\* The button is sampled: it may be found pressed on any edge, and is not
\* found released before it has been down for ResetHold edges.
Button ==
  /\ resetHeld' = IF ~Reset_h THEN 0
                  ELSE IF resetHeld < ResetHold THEN resetHeld + 1 ELSE ResetHold
  /\ Reset_h' \in IF Reset_h /\ resetHeld' < ResetHold THEN {TRUE} ELSE BOOLEAN

\* The pulse acts on block_motion on this edge.
Acting == frame_clk_rising_edge /\ ~Reset_h

CountDown ==
  frameWait' = IF Reset_h THEN ResetGap
               ELSE IF frame_clk_rising_edge THEN FrameGap
               ELSE IF frameWait > 0 THEN frameWait - 1 ELSE 0

ClockEdge ==
  /\ VGA_CLK' = ~VGA_CLK
  /\ VgaEdge /\ EdgeDetector /\ Button /\ CountDown

Next == ClockEdge

Spec == Init /\ [][Next]_vars

----------------------------------------------------------------------------
\* A pulse that acts on the game comes no sooner after another one, or after a
\* reset, than Tetris.tla lets it (VGA_controller.sv:53-100 and
\* block_motion.sv:40-44).
PulseOnlyWhenDue == Acting => frameWait = 0

\* The pulse lasts one edge of Clk, so a frame is never counted twice.
OnePulsePerFrame == [][frame_clk_rising_edge => ~frame_clk_rising_edge']_vars

\* Frames keep coming unless the button is pressed again and again.
FramesKeepComing == []<>(Acting \/ Reset_h)
=============================================================================
