-------------------------- MODULE GameClockProofs --------------------------
(***************************************************************************)
(* What holds of the game's clock for a frame of any size: the generator   *)
(* is never locked up when the game looks at it, a frame pulse lasts one   *)
(* edge, and pulses come no sooner than Tetris admits them.                *)
(***************************************************************************)
EXTENDS GameClock, TLAPS

\* While the button is up, one of the five low bits of the generator is set:
\* the board starts with the button down, and a reset sets all of them.
GeneratorInv == LFSR_out \in Generator!Bytes /\ (~Reset_h => LFSR_out % 32 # 0)

\* A shift keeps a byte, and does not clear its five low bits: either one of
\* the lower four is set and moves up, or the fifth is and comes back.
LEMMA ShiftedUnlocked ==
  ASSUME NEW x \in Generator!Bytes
  PROVE  /\ Generator!Shifted(x) \in Generator!Bytes
         /\ x % 32 # 0 => Generator!Shifted(x) % 32 # 0
<1> DEFINE f == Generator!feedback(x)
<1>1. x \in 0..255
  BY DEF Generator!Bytes
<1>2. f \in {0, 1}
  BY <1>1 DEF Generator!feedback, Generator!Bit
<1>3. x % 32 = 16 => f = 1
  <2>1. PICK q \in 0..7 : x % 32 = 16 => x = 32 * q + 16
    BY <1>1
  <2>2. x % 32 = 16 => x \div 16 = 2 * q + 1 /\ x \div 4 = 8 * q + 4
    BY <1>1, <2>1
  <2> QED
    BY <1>1, <2>2 DEF Generator!feedback, Generator!Bit
<1> HIDE DEF f
<1>4. Generator!Shifted(x) = ((2 * x) % 256) + f
  BY DEF Generator!Shifted, f
<1>5. /\ ((2 * x) % 256) + f \in 0..255
      /\ x % 32 # 0 => (((2 * x) % 256) + f) % 32 # 0
  <2>1. (2 * x) % 256 = IF x < 128 THEN 2 * x ELSE 2 * x - 256
    BY <1>1
  <2>2. PICK q \in 0..7, r \in 0..31 : x = 32 * q + r /\ x % 32 = r
    BY <1>1
  <2>3. (((2 * x) % 256) + f) % 32 = (2 * r + f) % 32
    BY <1>1, <1>2, <2>1, <2>2
  <2>4. r # 0 => (2 * r + f) % 32 # 0
    BY <1>2, <1>3, <2>2
  <2> QED
    BY <1>1, <1>2, <2>1, <2>2, <2>3, <2>4
<1> QED
  BY <1>4, <1>5 DEF Generator!Bytes

\* A frame pulse never meets a generator that is locked up.
THEOREM UnlockedCorrect == BoardSpec => []PlaysUnlocked
<1>1. PowerUp => GeneratorInv
  BY DEF PowerUp, Init, Generator!Init, GeneratorInv
<1>2. GeneratorInv /\ [BoardEdge]_boardVars => GeneratorInv'
  <2> SUFFICES ASSUME GeneratorInv, [BoardEdge]_boardVars PROVE GeneratorInv'
    OBVIOUS
  <2>1. CASE BoardEdge /\ Reset_h
    <3>1. LFSR_out' = 255
      BY <2>1 DEF BoardEdge, Generator!Reset
    <3> QED
      BY <3>1 DEF GeneratorInv, Generator!Bytes
  <2>2. CASE BoardEdge /\ ~Reset_h
    <3>1. LFSR_out' = Generator!Shifted(LFSR_out)
      BY <2>2 DEF BoardEdge, Generator!Clock
    <3>2. LFSR_out \in Generator!Bytes /\ LFSR_out % 32 # 0
      BY <2>2 DEF GeneratorInv
    <3> QED
      BY <3>1, <3>2, ShiftedUnlocked DEF GeneratorInv
  <2>3. CASE UNCHANGED boardVars
    BY <2>3 DEF GeneratorInv, boardVars, vars
  <2> QED
    BY <2>1, <2>2, <2>3
<1>3. GeneratorInv => PlaysUnlocked
  BY DEF GeneratorInv, PlaysUnlocked, Acting, Generator!LockedUp
<1> QED
  BY <1>1, <1>2, <1>3, PTL DEF BoardSpec

-----------------------------------------------------------------------------
\* When frame pulses come.  The hypothesis is about the hardware: a frame has
\* enough pixels, a reset is followed by two edges at least, and the button is
\* down for two edges, so that VGA_CLK, at half the rate, sees it.
PulsesApart ==
  /\ FrameGap <= 2 * (SyncEnd * H_TOTAL) - 3
  /\ ResetGap <= 2
  /\ ResetHold >= 2

AfterReset == h_counter = 0 /\ v_counter = 0 /\ ~VGA_VS

\* Where VGA_VS rises: on the first line after the sync, and, one pixel late,
\* after a reset.
JustRisen ==
  /\ VGA_VS
  /\ \/ h_counter = 1 /\ v_counter = 0
     \/ h_counter = 0 /\ v_counter = SyncEnd

\* The closed form of the time to the next pulse, in lines, pixels, and edges
\* of Clk.  A pulse that acts now has none left; one that the edge detector is
\* about to make has one.
LinesLeft == IF v_counter < SyncEnd THEN SyncEnd - v_counter
                                    ELSE V_TOTAL + SyncEnd - v_counter
PixelsLeft == IF AfterReset THEN 1 ELSE LinesLeft * H_TOTAL - h_counter
EdgesLeft ==
  IF frame_clk_rising_edge THEN 0
  ELSE IF VGA_VS /\ ~frame_clk_delayed THEN 1
  ELSE 2 * PixelsLeft + (IF VGA_CLK THEN 0 ELSE 1)

Flags ==
  /\ Reset_h \in BOOLEAN /\ VGA_CLK \in BOOLEAN /\ VGA_VS \in BOOLEAN
  /\ frame_clk_delayed \in BOOLEAN /\ frame_clk_rising_edge \in BOOLEAN

VideoInv ==
  /\ h_counter \in 0..(H_TOTAL - 1) /\ v_counter \in 0..(V_TOTAL - 1)
  /\ VGA_VS => ~(SyncFirst <= v_counter /\ v_counter < SyncEnd)
  /\ ~VGA_VS => AfterReset \/ (SyncFirst <= v_counter /\ v_counter < SyncEnd)

\* The detector is two edges behind VGA_VS.
DetectorInv ==
  /\ frame_clk_rising_edge => frame_clk_delayed
  /\ ~Reset_h /\ frame_clk_rising_edge => VGA_CLK /\ JustRisen
  /\ ~Reset_h /\ VGA_VS /\ ~frame_clk_delayed => ~VGA_CLK /\ JustRisen

\* After its first edge a reset has either reached the video registers or
\* will with the next, and then no pulse is on its way.
ResetInv ==
  /\ resetHeld \in Nat
  /\ Reset_h /\ resetHeld > 0 =>
       IF VGA_CLK THEN VGA_VS => frame_clk_delayed ELSE AfterReset

\* The countdown of Tetris never runs behind.
DueInv == frameWait \in Nat /\ (~Reset_h => frameWait <= EdgesLeft)

TimingInv == Flags /\ VideoInv /\ DetectorInv /\ ResetInv /\ DueInv

\* A line is H_TOTAL pixels, in a form without products of unknowns.
LEMMA LineLength ==
  ASSUME NEW n \in Nat \ {0}
  PROVE  /\ n * H_TOTAL = (n - 1) * H_TOTAL + H_TOTAL
         /\ n * H_TOTAL \in Nat /\ n * H_TOTAL >= H_TOTAL
         /\ n > 1 => n * H_TOTAL >= 2 * H_TOTAL
<1>1. H_TOTAL \in Nat /\ H_TOTAL >= 2
  BY TimingAssumption
<1>2. \A m \in Nat : m * H_TOTAL \in Nat
  BY <1>1
<1>3. \A m \in Nat : (m + 1) * H_TOTAL = m * H_TOTAL + H_TOTAL
  BY <1>1
<1>4. n * H_TOTAL = (n - 1) * H_TOTAL + H_TOTAL
  BY <1>3
<1>5. n > 1 => (n - 1) * H_TOTAL = (n - 2) * H_TOTAL + H_TOTAL
  BY <1>3
<1> QED
  BY <1>1, <1>2, <1>4, <1>5

\* One edge of Clk, with the Booleans as equivalences.
LEMMA EdgeFacts ==
  ASSUME Flags, ClockEdge
  PROVE  /\ Flags'
         /\ VGA_CLK' <=> ~VGA_CLK
         /\ frame_clk_delayed' <=> VGA_VS
         /\ frame_clk_rising_edge' <=> VGA_VS /\ ~frame_clk_delayed
         /\ ~VGA_CLK => h_counter' = h_counter /\ v_counter' = v_counter /\ (VGA_VS' <=> VGA_VS)
         /\ VGA_CLK /\ Reset_h => h_counter' = 0 /\ v_counter' = 0 /\ ~VGA_VS'
         /\ VGA_CLK /\ ~Reset_h =>
               /\ h_counter' = h_counter_in /\ v_counter' = v_counter_in
               /\ VGA_VS' <=> ~(SyncFirst <= v_counter_in /\ v_counter_in < SyncEnd)
<1>1. VGA_CLK' \in BOOLEAN /\ (VGA_CLK' <=> ~VGA_CLK)
  BY Zenon DEF ClockEdge, Flags
<1>2. frame_clk_delayed' \in BOOLEAN /\ (frame_clk_delayed' <=> VGA_VS)
  BY Zenon DEF ClockEdge, EdgeDetector, Flags
<1>3. /\ frame_clk_rising_edge' \in BOOLEAN
      /\ frame_clk_rising_edge' <=> VGA_VS /\ ~frame_clk_delayed
  BY Zenon DEF ClockEdge, EdgeDetector, Flags
<1>4. Reset_h' \in BOOLEAN
  BY Zenon DEF ClockEdge, Button
<1>5. CASE ~VGA_CLK
  BY <1>1, <1>2, <1>3, <1>4, <1>5, Zenon DEF ClockEdge, VgaEdge, vgaVars, Flags
<1>6. CASE VGA_CLK /\ Reset_h
  BY <1>1, <1>2, <1>3, <1>4, <1>6, Zenon DEF ClockEdge, VgaEdge, Flags
<1>7. CASE VGA_CLK /\ ~Reset_h
  <2>1. /\ h_counter' = h_counter_in /\ v_counter' = v_counter_in /\ VGA_VS' = VGA_VS_in
    BY <1>7, Zenon DEF ClockEdge, VgaEdge
  <2>2. /\ VGA_VS' \in BOOLEAN
        /\ VGA_VS' <=> ~(SyncFirst <= v_counter_in /\ v_counter_in < SyncEnd)
    BY <2>1, Zenon DEF VGA_VS_in
  <2> QED
    BY <1>1, <1>2, <1>3, <1>4, <1>7, <2>1, <2>2, Zenon DEF Flags
<1> QED
  BY <1>5, <1>6, <1>7

LEMMA ButtonFacts ==
  ASSUME ResetInv, ClockEdge
  PROVE  /\ resetHeld' \in Nat
         /\ resetHeld' > 0 => Reset_h
         /\ ResetHold >= 2 /\ Reset_h /\ ~Reset_h' => resetHeld > 0
<1>1. ResetHold \in Nat \ {0}
  BY TimingAssumption
<1>2. resetHeld' = IF ~Reset_h THEN 0
                   ELSE IF resetHeld < ResetHold THEN resetHeld + 1 ELSE ResetHold
  BY DEF ClockEdge, Button
<1>3. Reset_h /\ resetHeld' < ResetHold => Reset_h'
  BY DEF ClockEdge, Button
<1> QED
  BY <1>1, <1>2, <1>3 DEF ResetInv

LEMMA InitTiming == Init => TimingInv
<1> SUFFICES ASSUME Init PROVE TimingInv
  OBVIOUS
<1>1. Flags
  BY Zenon DEF Init, Flags
<1> QED
  BY <1>1, TimingAssumption
     DEF Init, TimingInv, VideoInv, DetectorInv, ResetInv, DueInv, AfterReset

LEMMA VideoStep ==
  ASSUME TimingInv, ClockEdge PROVE VideoInv'
<1> USE TimingAssumption, EdgeFacts DEF TimingInv, VideoInv, AfterReset
<1>1. CASE ~VGA_CLK
  BY <1>1
<1>2. CASE VGA_CLK /\ Reset_h
  BY <1>2
<1>3. CASE VGA_CLK /\ ~Reset_h
  BY <1>3 DEF h_counter_in, v_counter_in, LastPixel
<1> QED
  BY <1>1, <1>2, <1>3

LEMMA DetectorStep ==
  ASSUME TimingInv, ClockEdge, ResetHold >= 2 PROVE DetectorInv'
<1> USE TimingAssumption, EdgeFacts, ButtonFacts DEF TimingInv, VideoInv, DetectorInv, ResetInv, AfterReset, JustRisen
<1>1. CASE Reset_h
  BY <1>1
<1>2. CASE ~Reset_h /\ ~VGA_CLK
  BY <1>2
<1>3. CASE ~Reset_h /\ VGA_CLK
  BY <1>3 DEF h_counter_in, v_counter_in, LastPixel
<1> QED
  BY <1>1, <1>2, <1>3

LEMMA ResetStep ==
  ASSUME TimingInv, ClockEdge PROVE ResetInv'
  BY TimingAssumption, EdgeFacts, ButtonFacts
     DEF TimingInv, VideoInv, ResetInv, AfterReset

\* The beam moves one pixel on: one pixel less to the next rise, unless this is
\* the rise.
LEMMA PixelStep ==
  ASSUME TimingInv, ClockEdge, VGA_CLK, ~Reset_h
  PROVE  /\ LinesLeft \in Nat \ {0} /\ PixelsLeft \in Nat \ {0}
         /\ ~VGA_VS => (VGA_VS' <=> PixelsLeft = 1)
         /\ VGA_VS \/ ~VGA_VS' => PixelsLeft' = PixelsLeft - 1
<1> USE TimingAssumption, EdgeFacts
    DEF TimingInv, VideoInv, AfterReset, LinesLeft, h_counter_in, v_counter_in, LastPixel
<1>1. LinesLeft \in Nat \ {0} /\ LinesLeft' \in Nat \ {0}
  BY VideoStep
<1>2. CASE AfterReset
  <2>1. PixelsLeft = 1 /\ VGA_VS'
    BY <1>2 DEF PixelsLeft
  <2> QED
    BY <1>1, <1>2, <2>1
<1>3. CASE ~AfterReset
  <2>1. PixelsLeft = LinesLeft * H_TOTAL - h_counter
    BY <1>3 DEF PixelsLeft
  <2>2. PixelsLeft \in Nat \ {0}
    BY <1>1, <2>1, LineLength
  <2>3. ~AfterReset'
    BY <1>3
  <2>4. PixelsLeft' = LinesLeft' * H_TOTAL - h_counter'
    BY <2>3 DEF PixelsLeft
  <2>5. CASE h_counter + 1 # H_TOTAL
    <3>1. LinesLeft' = LinesLeft /\ h_counter' = h_counter + 1 /\ v_counter' = v_counter
      BY <2>5
    <3>2. PixelsLeft' = PixelsLeft - 1
      BY <2>1, <2>4, <3>1, <1>1, LineLength
    <3>3. PixelsLeft # 1
      BY <1>1, <2>1, <2>5, LineLength
    <3>4. ~VGA_VS => ~VGA_VS'
      BY <1>3, <3>1
    <3> QED
      BY <1>1, <2>2, <3>2, <3>3, <3>4
  <2>6. CASE h_counter + 1 = H_TOTAL
    <3>1. PixelsLeft = (LinesLeft - 1) * H_TOTAL + 1
      BY <1>1, <2>1, <2>6, LineLength
    <3>2. h_counter' = 0
      BY <2>6
    <3>3. CASE LinesLeft > 1
      <4>1. LinesLeft' = LinesLeft - 1
        BY <2>6, <3>3
      <4>2. PixelsLeft' = PixelsLeft - 1
        BY <1>1, <2>4, <3>1, <3>2, <4>1, LineLength
      <4>3. PixelsLeft # 1
        BY <1>1, <3>1, <4>1, LineLength
      <4>4. ~VGA_VS => ~VGA_VS'
        BY <1>3, <2>6, <3>3
      <4> QED
        BY <1>1, <2>2, <4>2, <4>3, <4>4
    <3>4. CASE LinesLeft = 1
      <4>1. v_counter = SyncEnd - 1
        BY <3>4
      <4>2. ~VGA_VS /\ VGA_VS'
        BY <1>3, <2>6, <4>1
      <4>3. PixelsLeft = 1
        BY <3>1, <3>4
      <4> QED
        BY <1>1, <4>2, <4>3
    <3> QED
      BY <1>1, <3>3, <3>4
  <2> QED
    BY <2>5, <2>6
<1> QED
  BY <1>2, <1>3

LEMMA CountFacts ==
  ASSUME TimingInv, ClockEdge
  PROVE  /\ frameWait' \in Nat
         /\ Reset_h => frameWait' = ResetGap
         /\ ~Reset_h /\ frame_clk_rising_edge => frameWait' = FrameGap
         /\ ~Reset_h /\ ~frame_clk_rising_edge =>
               frameWait' = IF frameWait > 0 THEN frameWait - 1 ELSE 0
  BY TimingAssumption DEF TimingInv, DueInv, ClockEdge, CountDown

\* The countdown keeps pace: it loses one edge when the time to the next pulse
\* does, and is set anew only where that time is long enough.
LEMMA DueStep ==
  ASSUME TimingInv, ClockEdge, PulsesApart PROVE DueInv'
<1> USE TimingAssumption, EdgeFacts DEF TimingInv
<1> SUFFICES ASSUME ~Reset_h' PROVE frameWait' <= EdgesLeft'
  BY CountFacts DEF DueInv
<1>1. CASE Reset_h
  <2>1. frameWait' <= 2
    BY <1>1, CountFacts DEF PulsesApart
  <2>2. resetHeld > 0
    BY <1>1, ButtonFacts DEF PulsesApart
  <2>3. ~frame_clk_rising_edge' /\ AfterReset'
    BY <1>1, <2>2 DEF ResetInv, VideoInv, AfterReset
  <2>4. PixelsLeft' = 1 /\ ~VGA_VS'
    BY <2>3 DEF PixelsLeft, AfterReset
  <2> QED
    BY <2>1, <2>3, <2>4, CountFacts DEF EdgesLeft
<1>2. CASE ~Reset_h /\ frame_clk_rising_edge
  <2>1. VGA_CLK /\ JustRisen /\ frame_clk_delayed /\ VGA_VS
    BY <1>2 DEF DetectorInv, JustRisen
  <2>2. EdgesLeft' = 2 * PixelsLeft' + 1 /\ PixelsLeft' = PixelsLeft - 1
    BY <1>2, <2>1, PixelStep DEF EdgesLeft
  <2>3. PixelsLeft >= SyncEnd * H_TOTAL - 1
    <3>1. V_TOTAL * H_TOTAL = SyncEnd * H_TOTAL + (V_TOTAL - SyncEnd) * H_TOTAL
      OBVIOUS
    <3>2. (V_TOTAL - SyncEnd) * H_TOTAL \in Nat /\ SyncEnd * H_TOTAL \in Nat
      BY LineLength
    <3>3. PixelsLeft = LinesLeft * H_TOTAL - h_counter
      BY <2>1 DEF PixelsLeft, AfterReset
    <3>4. CASE h_counter = 1 /\ v_counter = 0
      BY <3>2, <3>3, <3>4 DEF LinesLeft
    <3>5. CASE h_counter = 0 /\ v_counter = SyncEnd
      BY <3>1, <3>2, <3>3, <3>5 DEF LinesLeft
    <3> QED
      BY <2>1, <3>4, <3>5 DEF JustRisen
  <2>4. SyncEnd * H_TOTAL \in Nat /\ PixelsLeft \in Nat
    BY <1>2, <2>1, LineLength, PixelStep
  <2>5. frameWait' = FrameGap
    BY <1>2, CountFacts
  <2> QED
    BY <2>2, <2>3, <2>4, <2>5 DEF PulsesApart
<1>3. CASE ~Reset_h /\ ~frame_clk_rising_edge /\ VGA_VS /\ ~frame_clk_delayed
  <2>1. frameWait' = 0
    BY <1>3, CountFacts DEF DueInv, EdgesLeft
  <2> QED
    BY <1>3, <2>1 DEF EdgesLeft
<1>4. CASE ~Reset_h /\ ~frame_clk_rising_edge /\ ~(VGA_VS /\ ~frame_clk_delayed)
  <2>1. frameWait <= 2 * PixelsLeft + (IF VGA_CLK THEN 0 ELSE 1)
    BY <1>4 DEF DueInv, EdgesLeft
  <2>2. frameWait' = IF frameWait > 0 THEN frameWait - 1 ELSE 0
    BY <1>4, CountFacts
  <2>3. ~frame_clk_rising_edge' /\ frameWait \in Nat
    BY <1>4 DEF DueInv
  <2>4. CASE ~VGA_CLK
    <3>1. PixelsLeft' = PixelsLeft /\ PixelsLeft \in Nat
      <4>1. LinesLeft' = LinesLeft /\ (AfterReset' <=> AfterReset) /\ h_counter' = h_counter
        BY <2>4 DEF LinesLeft, AfterReset
      <4>2. LinesLeft \in Nat \ {0} /\ h_counter \in 0..(H_TOTAL - 1)
        BY DEF LinesLeft, VideoInv
      <4> QED
        BY <4>1, <4>2, LineLength DEF PixelsLeft
    <3>2. VGA_CLK' /\ ~(VGA_VS' /\ ~frame_clk_delayed')
      BY <2>4
    <3>3. EdgesLeft' = 2 * PixelsLeft'
      BY <2>3, <3>1, <3>2 DEF EdgesLeft
    <3> QED
      BY <2>1, <2>2, <2>3, <2>4, <3>1, <3>3
  <2>5. CASE VGA_CLK /\ ~VGA_VS /\ VGA_VS'
    <3>1. PixelsLeft = 1
      BY <1>4, <2>5, PixelStep
    <3>2. EdgesLeft' = 1
      BY <2>3, <2>5 DEF EdgesLeft
    <3> QED
      BY <2>1, <2>2, <2>3, <2>5, <3>1, <3>2
  <2>6. CASE VGA_CLK /\ (VGA_VS \/ ~VGA_VS')
    <3>1. PixelsLeft' = PixelsLeft - 1 /\ PixelsLeft \in Nat \ {0}
      BY <1>4, <2>6, PixelStep
    <3>2. EdgesLeft' = 2 * PixelsLeft' + 1
      BY <2>3, <2>6 DEF EdgesLeft
    <3> QED
      BY <2>1, <2>2, <2>3, <2>6, <3>1, <3>2
  <2> QED
    BY <2>4, <2>5, <2>6
<1> QED
  BY <1>1, <1>2, <1>3, <1>4 DEF Flags

LEMMA TimingStep ==
  ASSUME TimingInv, [Next]_vars, PulsesApart PROVE TimingInv'
<1>1. CASE ClockEdge
  BY <1>1, EdgeFacts, VideoStep, DetectorStep, ResetStep, DueStep DEF TimingInv, PulsesApart
<1>2. CASE UNCHANGED vars
  BY <1>2 DEF vars, vgaVars, edgeVars, TimingInv, Flags, VideoInv, DetectorInv, ResetInv,
     DueInv, AfterReset, JustRisen, EdgesLeft, PixelsLeft, LinesLeft
<1> QED
  BY <1>1, <1>2 DEF Next

\* The board's clock is the clock of FrameTiming.
LEMMA BoardIsTimed == BoardSpec => Spec
<1>1. PowerUp => Init
  BY DEF PowerUp
<1>2. [BoardEdge]_boardVars => [Next]_vars
  BY DEF BoardEdge, boardVars, Next
<1> QED
  BY <1>1, <1>2, PTL DEF BoardSpec, Spec

LEMMA TimingCorrect ==
  ASSUME PulsesApart PROVE BoardSpec => []TimingInv
<1>1. TimingInv /\ [Next]_vars => TimingInv'
  BY TimingStep
<1> QED
  BY <1>1, InitTiming, BoardIsTimed, PTL DEF Spec

\* A pulse that acts on the game has been allowed by the countdown of Tetris, for
\* every size of frame: this is what lets Tetris admit pulses by that countdown
\* alone, and FrameGap be as large as a frame permits.
THEOREM PulseCorrect ==
  ASSUME PulsesApart PROVE BoardSpec => []PulseOnlyWhenDue
<1>1. TimingInv => PulseOnlyWhenDue
  BY DEF TimingInv, DueInv, EdgesLeft, PulseOnlyWhenDue, Acting
<1> QED
  BY <1>1, TimingCorrect, PTL

\* No pulse lasts for a second edge of Clk.
THEOREM SinglePulseCorrect == BoardSpec => OnePulsePerFrame
<1> DEFINE Seen == Flags /\ (frame_clk_rising_edge => frame_clk_delayed)
<1>1. Init => Seen
  BY InitTiming DEF TimingInv, DetectorInv
<1>2. Seen /\ [Next]_vars => Seen'
  <2>1. Seen /\ ClockEdge => Seen'
    BY EdgeFacts
  <2>2. Seen /\ UNCHANGED vars => Seen'
    BY DEF vars, vgaVars, edgeVars, Flags
  <2> QED
    BY <2>1, <2>2 DEF Next
<1>3. Seen /\ [Next]_vars => [frame_clk_rising_edge => ~frame_clk_rising_edge']_vars
  BY EdgeFacts DEF Next
<1> QED
  BY <1>1, <1>2, <1>3, BoardIsTimed, PTL DEF Spec, OnePulsePerFrame
=============================================================================
