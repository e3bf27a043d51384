---------------------------- MODULE PS2Receiver ----------------------------
(***************************************************************************)
(* The front of keyboard.sv bit by bit: the sampled keyboard clock, the    *)
(* count of its falling edges, the two shift registers, and the decoder of *)
(* Keyboard behind them.  The unit of time is a pulse of enable, one in    *)
(* 512 edges of Clk.                                                       *)
(*                                                                         *)
(* A frame is a start bit, eight data bits, parity and a stop bit.  The    *)
(* registers shift when psClk rises, but falling edges are counted, so     *)
(* Count is 11 before the stop bit has been shifted in.  The decoder runs  *)
(* on every Clk edge while Count is 11, which is until the next pulse of   *)
(* enable; it finds the same each time unless psClk rises meanwhile, which *)
(* MinLow = 3 excludes.  A pulse is 10.24 us, and a keyboard holds its     *)
(* clock low for 30 to 50.                                                 *)
(*                                                                         *)
(* wire holds the bytes that have not been decoded.                        *)
(***************************************************************************)
EXTENDS Keyboard, FiniteSets

CONSTANTS MinLow, MinHigh  \* pulses of enable for which psClk stays low, high

ASSUME PS2ReceiverAssumption ==
  /\ Codes \cup Prefixes \subseteq 1..255 /\ None = 0
  /\ MinLow \in Nat \ {0} /\ MinHigh \in Nat \ {0}

VARIABLES
  psClk, wait,   \* the clock line, and for how long it has not changed
  bit, frame,    \* the bit on the line, 0 between frames, and of which byte
  begun,         \* how many bytes of the wire the keyboard has begun to send
  Q1, Q2,        \* the last two samples of psClk
  Count, en,
  RegA, RegB,    \* reg_A and reg_B, Byte_1 and Byte_2 of the source
  ready          \* the receiver is as after power-up or after a reset

lineVars == <<psClk, wait, bit, frame, begun>>
sampleVars == <<Q1, Q2, Count, en>>
receiverVars == <<lineVars, sampleVars, RegA, RegB, ready>>

Weight == <<1, 2, 4, 8, 16, 32, 64, 128>>
DataBit(v, i) == (v \div Weight[i + 1]) % 2
BitOnLine == CASE bit = 1 -> 0
               [] bit \in 2..9 -> DataBit(frame, bit - 2)
               [] bit = 10 -> (1 + Cardinality({i \in 0..7 : DataBit(frame, i) = 1})) % 2
               [] OTHER -> 1

\* The byte in bits 9 to 2 of a register.
Slice(r) == r[2] + 2 * r[3] + 4 * r[4] + 8 * r[5] + 16 * r[6] + 32 * r[7] + 64 * r[8] + 128 * r[9]
Filled(b) == [i \in 0..10 |-> b]
ShiftIn(b, r) == [i \in 0..10 |-> IF i = 10 THEN b ELSE r[i + 1]]

\* psClk has been high for a while.  Power-up has left the rest zero; or else a
\* reset in the middle of a byte has left Count and the registers anyhow.
ReceiverInit ==
  /\ Init
  /\ psClk = TRUE /\ wait = MinHigh /\ bit = 0 /\ frame = 0 /\ begun = 0
  /\ Q1 = TRUE /\ Q2 = TRUE
  /\ \/ ready = TRUE /\ Count = 0 /\ RegA = Filled(0) /\ RegB = Filled(0) /\ en = FALSE
     \/ ready = FALSE /\ Count \in 0..10 /\ RegA = Filled(1) /\ RegB = Filled(1) /\ en = TRUE

----------------------------------------------------------------------------
\* The keyboard's lines.

Fall ==
  /\ psClk /\ wait >= MinHigh
  /\ IF bit = 0
       THEN /\ begun < Len(wire)
            /\ frame' = wire[begun + 1] /\ begun' = begun + 1
       ELSE UNCHANGED <<frame, begun>>
  /\ psClk' = FALSE /\ wait' = 0 /\ bit' = bit + 1
  /\ UNCHANGED <<playerVars, wire, decoderVars, sampleVars, RegA, RegB, ready>>

\* Lines 55-95, for what the registers hold.
Look(a, b) == Byte_1' = Slice(a) /\ Byte_2' = Slice(b) /\ Decode

\* reg_11.sv: both registers shift, A behind B.
Rise ==
  /\ ~psClk /\ wait >= MinLow
  /\ IF en THEN RegB' = ShiftIn(BitOnLine, RegB) /\ RegA' = ShiftIn(RegB[0], RegA)
           ELSE UNCHANGED <<RegA, RegB>>
  /\ IF Count = 11 THEN Look(RegA', RegB') ELSE UNCHANGED decoderVars
  /\ psClk' = TRUE /\ wait' = 0
  /\ bit' = IF bit = 11 THEN 0 ELSE bit
  /\ frame' = IF bit = 11 THEN 0 ELSE frame
  /\ UNCHANGED <<playerVars, wire, begun, sampleVars, ready>>

----------------------------------------------------------------------------
\* A pulse of enable (lines 21-53, Dreg.sv).  All flip-flops take what the others
\* held before it.

Falling == ~Q1 /\ Q2

Tick ==
  /\ Q1' = psClk /\ Q2' = Q1
  /\ Count' = IF Count = 11 THEN 0 ELSE IF Falling THEN Count + 1 ELSE Count
  /\ en' = (en \/ (Count # 11 /\ Falling))
  /\ wait' = IF wait < (IF psClk THEN MinHigh ELSE MinLow) THEN wait + 1 ELSE wait
  /\ IF Count' = 11
       THEN /\ Look(RegA, RegB)
            /\ wire' = IF wire = <<>> THEN <<>> ELSE Tail(wire)
            /\ begun' = IF begun = 0 THEN 0 ELSE begun - 1
       ELSE UNCHANGED <<decoderVars, wire, begun>>
  /\ UNCHANGED <<playerVars, psClk, bit, frame, RegA, RegB, ready>>

\* A reset that leaves the count.
ResetKeepsCount ==
  /\ bit = 0 /\ wire = <<>>
  /\ RegA' = Filled(0) /\ RegB' = Filled(0) /\ Byte_1' = None /\ Byte_2' = None
  /\ Q1' = TRUE /\ Q2' = FALSE
  /\ ready' = TRUE
  /\ UNCHANGED <<playerVars, wire, Data, Press, Typematic_Keycode, lineVars, Count, en>>

\* The button pressed and let go while the keyboard is silent.  enable stays
\* high with it, and for one Clk edge after it, which samples psClk.
ResetPressed ==
  /\ bit = 0 /\ wire = <<>>
  /\ RegA' = Filled(0) /\ RegB' = Filled(0) /\ Byte_1' = None /\ Byte_2' = None
  /\ Q1' = TRUE /\ Q2' = FALSE /\ Count' = 0
  /\ ready' = TRUE
  /\ UNCHANGED <<playerVars, wire, Data, Press, Typematic_Keycode, lineVars, en>>

Player ==
  /\ ready
  /\ (\E k \in Codes : KeyDown(k) \/ KeyUp(k)) \/ Repeat
  /\ UNCHANGED receiverVars

ReceiverNext == Player \/ Fall \/ Rise \/ Tick \/ ResetPressed
ReceiverSpec == ReceiverInit /\ [][ReceiverNext]_<<vars, receiverVars>>

\* Clk is an oscillator, and the keyboard sends what it has begun.
ReceiverFairSpec ==
  /\ ReceiverSpec
  /\ WF_<<vars, receiverVars>>(Tick) /\ WF_<<vars, receiverVars>>(Fall \/ Rise)

----------------------------------------------------------------------------
\* Every byte that is sent, and nothing else, is decoded, once, with the byte
\* before it beside it: bits 9 to 2 of both registers hold data at the moment
\* Count is 11 (keyboard.sv:45-57), and a reset puts right what is left of a
\* byte cut short.
DecodesBytes == Spec
=============================================================================
