-------------------------------- MODULE LFSR --------------------------------
(***************************************************************************)
(* LFSR.sv and the selector choose_block.sv takes from it.  The register   *)
(* is eight bits wide, but its feedback taps are bits 4 and 2, so bits 5   *)
(* to 7 only remember and the register is a five-bit generator of period   *)
(* 31 with a three-bit tail.                                               *)
(***************************************************************************)
EXTENDS Integers

VARIABLE LFSR_out

Bytes == 0..255

\* The bit of weight w: bit 4 has weight 16, bit 2 has weight 4.
Bit(x, w) == (x \div w) % 2

\* Taps counted from one: bits 3 and 1.
FeedbackOffByOne(x) == (Bit(x, 8) + Bit(x, 2)) % 2

\* The exclusive or of the two taps.
feedback(x) == (Bit(x, 16) + Bit(x, 4)) % 2

\* {LFSR_out[6:0], feedback}
Shifted(x) == ((2 * x) % 256) + feedback(x)

\* The selector of the next piece, LFSR_out % 7.
Draw(x) == x % 7

\* The register has no initial value: it powers up with anything.
Init == LFSR_out \in Bytes

Clock == LFSR_out' = Shifted(LFSR_out)

\* A reset to zero instead of ones.
ResetToZero == LFSR_out' = 0

Reset == LFSR_out' = 255

\* Bits 4 to 0 are all zero: the register will never hold anything but what
\* bits 7 to 5 still have to lose, and then zero.
LockedUp == LFSR_out % 32 = 0
=============================================================================
