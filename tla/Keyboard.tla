------------------------------ MODULE Keyboard ------------------------------
(***************************************************************************)
(* keyboard.sv as a decoder of scan codes, with the PS/2 keyboard and the  *)
(* player in front of it.  One step of the decoder is one received frame:  *)
(* the two eleven-bit shift registers move on by one frame (lines 108-128) *)
(* and the decoder looks at both (lines 55-95).  PS2Receiver has the bits. *)
(*                                                                         *)
(* A plain key sends its code when it goes down and F0 and its code when   *)
(* it comes up; an extended key puts E0 before                             *)
(* both.  The key pressed last repeats its make code while it is down.     *)
(***************************************************************************)
EXTENDS Integers, Sequences

CONSTANTS
  Plain,      \* codes of the ordinary keys
  Extended,   \* codes of the keys with an E0 prefix
  E0, F0,     \* the prefixes of an extended key and of a release
  None,       \* the code 00, which no key sends
  MaxWire     \* bytes the keyboard may have sent and not delivered

Codes == Plain \cup Extended
Prefixes == {E0, F0}

ASSUME KeyboardAssumption ==
  /\ Plain \cap Extended = {} /\ E0 # F0
  /\ None \notin Codes \cup Prefixes
  /\ Codes \cap Prefixes = {}
  /\ MaxWire \in Nat

VARIABLES
  held,       \* the keys that are down
  last,       \* the key that went down last, the one that repeats
  wire,       \* bytes on their way
  Byte_1, Byte_2,      \* the last two bytes received
  Data, Press,         \* keyCode and press, what the game sees
  Typematic_Keycode    \* the code whose repetitions are ignored

playerVars == <<held, last>>
decoderVars == <<Byte_1, Byte_2, Data, Press, Typematic_Keycode>>
vars == <<playerVars, wire, decoderVars>>

Bytes == Codes \cup Prefixes

TypeOK ==
  /\ held \subseteq Codes
  /\ last \in Codes \cup {None}
  /\ wire \in Seq(Bytes)
  /\ Byte_1 \in Bytes \cup {None}
  /\ Byte_2 \in Bytes \cup {None}
  /\ Data \in Codes \cup {None}
  /\ Press \in BOOLEAN
  /\ Typematic_Keycode \in Codes \cup {None}

Init ==
  /\ held = {} /\ last = None
  /\ wire = <<>>
  /\ Byte_1 = None /\ Byte_2 = None
  /\ Data = None /\ Press = FALSE /\ Typematic_Keycode = None

----------------------------------------------------------------------------
\* The player and the keyboard.

Make(k) == IF k \in Extended THEN <<E0, k>> ELSE <<k>>
Break(k) == IF k \in Extended THEN <<E0, F0, k>> ELSE <<F0, k>>

Send(bytes) ==
  /\ Len(wire) + Len(bytes) <= MaxWire
  /\ wire' = wire \o bytes
  /\ UNCHANGED decoderVars

KeyDown(k) ==
  /\ k \notin held
  /\ Send(Make(k))
  /\ held' = held \cup {k}
  /\ last' = k

KeyUp(k) ==
  /\ k \in held
  /\ Send(Break(k))
  /\ held' = held \ {k}
  /\ UNCHANGED last

Repeat ==
  /\ last \in held
  /\ Send(Make(last))
  /\ UNCHANGED playerVars

----------------------------------------------------------------------------
\* The decoder.

\* Lines 60-69: a prefix by itself means nothing yet.
ReceivePrefix ==
  /\ Byte_2' \in Prefixes
  /\ UNCHANGED <<Data, Press, Typematic_Keycode>>

\* A release that leaves the repeated code as it is.
KeepTypematic ==
  /\ Byte_2' \notin Prefixes /\ Byte_1' = F0
  /\ Data' = Byte_2'
  /\ Press' = FALSE
  /\ UNCHANGED Typematic_Keycode

\* The test for a repetition made before the test for a release.
RepeatTestedFirst ==
  /\ Byte_2' \notin Prefixes /\ Byte_1' = F0
  /\ IF Byte_2' = Typematic_Keycode
       THEN UNCHANGED <<Data, Press>>
       ELSE Data' = Byte_2' /\ Press' = FALSE
  /\ UNCHANGED Typematic_Keycode

\* Lines 72-79: any release clears press, whichever key is shown.
ReceiveBreak ==
  /\ Byte_2' \notin Prefixes /\ Byte_1' = F0
  /\ Data' = Byte_2'
  /\ Press' = FALSE
  /\ Typematic_Keycode' = IF Byte_2' = Typematic_Keycode THEN None
                                                         ELSE Typematic_Keycode

\* Lines 82-85: a repetition of the code in Typematic_Keycode.
ReceiveRepeat ==
  /\ Byte_1' # F0 /\ Byte_2' = Typematic_Keycode
  /\ UNCHANGED <<Data, Press, Typematic_Keycode>>

\* Lines 88-93: any other code is a new press.
ReceiveMake ==
  /\ Byte_2' \notin Prefixes \cup {Typematic_Keycode} /\ Byte_1' # F0
  /\ Data' = Byte_2'
  /\ Press' = TRUE
  /\ Typematic_Keycode' = Byte_2'

Decode == ReceivePrefix \/ ReceiveBreak \/ ReceiveRepeat \/ ReceiveMake

\* A frame ends: its byte becomes Byte_2 and the one before it Byte_1.
Shift ==
  /\ wire # <<>>
  /\ Byte_2' = Head(wire)
  /\ Byte_1' = Byte_2
  /\ wire' = Tail(wire)

Receive ==
  /\ Shift /\ Decode
  /\ UNCHANGED playerVars

\* The button, while nothing is on its way: only the shift registers forget.
Reset ==
  /\ wire = <<>>
  /\ Byte_1' = None /\ Byte_2' = None
  /\ UNCHANGED <<playerVars, wire, Data, Press, Typematic_Keycode>>

Next ==
  \/ \E k \in Codes : KeyDown(k) \/ KeyUp(k)
  \/ Repeat
  \/ Receive
  \/ Reset

Spec == Init /\ [][Next]_vars

\* Bytes that were sent arrive.
FairSpec == Spec /\ WF_vars(Receive)

----------------------------------------------------------------------------
\* A release of k is on its way to the decoder.
BreakPending(k) ==
  \/ Byte_2 = F0 /\ wire # <<>> /\ Head(wire) = k
  \/ \E i \in 1..(Len(wire) - 1) : wire[i] = F0 /\ wire[i + 1] = k

\* The game is never told of a key that is up: if press is high, the key it
\* names is down, or its release has been sent.  With nothing on the wire and
\* no key down, press is low: no key sticks (keyboard.sv:72-79).
ShownKeyIsDown == Press => Data \in held \/ BreakPending(Data)

\* The code whose repetitions are ignored belongs to a key that is down, so
\* that no first press of a key is ever taken for a repetition
\* (keyboard.sv:77-85), in whatever order keys overlap.
IgnoredKeyIsDown ==
  Typematic_Keycode # None =>
    \/ Typematic_Keycode \in held
    \/ BreakPending(Typematic_Keycode)

\* Once the player has let go of everything for good, the game sees no key
\* for good (keyboard.sv:72-79).
LetGoIsSeen == <>[](held = {}) => <>[](~Press)
=============================================================================
