--------------------------- MODULE KeyboardProofs ---------------------------
(***************************************************************************)
(* The decoder of bytes, and the receiver that implements it bit by bit.   *)
(*                                                                         *)
(* No key sticks and no first press is lost, for any set of keys and any   *)
(* number of bytes on the wire.  The induction needs to know what the wire *)
(* may hold: a release prefix is followed by its code, and the code of a   *)
(* key that is up again by its release.                                    *)
(***************************************************************************)
EXTENDS PS2Receiver, TLAPS, FiniteSetTheorems


\* The byte before the one at place i of the wire.
Before(i) == IF i = 1 THEN Byte_2 ELSE wire[i - 1]

\* F0 is never the last byte sent, and a code follows it.
ReleaseHasCode ==
  /\ Byte_2 = F0 => wire # <<>> /\ Head(wire) \in Codes
  /\ \A i \in 1..Len(wire) : wire[i] = F0 => i < Len(wire) /\ wire[i + 1] \in Codes

\* The make code of a key that is up is followed by the release of that key.
MakeHasBreak ==
  \A i \in 1..Len(wire) :
    wire[i] \in Codes \ held /\ Before(i) # F0 =>
      \E j \in (i + 1)..(Len(wire) - 1) : wire[j] = F0 /\ wire[j + 1] = wire[i]

Inv == TypeOK /\ ReleaseHasCode /\ MakeHasBreak /\ ShownKeyIsDown /\ IgnoredKeyIsDown

\* What is appended leaves the bytes before it where they are.
LEMMA Appended ==
  ASSUME NEW S, NEW s \in Seq(S), NEW t \in Seq(S)
  PROVE  /\ s \o t \in Seq(S) /\ Len(s \o t) = Len(s) + Len(t)
         /\ \A i \in 1..Len(s) : (s \o t)[i] = s[i]
         /\ \A i \in 1..Len(t) : (s \o t)[Len(s) + i] = t[i]
OBVIOUS

LEMMA HeadIsFirst ==
  ASSUME NEW S, NEW s \in Seq(S), 1 \in 1..Len(s)
  PROVE  s # <<>> /\ Head(s) = s[1]
OBVIOUS

\* A release on its way stays on its way when more is sent.
LEMMA PendingStays ==
  ASSUME TypeOK, NEW k \in Codes, BreakPending(k), NEW t \in Seq(Bytes),
         wire' = wire \o t, Byte_2' = Byte_2
  PROVE  BreakPending(k)'
<1>1. /\ wire \in Seq(Bytes) /\ Len(wire') = Len(wire) + Len(t) /\ Len(t) \in Nat
      /\ \A i \in 1..Len(wire) : wire'[i] = wire[i]
      /\ wire' \in Seq(Bytes)
  BY Appended DEF TypeOK
<1>2. CASE Byte_2 = F0 /\ wire # <<>> /\ Head(wire) = k
  <2>1. wire' # <<>> /\ Head(wire') = k
    BY <1>1, <1>2
  <2> QED
    BY <1>2, <2>1 DEF BreakPending
<1>3. CASE \E i \in 1..(Len(wire) - 1) : wire[i] = F0 /\ wire[i + 1] = k
  <2>1. PICK i \in 1..(Len(wire) - 1) : wire[i] = F0 /\ wire[i + 1] = k
    BY <1>3
  <2>2. i \in 1..(Len(wire') - 1) /\ wire'[i] = F0 /\ wire'[i + 1] = k
    BY <1>1, <2>1
  <2> QED
    BY <2>2 DEF BreakPending
<1> QED
  BY <1>2, <1>3 DEF BreakPending

\* It is on its way until its code is the next byte.
LEMMA PendingShifts ==
  ASSUME TypeOK, Shift, NEW k \in Codes, BreakPending(k), Byte_2 = F0 => Head(wire) # k
  PROVE  BreakPending(k)'
<1>1. /\ wire \in Seq(Bytes) /\ wire # <<>> /\ wire' = Tail(wire)
      /\ wire' \in Seq(Bytes) /\ Len(wire') = Len(wire) - 1 /\ Len(wire) \in Nat \ {0}
      /\ \A i \in 1..Len(wire') : wire'[i] = wire[i + 1]
      /\ Byte_2' = wire[1]
  BY DEF TypeOK, Shift
<1>2. PICK i \in 1..(Len(wire) - 1) : wire[i] = F0 /\ wire[i + 1] = k
  BY DEF BreakPending
<1>3. CASE i = 1
  <2>1. 1 \in 1..Len(wire') /\ wire'[1] = wire[1 + 1]
    BY <1>1, <1>2, <1>3
  <2>2. Byte_2' = F0 /\ wire'[1] = k
    BY <1>1, <1>2, <1>3, <2>1
  <2>3. wire' # <<>> /\ Head(wire') = wire'[1]
    BY <1>1, <2>1, HeadIsFirst
  <2> QED
    BY <2>2, <2>3 DEF BreakPending
<1>4. CASE i # 1
  <2>1. /\ i - 1 \in 1..(Len(wire') - 1)
        /\ wire'[i - 1] = F0 /\ wire'[(i - 1) + 1] = k
    BY <1>1, <1>2, <1>4
  <2> QED
    BY <2>1 DEF BreakPending
<1> QED
  BY <1>3, <1>4

\* What the decoder shows or ignores keeps its release on the way, while only
\* more is sent.
LEMMA PendingKept ==
  ASSUME Inv, NEW t \in Seq(Bytes), wire' = wire \o t, UNCHANGED decoderVars
  PROVE  /\ Press' /\ Data' \notin held => BreakPending(Data)'
         /\ Typematic_Keycode' # None /\ Typematic_Keycode' \notin held =>
              BreakPending(Typematic_Keycode)'
<1>1. /\ Data' = Data /\ Byte_2' = Byte_2 /\ Press' = Press
      /\ Typematic_Keycode' = Typematic_Keycode
  BY DEF decoderVars
<1>2. wire \in Seq(Bytes) /\ None \notin Bytes /\ Byte_2 \in Bytes \cup {None}
  BY KeyboardAssumption DEF Inv, TypeOK, Bytes
<1>3. \A c \in Codes : BreakPending(c) => BreakPending(c)'
  BY <1>1, PendingStays DEF Inv
<1>4. ASSUME BreakPending(None) PROVE FALSE
  <2>1. \A i \in 1..Len(wire) : wire[i] \in Bytes
    BY <1>2
  <2>2. wire # <<>> => Head(wire) \in Bytes
    BY <1>2
  <2> QED
    BY <1>2, <1>4, <2>1, <2>2 DEF BreakPending
<1>5. ASSUME Press', Data' \notin held PROVE BreakPending(Data)'
  <2>1. PICK c \in Codes \cup {None} : c = Data
    BY DEF Inv, TypeOK
  <2>2. BreakPending(c)
    BY <1>1, <1>5, <2>1 DEF Inv, ShownKeyIsDown, BreakPending
  <2>3. BreakPending(c)'
    BY <1>3, <1>4, <2>2
  <2> QED
    BY <1>1, <2>1, <2>3 DEF BreakPending
<1>6. ASSUME Typematic_Keycode' # None, Typematic_Keycode' \notin held
      PROVE  BreakPending(Typematic_Keycode)'
  <2>1. PICK c \in Codes : c = Typematic_Keycode
    BY <1>1, <1>6 DEF Inv, TypeOK
  <2>2. BreakPending(c)
    BY <1>1, <1>6, <2>1 DEF Inv, IgnoredKeyIsDown, BreakPending
  <2>3. BreakPending(c)'
    BY <1>3, <2>2
  <2> QED
    BY <1>1, <2>1, <2>3 DEF BreakPending
<1> QED
  BY <1>5, <1>6

----------------------------------------------------------------------------
\* Sending: what a key that goes down or repeats puts on the wire, and what a
\* key that comes up puts there.
LEMMA SendMakeInv ==
  ASSUME Inv, NEW k \in Codes, Send(Make(k)), k \in held', held \subseteq held',
         held' \subseteq Codes, last' \in Codes \cup {None}
  PROVE  Inv'
<1> DEFINE t == Make(k)
<1>1. /\ t \in Seq(Bytes) /\ Len(t) \in 1..2
      /\ \A i \in 1..Len(t) : t[i] # F0 /\ (t[i] \in Codes => t[i] = k)
  <2>1. k \in Bytes /\ E0 \in Bytes /\ k # F0 /\ E0 # F0 /\ E0 \notin Codes
    BY KeyboardAssumption DEF Bytes, Prefixes
  <2>2. CASE k \in Extended
    BY <2>1, <2>2 DEF Make
  <2>3. CASE k \notin Extended
    BY <2>1, <2>3 DEF Make
  <2> QED
    BY <2>2, <2>3
<1>2. wire' = wire \o t /\ UNCHANGED decoderVars
  BY DEF Send
<1> HIDE DEF t
<1>3. /\ wire \in Seq(Bytes) /\ wire' \in Seq(Bytes) /\ Len(wire') = Len(wire) + Len(t)
      /\ \A i \in 1..Len(wire) : wire'[i] = wire[i]
      /\ \A i \in 1..Len(t) : wire'[Len(wire) + i] = t[i]
  BY <1>1, <1>2, Appended DEF Inv, TypeOK
<1>4. \A i \in 1..Len(wire') : i <= Len(wire) \/ (i - Len(wire) \in 1..Len(t) /\ wire'[i] = t[i - Len(wire)])
  BY <1>1, <1>3
<1>5. TypeOK'
  BY <1>2, <1>3 DEF Inv, TypeOK, decoderVars
<1>6. ReleaseHasCode'
  <2>1. Byte_2' = F0 => wire' # <<>> /\ Head(wire') \in Codes
    BY <1>2, <1>3, <1>1 DEF Inv, ReleaseHasCode, decoderVars
  <2>2. ASSUME NEW i \in 1..Len(wire'), wire'[i] = F0
        PROVE  i < Len(wire') /\ wire'[i + 1] \in Codes
    <3>1. i <= Len(wire) /\ wire[i] = F0
      BY <1>1, <1>3, <1>4, <2>2
    <3>2. i < Len(wire) /\ wire[i + 1] \in Codes
      BY <1>3, <3>1 DEF Inv, ReleaseHasCode
    <3>3. i + 1 \in 1..Len(wire) /\ i < Len(wire')
      BY <1>1, <1>3, <3>2
    <3> QED
      BY <1>3, <3>2, <3>3
  <2> QED
    BY <2>1, <2>2 DEF ReleaseHasCode
<1>7. MakeHasBreak'
  <2> SUFFICES ASSUME NEW i \in 1..Len(wire'), wire'[i] \in Codes \ held', Before(i)' # F0
               PROVE  \E j \in (i + 1)..(Len(wire') - 1) : wire'[j] = F0 /\ wire'[j + 1] = wire'[i]
    BY DEF MakeHasBreak
  <2>1. i <= Len(wire)
    BY <1>1, <1>4
  <2>2. wire[i] = wire'[i] /\ wire[i] \in Codes \ held /\ Before(i) # F0
    BY <1>2, <1>3, <2>1 DEF Before, decoderVars
  <2>3. PICK j \in (i + 1)..(Len(wire) - 1) : wire[j] = F0 /\ wire[j + 1] = wire[i]
    BY <1>3, <2>1, <2>2 DEF Inv, MakeHasBreak
  <2>4. j \in 1..Len(wire) /\ j + 1 \in 1..Len(wire) /\ j \in (i + 1)..(Len(wire') - 1)
    BY <1>1, <1>3, <2>1, <2>3
  <2>5. wire'[j] = F0 /\ wire'[j + 1] = wire'[i]
    BY <1>3, <2>2, <2>3, <2>4
  <2> QED
    BY <2>4, <2>5
<1>8. ShownKeyIsDown' /\ IgnoredKeyIsDown'
  BY <1>1, <1>2, PendingKept DEF ShownKeyIsDown, IgnoredKeyIsDown
<1> QED
  BY <1>5, <1>6, <1>7, <1>8 DEF Inv

LEMMA SendBreakInv ==
  ASSUME Inv, NEW k \in Codes, KeyUp(k)
  PROVE  Inv'
<1> DEFINE t == Break(k)  e == Len(wire) + Len(t) - 1
<1>1. /\ t \in Seq(Bytes) /\ Len(t) \in 2..3
      /\ t[Len(t)] = k /\ t[Len(t) - 1] = F0 /\ k # F0
      /\ \A i \in 1..Len(t) : /\ t[i] = F0 => i = Len(t) - 1
                              /\ t[i] \in Codes => i = Len(t)
  <2>1. /\ k \in Bytes /\ E0 \in Bytes /\ F0 \in Bytes /\ k # F0
        /\ E0 \notin Codes /\ F0 \notin Codes /\ E0 # F0
    BY KeyboardAssumption DEF Bytes, Prefixes
  <2>2. CASE k \in Extended
    BY <2>1, <2>2 DEF Break
  <2>3. CASE k \notin Extended
    BY <2>1, <2>3 DEF Break
  <2> QED
    BY <2>1, <2>2, <2>3
<1>2. wire' = wire \o t /\ held' = held \ {k} /\ last' = last /\ UNCHANGED decoderVars
  BY DEF KeyUp, Send
<1> HIDE DEF t
<1>3. /\ wire \in Seq(Bytes) /\ wire' \in Seq(Bytes) /\ Len(wire') = Len(wire) + Len(t)
      /\ \A i \in 1..Len(wire) : wire'[i] = wire[i]
      /\ \A i \in 1..Len(t) : wire'[Len(wire) + i] = t[i]
  BY <1>1, <1>2, Appended DEF Inv, TypeOK
<1>4. \A i \in 1..Len(wire') : i <= Len(wire) \/ (i - Len(wire) \in 1..Len(t) /\ wire'[i] = t[i - Len(wire)])
  BY <1>1, <1>3
<1>5. /\ e \in 1..(Len(wire') - 1) /\ e > Len(wire) /\ e + 1 = Len(wire')
      /\ wire'[e] = F0 /\ wire'[e + 1] = k
  <2>0. Len(t) \in 2..3 /\ Len(wire) \in Nat
    BY <1>1, <1>3
  <2>1. Len(t) - 1 \in 1..Len(t) /\ Len(t) \in 1..Len(t) /\ Len(wire) \in Nat
    <3>1. \A m \in 2..3 : m - 1 \in 1..m /\ m \in 1..m
      OBVIOUS
    <3> QED
      BY <2>0, <3>1
  <2>2. wire'[Len(wire) + (Len(t) - 1)] = F0 /\ wire'[Len(wire) + Len(t)] = k
    BY <1>1, <1>3, <2>1
  <2>3. e = Len(wire) + (Len(t) - 1) /\ e + 1 = Len(wire) + Len(t)
    BY <2>1
  <2>4. e \in 1..(Len(wire') - 1) /\ e > Len(wire)
    BY <1>1, <1>3, <2>1, <2>3
  <2> QED
    BY <1>3, <2>2, <2>3, <2>4
<1>6. TypeOK'
  BY <1>2, <1>3 DEF Inv, TypeOK, decoderVars
<1>7. ReleaseHasCode'
  <2>1. Byte_2' = F0 => wire' # <<>> /\ Head(wire') \in Codes
    BY <1>2, <1>3, <1>1 DEF Inv, ReleaseHasCode, decoderVars
  <2>2. ASSUME NEW i \in 1..Len(wire'), wire'[i] = F0
        PROVE  i < Len(wire') /\ wire'[i + 1] \in Codes
    <3>1. CASE i <= Len(wire)
      <4>1. i < Len(wire) /\ wire[i + 1] \in Codes
        BY <1>3, <2>2, <3>1 DEF Inv, ReleaseHasCode
      <4>2. i + 1 \in 1..Len(wire) /\ i < Len(wire')
        BY <1>1, <1>3, <4>1
      <4> QED
        BY <1>3, <4>1, <4>2
    <3>2. CASE i > Len(wire)
      <4>1. i - Len(wire) \in 1..Len(t) /\ t[i - Len(wire)] = F0
        BY <1>3, <1>4, <2>2, <3>2
      <4>2. i - Len(wire) = Len(t) - 1
        BY <1>1, <4>1
      <4>3. i = e
        BY <1>1, <1>3, <4>2
      <4> QED
        BY <1>5, <4>3
    <3> QED
      BY <1>3, <3>1, <3>2
  <2> QED
    BY <2>1, <2>2 DEF ReleaseHasCode
<1>8. MakeHasBreak'
  <2> SUFFICES ASSUME NEW i \in 1..Len(wire'), wire'[i] \in Codes \ held', Before(i)' # F0
               PROVE  \E j \in (i + 1)..(Len(wire') - 1) : wire'[j] = F0 /\ wire'[j + 1] = wire'[i]
    BY DEF MakeHasBreak
  <2>1. i <= Len(wire)
    <3> SUFFICES ASSUME i > Len(wire) PROVE FALSE
      BY <1>3
    <3>1. i - Len(wire) \in 1..Len(t) /\ t[i - Len(wire)] \in Codes
      BY <1>3, <1>4
    <3>2. i - Len(wire) = Len(t)
      BY <1>1, <3>1
    <3>3. i = e + 1
      BY <1>1, <1>3, <3>2
    <3>4. i # 1 /\ i - 1 = e
      BY <1>5, <3>3
    <3> QED
      BY <1>5, <3>4 DEF Before
  <2>2. wire[i] = wire'[i] /\ Before(i) # F0
    BY <1>2, <1>3, <2>1 DEF Before, decoderVars
  <2>3. CASE wire[i] = k
    <3>1. e \in (i + 1)..(Len(wire') - 1) /\ wire'[e] = F0 /\ wire'[e + 1] = wire'[i]
      BY <1>3, <1>5, <2>1, <2>2, <2>3
    <3> QED
      BY <3>1
  <2>4. CASE wire[i] # k
    <3>1. wire[i] \in Codes \ held
      BY <1>2, <2>2, <2>4
    <3>2. PICK j \in (i + 1)..(Len(wire) - 1) : wire[j] = F0 /\ wire[j + 1] = wire[i]
      BY <1>3, <2>1, <2>2, <3>1 DEF Inv, MakeHasBreak
    <3>3. j \in 1..Len(wire) /\ j + 1 \in 1..Len(wire) /\ j \in (i + 1)..(Len(wire') - 1)
      BY <1>1, <1>3, <2>1, <3>2
    <3>4. wire'[j] = F0 /\ wire'[j + 1] = wire'[i]
      BY <1>3, <2>2, <3>2, <3>3
    <3> QED
      BY <3>3, <3>4
  <2> QED
    BY <2>3, <2>4
<1>9. BreakPending(k)'
  BY <1>5 DEF BreakPending
<1>10. ShownKeyIsDown'
  <2> SUFFICES ASSUME Press', Data' \notin held' PROVE BreakPending(Data)'
    BY DEF ShownKeyIsDown
  <2>1. CASE Data' = k
    BY <1>9, <2>1 DEF BreakPending
  <2>2. CASE Data' # k
    BY <1>1, <1>2, <2>2, PendingKept
  <2> QED
    BY <2>1, <2>2
<1>11. IgnoredKeyIsDown'
  <2> SUFFICES ASSUME Typematic_Keycode' # None, Typematic_Keycode' \notin held'
               PROVE  BreakPending(Typematic_Keycode)'
    BY DEF IgnoredKeyIsDown
  <2>1. CASE Typematic_Keycode' = k
    BY <1>9, <2>1 DEF BreakPending
  <2>2. CASE Typematic_Keycode' # k
    BY <1>1, <1>2, <2>2, PendingKept
  <2> QED
    BY <2>1, <2>2
<1> QED
  BY <1>6, <1>7, <1>8, <1>10, <1>11 DEF Inv

----------------------------------------------------------------------------
\* Receiving.  What a shift leaves of the wire's order is the same for every
\* action of the decoder.
LEMMA ShiftInv ==
  ASSUME Inv, Shift, UNCHANGED playerVars
  PROVE  ReleaseHasCode' /\ MakeHasBreak'
<1>1. /\ wire \in Seq(Bytes) /\ wire # <<>> /\ wire' = Tail(wire)
      /\ wire' \in Seq(Bytes) /\ Len(wire') = Len(wire) - 1 /\ Len(wire) \in Nat \ {0}
      /\ \A i \in 1..Len(wire') : wire'[i] = wire[i + 1]
      /\ Byte_2' = wire[1] /\ held' = held
  BY DEF Inv, TypeOK, Shift, playerVars
<1>2. ReleaseHasCode'
  <2>1. \A i \in 1..Len(wire) : wire[i] = F0 => i < Len(wire) /\ wire[i + 1] \in Codes
    BY DEF Inv, ReleaseHasCode
  <2>2. Byte_2' = F0 => wire' # <<>> /\ Head(wire') \in Codes
    <3>1. 1 \in 1..Len(wire)
      BY <1>1
    <3>2. Byte_2' = F0 => 1 < Len(wire) /\ wire[1 + 1] \in Codes
      BY <1>1, <2>1, <3>1
    <3>3. 1 < Len(wire) => 1 \in 1..Len(wire')
      BY <1>1
    <3>4. 1 < Len(wire) => wire' # <<>> /\ Head(wire') = wire'[1]
      BY <1>1, <3>3, HeadIsFirst
    <3> QED
      BY <1>1, <3>2, <3>3, <3>4
  <2>3. ASSUME NEW i \in 1..Len(wire'), wire'[i] = F0
        PROVE  i < Len(wire') /\ wire'[i + 1] \in Codes
    <3>1. i + 1 \in 1..Len(wire) /\ wire[i + 1] = F0
      BY <1>1, <2>3
    <3>2. i + 1 < Len(wire) /\ wire[(i + 1) + 1] \in Codes
      BY <2>1, <3>1
    <3> QED
      BY <1>1, <3>2
  <2> QED
    BY <2>2, <2>3 DEF ReleaseHasCode
<1>3. MakeHasBreak'
  <2> SUFFICES ASSUME NEW i \in 1..Len(wire'), wire'[i] \in Codes \ held', Before(i)' # F0
               PROVE  \E j \in (i + 1)..(Len(wire') - 1) : wire'[j] = F0 /\ wire'[j + 1] = wire'[i]
    BY DEF MakeHasBreak
  <2>1. i + 1 \in 1..Len(wire) /\ wire[i + 1] = wire'[i] /\ wire[i + 1] \in Codes \ held
    BY <1>1
  <2>2. Before(i + 1) # F0
    BY <1>1 DEF Before
  <2>3. PICK j \in ((i + 1) + 1)..(Len(wire) - 1) : wire[j] = F0 /\ wire[j + 1] = wire[i + 1]
    BY <2>1, <2>2 DEF Inv, MakeHasBreak
  <2>4. /\ j - 1 \in (i + 1)..(Len(wire') - 1)
        /\ wire'[j - 1] = F0 /\ wire'[(j - 1) + 1] = wire'[i]
    BY <1>1, <2>1, <2>3
  <2> QED
    BY <2>4
<1> QED
  BY <1>2, <1>3

\* What is shown or ignored, if it does not change and its release is not the
\* byte that arrives.
LEMMA ShownKept ==
  ASSUME Inv, Shift, UNCHANGED <<playerVars, Data, Press>>,
         Byte_2 = F0 => Head(wire) # Data
  PROVE  ShownKeyIsDown'
<1> SUFFICES ASSUME Press', Data' \notin held' PROVE BreakPending(Data)'
  BY DEF ShownKeyIsDown
<1>1. Data' = Data /\ BreakPending(Data)
  BY DEF Inv, ShownKeyIsDown, playerVars
<1>2. Data \in Codes
  <2>1. wire \in Seq(Bytes) /\ Data \in Codes \cup {None} /\ None \notin Bytes
    BY KeyboardAssumption DEF Inv, TypeOK, Bytes
  <2>2. (\A i \in 1..Len(wire) : wire[i] \in Bytes) /\ (wire # <<>> => Head(wire) \in Bytes)
    BY <2>1
  <2> QED
    BY <1>1, <2>1, <2>2 DEF BreakPending
<1>3. PICK c \in Codes : c = Data
  BY <1>2
<1>4. BreakPending(c)
  BY <1>1, <1>3 DEF BreakPending
<1>5. BreakPending(c)'
  BY <1>3, <1>4, PendingShifts DEF Inv
<1> QED
  BY <1>1, <1>3, <1>5 DEF BreakPending

LEMMA IgnoredKept ==
  ASSUME Inv, Shift, UNCHANGED <<playerVars, Typematic_Keycode>>,
         Byte_2 = F0 => Head(wire) # Typematic_Keycode
  PROVE  IgnoredKeyIsDown'
<1> SUFFICES ASSUME Typematic_Keycode' # None, Typematic_Keycode' \notin held'
             PROVE  BreakPending(Typematic_Keycode)'
  BY DEF IgnoredKeyIsDown
<1>1. PICK c \in Codes : c = Typematic_Keycode
  BY DEF Inv, TypeOK
<1>2. BreakPending(c)
  BY <1>1 DEF Inv, IgnoredKeyIsDown, BreakPending, playerVars
<1>3. BreakPending(c)'
  BY <1>1, <1>2, PendingShifts DEF Inv
<1> QED
  BY <1>1, <1>3 DEF BreakPending

LEMMA ReceiveInv ==
  ASSUME Inv, Receive
  PROVE  Inv'
<1>1. /\ Shift /\ UNCHANGED playerVars
      /\ wire \in Seq(Bytes) /\ wire # <<>> /\ Head(wire) = wire[1] /\ wire[1] \in Bytes
      /\ wire' \in Seq(Bytes) /\ Len(wire) \in Nat \ {0} /\ Len(wire') = Len(wire) - 1
      /\ \A i \in 1..Len(wire') : wire'[i] = wire[i + 1]
      /\ Byte_2' = wire[1] /\ Byte_1' = Byte_2 /\ held' = held /\ last' = last
  <2>1. Shift /\ UNCHANGED playerVars
    BY DEF Receive
  <2>2. /\ wire \in Seq(Bytes) /\ wire # <<>> /\ wire' = Tail(wire)
        /\ Byte_2' = Head(wire) /\ Byte_1' = Byte_2 /\ held' = held /\ last' = last
    BY <2>1 DEF Shift, Inv, TypeOK, playerVars
  <2>3. /\ Head(wire) = wire[1] /\ wire[1] \in Bytes /\ Len(wire) \in Nat \ {0}
        /\ wire' \in Seq(Bytes) /\ Len(wire') = Len(wire) - 1
        /\ \A i \in 1..Len(wire') : wire'[i] = wire[i + 1]
    BY <2>2
  <2> QED
    BY <2>1, <2>2, <2>3
<1>2. ReleaseHasCode' /\ MakeHasBreak'
  BY <1>1, ShiftInv
<1>3. Codes \cap Prefixes = {} /\ None \notin Bytes
  BY KeyboardAssumption DEF Bytes
<1>4. CASE ReceivePrefix
  <2>1. TypeOK'
    BY <1>1, <1>4 DEF Inv, TypeOK, ReceivePrefix
  <2>2. Head(wire) \notin Codes \cup {None}
    BY <1>1, <1>3, <1>4 DEF ReceivePrefix
  <2>3. ShownKeyIsDown' /\ IgnoredKeyIsDown'
    BY <1>1, <1>4, <2>2, ShownKept, IgnoredKept DEF ReceivePrefix, Inv, TypeOK
  <2> QED
    BY <1>2, <2>1, <2>3 DEF Inv
<1>5. CASE ReceiveBreak
  <2>1. TypeOK'
    <3>1. Press' \in BOOLEAN
      BY <1>5, Zenon DEF ReceiveBreak
    <3>2. Data' \in Codes
      BY <1>1, <1>5 DEF ReceiveBreak, Bytes
    <3> QED
      BY <1>1, <1>5, <3>1, <3>2 DEF Inv, TypeOK, ReceiveBreak
  <2>2. ShownKeyIsDown'
    BY <1>5 DEF ReceiveBreak, ShownKeyIsDown
  <2>3. CASE wire[1] = Typematic_Keycode
    BY <1>1, <1>2, <1>5, <2>1, <2>2, <2>3 DEF Inv, ReceiveBreak, IgnoredKeyIsDown
  <2>4. CASE wire[1] # Typematic_Keycode
    <3>1. IgnoredKeyIsDown'
      BY <1>1, <1>5, <2>4, IgnoredKept DEF ReceiveBreak
    <3> QED
      BY <1>2, <2>1, <2>2, <3>1 DEF Inv
  <2> QED
    BY <2>3, <2>4
<1>6. CASE ReceiveRepeat
  <2>1. TypeOK'
    BY <1>1, <1>6 DEF Inv, TypeOK, ReceiveRepeat
  <2>2. ShownKeyIsDown' /\ IgnoredKeyIsDown'
    BY <1>1, <1>6, ShownKept, IgnoredKept DEF ReceiveRepeat
  <2> QED
    BY <1>2, <2>1, <2>2 DEF Inv
<1>7. CASE ReceiveMake
  <2>1. wire[1] \in Codes /\ Data' = wire[1] /\ Typematic_Keycode' = wire[1] /\ Byte_2 # F0
    BY <1>1, <1>7 DEF ReceiveMake, Bytes
  <2>2. TypeOK'
    <3>1. Press' \in BOOLEAN
      BY <1>7, Zenon DEF ReceiveMake
    <3> QED
      BY <1>1, <2>1, <3>1 DEF Inv, TypeOK
  <2>3. ASSUME wire[1] \notin held
        PROVE  \E i \in 1..(Len(wire') - 1) : wire'[i] = F0 /\ wire'[i + 1] = wire[1]
    <3>1. 1 \in 1..Len(wire) /\ Before(1) # F0
      BY <1>1, <2>1 DEF Before
    <3>2. PICK j \in (1 + 1)..(Len(wire) - 1) : wire[j] = F0 /\ wire[j + 1] = wire[1]
      BY <2>1, <2>3, <3>1 DEF Inv, MakeHasBreak
    <3>3. j - 1 \in 1..(Len(wire') - 1) /\ wire'[j - 1] = F0 /\ wire'[(j - 1) + 1] = wire[1]
      BY <1>1, <3>2
    <3> QED
      BY <3>3
  <2>4. ShownKeyIsDown' /\ IgnoredKeyIsDown'
    BY <1>1, <2>1, <2>3 DEF ShownKeyIsDown, IgnoredKeyIsDown, BreakPending
  <2> QED
    BY <1>2, <2>2, <2>4 DEF Inv
<1> QED
  BY <1>4, <1>5, <1>6, <1>7 DEF Receive, Decode

\* With nothing on its way no release is, before and after.
LEMMA ResetInv ==
  ASSUME Inv, Reset
  PROVE  Inv'
<1>1. /\ wire = <<>> /\ wire' = <<>> /\ held' = held /\ last' = last /\ Data' = Data
      /\ Press' = Press /\ Typematic_Keycode' = Typematic_Keycode
      /\ Byte_1' = None /\ Byte_2' = None /\ None # F0
  BY KeyboardAssumption DEF Reset, playerVars, Prefixes
<1>2. \A k : ~BreakPending(k)
  BY <1>1 DEF BreakPending
<1>3. TypeOK' /\ ReleaseHasCode' /\ MakeHasBreak'
  BY <1>1 DEF Inv, TypeOK, ReleaseHasCode, MakeHasBreak
<1>4. ShownKeyIsDown' /\ IgnoredKeyIsDown'
  BY <1>1, <1>2 DEF Inv, ShownKeyIsDown, IgnoredKeyIsDown
<1> QED
  BY <1>3, <1>4 DEF Inv

----------------------------------------------------------------------------
LEMMA InitInv == Init => Inv
<1> SUFFICES ASSUME Init PROVE Inv
  OBVIOUS
<1>1. Press \in BOOLEAN
  BY Zenon DEF Init
<1> QED
  BY <1>1, KeyboardAssumption
  DEF Init, Inv, TypeOK, ReleaseHasCode, MakeHasBreak, ShownKeyIsDown, IgnoredKeyIsDown, Prefixes

LEMMA InvStep ==
  ASSUME Inv, [Next]_vars
  PROVE  Inv'
<1>1. ASSUME NEW k \in Codes, KeyDown(k) PROVE Inv'
  <2>1. /\ Send(Make(k)) /\ k \in held' /\ held \subseteq held'
        /\ held' \subseteq Codes /\ last' \in Codes \cup {None}
    BY <1>1 DEF KeyDown, Inv, TypeOK
  <2> QED
    BY <2>1, SendMakeInv
<1>2. ASSUME NEW k \in Codes, KeyUp(k) PROVE Inv'
  BY <1>2, SendBreakInv
<1>3. CASE Repeat
  <2>1. PICK k \in Codes : k = last
    BY <1>3 DEF Repeat, Inv, TypeOK
  <2>2. /\ Send(Make(k)) /\ k \in held' /\ held \subseteq held'
        /\ held' \subseteq Codes /\ last' \in Codes \cup {None}
    BY <1>3, <2>1 DEF Repeat, playerVars, Inv, TypeOK
  <2> QED
    BY <2>2, SendMakeInv
<1>4. CASE Receive
  BY <1>4, ReceiveInv
<1>5. CASE Reset
  BY <1>5, ResetInv
<1>6. CASE UNCHANGED vars
  BY <1>6 DEF vars, playerVars, decoderVars, Inv, TypeOK, ReleaseHasCode, MakeHasBreak, Before,
              ShownKeyIsDown, IgnoredKeyIsDown, BreakPending
<1> QED
  BY <1>1, <1>2, <1>3, <1>4, <1>5, <1>6 DEF Next

\* The invariant holds in every state.
THEOREM InvCorrect == Spec => []Inv
  BY InitInv, InvStep, PTL DEF Spec

\* The decoder's registers hold codes, and the wire holds bytes, whatever
\* order the frames come in.
THEOREM TypeCorrect == Spec => []TypeOK
<1>1. Inv => TypeOK
  BY DEF Inv
<1> QED
  BY <1>1, InvCorrect, PTL

\* The game is never told of a key that is up, whatever keys there are and
\* however many bytes are on their way.
THEOREM ShownCorrect == Spec => []ShownKeyIsDown
<1>1. Inv => ShownKeyIsDown
  BY DEF Inv
<1> QED
  BY <1>1, InvCorrect, PTL

\* No first press of a key is ever ignored as a repetition.
THEOREM IgnoredCorrect == Spec => []IgnoredKeyIsDown
<1>1. Inv => IgnoredKeyIsDown
  BY DEF Inv
<1> QED
  BY <1>1, InvCorrect, PTL

-----------------------------------------------------------------------------
(***************************************************************************)
(* The bit-level receiver implements the decoder of bytes, whatever codes  *)
(* the keys have and however long the clock line stays low or high, from   *)
(* three pulses of enable low on.                                          *)
(*                                                                         *)
(* The two registers are one shift register of 22 bits in which the frame  *)
(* coming in pushes out the one before it.  The invariant says where both  *)
(* stand after every shift, and how far Count is with the frame.           *)
(***************************************************************************)
\* The last byte decoded and the one on the line, as the registers hold them
\* after s bits of a frame.
Shifted == IF psClk THEN bit ELSE bit - 1
Chain(j) == IF j <= 10 THEN RegA[j] ELSE RegB[j - 11]

\* The byte on the line has been decoded, or there is none.
Decoded == bit = 0 \/ (~psClk /\ bit = 11 /\ wait >= 2)

ReceiverTypes ==
  /\ wait \in Nat /\ bit \in 0..11 /\ frame \in 0..255 /\ begun \in {0, 1}
  /\ Count \in 0..11
  /\ RegA \in [0..10 -> {0, 1}] /\ RegB \in [0..10 -> {0, 1}]

ReceiverFlags ==
  /\ psClk \in BOOLEAN /\ Q1 \in BOOLEAN /\ Q2 \in BOOLEAN
  /\ en \in BOOLEAN /\ ready \in BOOLEAN

\* While the line is high no edge is in the samples, and Count is what has come
\* of the frame; a falling edge is counted by the second pulse after it, and
\* the eleventh is forgotten by the third.
CountInv ==
  /\ psClk =>
       /\ bit # 11 /\ (Q1 \/ ~Q2) /\ Count # 11
       /\ wait >= 1 => Q1
       /\ ready => Count = bit
  /\ ~psClk =>
       /\ ready /\ bit # 0
       /\ wait = 0 => Q1 /\ Count = bit - 1
       /\ wait = 1 => ~Q1 /\ Q2 /\ Count = bit - 1
       /\ wait >= 2 => ~Q1 /\ ~Q2 /\ en
       /\ wait = 2 => Count = bit
       /\ wait > 2 => Count = IF bit = 11 THEN 0 ELSE bit

\* Before a reset has put the receiver right, nothing is sent.
WireInv ==
  /\ ~ready => wire = <<>> /\ bit = 0
  /\ Decoded => begun = 0
  /\ ~Decoded => begun = 1 /\ wire # <<>> /\ frame = Head(wire)

RegistersInv ==
  ready =>
    /\ bit = 11 /\ Decoded =>
         \A i \in 0..7 : Chain(13 + i) = DataBit(Byte_2, i)
    /\ ~(bit = 11 /\ Decoded) =>
         \A i \in 0..7 : Chain(12 + i - Shifted) = DataBit(Byte_2, i)
    /\ ~Decoded =>
         \A i \in 0..7 : i + 2 <= Shifted => Chain(23 + i - Shifted) = DataBit(frame, i)

BitsInv == ReceiverTypes /\ ReceiverFlags /\ CountInv /\ WireInv /\ RegistersInv
ReceiverInv == Inv /\ BitsInv

-----------------------------------------------------------------------------
\* Bits are bits, and a byte is the sum of its bits.
LEMMA DataBits ==
  ASSUME NEW v \in 0..255
  PROVE  /\ \A i \in 0..7 : DataBit(v, i) \in {0, 1}
         /\ DataBit(v, 0) + 2 * DataBit(v, 1) + 4 * DataBit(v, 2) + 8 * DataBit(v, 3)
            + 16 * DataBit(v, 4) + 32 * DataBit(v, 5) + 64 * DataBit(v, 6)
            + 128 * DataBit(v, 7) = v
         /\ v = 0 => \A i \in 0..7 : DataBit(v, i) = 0
<1>1. /\ DataBit(v, 0) = v % 2 /\ DataBit(v, 1) = (v \div 2) % 2
      /\ DataBit(v, 2) = (v \div 4) % 2 /\ DataBit(v, 3) = (v \div 8) % 2
      /\ DataBit(v, 4) = (v \div 16) % 2 /\ DataBit(v, 5) = (v \div 32) % 2
      /\ DataBit(v, 6) = (v \div 64) % 2 /\ DataBit(v, 7) = (v \div 128) % 2
  BY DEF DataBit, Weight
<1>2. \A i \in 0..7 : i \in {0, 1, 2, 3, 4, 5, 6, 7}
  OBVIOUS
<1>3. \A i \in 0..7 : DataBit(v, i) \in {0, 1}
  BY <1>1, <1>2
<1>4. v = 0 => \A i \in 0..7 : DataBit(v, i) = 0
  BY <1>1, <1>2
<1>5. /\ v = (v % 2) + 2 * (v \div 2)
      /\ v \div 2 = ((v \div 2) % 2) + 2 * (v \div 4)
      /\ v \div 4 = ((v \div 4) % 2) + 2 * (v \div 8)
      /\ v \div 8 = ((v \div 8) % 2) + 2 * (v \div 16)
      /\ v \div 16 = ((v \div 16) % 2) + 2 * (v \div 32)
      /\ v \div 32 = ((v \div 32) % 2) + 2 * (v \div 64)
      /\ v \div 64 = ((v \div 64) % 2) + 2 * (v \div 128)
      /\ v \div 128 = (v \div 128) % 2
  OBVIOUS
<1> QED
  BY <1>1, <1>3, <1>4, <1>5

\* Whatever the parity, a frame is made of bits.
LEMMA LineBits ==
  ASSUME frame \in 0..255
  PROVE  /\ BitOnLine \in {0, 1}
         /\ bit \in 2..9 => BitOnLine = DataBit(frame, bit - 2)
<1>1. IsFiniteSet(0..7)
  BY 0 \in Int, 7 \in Int, FS_Interval
<1>2. Cardinality({i \in 0..7 : DataBit(frame, i) = 1}) \in Nat
  BY <1>1, FS_Subset, FS_CardinalityType
<1>3. bit \in 2..9 => bit - 2 \in 0..7
  OBVIOUS
<1>4. \A n \in Nat : (1 + n) % 2 \in {0, 1}
  OBVIOUS
<1>5. CASE bit \in 2..9
  BY <1>3, <1>5, DataBits, SMTT(40) DEF BitOnLine
<1>6. CASE bit \notin 2..9
  BY <1>2, <1>4, <1>6 DEF BitOnLine
<1> QED
  BY <1>5, <1>6

\* A register whose bits 9 to 2 are those of a byte holds that byte.
LEMMA SliceIsByte ==
  ASSUME NEW v \in 0..255, NEW r, \A i \in 0..7 : r[2 + i] = DataBit(v, i)
  PROVE  Slice(r) = v
<1>1. /\ r[2] = DataBit(v, 0) /\ r[3] = DataBit(v, 1) /\ r[4] = DataBit(v, 2)
      /\ r[5] = DataBit(v, 3) /\ r[6] = DataBit(v, 4) /\ r[7] = DataBit(v, 5)
      /\ r[8] = DataBit(v, 6) /\ r[9] = DataBit(v, 7)
  OBVIOUS
<1> QED
  BY <1>1, DataBits DEF Slice

\* A rising edge moves every bit of the chain down by one, and takes in the one
\* on the line.
LEMMA ChainShifts ==
  ASSUME ReceiverTypes, NEW b \in {0, 1},
         RegB' = ShiftIn(b, RegB), RegA' = ShiftIn(RegB[0], RegA)
  PROVE  /\ \A j \in 0..20 : Chain(j)' = Chain(j + 1)
         /\ Chain(21)' = b
         /\ RegA' \in [0..10 -> {0, 1}] /\ RegB' \in [0..10 -> {0, 1}]
<1>1. RegA \in [0..10 -> {0, 1}] /\ RegB \in [0..10 -> {0, 1}]
  BY DEF ReceiverTypes
<1>2. /\ RegB'[10] = b /\ RegA'[10] = RegB[0]
      /\ \A i \in 0..9 : RegA'[i] = RegA[i + 1] /\ RegB'[i] = RegB[i + 1]
  BY DEF ShiftIn
<1>3. RegA' \in [0..10 -> {0, 1}] /\ RegB' \in [0..10 -> {0, 1}]
  <2>1. RegB[0] \in {0, 1} /\ \A i \in 0..9 : RegA[i + 1] \in {0, 1} /\ RegB[i + 1] \in {0, 1}
    BY <1>1
  <2> QED
    BY <2>1 DEF ShiftIn
<1>4. ASSUME NEW j \in 0..20 PROVE Chain(j)' = Chain(j + 1)
  <2>1. CASE j <= 9
    BY <1>2, <2>1 DEF Chain
  <2>2. CASE j = 10
    BY <1>2, <2>2 DEF Chain
  <2>3. CASE j > 10
    <3>1. j - 11 \in 0..9 /\ (j - 11) + 1 = (j + 1) - 11
      BY <2>3
    <3>2. RegB'[j - 11] = RegB[(j + 1) - 11]
      BY <1>2, <3>1
    <3> QED
      BY <2>3, <3>2 DEF Chain
  <2> QED
    BY <2>1, <2>2, <2>3
<1>5. Chain(21)' = b
  BY <1>2 DEF Chain
<1> QED
  BY <1>3, <1>4, <1>5

\* What holds of the byte on the line holds when more is sent behind it.
LEMMA HeadStays ==
  ASSUME NEW S, NEW s \in Seq(S), NEW t \in Seq(S), s # <<>>
  PROVE  s \o t # <<>> /\ Head(s \o t) = Head(s)
<1>1. 1 \in 1..Len(s) /\ 1 \in 1..Len(s \o t)
  OBVIOUS
<1>2. (s \o t)[1] = s[1] /\ s \o t \in Seq(S)
  BY <1>1, Appended
<1> QED
  BY <1>1, <1>2, HeadIsFirst

\* All zero registers hold the byte before the first one.
LEMMA CleanRegisters ==
  RegA = Filled(0) /\ RegB = Filled(0) /\ Byte_2 = None /\ bit = 0 /\ psClk =>
    RegA \in [0..10 -> {0, 1}] /\ RegB \in [0..10 -> {0, 1}] /\ RegistersInv
<1> SUFFICES ASSUME RegA = Filled(0), RegB = Filled(0), Byte_2 = None, bit = 0, psClk
             PROVE  RegA \in [0..10 -> {0, 1}] /\ RegB \in [0..10 -> {0, 1}] /\ RegistersInv
  OBVIOUS
<1>1. \A i \in 0..10 : RegA[i] = 0 /\ RegB[i] = 0
  BY DEF Filled
<1>2. \A j \in 0..21 : Chain(j) = 0
  BY <1>1 DEF Chain
<1>3. \A i \in 0..7 : DataBit(Byte_2, i) = 0
  BY DataBits, PS2ReceiverAssumption
<1>4. Shifted = 0 /\ Decoded
  BY DEF Shifted, Decoded
<1> QED
  BY <1>2, <1>3, <1>4 DEF RegistersInv, Filled

LEMMA InitBits ==
  ASSUME ReceiverInit
  PROVE  ReceiverInv
<1>1. psClk /\ Q1 /\ Q2
  BY Zenon DEF ReceiverInit
<1>2. psClk \in BOOLEAN /\ Q1 \in BOOLEAN /\ Q2 \in BOOLEAN /\ en \in BOOLEAN /\ ready \in BOOLEAN
  BY Zenon DEF ReceiverInit
<1>3. /\ wait = MinHigh /\ bit = 0 /\ frame = 0 /\ begun = 0 /\ wire = <<>> /\ Byte_2 = None
  BY DEF ReceiverInit, Init
<1>4. CASE Count = 0 /\ RegA = Filled(0) /\ RegB = Filled(0)
  <2>1. ReceiverTypes /\ RegistersInv
    BY <1>1, <1>3, <1>4, CleanRegisters, PS2ReceiverAssumption DEF ReceiverTypes
  <2>2. CountInv /\ WireInv
    BY <1>1, <1>3, <1>4 DEF CountInv, WireInv, Decoded
  <2> QED
    BY <1>2, <2>1, <2>2, InitInv DEF ReceiverInv, BitsInv, ReceiverFlags, ReceiverInit
<1>5. CASE ~ready /\ Count \in 0..10 /\ RegA = Filled(1) /\ RegB = Filled(1)
  <2>1. ReceiverTypes /\ RegistersInv
    BY <1>3, <1>5, PS2ReceiverAssumption DEF ReceiverTypes, RegistersInv, Filled
  <2>2. CountInv /\ WireInv
    BY <1>1, <1>3, <1>5 DEF CountInv, WireInv, Decoded
  <2> QED
    BY <1>2, <2>1, <2>2, InitInv DEF ReceiverInv, BitsInv, ReceiverFlags, ReceiverInit
<1>6. (Count = 0 /\ RegA = Filled(0) /\ RegB = Filled(0))
      \/ (~ready /\ Count \in 0..10 /\ RegA = Filled(1) /\ RegB = Filled(1))
  BY Zenon DEF ReceiverInit
<1> QED
  BY <1>4, <1>5, <1>6

----------------------------------------------------------------------------
\* Each action keeps what the bits say, and is a step of the decoder or none.
LEMMA FallBits ==
  ASSUME BitsInv, Fall, TypeOK
  PROVE  BitsInv' /\ UNCHANGED vars
<1>1. psClk /\ ~psClk' /\ wait >= 1 /\ wait' = 0 /\ bit' = bit + 1
  <2>1. ~psClk'
    BY Zenon DEF Fall
  <2> QED
    BY <2>1, PS2ReceiverAssumption DEF Fall, BitsInv, ReceiverTypes
<1>2. UNCHANGED vars /\ UNCHANGED <<Q1, Q2, Count, en, RegA, RegB, ready, wire, Byte_2>>
  BY DEF Fall, vars, decoderVars, playerVars, sampleVars
<1>3. /\ bit \in 0..10 /\ (bit = 0 => begun < Len(wire) /\ frame' = wire[begun + 1] /\ begun' = begun + 1)
      /\ bit # 0 => frame' = frame /\ begun' = begun
  BY <1>1 DEF Fall, BitsInv, ReceiverTypes, CountInv
<1>4. /\ ready /\ ~Decoded' /\ Shifted' = Shifted /\ bit' \in 1..11
      /\ Decoded <=> bit = 0
  <2>1. bit = 0 => wire # <<>>
    BY <1>3 DEF BitsInv, ReceiverTypes, TypeOK
  <2>2. ready
    BY <1>3, <2>1 DEF BitsInv, WireInv
  <2> QED
    BY <1>1, <1>3, <2>2 DEF Decoded, Shifted
<1>5. begun' = 1 /\ wire' # <<>> /\ frame' = Head(wire') /\ frame' \in 0..255
  <2>1. CASE bit = 0
    <3>1. begun = 0 /\ 1 \in 1..Len(wire) /\ wire \in Seq(Bytes)
      BY <1>3, <1>4, <2>1 DEF BitsInv, WireInv, TypeOK
    <3>2. frame' = wire[1] /\ wire[1] \in Bytes /\ wire # <<>> /\ Head(wire) = wire[1]
      BY <1>3, <2>1, <3>1, HeadIsFirst
    <3>3. wire[1] \in 0..255
      <4>1. wire[1] \in 1..255
        BY <3>2, PS2ReceiverAssumption, Zenon DEF Bytes
      <4> QED
        BY <4>1
    <3>4. begun' = 1 /\ wire' = wire
      BY <1>2, <1>3, <2>1, <3>1
    <3> QED
      BY <3>2, <3>3, <3>4
  <2>2. CASE bit # 0
    BY <1>2, <1>3, <1>4, <2>2 DEF BitsInv, WireInv, ReceiverTypes
  <2> QED
    BY <2>1, <2>2
<1>6. ReceiverTypes' /\ ReceiverFlags'
  <2>1. psClk' \in BOOLEAN
    BY Zenon DEF Fall
  <2> QED
    BY <1>1, <1>2, <1>4, <1>5, <2>1 DEF BitsInv, ReceiverTypes, ReceiverFlags
<1>7. CountInv'
  BY <1>1, <1>2, <1>3, <1>4 DEF BitsInv, CountInv
<1>8. WireInv'
  BY <1>2, <1>4, <1>5 DEF WireInv
<1>9. RegistersInv'
  <2>1. \A j \in 0..21 : Chain(j)' = Chain(j)
    BY <1>2 DEF Chain
  <2>2. Shifted = bit
    BY <1>1 DEF Shifted
  <2>3. \A i \in 0..7 : 12 + i - Shifted \in 0..21 /\ (i + 2 <= Shifted => 23 + i - Shifted \in 0..21)
    BY <1>3, <2>2
  <2>4. \A i \in 0..7 : Chain(12 + i - Shifted) = DataBit(Byte_2, i)
    BY <1>3, <1>4 DEF BitsInv, RegistersInv
  <2>5. bit # 0 => \A i \in 0..7 : i + 2 <= Shifted => Chain(23 + i - Shifted) = DataBit(frame, i)
    BY <1>4 DEF BitsInv, RegistersInv
  <2>6. \A i \in 0..7 : Chain(12 + i - Shifted)' = DataBit(Byte_2, i)'
    BY <1>2, <1>4, <2>1, <2>3, <2>4
  <2>7. ASSUME NEW i \in 0..7, i + 2 <= Shifted'
        PROVE  Chain(23 + i - Shifted)' = DataBit(frame, i)'
    <3>1. bit # 0 /\ i + 2 <= Shifted /\ frame' = frame
      BY <1>3, <1>4, <2>2, <2>7
    <3>2. 23 + i - Shifted \in 0..21 /\ Chain(23 + i - Shifted) = DataBit(frame, i)
      BY <2>3, <2>5, <3>1
    <3> QED
      BY <1>4, <2>1, <3>1, <3>2
  <2> QED
    BY <1>4, <2>6, <2>7 DEF RegistersInv
<1> QED
  BY <1>2, <1>6, <1>7, <1>8, <1>9 DEF BitsInv

LEMMA RiseBits ==
  ASSUME MinLow >= 3, BitsInv, Rise
  PROVE  BitsInv' /\ UNCHANGED vars
<1>1. ~psClk /\ psClk' /\ wait >= 3 /\ wait' = 0
  <2>1. psClk'
    BY Zenon DEF Rise
  <2> QED
    BY <2>1, PS2ReceiverAssumption DEF Rise, BitsInv, ReceiverTypes
<1>2. /\ ready /\ bit \in 1..11 /\ ~Q1 /\ ~Q2 /\ en /\ Count # 11
      /\ Count = IF bit = 11 THEN 0 ELSE bit
      /\ Shifted = bit - 1 /\ (Decoded <=> bit = 11)
  BY <1>1 DEF BitsInv, CountInv, ReceiverTypes, Shifted, Decoded
<1>3. UNCHANGED vars /\ UNCHANGED <<Q1, Q2, Count, en, ready, wire, begun, Byte_2>>
  BY <1>2 DEF Rise, vars, decoderVars, playerVars, sampleVars
<1>4. /\ bit' = (IF bit = 11 THEN 0 ELSE bit) /\ frame' = (IF bit = 11 THEN 0 ELSE frame)
      /\ bit' \in 0..10 /\ Shifted' = bit' /\ (Decoded' <=> bit = 11)
  BY <1>1, <1>2 DEF Rise, Shifted, Decoded
<1>5. /\ \A j \in 0..20 : Chain(j)' = Chain(j + 1)
      /\ Chain(21)' = BitOnLine
      /\ RegA' \in [0..10 -> {0, 1}] /\ RegB' \in [0..10 -> {0, 1}]
      /\ bit \in 2..9 => BitOnLine = DataBit(frame, bit - 2)
  <2>1. ReceiverTypes /\ BitOnLine \in {0, 1} /\ (bit \in 2..9 => BitOnLine = DataBit(frame, bit - 2))
    BY LineBits DEF BitsInv, ReceiverTypes
  <2>2. RegB' = ShiftIn(BitOnLine, RegB) /\ RegA' = ShiftIn(RegB[0], RegA)
    BY <1>2 DEF Rise
  <2> QED
    BY <2>1, <2>2, ChainShifts
<1>6. ReceiverTypes' /\ ReceiverFlags'
  BY <1>1, <1>3, <1>4, <1>5 DEF BitsInv, ReceiverTypes, ReceiverFlags
<1>7. CountInv'
  BY <1>1, <1>2, <1>3, <1>4 DEF CountInv
<1>8. WireInv'
  BY <1>2, <1>3, <1>4 DEF BitsInv, WireInv
<1>9. CASE bit = 11
  <2>1. \A i \in 0..7 : Chain(13 + i) = DataBit(Byte_2, i)
    BY <1>2, <1>9 DEF BitsInv, RegistersInv
  <2>2. \A i \in 0..7 : 12 + i - Shifted' \in 0..20 /\ (12 + i - Shifted') + 1 = 13 + i
    BY <1>4, <1>9
  <2>3. \A i \in 0..7 : Chain(12 + i - Shifted)' = DataBit(Byte_2, i)'
    BY <1>3, <1>4, <1>5, <1>9, <2>1, <2>2
  <2>4. RegistersInv'
    BY <1>4, <1>9, <2>3 DEF RegistersInv
  <2> QED
    BY <1>3, <1>6, <1>7, <1>8, <2>4 DEF BitsInv
<1>10. CASE bit # 11
  <2>1. \A i \in 0..7 : Chain(12 + i - Shifted) = DataBit(Byte_2, i)
    BY <1>2, <1>10 DEF BitsInv, RegistersInv
  <2>2. \A i \in 0..7 : i + 2 <= Shifted => Chain(23 + i - Shifted) = DataBit(frame, i)
    BY <1>2, <1>10 DEF BitsInv, RegistersInv
  <2>3. \A i \in 0..7 : Chain(12 + i - Shifted)' = DataBit(Byte_2, i)'
    <3>1. \A i \in 0..7 : 12 + i - Shifted' \in 0..20 /\ (12 + i - Shifted') + 1 = 12 + i - Shifted
      BY <1>2, <1>4, <1>10
    <3> QED
      BY <1>3, <1>5, <2>1, <3>1
  <2>4. ASSUME NEW i \in 0..7, i + 2 <= Shifted'
        PROVE  Chain(23 + i - Shifted)' = DataBit(frame, i)'
    <3>1. CASE i + 2 < Shifted'
      <4>1. 23 + i - Shifted' \in 0..20 /\ (23 + i - Shifted') + 1 = 23 + i - Shifted /\ i + 2 <= Shifted
        BY <1>2, <1>4, <1>10, <2>4, <3>1
      <4> QED
        BY <1>4, <1>5, <1>10, <2>2, <4>1
    <3>2. CASE i + 2 = Shifted'
      <4>1. 23 + i - Shifted' = 21 /\ bit \in 2..9 /\ bit - 2 = i
        BY <1>2, <1>4, <1>10, <3>2
      <4> QED
        BY <1>4, <1>5, <1>10, <4>1
    <3>3. Shifted' \in 0..10
      BY <1>4, Zenon
    <3>4. \A m \in 0..10 : i + 2 <= m => i + 2 < m \/ i + 2 = m
      OBVIOUS
    <3> QED
      BY <2>4, <3>1, <3>2, <3>3, <3>4, Zenon
  <2>5. RegistersInv'
    BY <1>4, <1>10, <2>3, <2>4 DEF RegistersInv
  <2> QED
    BY <1>3, <1>6, <1>7, <1>8, <2>5 DEF BitsInv
<1> QED
  BY <1>9, <1>10

\* A pulse that decodes nothing leaves the registers, and what they are
\* compared with, alone.
LEMMA SameRegisters ==
  ASSUME RegistersInv, UNCHANGED <<psClk, bit, frame, RegA, RegB, ready, Byte_2>>,
         Decoded' <=> Decoded
  PROVE  RegistersInv'
<1>1. (psClk' <=> psClk) /\ (ready' <=> ready)
  BY Zenon
<1>2. Shifted' = Shifted /\ \A j : Chain(j)' = Chain(j)
  BY <1>1 DEF Shifted, Chain
<1> QED
  BY <1>1, <1>2 DEF RegistersInv

\* The samples and the count, after a pulse.
LEMMA TickCounts ==
  ASSUME MinLow >= 3, BitsInv, Tick
  PROVE  /\ ReceiverFlags' /\ CountInv' /\ (psClk' <=> psClk) /\ (ready' <=> ready)
         /\ wait' \in Nat /\ Count' \in 0..11
         /\ Count' = 11 <=> ~psClk /\ bit = 11 /\ wait = 1
         /\ Decoded' <=> Decoded \/ Count' = 11
<1>1. /\ (psClk' <=> psClk) /\ (ready' <=> ready) /\ (Q1' <=> psClk) /\ (Q2' <=> Q1)
      /\ (en' <=> (en \/ (Count # 11 /\ Falling))) /\ en' \in BOOLEAN
  BY Zenon DEF Tick
<1>2. ReceiverFlags'
  <2>1. psClk \in BOOLEAN /\ Q1 \in BOOLEAN /\ ready \in BOOLEAN
    BY Zenon DEF BitsInv, ReceiverFlags
  <2>2. psClk' \in BOOLEAN /\ ready' \in BOOLEAN /\ Q1' \in BOOLEAN /\ Q2' \in BOOLEAN
    BY <2>1, Zenon DEF Tick
  <2> QED
    BY <1>1, <2>2, Zenon DEF ReceiverFlags
<1>3. /\ bit' = bit /\ bit \in 0..11 /\ wait \in Nat /\ Count \in 0..11
      /\ Count' = IF Count = 11 THEN 0 ELSE IF Falling THEN Count + 1 ELSE Count
      /\ Falling <=> ~Q1 /\ Q2
  BY DEF Tick, BitsInv, ReceiverTypes, Falling
<1>4. CASE psClk
  <2>1. /\ bit # 11 /\ (Q1 \/ ~Q2) /\ Count # 11 /\ (ready => Count = bit)
    BY <1>4 DEF BitsInv, CountInv
  <2>2. Count' = Count /\ wait' \in Nat
    BY <1>3, <1>4, <2>1, PS2ReceiverAssumption DEF Tick
  <2>3. CountInv'
    BY <1>1, <1>3, <1>4, <2>1, <2>2 DEF CountInv
  <2>4. Decoded' <=> Decoded
    BY <1>1, <1>3, <1>4 DEF Decoded
  <2> QED
    BY <1>1, <1>2, <1>3, <1>4, <2>1, <2>2, <2>3, <2>4
<1>5. CASE ~psClk /\ wait = 0
  <2>1. ready /\ bit # 0 /\ Q1 /\ Count = bit - 1
    BY <1>5 DEF BitsInv, CountInv
  <2>2. Count' = Count /\ wait' = 1
    BY <1>3, <1>5, <2>1, PS2ReceiverAssumption DEF Tick
  <2>3. CountInv'
    BY <1>1, <1>3, <1>5, <2>1, <2>2 DEF CountInv
  <2>4. ~Decoded' /\ ~Decoded /\ Count' # 11
    BY <1>1, <1>3, <1>5, <2>1, <2>2 DEF Decoded
  <2> QED
    BY <1>1, <1>2, <1>3, <1>5, <2>2, <2>3, <2>4
<1>6. CASE ~psClk /\ wait = 1
  <2>1. ready /\ bit # 0 /\ ~Q1 /\ Q2 /\ Count = bit - 1
    BY <1>6 DEF BitsInv, CountInv
  <2>2. Count' = bit /\ wait' = 2 /\ Count # 11
    BY <1>3, <1>6, <2>1, PS2ReceiverAssumption DEF Tick
  <2>3. CountInv'
    BY <1>1, <1>3, <1>6, <2>1, <2>2 DEF CountInv
  <2>4. ~Decoded /\ (Decoded' <=> bit = 11)
    BY <1>1, <1>3, <1>6, <2>1, <2>2 DEF Decoded
  <2> QED
    BY <1>1, <1>2, <1>3, <1>6, <2>2, <2>3, <2>4
<1>7. CASE ~psClk /\ wait >= 2
  <2>1. /\ ready /\ bit # 0 /\ ~Q1 /\ ~Q2 /\ en
        /\ wait = 2 => Count = bit
        /\ wait > 2 => Count = IF bit = 11 THEN 0 ELSE bit
    BY <1>3, <1>7 DEF BitsInv, CountInv
  <2>2. Count' = IF Count = 11 THEN 0 ELSE Count
    BY <1>3, <2>1
  <2>3. wait' \in Nat /\ wait' > 2
    BY <1>3, <1>7, PS2ReceiverAssumption DEF Tick
  <2>4. Count' = IF bit = 11 THEN 0 ELSE bit
    BY <1>3, <1>7, <2>1, <2>2
  <2>5. CountInv'
    BY <1>1, <1>3, <1>7, <2>1, <2>3, <2>4 DEF CountInv
  <2>6. Decoded' <=> Decoded
    BY <1>1, <1>3, <1>7, <2>3 DEF Decoded
  <2> QED
    BY <1>1, <1>2, <1>3, <1>7, <2>3, <2>4, <2>5, <2>6
<1>8. psClk \/ (~psClk /\ wait = 0) \/ (~psClk /\ wait = 1) \/ (~psClk /\ wait >= 2)
  BY <1>3
<1> QED
  BY <1>4, <1>5, <1>6, <1>7, <1>8

LEMMA TickBits ==
  ASSUME MinLow >= 3, BitsInv, Tick, TypeOK
  PROVE  BitsInv' /\ [Next]_vars
<1>1. /\ ReceiverFlags' /\ CountInv' /\ (psClk' <=> psClk) /\ (ready' <=> ready)
      /\ wait' \in Nat /\ Count' \in 0..11
      /\ Count' = 11 <=> ~psClk /\ bit = 11 /\ wait = 1
      /\ Decoded' <=> Decoded \/ Count' = 11
  BY TickCounts
<1>2. UNCHANGED <<playerVars, psClk, bit, frame, RegA, RegB, ready>>
  BY DEF Tick
<1>3. /\ bit \in 0..11 /\ frame \in 0..255 /\ begun \in {0, 1}
      /\ RegA \in [0..10 -> {0, 1}] /\ RegB \in [0..10 -> {0, 1}]
  BY DEF BitsInv, ReceiverTypes
<1>4. CASE Count' # 11
  <2>1. UNCHANGED <<decoderVars, wire, begun>> /\ Byte_2' = Byte_2
    BY <1>4 DEF Tick, decoderVars
  <2>2. ReceiverTypes'
    BY <1>1, <1>2, <1>3, <2>1 DEF ReceiverTypes
  <2>3. WireInv'
    BY <1>1, <1>2, <1>4, <2>1 DEF BitsInv, WireInv
  <2>4. RegistersInv'
    BY <1>1, <1>2, <1>4, <2>1, SameRegisters DEF BitsInv
  <2>5. UNCHANGED vars
    BY <1>2, <2>1 DEF vars
  <2> QED
    BY <1>1, <2>2, <2>3, <2>4, <2>5 DEF BitsInv
<1>5. CASE Count' = 11
  <2>1. /\ ~psClk /\ bit = 11 /\ wait = 1 /\ ~Decoded /\ Decoded' /\ Shifted = 10
    BY <1>1, <1>5 DEF Shifted, Decoded
  <2>2. ready /\ begun = 1 /\ wire # <<>> /\ frame = Head(wire)
    BY <2>1 DEF BitsInv, WireInv, CountInv
  <2>3. /\ Look(RegA, RegB) /\ wire' = Tail(wire) /\ begun' = 0
    BY <1>5, <2>2 DEF Tick
  <2>4. Byte_2 \in 0..255
    <3>1. Byte_2 \in (1..255) \cup {0}
      BY PS2ReceiverAssumption, Zenon DEF TypeOK, Bytes
    <3> QED
      BY <3>1
  <2>5. Slice(RegA) = Byte_2
    <3>1. \A i \in 0..7 : Chain(12 + i - 10) = DataBit(Byte_2, i)
      BY <2>1, <2>2 DEF BitsInv, RegistersInv
    <3>2. \A i \in 0..7 : RegA[2 + i] = DataBit(Byte_2, i)
      <4>1. \A i \in 0..7 : 12 + i - 10 = 2 + i /\ 2 + i <= 10
        OBVIOUS
      <4> QED
        BY <3>1, <4>1 DEF Chain
    <3> QED
      BY <2>4, <3>2, SliceIsByte
  <2>6. \A i \in 0..7 : RegB[2 + i] = DataBit(frame, i)
    <3>1. \A i \in 0..7 : i + 2 <= 10 => Chain(23 + i - 10) = DataBit(frame, i)
      BY <2>1, <2>2, SMTT(40) DEF BitsInv, RegistersInv
    <3>2. \A i \in 0..7 : 23 + i - 10 = 13 + i /\ i + 2 <= 10 /\ ~(13 + i <= 10) /\ (13 + i) - 11 = 2 + i
      OBVIOUS
    <3> QED
      BY <3>1, <3>2 DEF Chain
  <2>7. Slice(RegB) = frame
    BY <1>3, <2>6, SliceIsByte
  <2>8. Receive
    <3>1. Byte_1' = Byte_2 /\ Byte_2' = Head(wire) /\ Decode
      BY <2>2, <2>3, <2>5, <2>7 DEF Look
    <3> QED
      BY <1>2, <2>2, <2>3, <3>1 DEF Receive, Shift
  <2>9. ReceiverTypes' /\ WireInv'
    BY <1>1, <1>2, <1>3, <2>1, <2>2, <2>3 DEF ReceiverTypes, WireInv
  <2>10. RegistersInv'
    <3>1. Byte_2' = frame
      BY <2>3, <2>7 DEF Look
    <3>2. \A i \in 0..7 : Chain(13 + i)' = DataBit(Byte_2, i)'
      <4>1. \A i \in 0..7 : ~(13 + i <= 10) /\ (13 + i) - 11 = 2 + i
        OBVIOUS
      <4> QED
        BY <1>2, <2>6, <3>1, <4>1 DEF Chain
    <3> QED
      BY <1>2, <2>1, <3>2 DEF RegistersInv
  <2> QED
    BY <1>1, <2>8, <2>9, <2>10 DEF BitsInv, Next
<1> QED
  BY <1>4, <1>5

LEMMA ResetBits ==
  ASSUME BitsInv, ResetPressed
  PROVE  BitsInv' /\ Reset
<1>1. bit = 0 /\ psClk /\ wire = <<>>
  BY DEF ResetPressed, BitsInv, CountInv
<1>2. /\ (psClk' <=> psClk) /\ Q1' /\ ~Q2' /\ ready'
      /\ Q1' \in BOOLEAN /\ Q2' \in BOOLEAN /\ ready' \in BOOLEAN /\ psClk' = psClk /\ en' = en
  BY Zenon DEF ResetPressed, lineVars
<1>3. /\ RegA' = Filled(0) /\ RegB' = Filled(0) /\ Byte_2' = None /\ Count' = 0
      /\ bit' = bit /\ wire' = wire /\ begun' = begun /\ frame' = frame /\ wait' = wait
  BY DEF ResetPressed, lineVars
<1>4. ReceiverFlags'
  BY <1>2, Zenon DEF BitsInv, ReceiverFlags
<1>5. RegistersInv' /\ RegA' \in [0..10 -> {0, 1}] /\ RegB' \in [0..10 -> {0, 1}]
  <2>1. (RegA = Filled(0) /\ RegB = Filled(0) /\ Byte_2 = None /\ bit = 0 /\ psClk =>
           RegA \in [0..10 -> {0, 1}] /\ RegB \in [0..10 -> {0, 1}] /\ RegistersInv)'
    BY CleanRegisters, PTL
  <2> QED
    BY <1>1, <1>2, <1>3, <2>1
<1>6. ReceiverTypes' /\ CountInv' /\ WireInv'
  BY <1>1, <1>2, <1>3, <1>5 DEF BitsInv, ReceiverTypes, CountInv, WireInv, Decoded
<1>7. Reset
  BY DEF ResetPressed, Reset
<1> QED
  BY <1>4, <1>5, <1>6, <1>7 DEF BitsInv

LEMMA PlayerBits ==
  ASSUME BitsInv, Player, TypeOK
  PROVE  BitsInv' /\ [Next]_vars
<1>1. Next /\ ready
  BY DEF Player, Next
<1>2. UNCHANGED receiverVars
  BY DEF Player
<1>3. \E t \in Seq(Bytes) : Send(t)
  <2>1. ASSUME NEW k \in Codes PROVE Make(k) \in Seq(Bytes) /\ Break(k) \in Seq(Bytes)
    <3>1. k \in Bytes /\ E0 \in Bytes /\ F0 \in Bytes
      BY DEF Bytes, Prefixes
    <3>2. CASE k \in Extended
      BY <3>1, <3>2 DEF Make, Break
    <3>3. CASE k \notin Extended
      BY <3>1, <3>3 DEF Make, Break
    <3> QED
      BY <3>2, <3>3
  <2>2. Repeat => last \in Codes
    BY DEF Repeat, TypeOK
  <2> QED
    BY <2>1, <2>2 DEF Player, KeyDown, KeyUp, Repeat
<1>4. PICK t \in Seq(Bytes) : wire' = wire \o t /\ UNCHANGED decoderVars
  BY <1>3 DEF Send
<1>5. wire # <<>> => wire' # <<>> /\ Head(wire') = Head(wire)
  BY <1>4, HeadStays DEF TypeOK
<1>6. /\ UNCHANGED <<wait, bit, frame, begun, Count, RegA, RegB>> /\ Byte_2' = Byte_2
      /\ psClk' = psClk /\ Q1' = Q1 /\ Q2' = Q2 /\ en' = en /\ ready' = ready
  BY <1>2, <1>4 DEF receiverVars, lineVars, sampleVars, decoderVars
<1>7. /\ (psClk' <=> psClk) /\ (Q1' <=> Q1) /\ (Q2' <=> Q2) /\ (en' <=> en) /\ (ready' <=> ready)
  BY <1>6, Zenon
<1>8. Decoded' <=> Decoded
  BY <1>6, <1>7 DEF Decoded
<1>9. ReceiverFlags'
  BY <1>6, Zenon DEF BitsInv, ReceiverFlags
<1>10. ReceiverTypes' /\ CountInv'
  BY <1>6, <1>7 DEF BitsInv, ReceiverTypes, CountInv
<1>11. WireInv'
  BY <1>1, <1>5, <1>6, <1>7, <1>8 DEF BitsInv, WireInv
<1>12. RegistersInv'
  BY <1>6, <1>8, SameRegisters DEF BitsInv
<1> QED
  BY <1>1, <1>9, <1>10, <1>11, <1>12 DEF BitsInv

\* A step of the lines is a step of the decoder, and keeps the invariant.
LEMMA ReceiverStep ==
  ASSUME MinLow >= 3, ReceiverInv, [ReceiverNext]_<<vars, receiverVars>>
  PROVE  ReceiverInv' /\ [Next]_vars
<1>1. BitsInv /\ TypeOK
  BY DEF ReceiverInv, Inv
<1>2. CASE Player
  BY <1>1, <1>2, PlayerBits, InvStep DEF ReceiverInv
<1>3. CASE Fall
  BY <1>1, <1>3, FallBits, InvStep DEF ReceiverInv
<1>4. CASE Rise
  BY <1>1, <1>4, RiseBits, InvStep DEF ReceiverInv
<1>5. CASE Tick
  BY <1>1, <1>5, TickBits, InvStep DEF ReceiverInv
<1>6. CASE ResetPressed
  <2>1. Next
    BY <1>1, <1>6, ResetBits DEF Next
  <2> QED
    BY <1>1, <1>6, <2>1, ResetBits, InvStep DEF ReceiverInv
<1>7. CASE UNCHANGED <<vars, receiverVars>>
  <2>1. UNCHANGED vars /\ UNCHANGED <<lineVars, sampleVars, RegA, RegB, ready>>
    BY <1>7 DEF receiverVars
  <2>2. /\ UNCHANGED <<wait, bit, frame, begun, Count, RegA, RegB, Byte_2, wire>>
        /\ psClk' = psClk /\ Q1' = Q1 /\ Q2' = Q2 /\ en' = en /\ ready' = ready
    BY <2>1 DEF lineVars, sampleVars, vars, decoderVars
  <2>3. (psClk' <=> psClk) /\ (Q1' <=> Q1) /\ (Q2' <=> Q2) /\ (en' <=> en) /\ (ready' <=> ready)
    BY <2>2, Zenon
  <2>4. Decoded' <=> Decoded
    BY <2>2, <2>3 DEF Decoded
  <2>5. ReceiverFlags'
    BY <1>1, <2>2, Zenon DEF BitsInv, ReceiverFlags
  <2>6. ReceiverTypes' /\ CountInv' /\ WireInv'
    BY <1>1, <2>2, <2>3, <2>4 DEF BitsInv, ReceiverTypes, CountInv, WireInv
  <2>7. RegistersInv'
    BY <1>1, <2>2, <2>4, SameRegisters DEF BitsInv
  <2> QED
    BY <2>1, <2>5, <2>6, <2>7, InvStep DEF ReceiverInv, BitsInv
<1> QED
  BY <1>2, <1>3, <1>4, <1>5, <1>6, <1>7 DEF ReceiverNext

\* Both registers hold what they should after every pulse and every edge of the
\* keyboard's clock.
THEOREM ReceiverInvCorrect ==
  ASSUME MinLow >= 3
  PROVE  ReceiverSpec => []ReceiverInv
<1>1. ReceiverInit => ReceiverInv
  BY InitBits
<1>2. ReceiverInv /\ [ReceiverNext]_<<vars, receiverVars>> => ReceiverInv'
  BY ReceiverStep
<1> QED
  BY <1>1, <1>2, PTL DEF ReceiverSpec

\* The receiver decodes every byte that is sent, and nothing else, once and in
\* order, with the byte before it beside it (keyboard.sv:45-95): seen through
\* the wire and the decoder's registers it is the decoder of Keyboard.
THEOREM DecodesCorrect ==
  ASSUME MinLow >= 3
  PROVE  ReceiverSpec => DecodesBytes
<1>1. ReceiverInit => Init
  BY DEF ReceiverInit
<1>2. ReceiverInv /\ [ReceiverNext]_<<vars, receiverVars>> => [Next]_vars
  BY ReceiverStep
<1> QED
  BY <1>1, <1>2, ReceiverInvCorrect, PTL DEF ReceiverSpec, DecodesBytes, Spec

\* So no key sticks, and no first press is lost, with the bits in between.
THEOREM ReceiverShownCorrect ==
  ASSUME MinLow >= 3
  PROVE  ReceiverSpec => [](ShownKeyIsDown /\ IgnoredKeyIsDown)
  BY DecodesCorrect, ShownCorrect, IgnoredCorrect, PTL DEF DecodesBytes
=============================================================================
