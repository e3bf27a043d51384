----------------------------- MODULE JtagProofs -----------------------------
(***************************************************************************)
(* Proofs about the JTAG UART driver, for every size of its rings and of   *)
(* the device's FIFOs.  The two directions are proved one after the other, *)
(* on top of the types: the routine never meets a slot in use, and an      *)
(* interrupt that is off is turned on again.                               *)
(***************************************************************************)
EXTENDS JtagUart, SequenceTheorems, TLAPS

(* What the modulo does to an index and to a sum of two.                   *)
LEMMA WrapIndex ==
    ASSUME NEW B \in Nat, B >= 2, NEW i \in 0 .. B
    PROVE  /\ i % B \in 0 .. B - 1
           /\ i < B => i % B = i
           /\ i = B => i % B = 0
<1>1. i < B => i % B = i
  BY SMT
<1>2. i = B => i % B = 0
  BY SMT
<1> QED
  BY <1>1, <1>2, SMT

LEMMA AfterIndex ==
    ASSUME NEW i \in Slots
    PROVE  After(i) \in Slots /\ After(i) = IF i + 1 = BufLen THEN 0 ELSE i + 1
<1>0. BufLen \in Nat /\ BufLen >= 2
  BY JtagUartAssumption
<1>1. i + 1 \in 0 .. BufLen
  BY <1>0 DEF Slots
<1>2. /\ (i + 1) % BufLen \in 0 .. BufLen - 1
      /\ i + 1 < BufLen => (i + 1) % BufLen = i + 1
      /\ i + 1 = BufLen => (i + 1) % BufLen = 0
  <2> DEFINE j == i + 1
  <2>1. j \in 0 .. BufLen
    BY <1>1
  <2> HIDE DEF j
  <2>2. /\ j % BufLen \in 0 .. BufLen - 1
        /\ j < BufLen => j % BufLen = j
        /\ j = BufLen => j % BufLen = 0
    BY <1>0, <2>1, WrapIndex
  <2> QED
    BY <2>2 DEF j
<1> QED
  BY <1>0, <1>1, <1>2 DEF After, Slots

-----------------------------------------------------------------------------
(* What a call in the middle of a copy relies on.  A reader: the slots it  *)
(* copies are within the ring, and the routine's index is outside them.  A *)
(* writer: those it fills are free, and one more stays free behind them.   *)
Reading ==
    /\ pc \in {"r_snap", "r_spin", "r_check"} => left > 0
    /\ pc \in {"r_copy", "r_update"} =>
          /\ n >= 1 /\ n <= left /\ out = rx_out /\ out + n <= BufLen
          /\ rx_in < out \/ rx_in >= out + n
    /\ pc = "r_update" => moved = TRUE
Writing ==
    /\ pc \in {"w_copy", "w_update"} =>
          /\ n >= 1 /\ in = tx_in /\ in + n <= BufLen
          /\ tx_out <= in \/ tx_out > in + n
          /\ tx_out = 0 => in + n < BufLen
    /\ pc = "w_copy" => n <= Len(data)

(* The free places read with the control register are there until used.    *)
SpaceLeft == isr \in {"rx", "tx"} => space <= FifoLen - Len(tx_fifo)

Inv == TypeOK /\ Reading /\ Writing /\ SpaceLeft

(* A use is within the constants.                                          *)
LEMMA UsedChars ==
    ASSUME NEW u \in Uses
    PROVE  u.chars \subseteq Chars /\ u.piece \in 1 .. MaxPiece
BY JtagUartAssumption

LEMMA InitInv == Init => Inv
<1> SUFFICES ASSUME Init PROVE Inv
  OBVIOUS
<1>0. BufLen \in Nat /\ BufLen >= 2 /\ FifoLen \in Nat /\ IntMax \in Nat /\ IntMax >= 4
      /\ Timeout \in 2 .. IntMax - 1 /\ MaxPiece \in Nat
  BY JtagUartAssumption
<1>1. DriverTypes
  <2>1. rx_buf \in [Slots -> Chars] /\ tx_buf \in [Slots -> Chars]
    BY UsedChars DEF Init
  <2>2. timeout \in 2 .. IntMax
    BY <1>0 DEF Init
  <2>3. 0 \in Slots /\ 0 \in 0 .. BufLen - 1
    BY <1>0 DEF Slots
  <2>4. re \in BOOLEAN /\ we \in BOOLEAN /\ ravail \in BOOLEAN /\ wi \in BOOLEAN
    BY Zenon DEF Init
  <2>5. host_inactive \in 0 .. IntMax - 2 /\ space \in 0 .. FifoLen
    BY <1>0 DEF Init
  <2> QED
    BY <2>1, <2>2, <2>3, <2>4, <2>5 DEF Init, DriverTypes
<1>3. DeviceTypes
  <2>1. pause_irq \in BOOLEAN /\ ac \in BOOLEAN /\ connected \in BOOLEAN
    BY Zenon DEF Init
  <2> QED
    BY <1>0, <2>1 DEF Init, DeviceTypes
<1>4. ProgramTypes
  <2>1. moved \in BOOLEAN /\ nonblock \in BOOLEAN
    BY Zenon DEF Init
  <2> QED
    BY <1>0, <2>1 DEF Init, ProgramTypes, Slots
<1>5. HistoryTypes
  BY DEF Init, HistoryTypes
<1>2. Reading /\ Writing /\ SpaceLeft
  BY DEF Init, Reading, Writing, SpaceLeft
<1> QED
  BY <1>1, <1>2, <1>3, <1>4, <1>5 DEF Inv, TypeOK

(* The steps of the program.  Each is proved for the parts it can disturb. *)
LEMMA ReaderInv ==
    ASSUME Inv, Reader, isr = "out", UNCHANGED <<timing, device, routine, link, sent, taken>>
    PROVE  Inv'
<1>0. /\ BufLen \in Nat /\ BufLen >= 2 /\ FifoLen \in Nat /\ IntMax \in Nat /\ IntMax >= 4
      /\ MaxPiece \in Nat
  BY JtagUartAssumption
<1> USE DEF Inv, TypeOK, DriverTypes, DeviceTypes, ProgramTypes, HistoryTypes, Reading,
            Writing, SpaceLeft, timing, device, routine, program, rings, rx_ring, tx_ring,
            enables, link
<1>1. CASE ReadSnap
  <2>1. n' \in 0 .. BufLen - 1 /\ in' \in Slots /\ out' \in Slots
    BY <1>0, <1>1 DEF ReadSnap, Least, Slots
  <2>2. Reading'
    BY <1>0, <1>1, <2>1 DEF ReadSnap, Least, Slots
  <2> QED
    BY <1>0, <1>1, <2>1, <2>2 DEF ReadSnap
<1>2. CASE ReadCopy
  <2>1. got' \in Seq(Chars)
    <3>1. \A k \in 1 .. n : out + k - 1 \in Slots
      BY <1>0, <1>2 DEF ReadCopy, Slots
    <3> QED
      BY <1>0, <1>2, <3>1 DEF ReadCopy
  <2> QED
    BY <1>0, <1>2, <2>1 DEF ReadCopy
<1>3. CASE ReadUpdate
  <2>1. rx_out' \in Slots
    BY <1>0, <1>3, WrapIndex DEF ReadUpdate, Slots
  <2>2. left' \in 0 .. MaxPiece
    BY <1>0, <1>3 DEF ReadUpdate
  <2> QED
    BY <1>0, <1>3, <2>1, <2>2 DEF ReadUpdate
<1>4. CASE ReadSpin
  BY <1>4 DEF ReadSpin
<1>5. CASE ReadCheck
  BY <1>5 DEF ReadCheck
<1>6. CASE ReadEnable
  BY <1>6 DEF ReadEnable
<1> QED
  BY <1>1, <1>2, <1>3, <1>4, <1>5, <1>6 DEF Reader

LEMMA WriterInv ==
    ASSUME Inv, Writer, isr = "out", UNCHANGED <<timing, device, routine, link, sent, taken>>
    PROVE  Inv'
<1>0. /\ BufLen \in Nat /\ BufLen >= 2 /\ FifoLen \in Nat /\ IntMax \in Nat /\ IntMax >= 4
      /\ MaxPiece \in Nat
  BY JtagUartAssumption
<1> USE DEF Inv, TypeOK, DriverTypes, DeviceTypes, ProgramTypes, HistoryTypes, Reading,
            Writing, SpaceLeft, timing, device, routine, program, rings, rx_ring, tx_ring,
            enables, link
<1>1. CASE WriteSnap
  <2>0. Room(tx_in, tx_out) \in 0 .. BufLen - 1 /\ Len(data) \in Nat
    BY <1>0 DEF Room, Slots
  <2>1. CASE data = <<>>
    BY <1>0, <1>1, <2>1 DEF WriteSnap
  <2>2. CASE data # <<>>
    <3>1. /\ in' = tx_in /\ out' = tx_out
          /\ n' = Least(Len(data), Room(tx_in, tx_out))
          /\ pc' = IF n' > 0 THEN "w_copy" ELSE "w_kick"
      BY <1>1, <2>2 DEF WriteSnap
    <3>2. n' \in 0 .. BufLen - 1 /\ n' <= Len(data) /\ n' <= Room(tx_in, tx_out)
      BY <1>0, <2>0, <3>1 DEF Least
    <3>3. Writing'
      BY <1>0, <1>1, <3>1, <3>2, SMTT(40) DEF WriteSnap, Room, Slots
    <3> QED
      BY <1>0, <1>1, <3>1, <3>2, <3>3 DEF WriteSnap
  <2> QED
    BY <2>1, <2>2
<1>2. CASE WriteCopy
  <2>1. n >= 1 /\ n <= Len(data) /\ in + n <= BufLen /\ in \in Slots
    BY <1>0, <1>2 DEF WriteCopy
  <2>2. data' \in Seq(Chars) /\ given' \in Seq(Chars)
    <3>1. Len(data) \in Nat /\ n \in Int /\ \A k \in 1 .. Len(data) : data[k] \in Chars
      BY <1>0
    <3>2. SubSeq(data, n + 1, Len(data)) \in Seq(Chars)
      BY <2>1, <3>1, SubSeqProperties
    <3>3. SubSeq(data, 1, n) \in Seq(Chars)
      BY <2>1, <3>1, SubSeqProperties
    <3> QED
      BY <1>2, <3>2, <3>3 DEF WriteCopy
  <2>3. tx_buf' \in [Slots -> Chars]
    BY <1>0, <1>2, <2>1 DEF WriteCopy, Slots
  <2> QED
    BY <1>0, <1>2, <2>1, <2>2, <2>3 DEF WriteCopy
<1>3. CASE WriteUpdate
  <2>1. tx_in' \in Slots
    BY <1>0, <1>3, WrapIndex DEF WriteUpdate, Slots
  <2> QED
    BY <1>0, <1>3, <2>1 DEF WriteUpdate
<1>4. CASE WriteKick
  BY <1>4 DEF WriteKick
<1>5. CASE WriteSpin
  BY <1>5 DEF WriteSpin
<1>6. CASE WriteCheck
  BY <1>6 DEF WriteCheck
<1> QED
  BY <1>1, <1>2, <1>3, <1>4, <1>5, <1>6 DEF Writer

(* The beginning and the end of a call, and calls that are one step.       *)
LEMMA CallInv ==
    ASSUME Inv, isr = "out", UNCHANGED <<device, routine, link, sent, taken>>,
           ((Read \/ Write \/ Close \/ CloseWait) /\ UNCHANGED timing) \/ SetTimeout
    PROVE  Inv'
<1>0. /\ BufLen \in Nat /\ BufLen >= 2 /\ FifoLen \in Nat /\ IntMax \in Nat /\ IntMax >= 4
      /\ MaxPiece \in Nat /\ Timeouts \subseteq 0 .. IntMax
  BY JtagUartAssumption
<1> USE DEF Inv, TypeOK, DriverTypes, DeviceTypes, ProgramTypes, HistoryTypes, Reading,
            Writing, SpaceLeft, timing, device, routine, program, rings, rx_ring, tx_ring,
            enables, link
<1>1. CASE Read /\ UNCHANGED timing
  <2>1. moved' \in BOOLEAN
    BY <1>1, Zenon DEF Read
  <2>2. use.piece \in 1 .. MaxPiece
    BY UsedChars
  <2>3. left' \in 1 .. use.piece
    BY <1>1 DEF Read
  <2>4. left' \in 1 .. MaxPiece
    BY ONLY <1>0, <2>2, <2>3
  <2> QED
    BY <1>1, <2>1, <2>4 DEF Read
<1>2. CASE Write /\ UNCHANGED timing
  <2>1. moved' \in BOOLEAN
    BY <1>2, Zenon DEF Write
  <2>2. data' \in Seq(Chars)
    <3>1. PICK k \in 1 .. use.piece : data' \in [1 .. k -> use.chars]
      BY <1>2 DEF Write
    <3>2. use.chars \subseteq Chars /\ use.piece \in 1 .. MaxPiece
      BY UsedChars
    <3>3. k \in Nat /\ data' \in [1 .. k -> Chars]
      BY ONLY <1>0, <3>1, <3>2
    <3> QED
      BY ONLY <3>3
  <2>3. DriverTypes' /\ DeviceTypes' /\ ProgramTypes'
    BY <1>0, <1>2, <2>1, <2>2 DEF Write
  <2> QED
    BY <1>2, <2>3 DEF Write
<1>3. CASE Close /\ UNCHANGED timing
  BY <1>3 DEF Close
<1>4. CASE CloseWait /\ UNCHANGED timing
  BY <1>4 DEF CloseWait
<1>5. CASE SetTimeout
  <2>0. \E t \in Timeouts : timeout' = IF t >= 2 /\ t < IntMax THEN t ELSE IntMax - 1
    BY <1>5 DEF SetTimeout
  <2>1. timeout' \in 2 .. IntMax
    BY ONLY <1>0, <2>0
  <2> QED
    BY <1>5, <2>1 DEF SetTimeout
<1> QED
  BY <1>1, <1>2, <1>3, <1>4, <1>5

(* The steps of the interrupt routine.                                     *)
LEMMA RoutineInv ==
    ASSUME Inv, Routine
    PROVE  Inv'
<1>0. /\ BufLen \in Nat /\ BufLen >= 2 /\ FifoLen \in Nat /\ IntMax \in Nat /\ IntMax >= 4
      /\ MaxPiece \in Nat
  BY JtagUartAssumption
<1> USE DEF Inv, TypeOK, DriverTypes, DeviceTypes, ProgramTypes, HistoryTypes, Reading,
            Writing, SpaceLeft, timing, device, routine, program, rings, rx_ring, tx_ring,
            enables, link, history
<1>u. UNCHANGED <<timing, program, link, history>>
  BY DEF Routine
<1>1. CASE Interrupt
  BY <1>1, <1>u DEF Interrupt
<1>2. CASE IsrControl
  <2>1. wi' \in BOOLEAN /\ ravail' \in BOOLEAN
    BY <1>2, Zenon DEF IsrControl, WritePending
  <2> QED
    BY <1>0, <1>2, <1>u, <2>1 DEF IsrControl
<1>3. CASE IsrReceive
  <2>1. rx_in' \in Slots /\ rx_in' = IF rx_in + 1 = BufLen THEN 0 ELSE rx_in + 1
    BY <1>3, AfterIndex DEF IsrReceive
  <2>2. rx_in' # rx_out
    BY <1>3 DEF IsrReceive, RxFull
  <2>3. Reading'
    BY <1>0, <1>u, <1>3, <2>1, <2>2 DEF IsrReceive, Slots
  <2>4. ravail' \in BOOLEAN /\ pause_irq' \in BOOLEAN
    BY <1>3, Zenon DEF IsrReceive
  <2>5. rx_fifo' \in Seq(Chars) /\ Len(rx_fifo') <= FifoLen
    BY <1>0, <1>3 DEF IsrReceive
  <2>6. rx_buf' \in [Slots -> Chars]
    BY <1>3 DEF IsrReceive
  <2>7. DriverTypes' /\ DeviceTypes'
    BY <1>0, <1>u, <1>3, <2>1, <2>4, <2>5, <2>6 DEF IsrReceive
  <2> QED
    BY <1>u, <1>3, <2>3, <2>7 DEF IsrReceive
<1>4. CASE IsrReceiveEnd
  <2>1. ravail' \in BOOLEAN /\ re' \in BOOLEAN /\ pause_irq' \in BOOLEAN
    BY <1>4, Zenon DEF IsrReceiveEnd
  <2> QED
    BY <1>u, <1>4, <2>1 DEF IsrReceiveEnd
<1>5. CASE IsrTransmit
  <2>1. tx_out' \in Slots /\ tx_out' = IF tx_out + 1 = BufLen THEN 0 ELSE tx_out + 1
    BY <1>5, AfterIndex DEF IsrTransmit
  <2>2. Writing'
    BY <1>0, <1>u, <1>5, <2>1 DEF IsrTransmit, Slots
  <2>3. tx_fifo' \in Seq(Chars) /\ Len(tx_fifo') = Len(tx_fifo) + 1
    BY <1>5 DEF IsrTransmit
  <2>4. DriverTypes' /\ DeviceTypes' /\ SpaceLeft'
    BY <1>0, <1>u, <1>5, <2>1, <2>3, SMTT(40) DEF IsrTransmit
  <2> QED
    BY <1>u, <1>5, <2>2, <2>4 DEF IsrTransmit
<1>6. CASE IsrTransmitEnd
  <2>1. we' \in BOOLEAN
    BY <1>6, Zenon DEF IsrTransmitEnd
  <2> QED
    BY <1>u, <1>6, <2>1 DEF IsrTransmitEnd
<1> QED
  BY <1>1, <1>2, <1>3, <1>4, <1>5, <1>6 DEF Routine

(* The timer, the host, and stuttering.                                    *)
LEMMA OutsideInv ==
    ASSUME Inv, Alarm \/ HostSend \/ HostPause \/ HostTake \/ HostPlug \/ UNCHANGED vars
    PROVE  Inv'
<1>0. /\ FifoLen \in Nat /\ IntMax \in Nat /\ IntMax >= 4
  BY JtagUartAssumption
<1> USE DEF Inv, TypeOK, DriverTypes, DeviceTypes, ProgramTypes, HistoryTypes, Reading,
            Writing, SpaceLeft, timing, device, routine, program, rings, rx_ring, tx_ring,
            enables, link, history
<1>1. CASE Alarm
  <2>1. ac' \in BOOLEAN
    BY <1>1, Zenon DEF Alarm
  <2>2. host_inactive' \in 0 .. IntMax - 2
    BY <1>0, <1>1 DEF Alarm
  <2> QED
    BY <1>1, <2>1, <2>2 DEF Alarm
<1>2. CASE HostSend
  <2>1. ac' \in BOOLEAN
    BY <1>2, Zenon DEF HostSend
  <2>2. PICK c \in Chars : rx_fifo' = Append(rx_fifo, c) /\ sent' = <<c>>
    BY <1>2, UsedChars DEF HostSend
  <2>3. rx_fifo' \in Seq(Chars) /\ Len(rx_fifo') = Len(rx_fifo) + 1 /\ sent' \in Seq(Chars)
    BY <2>2
  <2> QED
    BY <1>0, <1>2, <2>1, <2>3 DEF HostSend
<1>3. CASE HostTake
  <2>2. tx_fifo' \in Seq(Chars) /\ Len(tx_fifo') = Len(tx_fifo) - 1 /\ taken' \in Seq(Chars)
    BY <1>3 DEF HostTake
  <2>3. DeviceTypes' /\ SpaceLeft'
    BY <1>0, <1>3, <2>2, SMTT(40) DEF HostTake
  <2> QED
    BY <1>3, <2>2, <2>3 DEF HostTake
<1>4. CASE HostPlug
  <2>1. connected' \in BOOLEAN
    BY <1>4, Zenon DEF HostPlug
  <2> QED
    BY <1>4, <2>1 DEF HostPlug
<1>5. CASE HostPause
  <2>1. ac' \in BOOLEAN /\ pause_irq' \in BOOLEAN
    BY <1>5, Zenon DEF HostPause
  <2> QED
    BY <1>5, <2>1 DEF HostPause
<1>6. CASE UNCHANGED vars
  BY <1>6 DEF vars
<1> QED
  BY <1>1, <1>2, <1>3, <1>4, <1>5, <1>6

THEOREM InvCorrect == Spec => []Inv
<1>1. Inv /\ [Next]_vars => Inv'
  <2> SUFFICES ASSUME Inv, [Next]_vars PROVE Inv'
    OBVIOUS
  <2>1. CASE Program
    <3>1. CASE Reader /\ UNCHANGED timing
      BY <2>1, <3>1, ReaderInv DEF Program, device, routine
    <3>2. CASE Writer /\ UNCHANGED timing
      BY <2>1, <3>2, WriterInv DEF Program, device, routine
    <3>3. CASE ((Read \/ Write \/ Close \/ CloseWait) /\ UNCHANGED timing) \/ SetTimeout
      BY <2>1, <3>3, CallInv DEF Program, device, routine
    <3> QED
      BY <2>1, <3>1, <3>2, <3>3 DEF Program
  <2>2. CASE Routine
    BY <2>2, RoutineInv
  <2>3. CASE Alarm \/ HostSend \/ HostPause \/ HostTake \/ HostPlug \/ UNCHANGED vars
    BY <2>3, OutsideInv
  <2> QED
    BY <2>1, <2>2, <2>3 DEF Next
<1> QED
  BY InitInv, <1>1, PTL DEF Spec

(* Every index stays in its ring, every FIFO within its depth, for rings   *)
(* and FIFOs of any size.                                                  *)
THEOREM TypeCorrect == Spec => []TypeOK
<1>1. Inv => TypeOK
  BY DEF Inv
<1> QED
  BY <1>1, InvCorrect, PTL

(* The interrupt routine never touches a slot that a call is copying.      *)
THEOREM SlotsCorrect == Spec => []SlotsApart
<1>1. Inv => SlotsApart
  <2>0. BufLen \in Nat /\ BufLen >= 2
    BY JtagUartAssumption
  <2> QED
    BY <2>0 DEF Inv, TypeOK, DriverTypes, ProgramTypes, Reading, Writing, SlotsApart, Slots
<1> QED
  BY <1>1, InvCorrect, PTL

(* The routine never writes to a full FIFO.                                *)
THEOREM SpaceCorrect == Spec => []FifoHasSpace
<1>1. Inv => FifoHasSpace
  BY DEF Inv, SpaceLeft, FifoHasSpace
<1> QED
  BY <1>1, InvCorrect, PTL

(* The count of idle seconds stops before it reaches "for ever".           *)
THEOREM ForeverCorrect == Spec => []ForeverIsForever
<1>1. Inv => ForeverIsForever
  <2>0. IntMax \in Nat
    BY JtagUartAssumption
  <2> QED
    BY <2>0 DEF Inv, TypeOK, DriverTypes, ForeverIsForever
<1> QED
  BY <1>1, InvCorrect, PTL

-----------------------------------------------------------------------------
LEMMA ReceiveStep ==
    ASSUME Inv, ReceiveNotStuck, [Next]_vars
    PROVE  ReceiveNotStuck'
<1>0. BufLen \in Nat /\ BufLen >= 2
  BY JtagUartAssumption
<1> USE DEF ReceiveNotStuck, rings, rx_ring, tx_ring, enables, program
<1>1. CASE Program
  <2>1. CASE Reader
    <3>1. CASE ReadSnap
      <4>1. left > 0 /\ left \in Nat /\ rx_in \in Slots /\ rx_out \in Slots
        BY <3>1 DEF ReadSnap, Inv, TypeOK, ProgramTypes, DriverTypes, Reading
      <4>2. rx_in # rx_out => n' > 0
        BY <1>0, <3>1, <4>1 DEF ReadSnap, Least, Slots
      <4>3. pc' = "r_copy" => rx_in # rx_out
        BY <1>0, <3>1, <4>1 DEF ReadSnap, Least, Slots
      <4> QED
        BY <3>1, <4>2, <4>3 DEF ReadSnap
    <3>2. CASE ReadCopy
      BY <3>2 DEF ReadCopy
    <3>3. CASE ReadUpdate
      BY <3>3 DEF ReadUpdate, Inv, Reading
    <3>4. CASE ReadSpin \/ ReadCheck \/ ReadEnable
      BY <3>4 DEF ReadSpin, ReadCheck, ReadEnable
    <3> QED
      BY <2>1, <3>1, <3>2, <3>3, <3>4 DEF Reader
  <2>2. CASE Writer
    BY <2>2 DEF Writer, WriteSnap, WriteCopy, WriteUpdate, WriteKick, WriteSpin, WriteCheck
  <2>3. CASE Read \/ Write \/ Close \/ CloseWait \/ SetTimeout
    BY <2>3 DEF Read, Write, Close, CloseWait, SetTimeout
  <2> QED
    BY <1>1, <2>1, <2>2, <2>3 DEF Program
<1>2. CASE Routine
  <2>u. UNCHANGED program
    BY <1>2 DEF Routine
  <2>1. CASE IsrReceive
    <3>1. rx_in' # rx_out'
      BY <2>1 DEF IsrReceive, RxFull
    <3> QED
      BY <3>1
  <2>2. CASE IsrReceiveEnd
    <3>1. CASE RxFull
      <4>1. rx_in # rx_out
        BY <1>0, <3>1, AfterIndex DEF RxFull, Inv, TypeOK, DriverTypes, Slots
      <4> QED
        BY <2>2, <4>1 DEF IsrReceiveEnd
    <3>2. CASE ~RxFull
      <4>1. ravail' = FALSE
        BY <2>2, <3>2, Zenon DEF IsrReceiveEnd
      <4>2. re' = re
        BY <2>2, <4>1, Zenon DEF IsrReceiveEnd, Inv, TypeOK, DriverTypes
      <4> QED
        BY <2>2, <2>u, <4>2 DEF IsrReceiveEnd
    <3> QED
      BY <3>1, <3>2
  <2>3. CASE Interrupt \/ IsrControl \/ IsrTransmit \/ IsrTransmitEnd
    BY <2>3, <2>u DEF Interrupt, IsrControl, IsrTransmit, IsrTransmitEnd
  <2> QED
    BY <1>2, <2>1, <2>2, <2>3 DEF Routine
<1>3. CASE Alarm \/ HostSend \/ HostPause \/ HostTake \/ HostPlug \/ UNCHANGED vars
  BY <1>3 DEF Alarm, HostSend, HostPause, HostTake, HostPlug, vars
<1> QED
  BY <1>1, <1>2, <1>3 DEF Next

(* Reception never stops for good: when its interrupts are off there is    *)
(* something to read, or a reader is about to turn them on.                *)
THEOREM ReceiveCorrect == Spec => []ReceiveNotStuck
<1>1. Init => ReceiveNotStuck
  BY DEF Init, ReceiveNotStuck
<1>2. Inv /\ ReceiveNotStuck /\ [Next]_vars => ReceiveNotStuck'
  BY ReceiveStep
<1> QED
  BY <1>1, <1>2, InvCorrect, PTL DEF Spec

LEMMA TransmitStep ==
    ASSUME Inv, TransmitNotStuck, [Next]_vars
    PROVE  TransmitNotStuck'
<1> USE DEF TransmitNotStuck, rings, rx_ring, tx_ring, enables, program
<1>1. CASE Program
  <2>1. CASE Reader
    BY <2>1 DEF Reader, ReadSnap, ReadCopy, ReadUpdate, ReadSpin, ReadCheck, ReadEnable
  <2>2. CASE Writer
    <3>1. CASE WriteSnap \/ WriteCopy \/ WriteUpdate
      BY <3>1 DEF WriteSnap, WriteCopy, WriteUpdate
    <3>2. CASE WriteKick \/ WriteSpin \/ WriteCheck
      BY <3>2 DEF WriteKick, WriteSpin, WriteCheck
    <3> QED
      BY <2>2, <3>1, <3>2 DEF Writer
  <2>3. CASE Read \/ Write \/ Close \/ CloseWait \/ SetTimeout
    BY <2>3 DEF Read, Write, Close, CloseWait, SetTimeout
  <2> QED
    BY <1>1, <2>1, <2>2, <2>3 DEF Program
<1>2. CASE Routine
  <2>u. UNCHANGED program
    BY <1>2 DEF Routine
  <2>1. CASE IsrTransmit
    BY <2>1, <2>u DEF IsrTransmit
  <2>2. CASE IsrTransmitEnd
    <3>1. CASE space = 0
      <4>1. we' = we
        BY <2>2, <3>1, Zenon DEF IsrTransmitEnd, Inv, TypeOK, DriverTypes
      <4> QED
        BY <2>2, <2>u, <4>1 DEF IsrTransmitEnd
    <3>2. CASE tx_out = tx_in
      BY <2>2, <3>2 DEF IsrTransmitEnd
    <3> QED
      BY <2>2, <3>1, <3>2 DEF IsrTransmitEnd
  <2>3. CASE Interrupt \/ IsrControl \/ IsrReceive \/ IsrReceiveEnd
    BY <2>3, <2>u DEF Interrupt, IsrControl, IsrReceive, IsrReceiveEnd
  <2> QED
    BY <1>2, <2>1, <2>2, <2>3 DEF Routine
<1>3. CASE Alarm \/ HostSend \/ HostPause \/ HostTake \/ HostPlug \/ UNCHANGED vars
  BY <1>3 DEF Alarm, HostSend, HostPause, HostTake, HostPlug, vars
<1> QED
  BY <1>1, <1>2, <1>3 DEF Next

(* No character is left behind in the ring with its interrupt off.         *)
THEOREM TransmitCorrect == Spec => []TransmitNotStuck
<1>1. Init => TransmitNotStuck
  BY DEF Init, TransmitNotStuck
<1>2. Inv /\ TransmitNotStuck /\ [Next]_vars => TransmitNotStuck'
  BY TransmitStep
<1> QED
  BY <1>1, <1>2, InvCorrect, PTL DEF Spec

=============================================================================
