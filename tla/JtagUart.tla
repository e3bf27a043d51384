------------------------------ MODULE JtagUart ------------------------------
(***************************************************************************)
(* The interrupt driven JTAG UART driver of lab 9's board support package. *)
(* One program (there is no operating system) calls read, write, ioctl and *)
(* close; the interrupt routine moves characters between two ring buffers  *)
(* and the two FIFOs of the device, and may come between any two accesses  *)
(* the program makes; the host at the other end of the cable moves between *)
(* any two accesses of either.  A timer, where the board has one, decides  *)
(* after some time without activity that nobody is there.                  *)
(*                                                                         *)
(* The device is lab9_soc_jtag_uart_0.v.  It interrupts on thresholds: for *)
(* transmission when at most eight of 64 places are used, for reception    *)
(* when at most eight are free or the host has paused.  Its registers lag  *)
(* one clock behind its FIFOs; here an access shows them as they are.      *)
(***************************************************************************)
EXTENDS Integers, Sequences

CONSTANTS
  Chars,     \* what is sent
  BufLen,    \* ALTERA_AVALON_JTAG_UART_BUF_LEN
  FifoLen,   \* depth of the device's FIFOs
  Threshold, \* places used, or free, up to which it interrupts
  HasTimer,  \* alt_alarm_start succeeds
  IntMax,    \* INT_MAX
  Timeout,   \* ALTERA_AVALON_JTAG_UART_DEFAULT_TIMEOUT
  Timeouts,  \* what ioctl may be asked to set
  MaxPiece,  \* the longest read or write
  Uses       \* what the driver is used for: calls made, what the host does,
             \* the characters, the longest piece

ASSUME JtagUartAssumption ==
    /\ BufLen \in Nat /\ BufLen >= 2
    /\ FifoLen \in Nat \ {0} /\ Threshold \in 0 .. FifoLen - 1
    /\ HasTimer \in BOOLEAN
    /\ IntMax \in Nat /\ IntMax >= 4
    /\ Timeout \in 2 .. IntMax - 1 /\ Timeouts \subseteq 0 .. IntMax
    /\ MaxPiece \in Nat
    /\ Uses \subseteq [calls : SUBSET {"read", "write", "close", "ioctl"},
                       host : SUBSET {"send", "pause", "take", "plug"}, chars : SUBSET Chars,
                       piece : 1 .. MaxPiece]

VARIABLES
  rx_buf, rx_in, rx_out, tx_buf, tx_in, tx_out, \* the driver's rings
  re, we,                 \* irq_enable, as also in the control register
  host_inactive, timeout,
  rx_fifo, tx_fifo,       \* the device: its FIFOs,
  pause_irq, ac,          \* the host has paused, the activity bit
  isr, ravail, wi, space, \* the interrupt routine: where it is, its locals
  pc, in, out, n,         \* the program: where it is, locals of read and write,
  left, data, moved, nonblock,  \* what is still asked for, written, done
  connected, use,         \* a host is there; what is done in this behaviour
  sent, got, given, taken \* history: the piece each end last put in or took out
rx_ring == <<rx_buf, rx_in, rx_out>>
tx_ring == <<tx_buf, tx_in, tx_out>>
rings == <<rx_ring, tx_ring>>
enables == <<re, we>>
timing == <<host_inactive, timeout>>
device == <<rx_fifo, tx_fifo, pause_irq, ac>>
routine == <<isr, ravail, wi, space>>
program == <<pc, in, out, n, left, data, moved, nonblock>>
link == <<connected, use>>
history == <<sent, got, given, taken>>
vars == <<rings, enables, timing, device, routine, program, link, history>>

Slots == 0 .. BufLen - 1
After(i) == (i + 1) % BufLen

(* The characters in a ring from one index up to another.                  *)
Used(from, to) == IF to >= from THEN to - from ELSE BufLen - from + to
Ring(buf, from, to) == [k \in 1 .. Used(from, to) |-> buf[(from + k - 1) % BufLen]]

(* altera_avalon_jtag_uart_init.                                           *)
Init == /\ use \in Uses
        /\ \E c \in use.chars : rx_buf = [k \in Slots |-> c] /\ tx_buf = [k \in Slots |-> c]
        /\ rx_in = 0 /\ rx_out = 0 /\ tx_in = 0 /\ tx_out = 0
        /\ re = TRUE /\ we = FALSE
        /\ host_inactive = 0 /\ timeout = IF HasTimer THEN Timeout ELSE IntMax
        /\ rx_fifo = <<>> /\ tx_fifo = <<>> /\ pause_irq = FALSE /\ ac = FALSE
        /\ isr = "out" /\ ravail = FALSE /\ wi = FALSE /\ space = 0
        /\ pc = "idle" /\ in = 0 /\ out = 0 /\ n = 0
        /\ left = 0 /\ data = <<>> /\ moved = FALSE /\ nonblock = FALSE
        /\ connected = TRUE
        /\ sent = <<>> /\ got = <<>> /\ given = <<>> /\ taken = <<>>

-----------------------------------------------------------------------------
(* altera_avalon_jtag_uart_read, from one access to shared data to the     *)
(* next.                                                                   *)
Read == /\ pc = "idle" /\ "read" \in use.calls
        /\ pc' = "r_snap" /\ moved' = FALSE
        /\ left' \in 1 .. use.piece /\ nonblock' \in BOOLEAN
        /\ UNCHANGED <<in, out, n, data, rings, enables, got, given>>

Least(a, b) == IF a < b THEN a ELSE b

ReadSnap ==
    /\ pc = "r_snap"
    /\ in' = rx_in /\ out' = rx_out
    /\ n' = Least(left, IF in' >= out' THEN in' - out' ELSE BufLen - out')
    /\ pc' = IF n' > 0 THEN "r_copy" ELSE IF moved THEN "r_enable"
             ELSE IF nonblock THEN "idle" ELSE "r_spin"
    /\ UNCHANGED <<left, data, moved, nonblock, rings, enables, got, given>>

ReadCopy ==
    /\ pc = "r_copy" /\ pc' = "r_update"
    /\ got' = [k \in 1 .. n |-> rx_buf[out + k - 1]]
    /\ moved' = TRUE
    /\ UNCHANGED <<in, out, n, left, data, nonblock, rings, enables, given>>

(* All that is there by now taken for read.                                *)
ReadUpdateToIn ==
    /\ pc = "r_update"
    /\ rx_out' = rx_in
    /\ left' = left - n
    /\ pc' = IF left' > 0 THEN "r_snap" ELSE "r_enable"
    /\ UNCHANGED <<rx_buf, rx_in, tx_ring, enables, got, given, in, out, n, data, moved, nonblock>>

ReadUpdate ==
    /\ pc = "r_update"
    /\ rx_out' = (out + n) % BufLen
    /\ left' = left - n
    /\ pc' = IF left' > 0 THEN "r_snap" ELSE "r_enable"
    /\ UNCHANGED <<rx_buf, rx_in, tx_ring, enables, got, given, in, out, n, data, moved, nonblock>>

ReadSpin ==
    /\ pc = "r_spin" /\ (in # rx_in \/ host_inactive >= timeout)
    /\ pc' = "r_check"
    /\ UNCHANGED <<in, out, n, left, data, moved, nonblock, rings, enables, got, given>>

ReadCheck ==
    /\ pc = "r_check"
    /\ pc' = IF in = rx_in THEN "idle" ELSE "r_snap"
    /\ UNCHANGED <<in, out, n, left, data, moved, nonblock, rings, enables, got, given>>

(* A return that leaves receive interrupts as they are.                    *)
ReadNoEnable ==
    /\ pc = "r_enable" /\ pc' = "idle"
    /\ UNCHANGED <<in, out, n, left, data, moved, nonblock, rings, enables, got, given>>

ReadEnable ==
    /\ pc = "r_enable" /\ pc' = "idle"
    /\ re' = TRUE
    /\ UNCHANGED <<in, out, n, left, data, moved, nonblock, rings, we, got, given>>

Reader == ReadSnap \/ ReadCopy \/ ReadUpdate \/ ReadSpin \/ ReadCheck \/ ReadEnable

-----------------------------------------------------------------------------
(* altera_avalon_jtag_uart_write.                                          *)
Write == /\ pc = "idle" /\ "write" \in use.calls
         /\ pc' = "w_snap" /\ moved' = FALSE
         /\ \E k \in 1 .. use.piece : data' \in [1 .. k -> use.chars]
         /\ nonblock' \in BOOLEAN
         /\ UNCHANGED <<in, out, n, left, rings, enables, got, given>>

Room(i, o) == IF i < o THEN o - 1 - i ELSE IF o > 0 THEN BufLen - i ELSE BufLen - 1 - i

WriteSnap ==
    /\ pc = "w_snap"
    /\ IF data = <<>>
       THEN pc' = "w_kick" /\ UNCHANGED <<in, out, n>>
       ELSE /\ in' = tx_in /\ out' = tx_out
            /\ n' = Least(Len(data), Room(in', out'))
            /\ pc' = IF n' > 0 THEN "w_copy" ELSE "w_kick"
    /\ UNCHANGED <<left, data, moved, nonblock, rings, enables, got, given>>

WriteCopy ==
    /\ pc = "w_copy" /\ pc' = "w_update"
    /\ tx_buf' = [k \in Slots |-> IF k \in in .. in + n - 1 THEN data[k - in + 1] ELSE tx_buf[k]]
    /\ given' = SubSeq(data, 1, n) /\ data' = SubSeq(data, n + 1, Len(data))
    /\ moved' = TRUE
    /\ UNCHANGED <<in, out, n, left, nonblock, rx_ring, tx_in, tx_out, enables, got>>

WriteUpdate ==
    /\ pc = "w_update" /\ pc' = "w_snap"
    /\ tx_in' = (in + n) % BufLen
    /\ UNCHANGED <<in, out, n, left, data, moved, nonblock, rx_ring, tx_buf, tx_out, enables,
                   got, given>>

WriteKick ==
    /\ pc = "w_kick"
    /\ we' = TRUE
    /\ pc' = IF data = <<>> \/ nonblock THEN "idle" ELSE "w_spin"
    /\ UNCHANGED <<in, out, n, left, data, moved, nonblock, rings, re, got, given>>

(* A wait that forgets the timeout.                                        *)
WriteSpinNoLimit ==
    /\ pc = "w_spin" /\ out # tx_out
    /\ pc' = "w_check"
    /\ UNCHANGED <<in, out, n, left, data, moved, nonblock, rings, enables, got, given>>

WriteSpin ==
    /\ pc = "w_spin" /\ (out # tx_out \/ host_inactive >= timeout)
    /\ pc' = "w_check"
    /\ UNCHANGED <<in, out, n, left, data, moved, nonblock, rings, enables, got, given>>

WriteCheck ==
    /\ pc = "w_check"
    /\ pc' = IF host_inactive # 0 THEN "idle" ELSE "w_snap"
    /\ UNCHANGED <<in, out, n, left, data, moved, nonblock, rings, enables, got, given>>

Writer == WriteSnap \/ WriteCopy \/ WriteUpdate \/ WriteKick \/ WriteSpin \/ WriteCheck

(* altera_avalon_jtag_uart_close waits until all is sent.                  *)
Close == /\ pc = "idle" /\ "close" \in use.calls
         /\ pc' = "c_wait" /\ nonblock' \in BOOLEAN
         /\ UNCHANGED <<in, out, n, left, data, moved, rings, enables, got, given>>

CloseWait ==
    /\ pc = "c_wait" /\ (tx_out = tx_in \/ host_inactive >= timeout \/ nonblock)
    /\ pc' = "idle"
    /\ UNCHANGED <<in, out, n, left, data, moved, nonblock, rings, enables, got, given>>

(* altera_avalon_jtag_uart_ioctl, TIOCSTIMEOUT.                            *)
SetTimeout ==
    /\ pc = "idle" /\ "ioctl" \in use.calls /\ timeout # IntMax
    /\ \E t \in Timeouts : timeout' = IF t >= 2 /\ t < IntMax THEN t ELSE IntMax - 1
    /\ UNCHANGED <<program, rings, enables, host_inactive, got, given>>

(* What runs while the interrupt routine does not.                         *)
Program ==
    /\ isr = "out"
    /\ \/ (Reader \/ Writer \/ CloseWait \/ Read \/ Write \/ Close) /\ UNCHANGED timing
       \/ SetTimeout
    /\ UNCHANGED <<device, routine, link, sent, taken>>

-----------------------------------------------------------------------------
(* The bits RI and WI of the control register, which also interrupt.  A    *)
(* few characters in the receive FIFO interrupt only once the host pauses. *)
ReadPending  == re /\ (pause_irq \/ FifoLen - Len(rx_fifo) <= Threshold)
WritePending == we /\ Len(tx_fifo) <= Threshold

(* altera_avalon_jtag_uart_irq, from one access to a register to the next. *)

Interrupt ==
    /\ isr = "out" /\ (ReadPending \/ WritePending)
    /\ isr' = "control"
    /\ UNCHANGED <<ravail, wi, space, rings, enables, device>>

(* A count of free places taken for the whole FIFO.                        *)
IsrControlAllSpace ==
    /\ isr = "control"
    /\ isr' = IF ReadPending THEN "rx" ELSE IF WritePending THEN "tx" ELSE "out"
    /\ wi' = WritePending
    /\ space' = FifoLen
    /\ ravail' = TRUE
    /\ UNCHANGED <<rings, enables, device>>

IsrControl ==
    /\ isr = "control"
    /\ isr' = IF ReadPending THEN "rx" ELSE IF WritePending THEN "tx" ELSE "out"
    /\ wi' = WritePending
    /\ space' = FifoLen - Len(tx_fifo)
    /\ ravail' = TRUE
    /\ UNCHANGED <<rings, enables, device>>

(* No look at the ring before a character is taken.                        *)
RxNeverFull == FALSE

RxFull == After(rx_in) = rx_out

IsrReceive ==
    /\ isr = "rx" /\ ~RxFull /\ rx_fifo # <<>>
    /\ rx_buf' = [rx_buf EXCEPT ![rx_in] = Head(rx_fifo)]
    /\ rx_in' = After(rx_in)
    /\ rx_fifo' = Tail(rx_fifo)
    /\ ravail' = (rx_fifo' # <<>>)
    /\ pause_irq' = FALSE
    /\ UNCHANGED <<isr, wi, space, rx_out, tx_ring, enables, tx_fifo, ac>>

IsrReceiveEnd ==
    /\ isr = "rx" /\ (RxFull \/ rx_fifo = <<>>)
    /\ ravail' = (RxFull /\ ravail)
    /\ re' = (re /\ ~ravail')
    /\ pause_irq' = (RxFull /\ pause_irq)
    /\ isr' = IF wi THEN "tx" ELSE "control"
    /\ UNCHANGED <<wi, space, rings, we, rx_fifo, tx_fifo, ac>>

(* The index moved on before the character is fetched.                     *)
IsrTransmitNext ==
    /\ isr = "tx" /\ space > 0 /\ tx_out # tx_in
    /\ tx_fifo' = Append(tx_fifo, tx_buf[After(tx_out)])
    /\ tx_out' = After(tx_out)
    /\ space' = space - 1
    /\ UNCHANGED <<isr, ravail, wi, rx_ring, tx_buf, tx_in, enables, rx_fifo, pause_irq, ac>>

IsrTransmit ==
    /\ isr = "tx" /\ space > 0 /\ tx_out # tx_in
    /\ tx_fifo' = Append(tx_fifo, tx_buf[tx_out])
    /\ tx_out' = After(tx_out)
    /\ space' = space - 1
    /\ UNCHANGED <<isr, ravail, wi, rx_ring, tx_buf, tx_in, enables, rx_fifo, pause_irq, ac>>

(* Transmit interrupts off after every round.                              *)
IsrTransmitEndOff ==
    /\ isr = "tx" /\ (space = 0 \/ tx_out = tx_in)
    /\ we' = FALSE
    /\ isr' = "control"
    /\ UNCHANGED <<ravail, wi, space, rings, re, device>>

IsrTransmitEnd ==
    /\ isr = "tx" /\ (space = 0 \/ tx_out = tx_in)
    /\ we' = (we /\ space = 0)
    /\ isr' = "control"
    /\ UNCHANGED <<ravail, wi, space, rings, re, device>>

Routine ==
    /\ Interrupt \/ IsrControl \/ IsrReceive \/ IsrReceiveEnd \/ IsrTransmit \/ IsrTransmitEnd
    /\ UNCHANGED <<timing, program, link, history>>

(* A count that stops one later.                                           *)
AlarmSaturatesLate ==
    /\ HasTimer /\ isr = "out"
    /\ ac' = FALSE
    /\ host_inactive' = IF ac THEN 0
                        ELSE IF host_inactive < IntMax - 1 THEN host_inactive + 1
                        ELSE host_inactive
    /\ UNCHANGED <<rings, enables, timeout, rx_fifo, tx_fifo, pause_irq, routine, program, link,
                   history>>

(* altera_avalon_jtag_uart_timeout, from the timer's interrupt.            *)
Alarm ==
    /\ HasTimer /\ isr = "out"
    /\ ac' = FALSE
    /\ host_inactive' = IF ac THEN 0
                        ELSE IF host_inactive < IntMax - 2 THEN host_inactive + 1
                        ELSE host_inactive
    /\ UNCHANGED <<rings, enables, timeout, rx_fifo, tx_fifo, pause_irq, routine, program, link,
                   history>>

-----------------------------------------------------------------------------
(* The host at the other end.                                              *)
HostSend ==
    /\ "send" \in use.host /\ connected /\ Len(rx_fifo) < FifoLen
    /\ \E c \in use.chars : rx_fifo' = Append(rx_fifo, c) /\ sent' = <<c>>
    /\ ac' = TRUE
    /\ UNCHANGED <<rings, enables, timing, tx_fifo, pause_irq, routine, program, link, got, given,
                   taken>>

(* It has nothing more to send for the moment (t_pause).                   *)
HostPause ==
    /\ "pause" \in use.host /\ connected
    /\ pause_irq' = (pause_irq \/ rx_fifo # <<>>)
    /\ ac' = TRUE
    /\ UNCHANGED <<rings, enables, timing, rx_fifo, tx_fifo, routine, program, link, history>>

HostTake ==
    /\ "take" \in use.host /\ connected /\ tx_fifo # <<>>
    /\ tx_fifo' = Tail(tx_fifo) /\ taken' = <<Head(tx_fifo)>>
    /\ UNCHANGED <<rings, enables, timing, rx_fifo, pause_irq, ac, routine, program, link, sent, got,
                   given>>

HostPlug ==
    /\ "plug" \in use.host
    /\ connected' = ~connected
    /\ UNCHANGED <<rings, enables, timing, device, routine, program, use, history>>

Next == Program \/ Routine \/ Alarm \/ HostSend \/ HostPause \/ HostTake \/ HostPlug
Spec == Init /\ [][Next]_vars

(* The processor goes on; a second passes now and then; a connected host   *)
(* keeps reading and sending, and pauses now and then.                     *)
Fairness == /\ WF_vars(Program) /\ WF_vars(Routine) /\ WF_vars(Alarm)
            /\ WF_vars(HostSend) /\ WF_vars(HostPause) /\ WF_vars(HostTake)
FairSpec == Spec /\ Fairness

-----------------------------------------------------------------------------
DriverTypes ==
    /\ rx_buf \in [Slots -> Chars] /\ tx_buf \in [Slots -> Chars]
    /\ rx_in \in Slots /\ rx_out \in Slots /\ tx_in \in Slots /\ tx_out \in Slots
    /\ re \in BOOLEAN /\ we \in BOOLEAN
    /\ host_inactive \in 0 .. IntMax - 2 /\ timeout \in 2 .. IntMax
    /\ isr \in {"out", "control", "rx", "tx"}
    /\ ravail \in BOOLEAN /\ wi \in BOOLEAN /\ space \in 0 .. FifoLen
DeviceTypes ==
    /\ rx_fifo \in Seq(Chars) /\ Len(rx_fifo) <= FifoLen
    /\ tx_fifo \in Seq(Chars) /\ Len(tx_fifo) <= FifoLen
    /\ pause_irq \in BOOLEAN /\ ac \in BOOLEAN /\ connected \in BOOLEAN /\ use \in Uses
ProgramTypes ==
    /\ pc \in {"idle", "r_snap", "r_copy", "r_update", "r_spin", "r_check", "r_enable",
               "w_snap", "w_copy", "w_update", "w_kick", "w_spin", "w_check", "c_wait"}
    /\ in \in Slots /\ out \in Slots /\ n \in 0 .. BufLen - 1
    /\ data \in Seq(Chars) /\ left \in 0 .. MaxPiece
    /\ moved \in BOOLEAN /\ nonblock \in BOOLEAN
HistoryTypes == /\ sent \in Seq(Chars) /\ got \in Seq(Chars)
                /\ given \in Seq(Chars) /\ taken \in Seq(Chars)
TypeOK == DriverTypes /\ DeviceTypes /\ ProgramTypes /\ HistoryTypes

(* Receive interrupts are off only while there is something to read, or a  *)
(* reader is on its way to turn them on: reception does not stop for good. *)
ReceiveNotStuck ==
    ~re => \/ rx_in # rx_out
           \/ moved /\ pc \in {"r_snap", "r_update", "r_enable"}

(* While characters wait in the ring, transmit interrupts are on or the    *)
(* writer is on its way to turn them on.                                   *)
TransmitNotStuck ==
    tx_in # tx_out => we \/ pc \in {"w_snap", "w_copy", "w_update", "w_kick"}

(* The routine fills no slot that a reader is copying and sends none that  *)
(* a writer is filling, although both work from an old look at the other's *)
(* index.                                                                  *)
SlotsApart ==
    /\ pc \in {"r_copy", "r_update"} =>
          out + n <= BufLen /\ rx_in \notin out .. out + n - 1
    /\ pc \in {"w_copy", "w_update"} =>
          /\ in + n <= BufLen
          /\ \A k \in in .. in + n - 1 :
                IF tx_out <= tx_in THEN k \notin tx_out .. tx_in - 1
                                   ELSE k \in tx_in .. tx_out - 1

(* The FIFO takes what the routine sends: its count of free places is      *)
(* never too high, whatever the host did since it was read.                *)
FifoHasSpace == isr = "tx" => space <= FifoLen - Len(tx_fifo)

(* A timeout out of range means to wait for ever.                          *)
ForeverIsForever == timeout >= IntMax - 1 => host_inactive < timeout

(* Both directions are queues: what one end gives the other gets, in the   *)
(* same order, with nothing lost, doubled or changed in between.           *)
Drop(s, k) == SubSeq(s, k + 1, Len(s))
RxQueue == Drop(Ring(rx_buf, rx_out, rx_in) \o rx_fifo, IF pc = "r_update" THEN n ELSE 0)
TxQueue == tx_fifo \o Ring(tx_buf, tx_out, IF pc = "w_update" THEN (in + n) % BufLen ELSE tx_in)
Rx == INSTANCE CharChannel
         WITH Capacity <- BufLen - 1 + FifoLen, queue <- RxQueue, put <- sent, got <- got
Tx == INSTANCE CharChannel
         WITH Capacity <- BufLen - 1 + FifoLen, queue <- TxQueue, put <- given, got <- taken
ReceivesInOrder == Rx!Spec
SendsInOrder == Tx!Spec

(* Every call returns, if the host stays, or is away and there is a limit. *)
CallsReturn ==
    <>[]connected \/ <>[](~connected /\ timeout < IntMax - 1) => []<>(pc = "idle")
=============================================================================
