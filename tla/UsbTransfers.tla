---------------------------- MODULE UsbTransfers ----------------------------
(***************************************************************************)
(* The transfer lists that lab 8's software writes into the memory of the  *)
(* CY7C67200, the controller running them, and main.c deciding when to     *)
(* send a list again and when to go on.  usb.c builds one list of transfer *)
(* descriptors (TDs) per request, word by word through the                 *)
(* self-incrementing HPI port, and then points the controller at it.  A TD *)
(* is six words: buffer, length, device address and PID, data toggle,      *)
(* control byte, next.  The setup packet of a control transfer follows its *)
(* first TD in memory.                                                     *)
(*                                                                         *)
(* main.c never asks whether the controller is idle: it looks at a flag,   *)
(* reads a message, and reads the control byte of the list's first TD, at  *)
(* 0x508.  A list may so be sent again after it has completed, and the     *)
(* next one be written under a controller that still runs it.  A behaviour *)
(* in which every request sent again is done within the 10 ms main sleeps  *)
(* then is called punctual.                                                *)
(***************************************************************************)
EXTENDS Integers, Sequences

CONSTANTS
  Received,       \* a word the keyboard puts into a receive buffer
  FollowOvertaken \* whether a behaviour goes on when main has left a request
                  \* that still runs: nothing is claimed of it then, so that
                  \* FALSE may bound what TLC looks at

ASSUME ReceivedAssumption == Received \in 0 .. 65535 /\ FollowOvertaken \in BOOLEAN

VARIABLES
  pc,        \* where main.c is
  list,      \* index in Requests of the list it is at
  written,   \* words of it written in this sending
  resent,    \* whether the list has been sent before
  addr,      \* the HPI address register
  keycode,   \* what main.c last sent to the game hardware
  mem,       \* the controller's memory, one entry per word
  run,       \* address of the TD the controller works on, 0 when idle
  started,   \* index of the list it was last pointed at, 0 before
  log,       \* the TDs run since that start, oldest first
  msg, flag, \* TDListDone in the SIE1 message register; its bit in HPI_STATUS
  address,   \* the address the keyboard answers to, Gone when it is pulled out
  punctual,  \* whether requests sent again are done within main's usleep
  overtaken  \* main has left a request that the controller was still running
main == <<pc, list, written, resent, addr, keycode>>
chip == <<mem, run, started, log, msg, flag>>
vars == <<main, chip, address, punctual, overtaken>>

TD(base, len, pid, toggle, next) == <<base, len, pid, toggle, \h13, next>>
Data0 == \h01
Data1 == \h41

SetAddress == TD(\h50C, 8, \hD0, Data0, \h514) \o <<\h0500, 2, 0, 0>>
              \o TD(0, 0, \h90, Data1, 0)

(* A request that still goes to address 0.                                 *)
SetupAtZero(w0, w1, w2, w3) == TD(\h50C, 8, \hD0, Data0, \h514) \o <<w0, w1, w2, w3>>

Setup(w0, w1, w2, w3) == TD(\h50C, 8, \h2D0, Data0, \h514) \o <<w0, w1, w2, w3>>
StatusOut == TD(0, 0, \h210, Data1, 0)
StatusIn  == TD(0, 0, \h290, Data1, 0)

GetDeviceDesc1 == Setup(\h0680, \h0100, 0, 8)
                  \o TD(\h52C, 8, \h290, Data1, \h520) \o StatusOut
(* Two data stages with the same toggle.                                   *)
GetDeviceDesc2SameToggle == Setup(\h0680, \h0100, 0, 18)
                            \o TD(\h544, 8, \h290, Data1, \h520)
                            \o TD(\h54C, 8, \h290, Data1, \h52C)
                            \o TD(\h554, 2, \h290, Data1, \h538) \o StatusOut
GetDeviceDesc2 == Setup(\h0680, \h0100, 0, 18)
                  \o TD(\h544, 8, \h290, Data1, \h520)
                  \o TD(\h54C, 8, \h290, Data0, \h52C)
                  \o TD(\h554, 2, \h290, Data1, \h538) \o StatusOut
GetConfigDesc1 == Setup(\h0680, \h0200, 0, 9)
                  \o TD(\h544, 8, \h290, Data1, \h520)
                  \o TD(\h54C, 1, \h290, Data0, \h52C) \o StatusOut
GetConfigDesc2 == Setup(\h0680, \h0200, 0, 255)
                  \o TD(\h55C, 8, \h290, Data1, \h520)
                  \o TD(\h564, 8, \h290, Data0, \h52C)
                  \o TD(\h56C, 8, \h290, Data1, \h538)
                  \o TD(\h574, 8, \h290, Data0, \h544)
                  \o TD(\h57C, 2, \h290, Data1, \h550) \o StatusOut
SetConfig    == Setup(\h0900, 1, 0, 0) \o StatusIn
ClassRequest == Setup(\h0A21, 0, 0, 0) \o StatusIn
(* The buffer placed on the list's own status TD.                          *)
GetHidDescOverlap == Setup(\h0681, \h2100, 0, 123)
                     \o TD(\h520, 8, \h290, Data1, \h520) \o StatusOut
GetHidDesc   == Setup(\h0681, \h2100, 0, 123)
                \o TD(\h544, 8, \h290, Data1, \h520) \o StatusOut
GetReportDesc == Setup(\h0681, \h2200, 0, 123)
                 \o TD(\h580, 8, \h290, Data1, \h520)
                 \o TD(\h588, 8, \h290, Data0, \h52C)
                 \o TD(\h590, 8, \h290, Data1, \h538)
                 \o TD(\h598, 8, \h290, Data0, \h544)
                 \o TD(\h5A0, 8, \h290, Data1, \h550)
                 \o TD(\h5A8, 8, \h290, Data0, \h55C)
                 \o TD(\h5B0, 8, \h290, Data1, \h568)
                 \o TD(\h5B8, 3, \h290, Data0, \h574) \o StatusOut

(* main.c's own lists: the words it puts over the endpoint descriptor and  *)
(* then points the controller at, and one poll of the keyboard, whose data *)
(* toggle goes by the parity of the poll.                                  *)
Endpoint == <<\h073F, \h8105, \h0003, \h0008, \hAC0A>>
data_size == Endpoint[4] % 256   \* read back from 0x057C, where Endpoint has just put it
Poll(toggle) == TD(\h51C, data_size % 16, \h291, IF toggle % 2 = 1 THEN Data0 ELSE Data1, 0)

Requests == << SetAddress, GetDeviceDesc1, GetDeviceDesc2, GetConfigDesc1,
               GetConfigDesc2, Endpoint, SetConfig, ClassRequest, GetHidDesc,
               GetReportDesc, Poll(1), Poll(2) >>
EndpointIndex == 6
FirstPoll == 11
StartOf(i) == IF i = EndpointIndex THEN \h576 ELSE \h500

Addresses == { a \in \h500 .. \h5FE : a % 2 = 0 }

-----------------------------------------------------------------------------
(* The TD at an address, as the controller reads it.                       *)
Field(a, k) == mem[a + 2 * k]
Base(a)   == Field(a, 0)
Length(a) == Field(a, 1) % 1024
Pid(a)    == (Field(a, 2) \div 16) % 16      \* 13 SETUP, 9 IN, 1 OUT
Device(a) == Field(a, 2) \div 256
Toggle(a) == (Field(a, 3) \div 64) % 2
Next(a)   == Field(a, 5)
Fills(a, word) == Pid(a) = 9 /\ Base(a) <= word /\ word < Base(a) + Length(a)
Readable(a) == a \in Addresses /\ a + 10 \in Addresses
Entry(a, ok) == [at |-> a, pid |-> Pid(a), device |-> Device(a),
                 toggle |-> Toggle(a), len |-> Length(a), ok |-> ok]

ControlByte == \h508    \* of the first TD: active, no retry needed, retries left, none
NoRetry == 3
Gone == -1
Followed == FollowOvertaken \/ ~overtaken

Init == /\ pc = "write" /\ list = 1 /\ written = 0 /\ resent = FALSE
        /\ addr = \h500 /\ keycode = 0
        /\ mem = [a \in Addresses |-> 0]
        /\ run = 0 /\ started = 0 /\ log = <<>> /\ msg = FALSE /\ flag = FALSE
        /\ address = 0 /\ punctual \in BOOLEAN /\ overtaken = FALSE

-----------------------------------------------------------------------------
(* USB_HOT_PLUG: the soft reset stops the controller and clears what it    *)
(* had to say; main waits for a keyboard, and the bus reset takes its      *)
(* address away.                                                           *)
Restart ==
    /\ pc = "restart" /\ pc' = "write"
    /\ list' = 1 /\ written' = 0 /\ resent' = FALSE /\ addr' = \h500
    /\ run' = 0 /\ started' = 0 /\ log' = <<>> /\ msg' = FALSE /\ flag' = FALSE
    /\ address' = 0 /\ overtaken' = FALSE
    /\ UNCHANGED <<keycode, mem, punctual>>

(* IO_write(HPI_DATA, word): the address register moves on by itself.      *)
WriteWord ==
    /\ pc = "write" /\ written < Len(Requests[list]) /\ Followed
    /\ mem' = [mem EXCEPT ![addr] = Requests[list][written + 1]]
    /\ addr' = addr + 2
    /\ written' = written + 1
    /\ UNCHANGED <<pc, list, resent, keycode, run, started, log, msg, flag,
                   address, punctual, overtaken>>

(* The next list, from its first word.  The parity of the first poll is    *)
(* that of the polls made before a restart, if there was one.              *)
GoOn ==
    /\ list' \in CASE list = FirstPoll - 1 -> {FirstPoll, FirstPoll + 1}
                   [] list = FirstPoll + 1 -> {FirstPoll}
                   [] OTHER -> {list + 1}
    /\ pc' = "write" /\ written' = 0 /\ resent' = FALSE /\ addr' = StartOf(list')

(* A list sent again without the usleep behind it.                         *)
StartWithoutSleep ==
    /\ pc = "write" /\ written = Len(Requests[list])
    /\ run' = StartOf(list) /\ started' = list /\ log' = <<>>
    /\ IF list = EndpointIndex
       THEN GoOn
       ELSE pc' = "check" /\ UNCHANGED <<list, written, resent, addr>>
    /\ UNCHANGED <<keycode, mem, msg, flag, address, punctual, overtaken>>

(* UsbWrite(HUSB_SIE1_pCurrentTDPtr, ...): the controller starts on the    *)
(* list; whatever it was running is dropped.  Behind a repetition, and     *)
(* behind GetConfigDesc2, main sleeps; for the endpoint words it waits for *)
(* nothing.                                                                *)
StartList ==
    /\ pc = "write" /\ written = Len(Requests[list])
    /\ run' = StartOf(list) /\ started' = list /\ log' = <<>>
    /\ IF list = EndpointIndex
       THEN GoOn
       ELSE /\ pc' = IF resent \/ Requests[list] = GetConfigDesc2 THEN "sleep" ELSE "check"
            /\ UNCHANGED <<list, written, resent, addr>>
    /\ UNCHANGED <<keycode, mem, msg, flag, address, punctual, overtaken>>

Sleep ==
    /\ pc = "sleep" /\ pc' = "check"
    /\ punctual /\ list < FirstPoll => run = 0
    /\ UNCHANGED <<list, written, resent, addr, keycode, chip, address, punctual, overtaken>>

(* while (!(HPI_STATUS & SIE1msg)) { send again }                          *)
CheckFlag ==
    /\ pc = "check"
    /\ IF flag
       THEN pc' = "wait" /\ UNCHANGED <<written, resent, addr>>
       ELSE pc' = "write" /\ written' = 0 /\ resent' = TRUE /\ addr' = StartOf(list)
    /\ UNCHANGED <<list, keycode, chip, address, punctual, overtaken>>

(* UsbWaitTDListDone: the message register is read, which clears the flag, *)
(* and then zeroed, until a read gave TDListDone.                          *)
UsbWaitTDListDone ==
    /\ pc = "wait" /\ flag' = FALSE
    /\ pc' = IF msg THEN "zero_done" ELSE "zero_again"
    /\ UNCHANGED <<list, written, resent, addr, keycode, mem, run, started, log, msg,
                   address, punctual, overtaken>>

ZeroMessage ==
    /\ pc \in {"zero_done", "zero_again", "zero_retry"} /\ msg' = FALSE
    /\ pc' = CASE pc = "zero_again" -> "wait"
               [] pc = "zero_retry" -> "retry_flag"
               [] OTHER -> IF list < FirstPoll THEN "control" ELSE "key"
    /\ UNCHANGED <<list, written, resent, addr, keycode, mem, run, started, log, flag,
                   address, punctual, overtaken>>

(* On to the next request, whatever the controller is at.                  *)
RequestDone ==
    /\ mem[ControlByte] = NoRetry
    /\ GoOn /\ overtaken' = (overtaken \/ run # 0)

ReadControl ==
    /\ pc = "control"
    /\ \/ RequestDone
       \/ /\ mem[ControlByte] # NoRetry /\ pc' = "retry"
          /\ UNCHANGED <<list, written, resent, addr, overtaken>>
    /\ UNCHANGED <<keycode, chip, address, punctual>>

(* UsbGetRetryCnt: a message that has come meanwhile is zeroed.            *)
UsbGetRetryCnt ==
    /\ pc = "retry" /\ flag' = FALSE
    /\ pc' = IF msg THEN "zero_retry" ELSE "again"
    /\ UNCHANGED <<list, written, resent, addr, keycode, mem, run, started, log, msg,
                   address, punctual, overtaken>>

(* Behind a message that was zeroed one more is waited for.  Then the      *)
(* control byte is read again: SetAddress starts all over whatever it is;  *)
(* the others call UsbGetRetryCnt until it is 0x03.                        *)
ReadAgain ==
    /\ pc \in {"again", "retry_flag"} /\ (pc = "retry_flag" => flag)
    /\ \/ list # 1 /\ RequestDone
       \/ /\ pc' = IF list = 1 THEN "restart" ELSE "retry"
          /\ list # 1 => mem[ControlByte] # NoRetry
          /\ UNCHANGED <<list, written, resent, addr, overtaken>>
    /\ UNCHANGED <<keycode, chip, address, punctual>>

(* The key of a poll goes to the game hardware.  If the keyboard is gone   *)
(* main starts over, unless one is put back before it looks.               *)
TakeKey ==
    /\ pc = "key"
    /\ keycode' = mem[\h51E] % 256
    /\ \/ GoOn
       \/ address = Gone /\ pc' = "restart" /\ UNCHANGED <<list, written, resent, addr>>
    /\ UNCHANGED <<chip, address, punctual, overtaken>>

Program == \/ Restart \/ WriteWord \/ StartList \/ Sleep \/ CheckFlag
           \/ UsbWaitTDListDone \/ ZeroMessage \/ ReadControl \/ UsbGetRetryCnt
           \/ ReadAgain \/ TakeKey

-----------------------------------------------------------------------------
Report(done) == IF done THEN msg' = TRUE /\ flag' = TRUE ELSE UNCHANGED <<msg, flag>>

(* The keyboard answers a TD for its address: an IN fills its buffer, and  *)
(* the status stage of SetAddress gives it the new address.  Of the        *)
(* control bytes only the first TD's matters, the one main reads: it may   *)
(* have needed a retry.  The controller takes the next TD from memory.     *)
Answered ==
    /\ run # 0 /\ started # EndpointIndex /\ Readable(run) /\ Followed
    /\ Device(run) = address
    /\ \E control \in {NoRetry, NoRetry - 1} :
          mem' = [a \in Addresses |->
                    IF Fills(run, a) THEN Received
                    ELSE IF a = ControlByte /\ run = \h500 THEN control ELSE mem[a]]
    /\ address' = IF Pid(run) = 9 /\ address = 0 THEN SetAddress[8] ELSE address
    /\ log' = Append(log, Entry(run, TRUE))
    /\ run' = Next(run)
    /\ Report(run' = 0)
    /\ UNCHANGED <<main, started, punctual, overtaken>>

(* Nobody answers, or the keyboard has no key to report until the retries  *)
(* of a poll are used up: the list ends there, reported like any other.    *)
Unanswered ==
    /\ run # 0 /\ started # EndpointIndex /\ Readable(run) /\ Followed
    /\ Device(run) # address \/ started >= FirstPoll
    /\ mem' = IF run = \h500 THEN [mem EXCEPT ![ControlByte] = 0] ELSE mem
    /\ log' = Append(log, Entry(run, FALSE))
    /\ run' = 0
    /\ Report(TRUE)
    /\ UNCHANGED <<main, started, address, punctual, overtaken>>

(* What the controller makes of the endpoint words is not known: it may    *)
(* report them as a list that is done.                                     *)
StrayDone ==
    /\ ~punctual /\ run # 0 /\ started = EndpointIndex
    /\ run' = 0 /\ Report(TRUE)
    /\ UNCHANGED <<main, mem, started, log, address, punctual, overtaken>>

Pull ==
    /\ address # Gone /\ address' = Gone /\ Followed
    /\ UNCHANGED <<main, chip, punctual, overtaken>>

NextStep == Program \/ Answered \/ Unanswered \/ StrayDone \/ Pull
Spec == Init /\ [][NextStep]_vars

-----------------------------------------------------------------------------
(* Where list i puts a TD: its first at the start, the second behind the   *)
(* setup packet (a poll has one TD only), the others one after another.    *)
TDsOf(i) == LET n == Len(Requests[i])
            IN {\h500} \cup { a \in \h514 .. \h500 + 2 * (n - 6) : (a - \h514) % 12 = 0 }
TDWord(i, a, k) == Requests[i][(a - \h500) \div 2 + k]

(* When requests are done within main's sleep, main leaves none before the *)
(* controller has: neither a list that completed between the look at the   *)
(* flag and its repetition, nor a message left from a list before, nor the *)
(* control byte of a first run makes it write the next list under the      *)
(* controller.                                                             *)
NeverOvertakes == punctual => ~overtaken

(* Unless main overtakes the controller, everything it takes for a TD      *)
(* while it runs main's list is a TD of that list, with the words the list *)
(* gave it: no next pointer misses, and no receive buffer of the list, no  *)
(* repetition under the running controller and no list before has          *)
(* overwritten a TD still to run.                                          *)
OnlyItsTDsRun ==
    ~overtaken /\ run # 0 /\ started = list =>
        /\ run \in TDsOf(started)
        /\ \A k \in {1, 2, 3, 4, 6} : Field(run, k - 1) = TDWord(started, run, k)

Control == 1 .. FirstPoll - 1 \ {EndpointIndex}
Completed == run = 0 /\ started \in Control /\ log[Len(log)].ok

(* A control transfer that has run follows USB's rules: a SETUP with       *)
(* DATA0, data stages alternating from DATA1, and a status stage of DATA1  *)
(* in the other direction than the data, without data; all of them for one *)
(* device.  Only the last data stage may be short of a full packet of      *)
(* eight bytes, for a shorter one in the middle would end the transfer at  *)
(* the device, and all stages together never ask for more than the         *)
(* request's wLength.                                                      *)
ControlTransferShape ==
    ~overtaken /\ Completed =>
       LET n == Len(log)
       IN /\ n >= 2 /\ log[1].pid = 13 /\ log[1].toggle = 0
          /\ \A k \in 2 .. n - 1 : log[k].pid = 9 /\ log[k].toggle = (k + 1) % 2
          /\ log[n].toggle = 1 /\ log[n].len = 0
          /\ log[n].pid = IF n > 2 THEN 1 ELSE 9
          /\ \A k \in 1 .. n : log[k].device = log[1].device
          /\ \A k \in 2 .. n - 2 : log[k].len = 8
          /\ n > 2 => 8 * (n - 3) + log[n - 1].len <= Requests[started][10]

(* Behind SetAddress every TD goes to the address the keyboard really has, *)
(* however often SetAddress was sent and run before, and whatever of it    *)
(* failed: main does not take the first TD's success for the whole.        *)
SpeaksToItsDevice ==
    ~overtaken /\ run # 0 /\ started \notin {1, EndpointIndex} /\ address # Gone
       => Device(run) = address
=============================================================================
