------------------------------- MODULE UsbHost -------------------------------
(***************************************************************************)
(* Lab 8's main program: enumeration of a USB keyboard through the         *)
(* CY7C67200 and the polling loop after it, with a keyboard that may be    *)
(* pulled out and put back.  UsbTransfers has the lists of each request;   *)
(* here a list is a SETUP stage and the rest.  The program is one process  *)
(* that busy-waits; the controller and the keyboard move between any two   *)
(* of its accesses.  The bodies of UsbRead, UsbWrite, IO_read and IO_write *)
(* are not in the repository: each is one access of what its comment says. *)
(***************************************************************************)
EXTENDS Integers

CONSTANT Worlds  \* what the controller and the cable may do, as follows

(* One behaviour takes place in one world:                                 *)
(*   prompt  a list sent again completes within the usleep after it, and   *)
(*           none completes between a look at the flag and the sending;    *)
(*   glitch  a SETUP may need a retry, a mailbox command may be refused;   *)
(*   stray   the controller may report the endpoint words as a done list;  *)
(*   pullAt  labels at which the keyboard may be pulled out (with any      *)
(*           label of the polling loop), empty for never;                  *)
(*   putAt   labels at which it may be put back.                           *)
ASSUME UsbAssumption ==
    \A w \in Worlds : /\ DOMAIN w = {"prompt", "glitch", "stray", "pullAt", "putAt"}
                      /\ {w.prompt, w.glitch, w.stray} \subseteq BOOLEAN

VARIABLES
  pc, stage, tries, resent, toggle,  \* main: label, request, counters
  ctl,             \* control byte of the first TD, at 0x0508
  run, loaded,     \* the controller's progress, and the request of its list
  msg, flag,       \* SIE1 message register, and its bit in HPI_STATUS
  mailbox,         \* its answer to a mailbox command
  plugged, device, \* D+/D- seen; the keyboard's state
  served,          \* the last request the keyboard has completed
  world            \* the world this behaviour takes place in
main == <<pc, stage, tries, resent, toggle>>
chip == <<ctl, run, loaded, msg, flag, mailbox>>
keyboard == <<plugged, device, served>>
vars == <<main, chip, keyboard, world>>

SetAddressStage == 1    \* 1 .. 9: SetAddress ... GetReportDesc, as in main
SetConfigStage == 6
PollStage == 10
DetectTries == 5
RemoveTries == 7

Init == /\ pc = "reset" /\ stage = 1 /\ tries = 0 /\ resent = FALSE /\ toggle = 0
        /\ ctl = "active" /\ run = "idle" /\ loaded = 0
        /\ msg = FALSE /\ flag = FALSE /\ mailbox = "none"
        /\ plugged \in BOOLEAN /\ served = 0
        /\ device = [state |-> "powered", toggle |-> 0]
        /\ world \in Worlds

-----------------------------------------------------------------------------
(* A restart that keeps the request it was at.                             *)
ResetKeepsStage ==
    /\ pc = "reset" /\ pc' = "await_status" /\ tries' = 0
    /\ run' = "idle" /\ msg' = FALSE /\ flag' = FALSE /\ mailbox' = "none"
    /\ UNCHANGED <<stage, resent, toggle, ctl, loaded, keyboard>>

(* A restart that leaves a message of before unread.                       *)
ResetKeepsMessage ==
    /\ pc = "reset" /\ pc' = "await_status" /\ stage' = 1 /\ tries' = 0
    /\ run' = "idle" /\ mailbox' = "none"
    /\ UNCHANGED <<resent, toggle, ctl, loaded, msg, flag, keyboard>>

(* USB_HOT_PLUG: the soft reset and step 1.  COMM_RESET stops what the     *)
(* controller runs; the reads clear what it had to say.                    *)
UsbSoftReset ==
    /\ pc = "reset" /\ pc' = "await_status" /\ stage' = 1 /\ tries' = 0
    /\ run' = "idle" /\ msg' = FALSE /\ flag' = FALSE /\ mailbox' = "none"
    /\ UNCHANGED <<resent, toggle, ctl, loaded, keyboard>>

(* Until some bit of HPI_STATUS comes up; anything but an ACK starts over. *)
AwaitStatus ==
    /\ pc = "await_status" /\ mailbox # "none"
    /\ pc' = IF mailbox = "ack" THEN "step2" ELSE "reset"
    /\ UNCHANGED <<stage, tries, resent, toggle, chip, keyboard>>

(* Step 2 resets the bus.  The mailbox is read at once: it still shows the *)
(* answer to step 1 unless the controller was faster with another.         *)
Step2 ==
    /\ pc = "step2"
    /\ \E answer \in IF world.glitch THEN {"ack", "nak"} ELSE {"ack"} :
          pc' = IF answer = "ack" THEN "detect" ELSE "reset"
    /\ device' = IF plugged THEN [state |-> "default", toggle |-> 0] ELSE device
    /\ served' = 0
    /\ UNCHANGED <<stage, tries, resent, toggle, chip, plugged>>

(* One read of the D+/D- bits and up to five more, 5 ms apart.             *)
Detect ==
    /\ pc = "detect"
    /\ pc' = IF plugged THEN "load"
             ELSE IF tries = DetectTries THEN "await_insert" ELSE "detect"
    /\ tries' = IF pc' = "detect" THEN tries + 1 ELSE 0
    /\ UNCHANGED <<stage, resent, toggle, chip, keyboard>>

AwaitInsert ==
    /\ pc = "await_insert" /\ plugged
    /\ pc' = "reset"
    /\ UNCHANGED <<stage, tries, resent, toggle, chip, keyboard>>

-----------------------------------------------------------------------------
(* A request, or a poll: writing its TDs also sets the control byte to     *)
(* 0x13, active; then the pointer starts the list, dropping what ran.      *)
Load ==
    /\ pc = "load" /\ pc' = "start"
    /\ ctl' = "active"
    /\ UNCHANGED <<stage, tries, resent, toggle, run, loaded, msg, flag, mailbox, keyboard>>

Start ==
    /\ pc = "start" /\ pc' = IF resent THEN "sleep" ELSE "check"
    /\ run' = IF stage = PollStage THEN "rest" ELSE "setup"
    /\ loaded' = stage
    /\ UNCHANGED <<stage, tries, resent, toggle, ctl, msg, flag, mailbox, keyboard>>

(* while (!(HPI_STATUS & SIE1msg)) { send again; usleep }                  *)
CheckFlag ==
    /\ pc = "check"
    /\ pc' = IF flag THEN "wait_done" ELSE "load"
    /\ resent' = ~flag
    /\ UNCHANGED <<stage, tries, toggle, chip, keyboard>>

Sleep ==
    /\ pc = "sleep" /\ pc' = "check"
    /\ world.prompt /\ loaded # PollStage => run = "idle"
    /\ UNCHANGED <<stage, tries, resent, toggle, chip, keyboard>>

(* Going on when the flag is up, whatever the message.                     *)
DoneByFlag ==
    /\ pc = "wait_done"
    /\ pc' = IF stage = PollStage THEN "check_plug" ELSE "read_ctl"
    /\ UNCHANGED <<stage, tries, resent, toggle, chip, keyboard>>

(* UsbWaitTDListDone: the message register is read and then zeroed, until  *)
(* a read gave TDListDone.  Reading it clears the flag; a message that     *)
(* comes between the two accesses is lost, though its flag stays.          *)
UsbWaitTDListDone ==
    /\ pc = "wait_done"
    /\ flag' = FALSE
    /\ pc' = IF msg THEN "zero_done" ELSE "zero_again"
    /\ UNCHANGED <<stage, tries, resent, toggle, ctl, run, loaded, msg, mailbox, keyboard>>

ZeroMessage ==
    /\ pc \in {"zero_done", "zero_again", "zero_retry"}
    /\ msg' = FALSE
    /\ pc' = CASE pc = "zero_again" -> "wait_done"
               [] pc = "zero_retry" -> "retry_flag"
               [] OTHER -> IF stage = PollStage THEN "check_plug" ELSE "read_ctl"
    /\ UNCHANGED <<stage, tries, resent, toggle, ctl, run, loaded, flag, mailbox, keyboard>>

(* Polling begun without the toggle++.                                     *)
StageDoneKeepsToggle ==
    /\ pc' = "load" /\ stage' = stage + 1
    /\ toggle' = toggle
    /\ IF stage' = SetConfigStage
       THEN run' = "stray" /\ loaded' = 0
       ELSE UNCHANGED <<run, loaded>>

(* On to the next request.  Between the fifth and the sixth main points    *)
(* the controller at the endpoint words, which are no TDs.  The polling    *)
(* loop begins with toggle++.                                              *)
StageDone ==
    /\ pc' = "load" /\ stage' = stage + 1
    /\ toggle' = IF stage' = PollStage THEN 1 - toggle ELSE toggle
    /\ IF stage' = SetConfigStage
       THEN run' = "stray" /\ loaded' = 0
       ELSE UNCHANGED <<run, loaded>>

(* The control byte at 0x0508 is 0x03 when the first TD went through       *)
(* without a retry.                                                        *)
ReadControl ==
    /\ pc = "read_ctl"
    /\ IF ctl = "ok" THEN StageDone
       ELSE pc' = "retry_cnt" /\ UNCHANGED <<stage, toggle, run, loaded>>
    /\ UNCHANGED <<tries, resent, ctl, msg, flag, mailbox, keyboard>>

(* The control byte read by UsbGetRetryCnt: its caller at SetAddress       *)
(* starts over whatever it is; the others call it until it is 0x03.        *)
ReadAgain ==
    /\ IF stage # SetAddressStage /\ ctl = "ok" THEN StageDone
       ELSE /\ pc' = IF stage = SetAddressStage THEN "reset" ELSE "retry_cnt"
            /\ UNCHANGED <<stage, toggle, run, loaded>>
    /\ UNCHANGED <<tries, resent, ctl, mailbox, keyboard>>

(* UsbGetRetryCnt: if there is a further message, zero it and wait for the *)
(* flag of one more; then read the control byte.                           *)
GetRetryCnt ==
    /\ pc = "retry_cnt" /\ flag' = FALSE /\ UNCHANGED msg
    /\ IF msg
       THEN /\ pc' = "zero_retry"
            /\ UNCHANGED <<stage, tries, resent, toggle, ctl, run, loaded, mailbox, keyboard>>
       ELSE ReadAgain

RetryFlag ==
    /\ pc = "retry_flag" /\ flag
    /\ ReadAgain
    /\ UNCHANGED <<msg, flag>>

-----------------------------------------------------------------------------
(* A removal waited for without limit.                                     *)
CheckPlugForever ==
    /\ pc = "check_plug"
    /\ pc' = IF plugged THEN "load" ELSE "check_plug"
    /\ tries' = IF pc' = "check_plug" THEN tries + 1 ELSE 0
    /\ toggle' = IF plugged THEN 1 - toggle ELSE toggle
    /\ resent' = FALSE
    /\ UNCHANGED <<stage, chip, keyboard>>

(* After a poll: the key goes to the game hardware (UsbTransfers); D+/D-   *)
(* are read, and up to seven times more; then the next poll, or a wait     *)
(* for the keyboard to come back, the last of three reads deciding.        *)
CheckPlug ==
    /\ pc = "check_plug"
    /\ pc' = IF plugged THEN "load"
             ELSE IF tries = RemoveTries THEN "removed" ELSE "check_plug"
    /\ tries' = IF pc' = "check_plug" THEN tries + 1 ELSE 0
    /\ toggle' = IF plugged THEN 1 - toggle ELSE toggle
    /\ resent' = FALSE
    /\ UNCHANGED <<stage, chip, keyboard>>

(* Back to polling, as if it were the same keyboard.                       *)
RemovedResumes ==
    /\ pc = "removed" /\ plugged /\ pc' = "load"
    /\ UNCHANGED <<stage, tries, resent, toggle, chip, keyboard>>

Removed ==
    /\ pc = "removed" /\ plugged /\ pc' = "reset"
    /\ UNCHANGED <<stage, tries, resent, toggle, chip, keyboard>>

Program ==
    /\ \/ UsbSoftReset \/ AwaitStatus \/ Step2 \/ Detect \/ AwaitInsert
       \/ Load \/ Start \/ CheckFlag \/ Sleep \/ UsbWaitTDListDone
       \/ ZeroMessage \/ ReadControl \/ GetRetryCnt \/ RetryFlag \/ CheckPlug \/ Removed
    /\ UNCHANGED world

-----------------------------------------------------------------------------
(* The controller and the keyboard.  A keyboard without a bus reset since  *)
(* it was put in answers nothing, one in the default state only            *)
(* SetAddress, and only a configured one a poll.                           *)
Responds(request) ==
    plugged /\ CASE request = SetAddressStage -> device.state = "default"
                 [] request = PollStage -> device.state = "configured"
                 [] OTHER -> device.state \in {"addressed", "configured"}

Answer ==
    /\ mailbox = "none" /\ pc = "await_status"
    /\ mailbox' \in IF world.glitch THEN {"ack", "nak"} ELSE {"ack"}
    /\ UNCHANGED <<main, world, ctl, run, loaded, msg, flag, keyboard>>

Moves == world.prompt => pc \notin {"load", "start"}
Report == run' = "idle" /\ msg' = TRUE /\ flag' = TRUE

SetupDone ==
    /\ run = "setup" /\ Responds(loaded) /\ Moves
    /\ run' = "rest"
    /\ ctl' \in IF world.glitch THEN {"ok", "retried"} ELSE {"ok"}
    /\ UNCHANGED <<main, world, loaded, msg, flag, mailbox, keyboard>>

ListDone ==
    /\ run = "rest" /\ Responds(loaded) /\ Moves
    /\ Report
    /\ served' = loaded
    /\ device' = CASE loaded = SetAddressStage -> [device EXCEPT !.state = "addressed"]
                   [] loaded = SetConfigStage -> [state |-> "configured", toggle |-> 0]
                   [] loaded = PollStage -> [device EXCEPT !.toggle = 1 - @]
                   [] OTHER -> device
    /\ UNCHANGED <<main, world, ctl, loaded, mailbox, plugged>>

(* Nobody answers: the retries are used up.  Only a failing SETUP shows in *)
(* the control byte of the first TD; a poll has no other TD.               *)
ListFails ==
    /\ run \in {"setup", "rest"} /\ ~Responds(loaded) /\ Moves
    /\ Report
    /\ ctl' = IF run = "setup" \/ loaded = PollStage THEN "retried" ELSE ctl
    /\ UNCHANGED <<main, world, loaded, mailbox, keyboard>>

StrayDone ==
    /\ world.stray /\ run = "stray"
    /\ Report
    /\ UNCHANGED <<main, world, ctl, loaded, mailbox, keyboard>>

Pull ==
    /\ plugged /\ (pc \in world.pullAt \/ (world.pullAt # {} /\ stage = PollStage))
    /\ plugged' = FALSE
    /\ UNCHANGED <<main, world, chip, device, served>>

Put ==
    /\ ~plugged /\ pc \in world.putAt
    /\ plugged' = TRUE /\ device' = [state |-> "powered", toggle |-> 0]
    /\ UNCHANGED <<main, world, chip, served>>

Controller == Answer \/ SetupDone \/ ListDone \/ ListFails \/ StrayDone
Next == Program \/ Controller \/ Pull \/ Put
Spec == Init /\ [][Next]_vars

(* The program runs on; the controller gets every list done that is not a  *)
(* poll, which waits for the keyboard to have something to report.         *)
Fairness == /\ WF_vars(Program) /\ WF_vars(Answer) /\ WF_vars(SetupDone)
            /\ WF_vars(ListDone /\ loaded # PollStage) /\ WF_vars(ListFails)
FairSpec == Spec /\ Fairness

(* A controller that is done within the usleep, and only with lists.       *)
Punctual == world.prompt /\ ~world.stray

(* Labels at which no request is under way, and a world without trouble.   *)
BetweenRequests == {"reset", "await_status", "step2", "detect", "await_insert", "removed"}
Calm == /\ Punctual /\ ~world.glitch
        /\ world.pullAt \subseteq BetweenRequests \cup {"check_plug"}
        /\ world.putAt \subseteq BetweenRequests

-----------------------------------------------------------------------------
TypeOK == /\ pc \in {"reset", "await_status", "step2", "detect", "await_insert",
                     "load", "start", "check", "sleep", "wait_done", "zero_done",
                     "zero_again", "zero_retry", "read_ctl", "retry_cnt", "retry_flag",
                     "check_plug", "removed"}
          /\ stage \in 1 .. PollStage /\ tries \in 0 .. RemoveTries
          /\ resent \in BOOLEAN /\ toggle \in {0, 1}
          /\ ctl \in {"active", "ok", "retried"}
          /\ run \in {"idle", "setup", "rest", "stray"} /\ loaded \in 0 .. PollStage
          /\ msg \in BOOLEAN /\ flag \in BOOLEAN /\ mailbox \in {"none", "ack", "nak"}
          /\ plugged \in BOOLEAN /\ served \in 0 .. PollStage
          /\ device \in [state : {"powered", "default", "addressed", "configured"},
                         toggle : {0, 1}]

(* When main goes from one request to the next, printing that the one is   *)
(* done, the keyboard has completed it ("set configuration done!").        *)
SaysDoneWhenServed ==
    Calm /\ pc = "load" /\ ~resent => served >= stage - 1

(* Late messages, retries, stray reports or a keyboard pulled out anywhere *)
(* cannot carry main past SetAddress with a keyboard that has no address:  *)
(* the only one it may meet then is one put in anew, waiting for a reset.  *)
AddressedAfterSetAddress ==
    stage > SetAddressStage /\ plugged => device.state # "default"

(* The data toggle a poll expects is the one the keyboard's report will    *)
(* carry, or the controller takes it for a repetition.  The first poll     *)
(* (toggle 1) expects DATA0.                                               *)
TogglesAgree ==
    Punctual /\ world.pullAt = {} /\ pc = "start" /\ ~resent /\ stage = PollStage
    /\ plugged /\ device.state = "configured"
      => device.toggle = 1 - toggle

(* A keyboard that stays in is enumerated in the end, and remains so.      *)
Enumerates == Calm /\ <>[]plugged => <>[](stage = PollStage /\ device.state = "configured")

(* "Call the appropriate function again if it wasn't processed             *)
(* successfully": the loop that sends a request again is left only when    *)
(* the keyboard has completed it.                                          *)
SentAgainUntilProcessed ==
    [][pc = "check" /\ pc' = "wait_done" /\ SetAddressStage < stage /\ stage < PollStage
         => served >= stage]_vars

(* Each completion is used once: when a request is judged, or the next is  *)
(* begun, no message waits that UsbGetRetryCnt would wait for the repeat   *)
(* of, or that could be taken for the answer to the next request.          *)
MessageUsedOnce ==
    Punctual /\ (pc \in {"read_ctl", "retry_cnt"} \/ (pc = "load" /\ ~resent)) => ~msg /\ ~flag
=============================================================================
