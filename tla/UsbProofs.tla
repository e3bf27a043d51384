----------------------------- MODULE UsbProofs -----------------------------
(***************************************************************************)
(* What lab 8's enumeration guarantees, for any set of worlds.  In every   *)
(* world, however late, often retried or stray the controller's answers    *)
(* are and wherever the keyboard is pulled out and put back, main does not *)
(* get past SetAddress with a keyboard that still listens to address 0.    *)
(* In the worlds of a punctual controller, no message is used twice.  In a *)
(* calm world what main calls done is done, and as long as the keyboard    *)
(* stays in the two data toggles agree.                                    *)
(***************************************************************************)
EXTENDS UsbHost, TLAPS

Restarting == {"await_status", "step2", "detect", "await_insert"}

(* Labels from which main may leave SetAddress as done, or which it only   *)
(* reaches after it has been told something.                               *)
Told == \/ msg \/ flag
        \/ pc \in {"wait_done", "zero_done", "zero_again", "zero_retry",
                   "read_ctl", "retry_cnt", "retry_flag"}

(* Nobody on the bus listens to address 0.                                 *)
NoDefault == plugged => device.state # "default"

(* From a soft reset to the first request the controller is idle and has   *)
(* nothing to say, so an answer during SetAddress is about SetAddress: it  *)
(* was done, or nobody was there to do it.                                 *)
Inv ==
    /\ stage \in 1 .. PollStage
    /\ pc \in Restarting => stage = SetAddressStage /\ run = "idle" /\ ~Told
    /\ pc \in {"check_plug", "removed"} => stage = PollStage
    /\ pc \in {"zero_retry", "read_ctl", "retry_cnt", "retry_flag"} => stage # PollStage
    /\ pc # "reset" /\ stage = SetAddressStage =>
          /\ run # "stray" /\ (run # "idle" => loaded = SetAddressStage)
          /\ Told => NoDefault
    /\ stage > SetAddressStage => NoDefault

LEMMA InitInv == Init => Inv
  BY DEF Init, Inv, Restarting, Told, NoDefault, SetAddressStage, PollStage

(* The steps of main.                                                      *)
LEMMA ProgramInv ==
    ASSUME Inv, Program PROVE Inv'
<1> USE DEF Inv, Restarting, Told, NoDefault, SetAddressStage, PollStage, SetConfigStage
<1>1. CASE UsbSoftReset
  BY <1>1 DEF UsbSoftReset, keyboard
<1>2. CASE AwaitStatus
  BY <1>2 DEF AwaitStatus, keyboard, chip
<1>3. CASE Step2
  BY <1>3 DEF Step2, chip
<1>4. CASE Detect
  BY <1>4 DEF Detect, keyboard, chip
<1>5. CASE AwaitInsert
  BY <1>5 DEF AwaitInsert, keyboard, chip
<1>6. CASE Load
  BY <1>6 DEF Load, keyboard
<1>7. CASE Start
  BY <1>7 DEF Start, keyboard
<1>8. CASE CheckFlag
  BY <1>8 DEF CheckFlag, keyboard, chip
<1>9. CASE Sleep
  BY <1>9 DEF Sleep, keyboard, chip
<1>10. CASE UsbWaitTDListDone
  BY <1>10 DEF UsbWaitTDListDone, keyboard
<1>11. CASE ZeroMessage
  BY <1>11 DEF ZeroMessage, keyboard
<1>12. CASE ReadControl
  BY <1>12 DEF ReadControl, StageDone, keyboard
<1>13. CASE GetRetryCnt
  BY <1>13 DEF GetRetryCnt, ReadAgain, StageDone, keyboard
<1>14. CASE RetryFlag
  BY <1>14 DEF RetryFlag, ReadAgain, StageDone, keyboard
<1>15. CASE CheckPlug
  BY <1>15 DEF CheckPlug, keyboard, chip
<1>16. CASE Removed
  BY <1>16 DEF Removed, keyboard, chip
<1> QED
  BY <1>1, <1>2, <1>3, <1>4, <1>5, <1>6, <1>7, <1>8, <1>9, <1>10, <1>11, <1>12,
     <1>13, <1>14, <1>15, <1>16 DEF Program

(* The controller's, and those of whoever holds the plug.                  *)
LEMMA OutsideInv ==
    ASSUME Inv, Controller \/ Pull \/ Put PROVE Inv'
<1> USE DEF Inv, Restarting, Told, NoDefault, SetAddressStage, PollStage, SetConfigStage, main
<1>1. CASE Answer
  BY <1>1 DEF Answer, keyboard
<1>2. CASE SetupDone
  BY <1>2 DEF SetupDone, keyboard
<1>3. CASE ListDone
  BY <1>3 DEF ListDone, Report, Responds
<1>4. CASE ListFails
  BY <1>4 DEF ListFails, Report, Responds, keyboard
<1>5. CASE StrayDone
  BY <1>5 DEF StrayDone, Report, keyboard
<1>6. CASE Pull
  BY <1>6 DEF Pull, chip
<1>7. CASE Put
  BY <1>7 DEF Put, chip
<1> QED
  BY <1>1, <1>2, <1>3, <1>4, <1>5, <1>6, <1>7 DEF Controller

LEMMA InvStep ==
    ASSUME Inv, [Next]_vars PROVE Inv'
<1>1. CASE UNCHANGED vars
  BY <1>1 DEF vars, main, chip, keyboard, Inv, Told, NoDefault
<1> QED
  BY <1>1, ProgramInv, OutsideInv DEF Next

THEOREM InvCorrect == Spec => []Inv
  BY InitInv, InvStep, PTL DEF Spec

(* No answer, true, late or stray, carries main past SetAddress with a     *)
(* keyboard that has a bus reset behind it and no address yet.             *)
THEOREM AddressedCorrect == Spec => []AddressedAfterSetAddress
<1>1. Inv => AddressedAfterSetAddress
  BY DEF Inv, NoDefault, AddressedAfterSetAddress
<1> QED
  BY <1>1, InvCorrect, PTL
-----------------------------------------------------------------------------
(* A behaviour stays in its world.                                         *)
LEMMA WorldStays ==
    ASSUME [Next]_vars
    PROVE  /\ world' = world /\ (Calm' <=> Calm) /\ (Punctual' <=> Punctual)
<1>1. world' = world
  BY DEF Next, Program, Controller, Answer, SetupDone, ListDone, ListFails, StrayDone,
         Pull, Put, vars
<1> QED
  BY <1>1 DEF Calm, Punctual

(* The Boolean registers stay Boolean.                                     *)
Flags ==
    resent \in BOOLEAN /\ msg \in BOOLEAN /\ flag \in BOOLEAN /\ plugged \in BOOLEAN

LEMMA FlagsStep ==
    ASSUME Flags, [Next]_vars PROVE Flags'
<1> USE DEF Flags, main, chip, keyboard
<1>1. CASE UsbSoftReset /\ UNCHANGED world
  BY <1>1, Zenon DEF UsbSoftReset
<1>2. CASE AwaitStatus /\ UNCHANGED world
  BY <1>2, Zenon DEF AwaitStatus
<1>3. CASE Step2 /\ UNCHANGED world
  BY <1>3, Zenon DEF Step2
<1>4. CASE Detect /\ UNCHANGED world
  BY <1>4, Zenon DEF Detect
<1>5. CASE AwaitInsert /\ UNCHANGED world
  BY <1>5, Zenon DEF AwaitInsert
<1>6. CASE Load /\ UNCHANGED world
  BY <1>6, Zenon DEF Load
<1>7. CASE Start /\ UNCHANGED world
  BY <1>7, Zenon DEF Start
<1>8. CASE CheckFlag /\ UNCHANGED world
  BY <1>8, Zenon DEF CheckFlag
<1>9. CASE Sleep /\ UNCHANGED world
  BY <1>9, Zenon DEF Sleep
<1>10. CASE UsbWaitTDListDone /\ UNCHANGED world
  BY <1>10, Zenon DEF UsbWaitTDListDone
<1>11. CASE ZeroMessage /\ UNCHANGED world
  BY <1>11, Zenon DEF ZeroMessage
<1>12. CASE ReadControl /\ UNCHANGED world
  BY <1>12, Zenon DEF ReadControl, StageDone
<1>13. CASE GetRetryCnt /\ UNCHANGED world
  BY <1>13, Zenon DEF GetRetryCnt, ReadAgain, StageDone
<1>14. CASE RetryFlag /\ UNCHANGED world
  BY <1>14, Zenon DEF RetryFlag, ReadAgain, StageDone
<1>15. CASE CheckPlug /\ UNCHANGED world
  BY <1>15, Zenon DEF CheckPlug
<1>16. CASE Removed /\ UNCHANGED world
  BY <1>16, Zenon DEF Removed
<1>17. CASE Answer
  BY <1>17, Zenon DEF Answer
<1>18. CASE SetupDone
  BY <1>18, Zenon DEF SetupDone, Moves
<1>19. CASE ListDone
  BY <1>19, Zenon DEF ListDone, Report
<1>20. CASE ListFails
  BY <1>20, Zenon DEF ListFails, Report
<1>21. CASE StrayDone
  BY <1>21, Zenon DEF StrayDone, Report
<1>22. CASE Pull
  BY <1>22, Zenon DEF Pull
<1>23. CASE Put
  BY <1>23, Zenon DEF Put
<1>24. CASE UNCHANGED vars
  BY <1>24, Zenon DEF vars
<1> QED
  BY <1>1, <1>2, <1>3, <1>4, <1>5, <1>6, <1>7, <1>8, <1>9, <1>10,
     <1>11, <1>12, <1>13, <1>14, <1>15, <1>16, <1>17, <1>18, <1>19, <1>20,
     <1>21, <1>22, <1>23, <1>24 DEF Next, Program, Controller

(* The two loops that count reads of D+/D- stop at their limits, and main  *)
(* counts to nine requests.                                                *)
Bounded ==
    /\ TypeOK
    /\ pc \in {"await_status", "step2", "detect"} => tries <= DetectTries

LEMMA BoundedStep ==
    ASSUME Inv, Bounded, [Next]_vars PROVE Bounded'
<1> USE DEF Flags, Inv, Bounded, TypeOK, DetectTries, RemoveTries, Restarting, Told, BetweenRequests,
         SetAddressStage, SetConfigStage, PollStage, main, chip, keyboard
<1> Flags'
  BY FlagsStep DEF Flags
<1>1. CASE UsbSoftReset /\ UNCHANGED world
  BY <1>1 DEF UsbSoftReset
<1>2. CASE AwaitStatus /\ UNCHANGED world
  BY <1>2 DEF AwaitStatus
<1>3. CASE Step2 /\ UNCHANGED world
  BY <1>3 DEF Step2
<1>4. CASE Detect /\ UNCHANGED world
  BY <1>4 DEF Detect
<1>5. CASE AwaitInsert /\ UNCHANGED world
  BY <1>5 DEF AwaitInsert
<1>6. CASE Load /\ UNCHANGED world
  BY <1>6 DEF Load
<1>7. CASE Start /\ UNCHANGED world
  BY <1>7 DEF Start
<1>8. CASE CheckFlag /\ UNCHANGED world
  BY <1>8 DEF CheckFlag
<1>9. CASE Sleep /\ UNCHANGED world
  BY <1>9 DEF Sleep
<1>10. CASE UsbWaitTDListDone /\ UNCHANGED world
  BY <1>10 DEF UsbWaitTDListDone
<1>11. CASE ZeroMessage /\ UNCHANGED world
  BY <1>11 DEF ZeroMessage
<1>12. CASE ReadControl /\ UNCHANGED world
  BY <1>12 DEF ReadControl, StageDone
<1>13. CASE GetRetryCnt /\ UNCHANGED world
  BY <1>13 DEF GetRetryCnt, ReadAgain, StageDone
<1>14. CASE RetryFlag /\ UNCHANGED world
  BY <1>14 DEF RetryFlag, ReadAgain, StageDone
<1>15. CASE CheckPlug /\ UNCHANGED world
  BY <1>15 DEF CheckPlug
<1>16. CASE Removed /\ UNCHANGED world
  BY <1>16 DEF Removed
<1>17. CASE Answer
  BY <1>17 DEF Answer
<1>18. CASE SetupDone
  BY <1>18 DEF SetupDone, Moves
<1>19. CASE ListDone
  BY <1>19 DEF ListDone, Report, Moves
<1>20. CASE ListFails
  BY <1>20 DEF ListFails, Report, Moves
<1>21. CASE StrayDone
  BY <1>21 DEF StrayDone, Report
<1>22. CASE Pull
  BY <1>22 DEF Pull
<1>23. CASE Put
  BY <1>23 DEF Put
<1>24. CASE UNCHANGED vars
  BY <1>24 DEF vars
<1> QED
  BY <1>1, <1>2, <1>3, <1>4, <1>5, <1>6, <1>7, <1>8, <1>9, <1>10,
     <1>11, <1>12, <1>13, <1>14, <1>15, <1>16, <1>17, <1>18, <1>19, <1>20,
     <1>21, <1>22, <1>23, <1>24 DEF Next, Program, Controller

-----------------------------------------------------------------------------
(* The life of a message under a punctual controller.  From the pointer's  *)
(* being set the list runs until it is reported, and msg and flag come up  *)
(* together; main looks at the flag before it sends again, and the         *)
(* controller does not finish while main is sending, so no list is         *)
(* reported twice.  Every label after that knows what is left of the       *)
(* message.                                                                *)
Quiet == ~msg /\ ~flag

Reported ==
    /\ pc \notin {"zero_again", "zero_retry", "retry_flag"}
    /\ pc \in BetweenRequests => run = "idle"
    /\ pc \in BetweenRequests \ {"reset"} => Quiet
    /\ pc \in {"load", "start"} => Quiet /\ (~resent => run \in {"idle", "stray"})
    /\ pc \in {"check", "sleep"} => /\ run # "stray" /\ (msg <=> flag)
                                    /\ (msg <=> run = "idle")
    /\ pc \in {"wait_done", "zero_done"} => /\ run = "idle" /\ msg
                                            /\ (flag <=> pc = "wait_done")
    /\ pc \in {"read_ctl", "retry_cnt", "check_plug"} => Quiet /\ run = "idle"
    /\ run \in {"setup", "rest"} => loaded = stage

OneReport == Punctual => Reported

LEMMA OneReportStep ==
    ASSUME Inv, Bounded, OneReport, [Next]_vars PROVE OneReport'
<1> SUFFICES ASSUME Punctual, Reported PROVE Reported'
  BY WorldStays DEF OneReport
<1> USE DEF Flags, Inv, Bounded, TypeOK, Restarting, Told, BetweenRequests, Reported, Quiet,
            SetAddressStage, SetConfigStage, PollStage, main, chip, keyboard
<1> Flags'
  BY FlagsStep
<1>1. CASE UsbSoftReset /\ UNCHANGED world
  BY <1>1 DEF UsbSoftReset
<1>2. CASE AwaitStatus /\ UNCHANGED world
  BY <1>2 DEF AwaitStatus
<1>3. CASE Step2 /\ UNCHANGED world
  BY <1>3 DEF Step2
<1>4. CASE Detect /\ UNCHANGED world
  BY <1>4 DEF Detect
<1>5. CASE AwaitInsert /\ UNCHANGED world
  BY <1>5 DEF AwaitInsert
<1>6. CASE Load /\ UNCHANGED world
  BY <1>6 DEF Load
<1>7. CASE Start /\ UNCHANGED world
  BY <1>7 DEF Start
<1>8. CASE CheckFlag /\ UNCHANGED world
  BY <1>8 DEF CheckFlag
<1>9. CASE Sleep /\ UNCHANGED world
  BY <1>9 DEF Sleep, Punctual
<1>10. CASE UsbWaitTDListDone /\ UNCHANGED world
  BY <1>10 DEF UsbWaitTDListDone
<1>11. CASE ZeroMessage /\ UNCHANGED world
  BY <1>11 DEF ZeroMessage
<1>12. CASE ReadControl /\ UNCHANGED world
  BY <1>12 DEF ReadControl, StageDone
<1>13. CASE GetRetryCnt /\ UNCHANGED world
  BY <1>13 DEF GetRetryCnt, ReadAgain, StageDone
<1>14. CASE RetryFlag /\ UNCHANGED world
  BY <1>14 DEF RetryFlag, ReadAgain, StageDone
<1>15. CASE CheckPlug /\ UNCHANGED world
  BY <1>15 DEF CheckPlug
<1>16. CASE Removed /\ UNCHANGED world
  BY <1>16 DEF Removed
<1>17. CASE Answer
  BY <1>17 DEF Answer
<1>18. CASE SetupDone
  BY <1>18 DEF SetupDone, Moves, Punctual
<1>19. CASE ListDone
  BY <1>19 DEF ListDone, Report, Moves, Punctual
<1>20. CASE ListFails
  BY <1>20 DEF ListFails, Report, Moves, Punctual
<1>21. CASE StrayDone
  BY <1>21 DEF StrayDone, Report, Punctual
<1>22. CASE Pull
  BY <1>22 DEF Pull
<1>23. CASE Put
  BY <1>23 DEF Put
<1>24. CASE UNCHANGED vars
  BY <1>24 DEF vars
<1> QED
  BY <1>1, <1>2, <1>3, <1>4, <1>5, <1>6, <1>7, <1>8, <1>9, <1>10,
     <1>11, <1>12, <1>13, <1>14, <1>15, <1>16, <1>17, <1>18, <1>19, <1>20,
     <1>21, <1>22, <1>23, <1>24 DEF Next, Program, Controller

-----------------------------------------------------------------------------
(* Why "done" means done in a calm world.  The keyboard is not touched     *)
(* while a request is under way, so one that has taken the SETUP also      *)
(* takes the rest; and the control byte says "ok" only after a SETUP.      *)
Before == {"reset", "await_status", "step2", "detect", "await_insert"}

Listening ==
    /\ plugged
    /\ stage = SetAddressStage => device.state = "default"
    /\ stage # SetAddressStage => device.state \in {"addressed", "configured"}

RequestServed ==
    /\ pc \notin Before => served >= stage - 1
    /\ pc \in {"check", "sleep"} /\ run = "rest" /\ stage # PollStage => Listening
    /\ pc \in {"check", "sleep", "wait_done", "zero_done", "read_ctl", "retry_cnt"} =>
         (run = "idle" /\ ctl = "ok" /\ stage # PollStage => served = stage)

Served == Calm => RequestServed

LEMMA ServedStep ==
    ASSUME Inv, Bounded, OneReport, Served, [Next]_vars PROVE Served'
<1> SUFFICES ASSUME Calm, Reported, RequestServed PROVE RequestServed'
  BY WorldStays DEF OneReport, Served, Calm
<1> USE DEF Flags, Inv, Bounded, TypeOK, Restarting, Told, BetweenRequests, Reported, Quiet,
            Before, RequestServed, Listening,
            SetAddressStage, SetConfigStage, PollStage, main, chip, keyboard
<1> Flags'
  BY FlagsStep
<1>1. CASE UsbSoftReset /\ UNCHANGED world
  BY <1>1 DEF UsbSoftReset
<1>2. CASE AwaitStatus /\ UNCHANGED world
  BY <1>2 DEF AwaitStatus
<1>3. CASE Step2 /\ UNCHANGED world
  BY <1>3 DEF Step2
<1>4. CASE Detect /\ UNCHANGED world
  BY <1>4 DEF Detect
<1>5. CASE AwaitInsert /\ UNCHANGED world
  BY <1>5 DEF AwaitInsert
<1>6. CASE Load /\ UNCHANGED world
  BY <1>6 DEF Load
<1>7. CASE Start /\ UNCHANGED world
  BY <1>7 DEF Start
<1>8. CASE CheckFlag /\ UNCHANGED world
  BY <1>8 DEF CheckFlag
<1>9. CASE Sleep /\ UNCHANGED world
  BY <1>9 DEF Sleep
<1>10. CASE UsbWaitTDListDone /\ UNCHANGED world
  BY <1>10 DEF UsbWaitTDListDone
<1>11. CASE ZeroMessage /\ UNCHANGED world
  BY <1>11 DEF ZeroMessage
<1>12. CASE ReadControl /\ UNCHANGED world
  BY <1>12 DEF ReadControl, StageDone
<1>13. CASE GetRetryCnt /\ UNCHANGED world
  BY <1>13 DEF GetRetryCnt, ReadAgain, StageDone
<1>14. CASE RetryFlag /\ UNCHANGED world
  BY <1>14 DEF RetryFlag, ReadAgain, StageDone
<1>15. CASE CheckPlug /\ UNCHANGED world
  BY <1>15 DEF CheckPlug
<1>16. CASE Removed /\ UNCHANGED world
  BY <1>16 DEF Removed
<1>17. CASE Answer
  BY <1>17 DEF Answer
<1>18. CASE SetupDone
  BY <1>18 DEF SetupDone, Responds, Calm
<1>19. CASE ListDone
  BY <1>19 DEF ListDone, Report, Responds
<1>20. CASE ListFails
  BY <1>20 DEF ListFails, Report, Responds
<1>21. CASE StrayDone
  BY <1>21 DEF StrayDone, Calm, Punctual
<1>22. CASE Pull
  BY <1>22 DEF Pull, Calm
<1>23. CASE Put
  BY <1>23 DEF Put, Calm
<1>24. CASE UNCHANGED vars
  BY <1>24 DEF vars
<1> QED
  BY <1>1, <1>2, <1>3, <1>4, <1>5, <1>6, <1>7, <1>8, <1>9, <1>10,
     <1>11, <1>12, <1>13, <1>14, <1>15, <1>16, <1>17, <1>18, <1>19, <1>20,
     <1>21, <1>22, <1>23, <1>24 DEF Next, Program, Controller

-----------------------------------------------------------------------------
(* The toggles of a keyboard that stays in: main's is 0 until the polls    *)
(* begin and is turned once after each poll; the keyboard's starts at 0    *)
(* with SetConfig and is turned once by each poll it answers.              *)
StaysIn == Punctual /\ world.pullAt = {}

InStep ==
    /\ pc # "removed" /\ (pc \notin Before => plugged)
    /\ stage < PollStage => toggle = 0 /\ (device.state = "configured" => device.toggle = 0)
    /\ stage = PollStage =>
         /\ pc \notin Before
         /\ device.state = "configured" =>
              device.toggle = IF run = "idle" /\ pc \notin {"load", "start"}
                              THEN toggle ELSE 1 - toggle

Toggles == StaysIn => InStep

LEMMA TogglesStep ==
    ASSUME Inv, Bounded, OneReport, Toggles, [Next]_vars PROVE Toggles'
<1> SUFFICES ASSUME StaysIn, Reported, InStep PROVE InStep'
  BY WorldStays DEF OneReport, Toggles, StaysIn
<1> USE DEF Flags, Inv, Bounded, TypeOK, Restarting, Told, BetweenRequests, Reported, Quiet,
            Before, InStep,
            SetAddressStage, SetConfigStage, PollStage, main, chip, keyboard
<1> Flags'
  BY FlagsStep
<1>1. CASE UsbSoftReset /\ UNCHANGED world
  BY <1>1 DEF UsbSoftReset
<1>2. CASE AwaitStatus /\ UNCHANGED world
  BY <1>2 DEF AwaitStatus
<1>3. CASE Step2 /\ UNCHANGED world
  BY <1>3 DEF Step2
<1>4. CASE Detect /\ UNCHANGED world
  BY <1>4 DEF Detect
<1>5. CASE AwaitInsert /\ UNCHANGED world
  BY <1>5 DEF AwaitInsert
<1>6. CASE Load /\ UNCHANGED world
  BY <1>6 DEF Load
<1>7. CASE Start /\ UNCHANGED world
  BY <1>7 DEF Start
<1>8. CASE CheckFlag /\ UNCHANGED world
  BY <1>8 DEF CheckFlag
<1>9. CASE Sleep /\ UNCHANGED world
  BY <1>9 DEF Sleep
<1>10. CASE UsbWaitTDListDone /\ UNCHANGED world
  BY <1>10 DEF UsbWaitTDListDone
<1>11. CASE ZeroMessage /\ UNCHANGED world
  BY <1>11 DEF ZeroMessage
<1>12. CASE ReadControl /\ UNCHANGED world
  BY <1>12 DEF ReadControl, StageDone
<1>13. CASE GetRetryCnt /\ UNCHANGED world
  BY <1>13 DEF GetRetryCnt, ReadAgain, StageDone
<1>14. CASE RetryFlag /\ UNCHANGED world
  BY <1>14 DEF RetryFlag, ReadAgain, StageDone
<1>15. CASE CheckPlug /\ UNCHANGED world
  BY <1>15 DEF CheckPlug
<1>16. CASE Removed /\ UNCHANGED world
  BY <1>16 DEF Removed
<1>17. CASE Answer
  BY <1>17 DEF Answer
<1>18. CASE SetupDone
  BY <1>18 DEF SetupDone
<1>19. CASE ListDone
  BY <1>19 DEF ListDone, Report, Moves, Responds, StaysIn, Punctual
<1>20. CASE ListFails
  BY <1>20 DEF ListFails, Report, Moves, Responds, StaysIn, Punctual
<1>21. CASE StrayDone
  BY <1>21 DEF StrayDone, StaysIn, Punctual
<1>22. CASE Pull
  BY <1>22 DEF Pull, StaysIn
<1>23. CASE Put
  BY <1>23 DEF Put
<1>24. CASE UNCHANGED vars
  BY <1>24 DEF vars
<1> QED
  BY <1>1, <1>2, <1>3, <1>4, <1>5, <1>6, <1>7, <1>8, <1>9, <1>10,
     <1>11, <1>12, <1>13, <1>14, <1>15, <1>16, <1>17, <1>18, <1>19, <1>20,
     <1>21, <1>22, <1>23, <1>24 DEF Next, Program, Controller
-----------------------------------------------------------------------------
IInv == Inv /\ Bounded /\ OneReport /\ Served /\ Toggles

LEMMA InitIInv == Init => IInv
<1> SUFFICES ASSUME Init PROVE IInv
  OBVIOUS
<1>1. Flags
  BY Zenon DEF Init, Flags
<1>2. Bounded
  BY <1>1 DEF Init, Bounded, TypeOK, Flags, PollStage, RemoveTries
<1>3. OneReport /\ Served /\ Toggles
  <2>1. OneReport
    BY DEF Init, OneReport, Reported, Quiet, BetweenRequests
  <2>2. Served
    BY DEF Init, Served, RequestServed, Before
  <2>3. Toggles
    BY DEF Init, Toggles, InStep, Before, PollStage
  <2> QED
    BY <2>1, <2>2, <2>3
<1> QED
  BY <1>2, <1>3, InitInv DEF IInv

THEOREM IInvCorrect == Spec => []IInv
<1>1. IInv /\ [Next]_vars => IInv'
  <2> SUFFICES ASSUME IInv, [Next]_vars PROVE IInv'
    OBVIOUS
  <2>1. Inv /\ Bounded /\ OneReport /\ Served /\ Toggles
    BY DEF IInv
  <2> QED
    BY <2>1, InvStep, BoundedStep, OneReportStep, ServedStep, TogglesStep DEF IInv
<1> QED
  BY <1>1, InitIInv, PTL DEF Spec

(* The registers hold what they may, and main never counts past the        *)
(* polling loop or reads D+/D- more often than it says.                    *)
THEOREM TypeCorrect == Spec => []TypeOK
<1>1. IInv => TypeOK
  BY DEF IInv, Bounded
<1> QED
  BY <1>1, IInvCorrect, PTL

(* With a punctual controller every completion is used once, wherever the  *)
(* keyboard is pulled out, and whatever needs a retry.                     *)
THEOREM MessageCorrect == Spec => []MessageUsedOnce
<1>1. IInv => MessageUsedOnce
  BY DEF IInv, OneReport, Reported, Quiet, MessageUsedOnce
<1> QED
  BY <1>1, IInvCorrect, PTL

(* In a calm world main says of no request that it is done before the      *)
(* keyboard has done it.                                                   *)
THEOREM ServedCorrect == Spec => []SaysDoneWhenServed
<1>1. IInv => SaysDoneWhenServed
  BY DEF IInv, Served, RequestServed, Before, SaysDoneWhenServed
<1> QED
  BY <1>1, IInvCorrect, PTL

(* The toggle main sends is the one the keyboard's report carries, in      *)
(* every poll, as long as the keyboard stays in.                           *)
THEOREM TogglesCorrect == Spec => []TogglesAgree
<1>1. IInv => TogglesAgree
  BY DEF IInv, Toggles, StaysIn, InStep, TogglesAgree
<1> QED
  BY <1>1, IInvCorrect, PTL
=============================================================================
