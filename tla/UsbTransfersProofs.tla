------------------------- MODULE UsbTransfersProofs -------------------------
(***************************************************************************)
(* What the controller runs of lab 8's transfer lists, whatever word a     *)
(* keyboard answers with, at whatever word of a list it is when main.c     *)
(* writes that list again, and whatever of it main.c then takes for done.  *)
(*                                                                         *)
(* The lists are looked at once, word by word: their TDs name one another, *)
(* their buffers lie behind them.  The invariant then speaks of list i and *)
(* its TD j only.                                                          *)
(***************************************************************************)
EXTENDS UsbTransfers, TLAPS

\* List i has Size(i) words and Stages(i) TDs, the j-th behind Offset(j) words.
Size(i) == Len(Requests[i])
Stages(i) == IF i >= FirstPoll THEN 1 ELSE (Size(i) - 4) \div 6
Offset(j) == IF j = 1 THEN 0 ELSE 6 * j - 2
At(j) == \h500 + 2 * Offset(j)

\* Its words, and what the controller makes of them.
Word(i, j, k) == Requests[i][Offset(j) + k]
EntryOf(i, j) == [at |-> At(j), pid |-> (Word(i, j, 3) \div 16) % 16,
                  device |-> Word(i, j, 3) \div 256,
                  toggle |-> (Word(i, j, 4) \div 64) % 2, len |-> Word(i, j, 2) % 1024,
                  ok |-> TRUE]

\* A TD is linked if it names the next one of its list, and its buffer covers no
\* word of the list.
Linked(i, j) ==
  /\ Word(i, j, 6) = IF j = Stages(i) THEN 0 ELSE At(j + 1)
  /\ Word(i, j, 1) \in Nat /\ EntryOf(i, j).len \in Nat
  /\ EntryOf(i, j).pid = 9 =>
       EntryOf(i, j).len = 0 \/ Word(i, j, 1) >= \h500 + 2 * Size(i)

\* It is proper if it is what the rules of USB ask for in its place.
Proper(i, j) ==
  /\ EntryOf(i, j).device = IF i = 1 THEN 0 ELSE SetAddress[8]
  /\ i < FirstPoll =>
       /\ j = 1 => EntryOf(i, j).pid = 13 /\ EntryOf(i, j).toggle = 0
       /\ 1 < j /\ j < Stages(i) => EntryOf(i, j).pid = 9 /\ EntryOf(i, j).toggle = (j + 1) % 2
       /\ 1 < j /\ j < Stages(i) - 1 => EntryOf(i, j).len = 8
       /\ 1 < j /\ j = Stages(i) - 1 => 8 * (j - 2) + EntryOf(i, j).len <= Requests[i][10]
       /\ j = Stages(i) =>
            /\ EntryOf(i, j).toggle = 1 /\ EntryOf(i, j).len = 0
            /\ EntryOf(i, j).pid = IF Stages(i) > 2 THEN 1 ELSE 9

Good(i, j) == Linked(i, j) /\ Proper(i, j)
GoodList(i) ==
  /\ Stages(i) \in 1..10 /\ (i < FirstPoll => Stages(i) >= 2)
  /\ Size(i) = IF i >= FirstPoll THEN 6 ELSE 4 + 6 * Stages(i)
  /\ \A j \in 1..Stages(i) : Good(i, j)

\* The lists of usb.c and the two polls of main.c are good, word by word.
LEMMA SetAddressGood == GoodList(1)
<1> USE DEF Requests, SetAddress, TD, Data0, Data1, FirstPoll,
            EndpointIndex, Size, Stages, Offset, At, Word, EntryOf
<1>1. Size(1) = 16 /\ Stages(1) = 2 /\ \A j \in 1..2 : j \in {1, 2}
  BY SMTT(30)
<1>2. Good(1, 1) /\ Good(1, 2)
  BY DEF Good, Linked, Proper
<1> QED
  BY <1>1, <1>2 DEF GoodList

LEMMA GetDeviceDesc1Good == GoodList(2)
<1> USE DEF Requests, GetDeviceDesc1, Setup, StatusOut, TD, Data0, Data1, FirstPoll,
            EndpointIndex, Size, Stages, Offset, At, Word, EntryOf
<1>1. Size(2) = 22 /\ Stages(2) = 3 /\ \A j \in 1..3 : j \in {1, 2, 3}
  BY SMTT(30)
<1>2. Good(2, 1) /\ Good(2, 2) /\ Good(2, 3)
  BY DEF Good, Linked, Proper, SetAddress
<1> QED
  BY <1>1, <1>2 DEF GoodList

LEMMA GetDeviceDesc2Good == GoodList(3)
<1> USE DEF Requests, GetDeviceDesc2, Setup, StatusOut, TD, Data0, Data1, FirstPoll,
            EndpointIndex, Size, Stages, Offset, At, Word, EntryOf
<1>1. Size(3) = 34 /\ Stages(3) = 5 /\ \A j \in 1..5 : j \in {1, 2, 3, 4, 5}
  BY SMTT(30)
<1>2. Good(3, 1)
  BY DEF Good, Linked, Proper, SetAddress
<1>3. Good(3, 2)
  BY DEF Good, Linked, Proper, SetAddress
<1>4. Good(3, 3)
  BY DEF Good, Linked, Proper, SetAddress
<1>5. Good(3, 4)
  BY DEF Good, Linked, Proper, SetAddress
<1>6. Good(3, 5)
  BY DEF Good, Linked, Proper, SetAddress
<1> QED
  BY <1>1, <1>2, <1>3, <1>4, <1>5, <1>6 DEF GoodList

LEMMA GetConfigDesc1Good == GoodList(4)
<1> USE DEF Requests, GetConfigDesc1, Setup, StatusOut, TD, Data0, Data1, FirstPoll,
            EndpointIndex, Size, Stages, Offset, At, Word, EntryOf
<1>1. Size(4) = 28 /\ Stages(4) = 4 /\ \A j \in 1..4 : j \in {1, 2, 3, 4}
  BY SMTT(30)
<1>2. Good(4, 1)
  BY DEF Good, Linked, Proper, SetAddress
<1>3. Good(4, 2)
  BY DEF Good, Linked, Proper, SetAddress
<1>4. Good(4, 3)
  BY DEF Good, Linked, Proper, SetAddress
<1>5. Good(4, 4)
  BY DEF Good, Linked, Proper, SetAddress
<1> QED
  BY <1>1, <1>2, <1>3, <1>4, <1>5 DEF GoodList

LEMMA GetConfigDesc2Good == GoodList(5)
<1> USE DEF Requests, GetConfigDesc2, Setup, StatusOut, TD, Data0, Data1, FirstPoll,
            EndpointIndex, Size, Stages, Offset, At, Word, EntryOf
<1>1. Size(5) = 46 /\ Stages(5) = 7 /\ \A j \in 1..7 : j \in {1, 2, 3, 4, 5, 6, 7}
  BY SMTT(30)
<1>2. Good(5, 1)
  BY DEF Good, Linked, Proper, SetAddress
<1>3. Good(5, 2)
  BY DEF Good, Linked, Proper, SetAddress
<1>4. Good(5, 3)
  BY DEF Good, Linked, Proper, SetAddress
<1>5. Good(5, 4)
  BY DEF Good, Linked, Proper, SetAddress
<1>6. Good(5, 5)
  BY DEF Good, Linked, Proper, SetAddress
<1>7. Good(5, 6)
  BY DEF Good, Linked, Proper, SetAddress
<1>8. Good(5, 7)
  BY DEF Good, Linked, Proper, SetAddress
<1> QED
  BY <1>1, <1>2, <1>3, <1>4, <1>5, <1>6, <1>7, <1>8 DEF GoodList

LEMMA SetConfigGood == GoodList(7)
<1> USE DEF Requests, SetConfig, Setup, StatusIn, TD, Data0, Data1, FirstPoll,
            EndpointIndex, Size, Stages, Offset, At, Word, EntryOf
<1>1. Size(7) = 16 /\ Stages(7) = 2 /\ \A j \in 1..2 : j \in {1, 2}
  BY SMTT(30)
<1>2. Good(7, 1) /\ Good(7, 2)
  BY DEF Good, Linked, Proper, SetAddress
<1> QED
  BY <1>1, <1>2 DEF GoodList

LEMMA ClassRequestGood == GoodList(8)
<1> USE DEF Requests, ClassRequest, Setup, StatusIn, TD, Data0, Data1, FirstPoll,
            EndpointIndex, Size, Stages, Offset, At, Word, EntryOf
<1>1. Size(8) = 16 /\ Stages(8) = 2 /\ \A j \in 1..2 : j \in {1, 2}
  BY SMTT(30)
<1>2. Good(8, 1) /\ Good(8, 2)
  BY DEF Good, Linked, Proper, SetAddress
<1> QED
  BY <1>1, <1>2 DEF GoodList

LEMMA GetHidDescGood == GoodList(9)
<1> USE DEF Requests, GetHidDesc, Setup, StatusOut, TD, Data0, Data1, FirstPoll,
            EndpointIndex, Size, Stages, Offset, At, Word, EntryOf
<1>1. Size(9) = 22 /\ Stages(9) = 3 /\ \A j \in 1..3 : j \in {1, 2, 3}
  BY SMTT(30)
<1>2. Good(9, 1) /\ Good(9, 2) /\ Good(9, 3)
  BY DEF Good, Linked, Proper, SetAddress
<1> QED
  BY <1>1, <1>2 DEF GoodList

LEMMA GetReportDescGood == GoodList(10)
<1> USE DEF Requests, GetReportDesc, Setup, StatusOut, TD, Data0, Data1, FirstPoll,
            EndpointIndex, Size, Stages, Offset, At, Word, EntryOf
<1>1. Size(10) = 64 /\ Stages(10) = 10 /\ \A j \in 1..10 : j \in {1, 2, 3, 4, 5, 6, 7, 8, 9, 10}
  BY SMTT(30)
<1>2. Good(10, 1)
  BY DEF Good, Linked, Proper, SetAddress
<1>3. Good(10, 2)
  BY DEF Good, Linked, Proper, SetAddress
<1>4. Good(10, 3)
  BY DEF Good, Linked, Proper, SetAddress
<1>5. Good(10, 4)
  BY DEF Good, Linked, Proper, SetAddress
<1>6. Good(10, 5)
  BY DEF Good, Linked, Proper, SetAddress
<1>7. Good(10, 6)
  BY DEF Good, Linked, Proper, SetAddress
<1>8. Good(10, 7)
  BY DEF Good, Linked, Proper, SetAddress
<1>9. Good(10, 8)
  BY DEF Good, Linked, Proper, SetAddress
<1>10. Good(10, 9)
  BY DEF Good, Linked, Proper, SetAddress
<1>11. Good(10, 10)
  BY DEF Good, Linked, Proper, SetAddress
<1> QED
  BY <1>1, <1>2, <1>3, <1>4, <1>5, <1>6, <1>7, <1>8, <1>9, <1>10, <1>11 DEF GoodList

LEMMA OddPollGood == GoodList(11)
<1> USE DEF Requests, Poll, data_size, Endpoint, TD, Data0, Data1, FirstPoll,
            EndpointIndex, Size, Stages, Offset, At, Word, EntryOf
<1>1. Size(11) = 6 /\ Stages(11) = 1 /\ \A j \in 1..1 : j \in {1}
  BY SMTT(30)
<1>2. Good(11, 1)
  BY DEF Good, Linked, Proper, SetAddress
<1> QED
  BY <1>1, <1>2 DEF GoodList

LEMMA EvenPollGood == GoodList(12)
<1> USE DEF Requests, Poll, data_size, Endpoint, TD, Data0, Data1, FirstPoll,
            EndpointIndex, Size, Stages, Offset, At, Word, EntryOf
<1>1. Size(12) = 6 /\ Stages(12) = 1 /\ \A j \in 1..1 : j \in {1}
  BY SMTT(30)
<1>2. Good(12, 1)
  BY DEF Good, Linked, Proper, SetAddress
<1> QED
  BY <1>1, <1>2 DEF GoodList

\* All twelve, of which the endpoint words are no list of TDs.
LEMMA ListsGood ==
  /\ \A i \in 1..12 \ {EndpointIndex} : GoodList(i)
  /\ Len(Requests) = 12
  /\ \A i \in 1..12 : Size(i) \in 5..64
  /\ Size(EndpointIndex) = 5
<1>1. Len(Requests) = 12
  BY DEF Requests
<1>2. Size(EndpointIndex) = 5
  BY DEF Size, EndpointIndex, Requests, Endpoint
<1>3. ASSUME NEW i \in 1..12 \ {EndpointIndex} PROVE GoodList(i)
  <2>1. i \in {1, 2, 3, 4, 5, 7, 8, 9, 10, 11, 12}
    BY DEF EndpointIndex
  <2> QED
    BY <2>1, SetAddressGood, GetDeviceDesc1Good, GetDeviceDesc2Good, GetConfigDesc1Good,
       GetConfigDesc2Good, SetConfigGood, ClassRequestGood, GetHidDescGood, GetReportDescGood,
       OddPollGood, EvenPollGood
<1>4. ASSUME NEW i \in 1..12 PROVE Size(i) \in 5..64
  BY <1>2, <1>3 DEF GoodList, FirstPoll
<1> QED
  BY <1>1, <1>2, <1>3, <1>4

----------------------------------------------------------------------------
\* Where word k of list i goes.  A list is held when its words are in memory; the
\* fifth is the one the controller writes back.
Place(i, k) == StartOf(i) + 2 * (k - 1)
Held(i) == \A k \in 1..Size(i) \ {5} : mem[Place(i, k)] = Requests[i][k]
GoodEntries(i) == {EntryOf(i, j) : j \in 1..Stages(i)}

\* The program writes one list behind the other, each from its start, and is
\* past the writing only when it has started the list.
ProgramInv ==
  /\ pc \in {"write", "check", "sleep", "wait", "zero_done", "zero_again", "zero_retry",
             "control", "retry", "again", "retry_flag", "key", "restart"}
  /\ list \in 1..12 /\ started \in 0..12 /\ written \in 0..Size(list)
  /\ pc = "write" => addr = Place(list, written + 1)
  /\ pc # "write" => started = list /\ list # EndpointIndex
  /\ pc \in {"control", "retry", "zero_retry", "retry_flag", "again"} => list < FirstPoll
  /\ pc = "key" => list >= FirstPoll
  /\ list = EndpointIndex => ~resent /\ started # list
  /\ DOMAIN mem = Addresses

\* What has been written is there, and the list started stays there while it is
\* sent again; the polls have all but the toggle in common, so that one may be
\* written over another.
MemoryInv ==
  /\ pc = "write" => \A k \in 1..Size(list) \ {5} :
                        k <= written => mem[Place(list, k)] = Requests[list][k]
  /\ started = list => Held(list)
  /\ started >= FirstPoll /\ list >= FirstPoll =>
       \A k \in {1, 2, 3, 6} : mem[\h500 + 2 * (k - 1)] = Requests[FirstPoll][k]

\* The controller has run the first TDs of the list, and is at the next; it is
\* idle when main is at another request.
ControllerInv ==
  /\ started = 0 => run = 0
  /\ started \in Control /\ run # 0 =>
       /\ list = started
       /\ log \in Seq(GoodEntries(started)) /\ Len(log) + 1 \in 1..Stages(started)
       /\ \A j \in 1..Len(log) : log[j] = EntryOf(started, j)
       /\ run = At(Len(log) + 1)
  /\ started \in Control /\ run = 0 /\ log[Len(log)].ok =>
       Len(log) = Stages(started) /\ \A j \in 1..Len(log) : log[j] = EntryOf(started, j)
  /\ started >= FirstPoll /\ run # 0 => run = \h500 /\ list >= FirstPoll

\* A keyboard still at address 0 and a good control byte mean that SetAddress is
\* between its two TDs, or has been started again.
AddressInv ==
  /\ address \in {0, SetAddress[8], Gone}
  /\ list > 1 => address # 0
  /\ list = 1 /\ (started = 1 \/ written >= 5) /\ mem[ControlByte] = NoRetry /\ address = 0
       => started = 1 /\ run # 0

\* A request sent again is done when main looks at the flag, and one sent once
\* when the flag is up; no message is left behind.
PunctualInv ==
  /\ ~overtaken
  /\ list < FirstPoll =>
       /\ pc \notin {"zero_again", "zero_retry", "retry_flag"}
       /\ pc \in {"wait", "zero_done", "control", "retry", "again"} => run = 0
       /\ pc = "wait" => flag /\ msg
       /\ pc = "zero_done" => ~flag
       /\ pc \in {"control", "retry", "again"} => ~flag /\ ~msg
       /\ pc \in {"write", "check", "sleep"} => (flag => msg)
       /\ pc = "check" /\ flag => run = 0
       /\ pc = "write" /\ ~resent => ~flag /\ (run = 0 \/ started = EndpointIndex)

IInv == /\ ProgramInv
        /\ ~overtaken => MemoryInv /\ ControllerInv /\ AddressInv
        /\ punctual => PunctualInv

----------------------------------------------------------------------------
\* Every word of a list has an address of its own.
LEMMA Places ==
  ASSUME NEW i \in 1..12, NEW k \in 1..Size(i)
  PROVE  /\ Place(i, k) \in Addresses
         /\ \A m \in 1..Size(i) : Place(i, k) = Place(i, m) => k = m
         /\ i # EndpointIndex => (Place(i, k) = ControlByte <=> k = 5)
<1>1. Size(i) \in 5..64 /\ Size(EndpointIndex) = 5
  BY ListsGood
<1>2. k \in 1..64 /\ (i = EndpointIndex => k \in 1..5)
  BY <1>1
<1>3. CASE i = EndpointIndex
  BY <1>1, <1>2, <1>3 DEF Place, StartOf, Addresses
<1>4. CASE i # EndpointIndex
  BY <1>1, <1>2, <1>4 DEF Place, StartOf, Addresses, ControlByte
<1> QED
  BY <1>3, <1>4

\* A TD of a list that is in memory is read as it was written.
LEMMA HeldTD ==
  ASSUME NEW i \in 1..12 \ {EndpointIndex}, Held(i), NEW j \in 1..Stages(i)
  PROVE  /\ At(j) # 0 /\ Readable(At(j))
         /\ \A k \in {1, 2, 3, 4, 6} : Field(At(j), k - 1) = Word(i, j, k)
         /\ Entry(At(j), TRUE) = EntryOf(i, j)
         /\ Base(At(j)) = Word(i, j, 1) /\ Length(At(j)) = EntryOf(i, j).len
         /\ Pid(At(j)) = EntryOf(i, j).pid /\ Device(At(j)) = EntryOf(i, j).device
         /\ Next(At(j)) = Word(i, j, 6)
<1>1. /\ Stages(i) \in 1..10
      /\ Size(i) = IF i >= FirstPoll THEN 6 ELSE 4 + 6 * Stages(i)
      /\ i >= FirstPoll => Stages(i) = 1
      /\ i < FirstPoll => Stages(i) >= 2
  BY ListsGood DEF GoodList, Stages
<1>2. Offset(j) \in 0..58 /\ Offset(j) + 6 <= Size(i) /\ (j # 1 => Offset(j) >= 10)
  BY <1>1 DEF Offset
<1>3. ASSUME NEW k \in {1, 2, 3, 4, 6} PROVE Field(At(j), k - 1) = Word(i, j, k)
  <2>1. Offset(j) + k \in 1..Size(i) \ {5}
    BY <1>1, <1>2 DEF Offset
  <2>2. Place(i, Offset(j) + k) = At(j) + 2 * (k - 1)
    BY <1>2 DEF Place, At, StartOf
  <2> QED
    BY <2>1, <2>2 DEF Held, Field, Word
<1>4. At(j) # 0 /\ Readable(At(j))
  BY <1>2 DEF At, Readable, Addresses
<1>5. /\ Field(At(j), 0) = Word(i, j, 1) /\ Field(At(j), 1) = Word(i, j, 2)
      /\ Field(At(j), 2) = Word(i, j, 3) /\ Field(At(j), 3) = Word(i, j, 4)
      /\ Field(At(j), 5) = Word(i, j, 6)
  <2>1. /\ Field(At(j), 1 - 1) = Word(i, j, 1) /\ Field(At(j), 2 - 1) = Word(i, j, 2)
        /\ Field(At(j), 3 - 1) = Word(i, j, 3) /\ Field(At(j), 4 - 1) = Word(i, j, 4)
        /\ Field(At(j), 6 - 1) = Word(i, j, 6)
    BY <1>3
  <2> QED
    BY <2>1
<1>6. /\ Entry(At(j), TRUE) = EntryOf(i, j) /\ Device(At(j)) = EntryOf(i, j).device
      /\ Length(At(j)) = EntryOf(i, j).len /\ Pid(At(j)) = EntryOf(i, j).pid
  <2>1. /\ Pid(At(j)) = (Word(i, j, 3) \div 16) % 16 /\ Device(At(j)) = Word(i, j, 3) \div 256
        /\ Toggle(At(j)) = (Word(i, j, 4) \div 64) % 2 /\ Length(At(j)) = Word(i, j, 2) % 1024
    BY <1>5 DEF Pid, Device, Toggle, Length
  <2>2. Entry(At(j), TRUE) = EntryOf(i, j)
    BY <2>1, ZenonT(40) DEF Entry, EntryOf
  <2> QED
    BY <2>1, <2>2, ZenonT(40) DEF EntryOf
<1> QED
  BY <1>3, <1>4, <1>5, <1>6 DEF Base, Next

\* Its buffer leaves the list alone.
LEMMA FillMisses ==
  ASSUME NEW i \in 1..12 \ {EndpointIndex}, Held(i), NEW j \in 1..Stages(i)
  PROVE  \A k \in 1..Size(i) : ~Fills(At(j), Place(i, k))
<1>1. /\ Base(At(j)) = Word(i, j, 1) /\ Length(At(j)) = EntryOf(i, j).len
      /\ Pid(At(j)) = EntryOf(i, j).pid
  BY HeldTD
<1>2. Linked(i, j) /\ Size(i) \in 5..64
  BY ListsGood DEF GoodList, Good
<1>3. \A k \in 1..Size(i) : Place(i, k) < \h500 + 2 * Size(i) /\ Place(i, k) \in Nat
  BY <1>2 DEF Place, StartOf
<1> QED
  BY <1>1, <1>2, <1>3 DEF Fills, Linked

\* The two polls differ in the toggle only; both answer into 0x51C and end there.
LEMMA PollWords ==
  /\ \A i \in {11, 12} : Size(i) = 6 /\ Stages(i) = 1 /\ StartOf(i) = \h500
  /\ \A k \in {1, 2, 3, 6} : Requests[12][k] = Requests[11][k]
  /\ Requests[11][1] = \h51C /\ Requests[11][2] = 8 /\ Requests[11][3] = \h291
  /\ Requests[11][6] = 0
BY DEF Requests, Poll, data_size, Endpoint, TD, Data0, Data1, Size, Stages, StartOf,
       EndpointIndex, FirstPoll

----------------------------------------------------------------------------
\* What the controller is at, when it runs a list and main has not overtaken it.
LEMMA Running ==
  ASSUME ProgramInv, MemoryInv, ControllerInv, run # 0, started # EndpointIndex
  PROVE  /\ started \in 1..12 \ {EndpointIndex}
         /\ started < FirstPoll => started \in Control /\ list = started /\ Held(started)
         /\ started >= FirstPoll =>
              /\ run = \h500 /\ list \in {11, 12}
              /\ Next(run) = 0 /\ Pid(run) = 9 /\ Device(run) = SetAddress[8]
         /\ list # EndpointIndex
         /\ \A k \in 1..Size(list) : ~Fills(run, Place(list, k))
<1>1. started \in 1..12 \ {EndpointIndex}
  BY DEF ProgramInv, ControllerInv
<1>2. CASE started < FirstPoll
  <2>1. started \in Control /\ list = started /\ Held(started)
    BY <1>1, <1>2 DEF Control, FirstPoll, ControllerInv, MemoryInv
  <2>2. run = At(Len(log) + 1) /\ Len(log) + 1 \in 1..Stages(started)
    BY <2>1 DEF ControllerInv
  <2> QED
    <3>1. \A k \in 1..Size(started) : ~Fills(run, Place(started, k))
      BY <1>1, <2>1, <2>2, FillMisses
    <3>2. ~(started >= FirstPoll)
      BY <1>1, <1>2 DEF FirstPoll
    <3> QED
      BY <1>1, <2>1, <3>1, <3>2
<1>3. CASE started >= FirstPoll
  <2>1. run = \h500 /\ list \in {11, 12}
    BY <1>3 DEF ControllerInv, ProgramInv, FirstPoll
  <2>2. /\ Field(run, 0) = \h51C /\ Field(run, 1) = 8 /\ Field(run, 2) = \h291
        /\ Field(run, 5) = 0
    <3>1. \A k \in {1, 2, 3, 6} : mem[\h500 + 2 * (k - 1)] = Requests[11][k]
      BY <1>3, <2>1 DEF MemoryInv, FirstPoll
    <3>2. /\ mem[\h500 + 2 * (1 - 1)] = Requests[11][1] /\ mem[\h500 + 2 * (2 - 1)] = Requests[11][2]
          /\ mem[\h500 + 2 * (3 - 1)] = Requests[11][3] /\ mem[\h500 + 2 * (6 - 1)] = Requests[11][6]
      BY <3>1
    <3>3. /\ mem[\h500 + 2 * 0] = Requests[11][1] /\ mem[\h500 + 2 * 1] = Requests[11][2]
          /\ mem[\h500 + 2 * 2] = Requests[11][3] /\ mem[\h500 + 2 * 5] = Requests[11][6]
      BY <3>2
    <3> QED
      BY <2>1, <3>3, PollWords DEF Field
  <2>3. Next(run) = 0 /\ Pid(run) = 9 /\ Device(run) = SetAddress[8] /\ Base(run) = \h51C
    BY <2>2 DEF Next, Pid, Device, Base, SetAddress, TD
  <2>4. \A k \in 1..Size(list) : Place(list, k) < \h51C
    BY <2>1, PollWords DEF Place
  <2>5. list # EndpointIndex
    BY <2>1 DEF EndpointIndex
  <2>6. ASSUME NEW k \in 1..Size(list) PROVE ~Fills(run, Place(list, k))
    <3>1. Place(list, k) \in Int /\ Place(list, k) < \h51C
      BY <2>1, <2>4, PollWords DEF Place
    <3> QED
      BY <2>3, <3>1 DEF Fills
  <2> QED
    <3>1. ~(started < FirstPoll)
      BY <1>1, <1>3 DEF FirstPoll
    <3> QED
      BY <1>1, <2>1, <2>3, <2>5, <2>6, <3>1
<1> QED
  BY <1>1, <1>2, <1>3 DEF FirstPoll

\* A step that changes memory only where no word of the list at hand is, or the
\* control byte, keeps what is claimed of memory.
LEMMA MemoryKept ==
  ASSUME ProgramInv, MemoryInv, UNCHANGED <<pc, list, written, started>>, list # EndpointIndex,
         \A k \in 1..Size(list) : k # 5 => mem'[Place(list, k)] = mem[Place(list, k)]
  PROVE  MemoryInv'
<1>1. pc = "write" => \A k \in 1..Size(list) \ {5} :
                        k <= written => mem'[Place(list, k)] = Requests[list][k]
  BY DEF MemoryInv
<1>2. started = list => Held(list)'
  BY DEF MemoryInv, Held
<1>3. ASSUME started >= FirstPoll, list >= FirstPoll
      PROVE  \A k \in {1, 2, 3, 6} : mem'[\h500 + 2 * (k - 1)] = Requests[FirstPoll][k]
  <2>1. Size(list) = 6 /\ StartOf(list) = \h500
    BY <1>3, PollWords DEF ProgramInv, FirstPoll
  <2>2. \A k \in {1, 2, 3, 6} : Place(list, k) = \h500 + 2 * (k - 1) /\ k \in 1..6 /\ k # 5
    BY <2>1 DEF Place
  <2> QED
    BY <1>3, <2>1, <2>2 DEF MemoryInv
<1> QED
  BY <1>1, <1>2, <1>3 DEF MemoryInv

----------------------------------------------------------------------------
\* Nothing has been written or started.
LEMMA InitIInv == Init => IInv
<1> SUFFICES ASSUME Init PROVE IInv
  OBVIOUS
<1>1. /\ pc = "write" /\ list = 1 /\ started = 0 /\ written = 0 /\ addr = \h500 /\ run = 0
      /\ address = 0 /\ ~flag /\ ~overtaken /\ mem = [a \in Addresses |-> 0]
  BY DEF Init
<1>2. Size(1) \in 5..64 /\ Place(1, 1) = \h500
  BY ListsGood DEF Place, StartOf, EndpointIndex
<1>3. ProgramInv
  BY <1>1, <1>2 DEF ProgramInv, EndpointIndex
<1>4. MemoryInv
  BY <1>1, <1>2 DEF MemoryInv, FirstPoll
<1>5. ControllerInv
  BY <1>1 DEF ControllerInv, Control, FirstPoll
<1>6. AddressInv /\ PunctualInv
  BY <1>1 DEF AddressInv, PunctualInv
<1> QED
  BY <1>3, <1>4, <1>5, <1>6 DEF IInv

\* Starting over leaves memory as it was, and nothing is claimed of it.
LEMMA RestartInv ==
  ASSUME IInv, Restart
  PROVE  IInv'
<1>1. /\ pc' = "write" /\ list' = 1 /\ started' = 0 /\ written' = 0 /\ addr' = \h500 /\ run' = 0
      /\ address' = 0 /\ ~flag' /\ ~overtaken' /\ mem' = mem /\ DOMAIN mem = Addresses
  BY DEF Restart, IInv, ProgramInv
<1>2. Size(1) \in 5..64 /\ Place(1, 1) = \h500
  BY ListsGood DEF Place, StartOf, EndpointIndex
<1>3. ProgramInv'
  BY <1>1, <1>2 DEF ProgramInv, EndpointIndex
<1>4. MemoryInv'
  BY <1>1, <1>2 DEF MemoryInv, FirstPoll
<1>5. ControllerInv'
  BY <1>1 DEF ControllerInv, Control, FirstPoll
<1>6. AddressInv' /\ PunctualInv'
  BY <1>1 DEF AddressInv, PunctualInv
<1> QED
  BY <1>3, <1>4, <1>5, <1>6 DEF IInv

\* A word written at its place, and the others where they were.
LEMMA WriteWordInv ==
  ASSUME IInv, WriteWord
  PROVE  IInv'
<1>1. /\ pc = "write" /\ list \in 1..12 /\ Size(list) \in 5..64 /\ written \in 0..(Size(list) - 1)
      /\ written' = written + 1 /\ addr = Place(list, written + 1) /\ addr' = addr + 2
      /\ DOMAIN mem = Addresses
  <2>1. /\ pc = "write" /\ written < Size(list) /\ written' = written + 1 /\ addr' = addr + 2
    BY DEF WriteWord, Size
  <2>2. /\ list \in 1..12 /\ written \in 0..Size(list) /\ addr = Place(list, written + 1)
        /\ DOMAIN mem = Addresses
    BY <2>1 DEF IInv, ProgramInv
  <2>3. Size(list) \in 5..64
    BY <2>2, ListsGood
  <2> QED
    BY <2>1, <2>2, <2>3
<1>2. UNCHANGED <<pc, list, resent, run, started, log, msg, flag, address, punctual, overtaken>>
  BY DEF WriteWord
<1>3. /\ addr \in Addresses /\ DOMAIN mem' = Addresses
      /\ mem'[addr] = Requests[list][written + 1]
      /\ \A a \in Addresses \ {addr} : mem'[a] = mem[a]
  <2>1. written + 1 \in 1..Size(list) /\ addr \in Addresses
    BY <1>1, Places
  <2>2. mem' = [mem EXCEPT ![addr] = Requests[list][written + 1]]
    BY DEF WriteWord
  <2> QED
    BY <1>1, <2>1, <2>2
<1>4. ProgramInv'
  <2>1. addr' = Place(list, (written + 1) + 1) /\ written + 1 \in 0..Size(list)
    BY <1>1 DEF Place, StartOf
  <2> QED
    BY <1>1, <1>2, <1>3, <2>1 DEF IInv, ProgramInv
<1>5. \A k \in 1..Size(list) :
        /\ Place(list, k) \in Addresses
        /\ mem'[Place(list, k)] = IF k = written + 1 THEN Requests[list][k] ELSE mem[Place(list, k)]
  <2>1. written + 1 \in 1..Size(list)
    BY <1>1
  <2> QED
    BY <1>1, <1>3, <2>1, Places
<1>6. ASSUME ~overtaken PROVE MemoryInv'
  <2>1. \A k \in 1..Size(list) \ {5} : k <= written + 1 => mem'[Place(list, k)] = Requests[list][k]
    BY <1>1, <1>5, <1>6 DEF IInv, MemoryInv
  <2>2. started = list => Held(list)'
    BY <1>2, <1>5, <1>6 DEF IInv, MemoryInv, Held
  <2>3. ASSUME started >= FirstPoll, list >= FirstPoll
        PROVE  \A k \in {1, 2, 3, 6} : mem'[\h500 + 2 * (k - 1)] = Requests[FirstPoll][k]
    <3>1. list \in {11, 12}
      BY <1>1, <2>3 DEF FirstPoll
    <3>2. /\ Size(list) = 6 /\ FirstPoll = 11
          /\ \A k \in {1, 2, 3, 6} : Requests[list][k] = Requests[11][k]
      BY <3>1, PollWords DEF FirstPoll
    <3>3. \A k \in {1, 2, 3, 6} : Place(list, k) = \h500 + 2 * (k - 1) /\ k \in 1..6
      BY <3>1, PollWords DEF Place
    <3>4. \A k \in {1, 2, 3, 6} : mem[Place(list, k)] = Requests[11][k]
      BY <1>6, <2>3, <3>2, <3>3 DEF IInv, MemoryInv
    <3>5. \A k \in {1, 2, 3, 6} : mem'[Place(list, k)] = Requests[11][k]
      BY <1>5, <3>2, <3>3, <3>4
    <3> QED
      BY <3>2, <3>3, <3>5
  <2> QED
    BY <1>1, <1>2, <2>1, <2>2, <2>3 DEF MemoryInv
<1>7. ASSUME ~overtaken PROVE ControllerInv'
  BY <1>2, <1>7 DEF IInv, ControllerInv
<1>8. ASSUME ~overtaken PROVE AddressInv'
  <2>1. list = 1 => Size(1) = 16 /\ Requests[1][5] = \h13
    BY SetAddressGood DEF GoodList, Size, Requests, SetAddress, TD
  <2>2. list = 1 => (written + 1 = 5 => mem'[ControlByte] = \h13)
                 /\ (written + 1 # 5 => mem'[ControlByte] = mem[ControlByte])
    <3>1. list = 1 => 5 \in 1..Size(list) /\ Place(list, 5) = ControlByte
      BY <2>1 DEF Place, StartOf, ControlByte, EndpointIndex
    <3> QED
      BY <1>1, <1>5, <2>1, <3>1
  <2>3. written' >= 5 => written >= 5 \/ written + 1 = 5
    BY <1>1
  <2> QED
    BY <1>1, <1>2, <1>8, <2>2, <2>3 DEF IInv, AddressInv, NoRetry
<1>9. ASSUME punctual PROVE PunctualInv'
  BY <1>2, <1>9 DEF IInv, PunctualInv
<1> QED
  BY <1>2, <1>4, <1>6, <1>7, <1>8, <1>9 DEF IInv

\* Going on from one list to another, with the controller idle or at a list for
\* which that does no harm.
LEMMA GoOnInv ==
  ASSUME ProgramInv, GoOn, UNCHANGED mem, started' = list
  PROVE  /\ ProgramInv' /\ list' # list /\ list' > 1 /\ Size(list') \in 5..64
         /\ written' = 0 /\ pc' = "write"
         /\ list >= FirstPoll => list' >= FirstPoll
         /\ (started >= FirstPoll /\ list >= FirstPoll /\ MemoryInv) \/ list < FirstPoll => MemoryInv'
<1>1. /\ list \in 1..12 /\ list' \in 2..12 /\ list' # list /\ (list >= FirstPoll => list' >= FirstPoll)
      /\ pc' = "write" /\ written' = 0 /\ addr' = StartOf(list') /\ ~resent'
  BY DEF ProgramInv, GoOn, FirstPoll
<1>2. Size(list') \in 5..64 /\ Place(list', 1) = StartOf(list')
  BY <1>1, ListsGood DEF Place, StartOf
<1>3. ProgramInv'
  BY <1>1, <1>2 DEF ProgramInv
<1>4. ASSUME (started >= FirstPoll /\ list >= FirstPoll /\ MemoryInv) \/ list < FirstPoll
      PROVE  MemoryInv'
  BY <1>1, <1>2, <1>4 DEF MemoryInv, FirstPoll
<1> QED
  BY <1>1, <1>2, <1>3, <1>4

\* The controller is pointed at a list that is all there.
LEMMA StartListInv ==
  ASSUME IInv, StartList
  PROVE  IInv'
<1>1. /\ pc = "write" /\ list \in 1..12 /\ Size(list) \in 5..64 /\ written = Size(list)
      /\ started' = list /\ run' = StartOf(list) /\ log' = <<>>
      /\ UNCHANGED <<mem, msg, flag, address, punctual, overtaken>>
  BY ListsGood DEF IInv, ProgramInv, StartList, Size
<1>2. CASE list = EndpointIndex
  <2>1. GoOn /\ ProgramInv /\ list < FirstPoll /\ list > 1
    BY <1>2 DEF StartList, IInv, EndpointIndex, FirstPoll
  <2>2. ProgramInv' /\ list' > 1 /\ pc' = "write" /\ (list < FirstPoll => MemoryInv')
    BY <1>1, <2>1, GoOnInv
  <2>3. ControllerInv'
    BY <1>1, <1>2 DEF ControllerInv, Control, EndpointIndex, FirstPoll
  <2>4. ~overtaken => AddressInv'
    BY <1>1, <2>1, <2>2 DEF IInv, AddressInv
  <2>5. punctual => PunctualInv'
    <3>1. ~resent
      BY <1>2 DEF IInv, ProgramInv
    <3> QED
      BY <1>1, <1>2, <2>1, <2>2, <3>1 DEF IInv, PunctualInv
  <2> QED
    BY <1>1, <2>1, <2>2, <2>3, <2>4, <2>5 DEF IInv
<1>3. CASE list # EndpointIndex
  <2>1. /\ pc' = (IF resent \/ Requests[list] = GetConfigDesc2 THEN "sleep" ELSE "check")
        /\ pc' \in {"check", "sleep"} /\ UNCHANGED <<list, written, resent, addr>>
    BY <1>3 DEF StartList
  <2>2. ProgramInv'
    BY <1>1, <1>3, <2>1 DEF IInv, ProgramInv
  <2>3. Stages(list) \in 1..10 /\ run' = At(1) /\ At(1) = \h500
    BY <1>1, <1>3, ListsGood DEF GoodList, StartOf, At, Offset
  <2>4. ASSUME ~overtaken PROVE MemoryInv'
    <3>1. Held(list)
      BY <1>1, <2>4 DEF IInv, MemoryInv, Held
    <3>2. ASSUME list >= FirstPoll
          PROVE  \A k \in {1, 2, 3, 6} : mem[\h500 + 2 * (k - 1)] = Requests[FirstPoll][k]
      <4>1. list \in {11, 12} /\ FirstPoll = 11
        BY <1>1, <3>2 DEF FirstPoll
      <4>2. \A k \in {1, 2, 3, 6} : /\ Place(list, k) = \h500 + 2 * (k - 1)
                                    /\ k \in 1..Size(list) \ {5}
        BY <4>1, PollWords DEF Place
      <4> QED
        BY <3>1, <4>1, <4>2, PollWords DEF Held
    <3> QED
      BY <1>1, <2>1, <3>1, <3>2 DEF MemoryInv, Held
  <2>5. ControllerInv'
    <3>1. log' \in Seq(GoodEntries(list)) /\ Len(log') = 0
      BY <1>1
    <3>2. list \in Control <=> list < FirstPoll
      BY <1>1, <1>3 DEF Control, FirstPoll
    <3> QED
      BY <1>1, <2>1, <2>3, <3>1, <3>2 DEF ControllerInv, FirstPoll
  <2>6. ~overtaken => AddressInv'
    BY <1>1, <2>1, <2>3 DEF IInv, AddressInv
  <2>7. punctual => PunctualInv'
    BY <1>1, <2>1 DEF IInv, PunctualInv
  <2> QED
    BY <1>1, <2>2, <2>4, <2>5, <2>6, <2>7 DEF IInv
<1> QED
  BY <1>2, <1>3

\* Steps of the program that only look: the controller and its memory stay, and
\* main stays at its list.
LEMMA LookInv ==
  ASSUME IInv, ProgramInv', pc # "write", pc' # "write" \/ written' = 0, punctual /\ PunctualInv => PunctualInv',
         UNCHANGED <<list, mem, run, started, log, address, punctual, overtaken>>
  PROVE  IInv'
<1>1. started = list /\ list \in 1..12
  BY DEF IInv, ProgramInv
<1>2. ASSUME ~overtaken PROVE MemoryInv'
  BY <1>1, <1>2 DEF IInv, MemoryInv, Held
<1>3. ASSUME ~overtaken PROVE ControllerInv'
  BY <1>3 DEF IInv, ControllerInv
<1>4. ASSUME ~overtaken PROVE AddressInv'
  BY <1>1, <1>4 DEF IInv, AddressInv
<1> QED
  BY <1>2, <1>3, <1>4 DEF IInv

\* A punctual controller is idle when main wakes.
LEMMA SleepInv ==
  ASSUME IInv, Sleep
  PROVE  IInv'
<1>1. ProgramInv' /\ pc # "write" /\ pc' # "write"
  BY DEF IInv, ProgramInv, Sleep, chip
<1>2. UNCHANGED <<list, mem, run, started, log, address, punctual, overtaken>>
  BY DEF Sleep, chip
<1>3. punctual /\ PunctualInv => PunctualInv'
  BY <1>2 DEF Sleep, chip, PunctualInv
<1> QED
  BY <1>1, <1>2, <1>3, LookInv

\* The look at the flag, and with it the decision to send again.
LEMMA CheckFlagInv ==
  ASSUME IInv, CheckFlag
  PROVE  IInv'
<1>1. /\ pc = "check" /\ list \in 1..12 /\ Size(list) \in 5..64 /\ started = list
      /\ list # EndpointIndex /\ UNCHANGED <<list, chip, address, punctual, overtaken>>
      /\ IF flag THEN pc' = "wait" /\ UNCHANGED <<written, resent, addr>>
         ELSE pc' = "write" /\ written' = 0 /\ resent' = TRUE /\ addr' = StartOf(list)
  BY ListsGood DEF IInv, ProgramInv, CheckFlag
<1>2. ProgramInv'
  <2>1. Place(list, 0 + 1) = StartOf(list)
    BY <1>1 DEF Place, StartOf
  <2> QED
    BY <1>1, <2>1 DEF IInv, ProgramInv, chip
<1>3. PunctualInv => PunctualInv'
  BY <1>1 DEF PunctualInv, chip
<1>4. UNCHANGED <<list, mem, run, started, log, address, punctual, overtaken>>
  BY <1>1 DEF chip
<1> QED
  BY <1>1, <1>2, <1>3, <1>4, LookInv

\* The accesses to the message register.
LEMMA MessageInv ==
  ASSUME IInv, UsbWaitTDListDone \/ ZeroMessage \/ UsbGetRetryCnt
  PROVE  IInv'
<1>1. UNCHANGED <<list, written, resent, addr, mem, run, started, log, address, punctual, overtaken>>
  BY DEF UsbWaitTDListDone, ZeroMessage, UsbGetRetryCnt
<1>2. CASE UsbWaitTDListDone
  <2>1. ProgramInv' /\ pc # "write" /\ pc' # "write"
    BY <1>1, <1>2 DEF IInv, ProgramInv, UsbWaitTDListDone
  <2>2. PunctualInv => PunctualInv'
    BY <1>1, <1>2 DEF PunctualInv, UsbWaitTDListDone
  <2> QED
    BY <1>1, <2>1, <2>2, LookInv
<1>3. CASE ZeroMessage
  <2>1. ProgramInv' /\ pc # "write" /\ pc' # "write"
    BY <1>1, <1>3 DEF IInv, ProgramInv, ZeroMessage, FirstPoll
  <2>2. PunctualInv => PunctualInv'
    BY <1>1, <1>3 DEF PunctualInv, ZeroMessage
  <2> QED
    BY <1>1, <2>1, <2>2, LookInv
<1>4. CASE UsbGetRetryCnt
  <2>1. ProgramInv' /\ pc # "write" /\ pc' # "write"
    BY <1>1, <1>4 DEF IInv, ProgramInv, UsbGetRetryCnt
  <2>2. PunctualInv => PunctualInv'
    BY <1>1, <1>4 DEF PunctualInv, UsbGetRetryCnt
  <2> QED
    BY <1>1, <2>1, <2>2, LookInv
<1> QED
  BY <1>2, <1>3, <1>4

\* Main leaves a request: if the controller is idle then, all of it has run that
\* will, and the control byte tells that SetAddress got through.
LEMMA RequestDoneInv ==
  ASSUME IInv, pc \in {"control", "again", "retry_flag"}, RequestDone,
         UNCHANGED <<keycode, chip, address, punctual>>
  PROVE  IInv'
<1>1. /\ started = list /\ list \in 1..12 /\ list < FirstPoll /\ ProgramInv
      /\ UNCHANGED <<mem, run, started, log, msg, flag>> /\ mem[ControlByte] = NoRetry
      /\ GoOn /\ overtaken' = (overtaken \/ run # 0)
  BY DEF IInv, ProgramInv, RequestDone, chip
<1>2. ProgramInv' /\ list' > 1 /\ pc' = "write" /\ MemoryInv' /\ ~resent'
  BY <1>1, GoOnInv DEF GoOn
<1>3. ASSUME ~overtaken' PROVE ControllerInv'
  BY <1>1, <1>3 DEF IInv, ControllerInv, FirstPoll
<1>4. ASSUME ~overtaken' PROVE AddressInv'
  <2>1. AddressInv /\ run = 0
    BY <1>1, <1>4 DEF IInv
  <2>2. address # 0
    BY <1>1, <2>1 DEF AddressInv
  <2> QED
    BY <1>1, <2>1, <2>2 DEF AddressInv
<1>5. ASSUME punctual PROVE PunctualInv'
  BY <1>1, <1>2, <1>5 DEF IInv, PunctualInv
<1> QED
  BY <1>2, <1>3, <1>4, <1>5 DEF IInv

\* The control byte is judged, at once or behind UsbGetRetryCnt.
LEMMA ReadControlInv ==
  ASSUME IInv, ReadControl \/ ReadAgain
  PROVE  IInv'
<1>1. UNCHANGED <<keycode, chip, address, punctual>> /\ pc \in {"control", "again", "retry_flag"}
  BY DEF ReadControl, ReadAgain
<1>2. CASE RequestDone
  BY <1>1, <1>2, RequestDoneInv
<1>3. CASE pc' \in {"retry", "restart"} /\ UNCHANGED <<list, written, resent, addr, overtaken>>
  <2>1. UNCHANGED <<list, mem, run, started, log, msg, flag, address, punctual, overtaken>>
    BY <1>1, <1>3 DEF chip
  <2>2. ProgramInv' /\ pc # "write" /\ pc' # "write"
    BY <1>1, <1>3, <2>1 DEF IInv, ProgramInv
  <2>3. PunctualInv => PunctualInv'
    BY <1>1, <1>3, <2>1 DEF PunctualInv
  <2> QED
    BY <2>1, <2>2, <2>3, LookInv
<1> QED
  BY <1>2, <1>3 DEF ReadControl, ReadAgain

\* From a poll main goes on to the other, whether it still runs or not.
LEMMA TakeKeyInv ==
  ASSUME IInv, TakeKey
  PROVE  IInv'
<1>1. /\ pc = "key" /\ started = list /\ list \in 1..12 /\ list >= FirstPoll /\ ProgramInv
      /\ UNCHANGED <<mem, run, started, log, msg, flag, address, punctual, overtaken>>
  BY DEF IInv, ProgramInv, TakeKey, chip
<1>2. CASE GoOn
  <2>1. ProgramInv' /\ list' > 1 /\ list' >= FirstPoll /\ (MemoryInv => MemoryInv')
    BY <1>1, <1>2, GoOnInv
  <2>2. ~overtaken => ControllerInv'
    <3>1. started \notin Control
      BY <1>1 DEF Control, FirstPoll
    <3> QED
      BY <1>1, <2>1, <3>1 DEF IInv, ControllerInv
  <2>3. ~overtaken => AddressInv'
    BY <1>1, <2>1 DEF IInv, AddressInv, FirstPoll
  <2>4. punctual => PunctualInv'
    <3>1. ~(list' < FirstPoll)
      BY <2>1 DEF ProgramInv, FirstPoll
    <3> QED
      BY <1>1, <3>1 DEF IInv, PunctualInv
  <2> QED
    BY <1>1, <2>1, <2>2, <2>3, <2>4 DEF IInv
<1>3. CASE pc' = "restart" /\ UNCHANGED <<list, written, resent, addr>>
  <2>1. ProgramInv' /\ pc # "write" /\ pc' # "write"
    BY <1>1, <1>3 DEF ProgramInv
  <2>2. PunctualInv => PunctualInv'
    BY <1>1, <1>3 DEF PunctualInv
  <2> QED
    BY <1>1, <1>3, <2>1, <2>2, LookInv
<1> QED
  BY <1>2, <1>3 DEF TakeKey

----------------------------------------------------------------------------
\* A step of the controller while main is in time: it runs main's list, and main
\* is sending it, asleep behind it or at its first look at the flag.
LEMMA ReportInv ==
  ASSUME ProgramInv, MemoryInv, ControllerInv, PunctualInv, run # 0, started # EndpointIndex,
         Report(run' = 0), UNCHANGED <<pc, list, resent, started, overtaken>>
  PROVE  PunctualInv'
<1>1. CASE list < FirstPoll
  <2>1. started < FirstPoll /\ started \in 1..12 \ {EndpointIndex}
    BY <1>1, Running DEF FirstPoll, ProgramInv
  <2>2. pc \notin {"wait", "zero_done", "zero_again", "zero_retry", "control", "retry",
                   "again", "retry_flag"}
    BY <1>1 DEF PunctualInv
  <2>3. ~(pc = "check" /\ flag) /\ ~(pc = "write" /\ ~resent)
    BY <1>1 DEF PunctualInv
  <2> QED
    BY <1>1, <2>2, <2>3 DEF PunctualInv, Report
<1>2. CASE ~(list < FirstPoll)
  BY <1>2 DEF PunctualInv
<1> QED
  BY <1>1, <1>2

\* The TD that is answered is the next of its list.
LEMMA AnsweredInv ==
  ASSUME IInv, Answered
  PROVE  IInv'
<1>1. /\ run # 0 /\ started # EndpointIndex /\ Device(run) = address /\ run' = Next(run)
      /\ log' = Append(log, Entry(run, TRUE)) /\ Report(run' = 0)
      /\ address' = (IF Pid(run) = 9 /\ address = 0 THEN SetAddress[8] ELSE address)
      /\ UNCHANGED <<pc, list, written, resent, addr, started, punctual, overtaken>>
  BY DEF Answered, main
<1>2. /\ DOMAIN mem' = Addresses
      /\ \A a \in Addresses : a # ControlByte /\ ~Fills(run, a) => mem'[a] = mem[a]
      /\ \A a \in Addresses : run # \h500 /\ ~Fills(run, a) => mem'[a] = mem[a]
  <2>1. PICK control \in {NoRetry, NoRetry - 1} :
          mem' = [a \in Addresses |->
                    IF Fills(run, a) THEN Received
                    ELSE IF a = ControlByte /\ run = \h500 THEN control ELSE mem[a]]
    BY DEF Answered
  <2> QED
    BY <2>1
<1>3. ProgramInv'
  BY <1>1, <1>2 DEF IInv, ProgramInv
<1>4. CASE overtaken
  BY <1>1, <1>3, <1>4 DEF IInv, PunctualInv
<1>5. CASE ~overtaken
  <2>1. /\ ProgramInv /\ MemoryInv /\ ControllerInv /\ AddressInv
        /\ started \in 1..12 \ {EndpointIndex} /\ list \in 1..12 \ {EndpointIndex}
        /\ started < FirstPoll => started \in Control /\ list = started /\ Held(started)
        /\ started >= FirstPoll => list \in {11, 12} /\ Next(run) = 0
        /\ \A k \in 1..Size(list) : ~Fills(run, Place(list, k))
    BY <1>1, <1>5, Running DEF IInv, ProgramInv
  <2>2. \A k \in 1..Size(list) : k # 5 => mem'[Place(list, k)] = mem[Place(list, k)]
    BY <1>2, <2>1, Places
  <2>3. MemoryInv'
    BY <1>1, <2>1, <2>2, MemoryKept
  <2>4. started < FirstPoll =>
          /\ log \in Seq(GoodEntries(started)) /\ Len(log) + 1 \in 1..Stages(started)
          /\ Stages(started) \in 1..10
          /\ \A j \in 1..Len(log) : log[j] = EntryOf(started, j)
          /\ run = At(Len(log) + 1) /\ Entry(run, TRUE) = EntryOf(started, Len(log) + 1)
          /\ Pid(run) = EntryOf(started, Len(log) + 1).pid
          /\ run' = IF Len(log) + 1 = Stages(started) THEN 0 ELSE At(Len(log) + 2)
    <3> SUFFICES ASSUME started < FirstPoll PROVE <2>4!2
      OBVIOUS
    <3>1. /\ log \in Seq(GoodEntries(started)) /\ Len(log) + 1 \in 1..Stages(started)
          /\ \A j \in 1..Len(log) : log[j] = EntryOf(started, j)
          /\ run = At(Len(log) + 1) /\ Len(log) \in Nat
      BY <1>1, <2>1 DEF ControllerInv
    <3>2. /\ Entry(run, TRUE) = EntryOf(started, Len(log) + 1)
          /\ Pid(run) = EntryOf(started, Len(log) + 1).pid
          /\ Next(run) = Word(started, Len(log) + 1, 6)
      BY <2>1, <3>1, HeldTD
    <3>3. Stages(started) \in 1..10 /\ Good(started, Len(log) + 1)
      BY <2>1, <3>1, ListsGood DEF GoodList
    <3>4. (Len(log) + 1) + 1 = Len(log) + 2
      BY <3>1
    <3> QED
      BY <1>1, <3>1, <3>2, <3>3, <3>4, ZenonT(40) DEF Good, Linked
  <2>5. ControllerInv'
    <3>1. CASE started < FirstPoll
      <4> DEFINE n == Len(log)
                 S == GoodEntries(started)
      <4>1. EntryOf(started, n + 1) \in S /\ n \in Nat /\ log \in Seq(S)
        BY <2>4, <3>1 DEF GoodEntries
      <4> HIDE DEF S
      <4>2. /\ log' \in Seq(S) /\ Len(log') = n + 1 /\ log'[n + 1] = EntryOf(started, n + 1)
            /\ \A j \in 1..n : log'[j] = log[j]
        <5>1. log' = Append(log, EntryOf(started, n + 1))
          BY <1>1, <2>4, <3>1
        <5> HIDE DEF n
        <5> QED
          BY <4>1, <5>1 DEF n
      <4>3. \A j \in 1..(n + 1) : log'[j] = EntryOf(started, j)
        BY <2>4, <3>1, <4>1, <4>2
      <4>4. n + 1 # Stages(started) => (n + 1) + 1 \in 1..Stages(started) /\ n + 2 = (n + 1) + 1
        BY <2>4, <3>1, <4>1
      <4>5. n + 1 # Stages(started) => run' # 0
        BY <2>4, <3>1, <4>1, <4>4 DEF At, Offset
      <4> QED
        <5>1. /\ started' = started /\ list' = list /\ started \in Control /\ list = started
              /\ started # 0 /\ ~(started >= FirstPoll)
          BY <1>1, <2>1, <3>1 DEF FirstPoll
        <5>2. GoodEntries(started)' = S
          BY <5>1 DEF S, GoodEntries
        <5>3. CASE n + 1 = Stages(started)
          <6>1. run' = 0 /\ Len(log') = Stages(started)
            BY <2>4, <3>1, <4>2, <5>3
          <6> QED
            BY <4>3, <5>1, <5>3, <6>1 DEF ControllerInv
        <5>4. CASE n + 1 # Stages(started)
          <6>1. run' = At(Len(log') + 1) /\ run' # 0 /\ Len(log') + 1 \in 1..Stages(started)
            BY <2>4, <3>1, <4>2, <4>4, <4>5, <5>4
          <6>2. \A j \in 1..Len(log') : log'[j] = EntryOf(started, j)
            BY <4>2, <4>3
          <6> QED
            BY <4>2, <5>1, <5>2, <6>1, <6>2 DEF ControllerInv
        <5> QED
          BY <5>3, <5>4
    <3>2. CASE started >= FirstPoll
      <4>1. run' = 0 /\ started \notin Control /\ started # 0
        BY <1>1, <2>1, <3>2 DEF Control, FirstPoll
      <4> QED
        BY <1>1, <4>1 DEF ControllerInv
    <3> QED
      BY <2>1, <3>1, <3>2 DEF FirstPoll
  <2>6. AddressInv'
    <3>1. CASE list > 1
      BY <1>1, <2>1, <3>1 DEF AddressInv
    <3>2. CASE list = 1
      <4>1. started = 1 /\ Stages(1) = 2 /\ Len(log) + 1 \in {1, 2}
        <5>1. started = 1 /\ started < FirstPoll
          BY <2>1, <3>2 DEF FirstPoll
        <5>2. Stages(1) = 2
          BY SetAddressGood DEF Stages, Size, Requests, SetAddress, TD, FirstPoll
        <5>3. \A m \in 1..2 : m \in {1, 2}
          OBVIOUS
        <5> QED
          BY <2>4, <5>1, <5>2, <5>3
      <4>2. CASE Len(log) + 1 = 1
        <5>1. run' # 0 /\ Pid(run) # 9
          <6>1. Proper(1, 1) /\ Len(log) + 2 = 2 /\ At(2) # 0
            BY <2>4, <4>1, <4>2, SetAddressGood DEF GoodList, Good, At, Offset, FirstPoll
          <6> QED
            BY <2>4, <4>1, <4>2, <6>1 DEF Proper, FirstPoll
        <5> QED
          BY <1>1, <2>1, <3>2, <4>1, <5>1 DEF AddressInv
      <4>3. CASE Len(log) + 1 = 2
        <5>1. Pid(run) = 9
          <6>1. Proper(1, 2)
            BY <4>1, SetAddressGood DEF GoodList, Good
          <6> QED
            BY <2>4, <4>1, <4>3, <6>1 DEF Proper, FirstPoll
        <5>2. address' # 0 /\ address' \in {0, SetAddress[8], Gone}
          BY <1>1, <2>1, <5>1 DEF AddressInv, SetAddress, TD
        <5> QED
          BY <5>2 DEF AddressInv
      <4> QED
        BY <4>1, <4>2, <4>3
    <3> QED
      BY <2>1, <3>1, <3>2
  <2>7. punctual => PunctualInv'
    BY <1>1, <2>1, ReportInv DEF IInv
  <2> QED
    BY <1>1, <1>3, <2>3, <2>5, <2>6, <2>7 DEF IInv
<1> QED
  BY <1>4, <1>5

\* What Append puts last.
LEMMA AppendLast ==
  ASSUME NEW T, NEW s \in Seq(T), NEW e
  PROVE  Len(Append(s, e)) = Len(s) + 1 /\ Append(s, e)[Len(s) + 1] = e
OBVIOUS

\* A list that is not answered ends with a log entry that says so.
LEMMA UnansweredInv ==
  ASSUME IInv, Unanswered
  PROVE  IInv'
<1>1. /\ run # 0 /\ started # EndpointIndex /\ (Device(run) # address \/ started >= FirstPoll)
      /\ run' = 0 /\ log' = Append(log, Entry(run, FALSE)) /\ Report(TRUE)
      /\ mem' = (IF run = \h500 THEN [mem EXCEPT ![ControlByte] = 0] ELSE mem)
      /\ UNCHANGED <<pc, list, written, resent, addr, started, address, punctual, overtaken>>
  BY DEF Unanswered, main
<1>2. /\ DOMAIN mem' = DOMAIN mem
      /\ \A a \in DOMAIN mem : a # ControlByte => mem'[a] = mem[a]
  BY <1>1
<1>3. ProgramInv'
  BY <1>1, <1>2 DEF IInv, ProgramInv
<1>4. CASE overtaken
  BY <1>1, <1>3, <1>4 DEF IInv, PunctualInv
<1>5. CASE ~overtaken
  <2>1. /\ ProgramInv /\ MemoryInv /\ ControllerInv /\ AddressInv /\ DOMAIN mem = Addresses
        /\ started \in 1..12 \ {EndpointIndex} /\ list \in 1..12 \ {EndpointIndex}
        /\ started < FirstPoll => started \in Control /\ list = started /\ Held(started)
        /\ started >= FirstPoll => list \in {11, 12}
    BY <1>1, <1>5, Running DEF IInv, ProgramInv
  <2>2. \A k \in 1..Size(list) : k # 5 => mem'[Place(list, k)] = mem[Place(list, k)]
    BY <1>2, <2>1, Places
  <2>3. MemoryInv'
    BY <1>1, <2>1, <2>2, MemoryKept
  <2>4. ControllerInv'
    <3>1. started \in Control => ~log'[Len(log')].ok
      <4> SUFFICES ASSUME started \in Control PROVE ~log'[Len(log')].ok
        OBVIOUS
      <4> DEFINE e == Entry(run, FALSE)
      <4>1. log \in Seq(GoodEntries(started))
        BY <1>1, <2>1 DEF ControllerInv
      <4>2. ~e.ok
        BY DEF Entry
      <4> HIDE DEF e
      <4>3. log' = Append(log, e)
        BY <1>1 DEF e
      <4>4. Len(log') = Len(log) + 1 /\ log'[Len(log) + 1] = e
        BY <4>1, <4>3, AppendLast
      <4> QED
        BY <4>2, <4>4
    <3> QED
      BY <1>1, <2>1, <3>1, ZenonT(40) DEF ControllerInv
  <2>5. AddressInv'
    <3>1. CASE list > 1
      BY <1>1, <2>1, <3>1 DEF AddressInv
    <3>2. CASE list = 1
      <4>1. started = 1 /\ started < FirstPoll
        BY <2>1, <3>2 DEF FirstPoll
      <4>2. Len(log) + 1 \in 1..Stages(1) /\ run = At(Len(log) + 1) /\ Held(1)
        BY <1>1, <2>1, <4>1 DEF ControllerInv
      <4>3. Device(run) = EntryOf(1, Len(log) + 1).device
        <5>1. 1 \in 1..12 \ {EndpointIndex}
          BY DEF EndpointIndex
        <5> QED
          BY <4>2, <5>1, HeldTD
      <4>4. Device(run) = 0
        BY <4>2, <4>3, SetAddressGood DEF GoodList, Good, Proper
      <4> QED
        BY <1>1, <2>1, <3>2, <4>1, <4>4 DEF AddressInv, FirstPoll
    <3> QED
      BY <2>1, <3>1, <3>2
  <2>6. punctual => PunctualInv'
    BY <1>1, <2>1, ReportInv DEF IInv, Report
  <2> QED
    BY <1>1, <1>3, <2>3, <2>4, <2>5, <2>6 DEF IInv
<1> QED
  BY <1>4, <1>5

\* What happens to the endpoint words touches no request, and a keyboard that is
\* gone has no address.
LEMMA TroubleInv ==
  ASSUME IInv, StrayDone \/ Pull
  PROVE  IInv'
<1>1. CASE StrayDone
  <2>1. /\ ~punctual /\ started = EndpointIndex /\ run' = 0
        /\ UNCHANGED <<pc, list, written, resent, addr, mem, started, log, address, punctual, overtaken>>
    BY <1>1 DEF StrayDone, main
  <2>2. ProgramInv'
    BY <2>1 DEF IInv, ProgramInv
  <2>3. ~overtaken => MemoryInv'
    BY <2>1 DEF IInv, MemoryInv, Held
  <2>4. ControllerInv'
    BY <2>1 DEF ControllerInv, Control
  <2>5. ~overtaken => AddressInv'
    BY <2>1 DEF IInv, AddressInv, EndpointIndex
  <2> QED
    BY <2>1, <2>2, <2>3, <2>4, <2>5 DEF IInv
<1>2. CASE Pull
  <2>1. /\ address' = Gone
        /\ UNCHANGED <<pc, list, written, resent, addr, mem, run, started, log, msg, flag,
                       punctual, overtaken>>
    BY <1>2 DEF Pull, main, chip
  <2>2. ProgramInv' /\ (~overtaken => MemoryInv') /\ (~overtaken => ControllerInv')
    BY <2>1 DEF IInv, ProgramInv, MemoryInv, Held, ControllerInv
  <2>3. AddressInv'
    BY <2>1 DEF AddressInv, Gone
  <2>4. punctual => PunctualInv'
    BY <2>1 DEF IInv, PunctualInv
  <2> QED
    BY <2>1, <2>2, <2>3, <2>4 DEF IInv
<1> QED
  BY <1>1, <1>2

\* The invariant holds in every state.
THEOREM IInvCorrect == Spec => []IInv
<1>1. ASSUME IInv, [NextStep]_vars PROVE IInv'
  <2>1. CASE UNCHANGED vars
    BY <1>1, <2>1 DEF vars, main, chip, IInv, ProgramInv, MemoryInv, ControllerInv, AddressInv,
                      PunctualInv, Held
  <2> QED
    BY <1>1, <2>1, RestartInv, WriteWordInv, StartListInv, SleepInv, CheckFlagInv, MessageInv,
       ReadControlInv, TakeKeyInv, AnsweredInv, UnansweredInv, TroubleInv
       DEF NextStep, Program
<1> QED
  BY <1>1, InitIInv, PTL DEF Spec

----------------------------------------------------------------------------
\* In a punctual behaviour main leaves no request before the controller has.
THEOREM InTime == Spec => []NeverOvertakes
<1>1. IInv => NeverOvertakes
  BY DEF IInv, PunctualInv, NeverOvertakes
<1> QED
  BY <1>1, IInvCorrect, PTL

\* Whatever word a keyboard sends and however late a list is done, everything the
\* controller takes for a TD of main's list is one of it, as the list has it.
THEOREM OwnTDsCorrect == Spec => []OnlyItsTDsRun
<1>1. ASSUME IInv PROVE OnlyItsTDsRun
  <2> SUFFICES ASSUME ~overtaken, run # 0, started = list
               PROVE  /\ run \in TDsOf(started)
                      /\ \A k \in {1, 2, 3, 4, 6} : Field(run, k - 1) = TDWord(started, run, k)
    BY DEF OnlyItsTDsRun
  <2>0. ProgramInv /\ MemoryInv /\ ControllerInv
    BY <1>1 DEF IInv
  <2>1. started \in 1..12 \ {EndpointIndex} /\ Held(started)
    BY <2>0 DEF ProgramInv, MemoryInv, ControllerInv
  <2>3. PICK j \in 1..Stages(started) : run = At(j)
    <3>1. CASE started < FirstPoll
      BY <2>0, <2>1, <3>1 DEF ControllerInv, Control, FirstPoll
    <3>2. CASE started >= FirstPoll
      BY <2>0, <2>1, <3>2 DEF ControllerInv, Stages, At, Offset
    <3> QED
      BY <2>1, <3>1, <3>2 DEF FirstPoll
  <2>4. /\ Stages(started) \in 1..10 /\ j \in 1..10 /\ Offset(j) \in 0..58
        /\ Size(started) = (IF started >= FirstPoll THEN 6 ELSE 4 + 6 * Stages(started))
        /\ started >= FirstPoll => Stages(started) = 1
    BY <2>1, ListsGood DEF GoodList, Stages, Offset
  <2>5. run \in TDsOf(started)
    <3>1. CASE j = 1
      BY <2>3, <3>1 DEF TDsOf, At, Offset
    <3>2. CASE j # 1
      <4>1. j \in 2..10 /\ At(j) = \h514 + 12 * (j - 2) /\ Size(started) = 4 + 6 * Stages(started)
        BY <2>4, <3>2 DEF At, Offset
      <4>2. At(j) \in \h514..(\h500 + 2 * (Size(started) - 6)) /\ (At(j) - \h514) % 12 = 0
        BY <2>3, <2>4, <4>1
      <4> QED
        BY <2>3, <4>2 DEF TDsOf, Size
    <3> QED
      BY <3>1, <3>2
  <2>6. ASSUME NEW k \in {1, 2, 3, 4, 6} PROVE TDWord(started, run, k) = Word(started, j, k)
    <3>1. (run - \h500) \div 2 = Offset(j)
      BY <2>3, <2>4 DEF At
    <3> QED
      BY <3>1 DEF TDWord, Word
  <2>7. \A k \in {1, 2, 3, 4, 6} : Field(run, k - 1) = Word(started, j, k)
    BY <2>1, <2>3, HeldTD
  <2> QED
    BY <2>5, <2>6, <2>7
<1> QED
  BY <1>1, IInvCorrect, PTL

\* Control transfers have the shape USB asks for.
THEOREM ShapeCorrect == Spec => []ControlTransferShape
<1>1. ASSUME IInv PROVE ControlTransferShape
  <2> SUFFICES ASSUME ~overtaken, Completed PROVE ControlTransferShape
    BY DEF ControlTransferShape
  <2> DEFINE n == Len(log)
  <2>1. /\ started \in 1..12 \ {EndpointIndex} /\ started < FirstPoll /\ n = Stages(started)
        /\ \A j \in 1..n : log[j] = EntryOf(started, j)
    BY <1>1 DEF IInv, ControllerInv, Completed, Control, FirstPoll, EndpointIndex
  <2>0. n \in 2..10
    BY <2>1, ListsGood DEF GoodList
  <2>2. n \in 2..10 /\ \A j \in 1..n : log[j] = EntryOf(started, j) /\ Proper(started, j)
    BY <2>0, <2>1, ListsGood DEF GoodList, Good
  <2>3. log[1].pid = 13 /\ log[1].toggle = 0
    BY <2>1, <2>2 DEF Proper
  <2>4. \A k \in 2 .. n - 1 : log[k].pid = 9 /\ log[k].toggle = (k + 1) % 2
    BY <2>1, <2>2 DEF Proper
  <2>5. log[n].toggle = 1 /\ log[n].len = 0 /\ log[n].pid = IF n > 2 THEN 1 ELSE 9
    BY <2>1, <2>2 DEF Proper
  <2>6. \A k \in 1..n : log[k].device = log[1].device
    BY <2>1, <2>2 DEF Proper
  <2>7. \A k \in 2..n - 2 : log[k].len = 8
    BY <2>1, <2>2 DEF Proper
  <2>8. n > 2 => 8 * (n - 3) + log[n - 1].len <= Requests[started][10]
    <3> SUFFICES ASSUME n > 2 PROVE 8 * (n - 3) + log[n - 1].len <= Requests[started][10]
      OBVIOUS
    <3>1. n - 1 \in 1..n /\ 1 < n - 1 /\ n - 1 = Stages(started) - 1 /\ n - 3 = (n - 1) - 2
      BY <2>1, <2>2
    <3> QED
      BY <2>1, <2>2, <3>1 DEF Proper
  <2> QED
    <3>1. n >= 2
      <4>1. \A m \in 2..10 : m >= 2
        OBVIOUS
      <4> QED
        BY <2>0, <4>1, Zenon
    <3> QED
      BY <2>3, <2>4, <2>5, <2>6, <2>7, <2>8, <3>1, Zenon DEF ControlTransferShape
<1> QED
  BY <1>1, IInvCorrect, PTL

\* Behind SetAddress every TD goes to the address the keyboard has at the time.
THEOREM DeviceCorrect == Spec => []SpeaksToItsDevice
<1>1. ASSUME IInv PROVE SpeaksToItsDevice
  <2> SUFFICES ASSUME ~overtaken, run # 0, started \notin {1, EndpointIndex}, address # Gone
               PROVE  Device(run) = address
    BY DEF SpeaksToItsDevice
  <2>0. ProgramInv /\ MemoryInv /\ ControllerInv /\ AddressInv /\ started # EndpointIndex
    BY <1>1 DEF IInv
  <2>1. /\ started \in 2..12 \ {EndpointIndex}
        /\ started < FirstPoll => started \in Control /\ list = started /\ Held(started)
        /\ started >= FirstPoll => list \in {11, 12} /\ Device(run) = SetAddress[8]
    BY <2>0, Running
  <2>2. list > 1 /\ address = SetAddress[8]
    BY <2>0, <2>1 DEF AddressInv, FirstPoll
  <2>3. ASSUME started < FirstPoll PROVE Device(run) = SetAddress[8]
    <3>1. run = At(Len(log) + 1) /\ Len(log) + 1 \in 1..Stages(started)
      BY <2>0, <2>1, <2>3 DEF ControllerInv
    <3>2. Device(run) = EntryOf(started, Len(log) + 1).device
      <4>1. started \in 1..12 \ {EndpointIndex} /\ Held(started)
        BY <2>1, <2>3
      <4>2. Device(At(Len(log) + 1)) = EntryOf(started, Len(log) + 1).device
        BY <3>1, <4>1, HeldTD
      <4> QED
        BY <3>1, <4>2
    <3>3. Proper(started, Len(log) + 1)
      BY <2>1, <2>3, <3>1, ListsGood DEF GoodList, Good
    <3> QED
      BY <2>1, <3>2, <3>3 DEF Proper
  <2> QED
    BY <2>1, <2>2, <2>3 DEF FirstPoll
<1> QED
  BY <1>1, IInvCorrect, PTL
=============================================================================
