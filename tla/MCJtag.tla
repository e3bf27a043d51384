------------------------------ MODULE MCJtag ------------------------------
EXTENDS JtagUart

(* One direction at a time with two characters to tell apart, and both at  *)
(* once with one.  A pause matters to reception only, and only while what  *)
(* is there is not enough to interrupt.                                    *)
TransferUses ==
    {[calls |-> {"read"}, host |-> {"send", "pause"}, chars |-> {"a", "b"}, piece |-> 2],
     [calls |-> {"write"}, host |-> {"take"}, chars |-> {"a", "b"}, piece |-> 2],
     [calls |-> {"read", "write"}, host |-> {"send", "take"}, chars |-> {"a"}, piece |-> 1]}

(* A host that comes and goes, and each call that may wait for it.         *)
WaitingUses ==
    {[calls |-> {"read"}, host |-> {"send", "pause", "plug"}, chars |-> {"a"}, piece |-> 2],
     [calls |-> {"write", "close", "ioctl"}, host |-> {"take", "pause", "plug"},
      chars |-> {"a"}, piece |-> 2]}
=============================================================================
