---------------------------- MODULE CharChannel ----------------------------
(***************************************************************************)
(* What one direction of the JTAG UART driver promises: a queue.  Pieces   *)
(* are put in and taken out in order, nothing is lost, doubled or          *)
(* invented, and no more is held than buffer and FIFO have room for.       *)
(***************************************************************************)
EXTENDS Naturals, Sequences

CONSTANTS Chars,    \* what can be sent
          Capacity  \* characters on the way at one time

VARIABLES queue,  \* what is on the way
          put,    \* the piece last put in
          got     \* the piece last taken out
vars == <<queue, put, got>>

Init == queue = <<>> /\ put = <<>> /\ got = <<>>

Put == /\ \E n \in 1 .. Capacity - Len(queue) : put' \in [1 .. n -> Chars]
       /\ queue' = queue \o put'
       /\ UNCHANGED got

Get == /\ \E n \in 1 .. Len(queue) :
             /\ got' = SubSeq(queue, 1, n)
             /\ queue' = SubSeq(queue, n + 1, Len(queue))
       /\ UNCHANGED put

Next == Put \/ Get
Spec == Init /\ [][Next]_vars
=============================================================================
