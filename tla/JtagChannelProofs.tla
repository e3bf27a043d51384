------------------------- MODULE JtagChannelProofs -------------------------
(***************************************************************************)
(* Each direction of the JTAG UART driver implements a queue, for every    *)
(* size of the rings and of the device's FIFOs.  First what putting into   *)
(* and taking from a ring is for the sequence of its characters, then one  *)
(* step after the other.                                                   *)
(***************************************************************************)
EXTENDS JtagProofs

(* Sequences.                                                              *)
LEMMA DropShape ==
    ASSUME NEW S, NEW s \in Seq(S), NEW d \in 0 .. Len(s)
    PROVE  /\ Drop(s, d) \in Seq(S) /\ Len(Drop(s, d)) = Len(s) - d
           /\ \A i \in 1 .. Len(s) - d : Drop(s, d)[i] = s[i + d]
<1>1. Len(s) \in Nat /\ d \in Nat
  BY LenProperties
<1>2. \A i \in d + 1 .. Len(s) : s[i] \in S
  BY <1>1, ElementOfSeq
<1>3. /\ SubSeq(s, d + 1, Len(s)) \in Seq(S)
      /\ Len(SubSeq(s, d + 1, Len(s))) = IF d + 1 <= Len(s) THEN Len(s) - (d + 1) + 1 ELSE 0
      /\ \A i \in 1 .. Len(s) - (d + 1) + 1 : SubSeq(s, d + 1, Len(s))[i] = s[d + 1 + i - 1]
  BY <1>1, <1>2, SubSeqProperties
<1> QED
  BY <1>1, <1>3 DEF Drop

LEMMA DropConcat ==
    ASSUME NEW S, NEW s \in Seq(S), NEW t \in Seq(S), NEW d \in 0 .. Len(s)
    PROVE  Drop(s \o t, d) = Drop(s, d) \o t
<1> DEFINE u == s \o t  r == Drop(s, d)  v == Drop(u, d)  w == r \o t
<1>1. /\ u \in Seq(S) /\ Len(u) = Len(s) + Len(t)
      /\ \A i \in 1 .. Len(s) + Len(t) : u[i] = IF i <= Len(s) THEN s[i] ELSE t[i - Len(s)]
  BY ConcatProperties
<1>2. Len(s) \in Nat /\ Len(t) \in Nat /\ d \in Nat /\ d <= Len(s)
  BY LenProperties
<1>3. r \in Seq(S) /\ Len(r) = Len(s) - d /\ \A i \in 1 .. Len(s) - d : r[i] = s[i + d]
  BY DropShape
<1> HIDE DEF u, r
<1>4. v \in Seq(S) /\ Len(v) = Len(u) - d /\ \A i \in 1 .. Len(u) - d : v[i] = u[i + d]
  <2>1. d \in 0 .. Len(u)
    BY <1>1, <1>2
  <2> QED
    BY <1>1, <2>1, DropShape
<1>5. /\ w \in Seq(S) /\ Len(w) = Len(r) + Len(t)
      /\ \A i \in 1 .. Len(r) + Len(t) : w[i] = IF i <= Len(r) THEN r[i] ELSE t[i - Len(r)]
  BY <1>3, ConcatProperties
<1> HIDE DEF v, w
<1>6. ASSUME NEW i \in 1 .. Len(v) PROVE v[i] = w[i]
  <2>1. v[i] = IF i + d <= Len(s) THEN s[i + d] ELSE t[i + d - Len(s)]
    BY <1>1, <1>2, <1>4
  <2>2. w[i] = IF i <= Len(s) - d THEN s[i + d] ELSE t[i - (Len(s) - d)]
    BY <1>1, <1>2, <1>3, <1>4, <1>5
  <2>3. i - (Len(s) - d) = i + d - Len(s) /\ (i <= Len(s) - d <=> i + d <= Len(s))
    BY <1>1, <1>2, <1>4
  <2> QED
    BY <2>1, <2>2, <2>3
<1>7. Len(v) = Len(w)
  BY <1>1, <1>2, <1>3, <1>4, <1>5
<1>8. v = w
  BY <1>4, <1>5, <1>6, <1>7, SeqEqual
<1> QED
  BY <1>8 DEF u, r, v, w

LEMMA DropNothing ==
    ASSUME NEW S, NEW s \in Seq(S) PROVE Drop(s, 0) = s
BY SubSeqFull DEF Drop

LEMMA FirstConcat ==
    ASSUME NEW S, NEW s \in Seq(S), NEW t \in Seq(S), NEW m \in 1 .. Len(s)
    PROVE  SubSeq(s \o t, 1, m) = SubSeq(s, 1, m)
BY SubSeqOfConcat1

(* A character moved over the border of two sequences.                     *)
LEMMA MoveHead ==
    ASSUME NEW S, NEW s \in Seq(S), NEW t \in Seq(S), t # <<>>
    PROVE  Append(s, Head(t)) \o Tail(t) = s \o t
<1>1. Head(t) \in S /\ Tail(t) \in Seq(S) /\ <<Head(t)>> \in Seq(S)
  BY HeadTailProperties
<1>2. Len(t) \in Nat \ {0} /\ t = SubSeq(t, 1, Len(t))
  BY EmptySeq, SubSeqFull
<1>3. t = <<t[1]>> \o SubSeq(t, 2, Len(t))
  BY <1>2, SubSeqRecursiveFirst
<1>4. t = <<Head(t)>> \o Tail(t)
  BY <1>3, TailIsSubSeq
<1>5. Append(s, Head(t)) = s \o <<Head(t)>>
  BY <1>1, AppendIsConcat
<1>6. (s \o <<Head(t)>>) \o Tail(t) = s \o (<<Head(t)>> \o Tail(t))
  BY <1>1, ConcatAssociative
<1> QED
  BY <1>4, <1>5, <1>6

-----------------------------------------------------------------------------
(* Rings.  The place of the character k in a ring, counted from an index.  *)
Place(from, k) == IF from + k - 1 < BufLen THEN from + k - 1 ELSE from + k - 1 - BufLen

LEMMA RingShape ==
    ASSUME NEW buf \in [Slots -> Chars], NEW from \in Slots, NEW to \in Slots
    PROVE  /\ Used(from, to) \in 0 .. BufLen - 1
           /\ Ring(buf, from, to) \in Seq(Chars)
           /\ Len(Ring(buf, from, to)) = Used(from, to)
           /\ \A k \in 1 .. Used(from, to) :
                 Place(from, k) \in Slots /\ Ring(buf, from, to)[k] = buf[Place(from, k)]
<1>1. BufLen \in Nat /\ BufLen >= 2
  BY JtagUartAssumption
<1>2. Used(from, to) \in 0 .. BufLen - 1
  BY <1>1 DEF Used, Slots
<1>3. ASSUME NEW k \in 1 .. Used(from, to)
      PROVE  Place(from, k) \in Slots /\ (from + k - 1) % BufLen = Place(from, k)
  <2> DEFINE j == from + k - 1
  <2>1. j \in 0 .. 2 * BufLen - 1 /\ from + k - 1 = j
    BY <1>1, <1>2, <1>3 DEF Slots
  <2> HIDE DEF j
  <2>2. j < BufLen => j % BufLen = j
    BY <1>1, <2>1
  <2>3. j >= BufLen => j % BufLen = j - BufLen
    BY <1>1, <2>1
  <2> QED
    BY <1>1, <2>1, <2>2, <2>3 DEF Place, Slots
<1> DEFINE m == Used(from, to)
<1>4. Ring(buf, from, to) = [k \in 1 .. m |-> buf[(from + k - 1) % BufLen]]
  BY DEF Ring
<1>5. \A k \in 1 .. m : buf[(from + k - 1) % BufLen] \in Chars
  BY <1>3
<1> QED
  BY <1>2, <1>3, <1>4, <1>5

(* Characters put in at one end.                                           *)
Fits(from, to, m) == /\ m >= 1 /\ to + m <= BufLen
                     /\ from <= to \/ from > to + m
                     /\ from = 0 => to + m < BufLen
Written(new, buf, to, p) ==
    \A k \in Slots : new[k] = IF k \in to .. to + Len(p) - 1 THEN p[k - to + 1] ELSE buf[k]

LEMMA RingAppend ==
    ASSUME NEW buf \in [Slots -> Chars], NEW from \in Slots, NEW to \in Slots,
           NEW p \in Seq(Chars), Fits(from, to, Len(p)),
           NEW new \in [Slots -> Chars], Written(new, buf, to, p)
    PROVE  /\ (to + Len(p)) % BufLen \in Slots
           /\ Ring(new, from, (to + Len(p)) % BufLen) = Ring(buf, from, to) \o p
<1> USE DEF Fits, Written
<1> DEFINE n1 == Len(p)  e == (to + n1) % BufLen
<1>0. /\ BufLen \in Nat /\ BufLen >= 2 /\ n1 \in Nat
      /\ from \in 0 .. BufLen - 1 /\ to \in 0 .. BufLen - 1 /\ p \in Seq(Chars)
  BY JtagUartAssumption, LenProperties DEF Slots
<1>1. e = IF to + n1 = BufLen THEN 0 ELSE to + n1
  <2> DEFINE j == to + n1
  <2>1. j \in 0 .. BufLen
    BY <1>0
  <2> HIDE DEF j
  <2>2. (j < BufLen => j % BufLen = j) /\ (j = BufLen => j % BufLen = 0)
    BY <1>0, <2>1, WrapIndex
  <2>3. j % BufLen = IF j = BufLen THEN 0 ELSE j
    BY <1>0, <2>1, <2>2
  <2> QED
    BY <2>3 DEF j
<1>2. e \in Slots
  BY <1>0, <1>1 DEF Slots
<1> HIDE DEF e
<1>3. Used(from, e) = Used(from, to) + n1
  BY <1>0, <1>1 DEF Used
<1>4. /\ Used(from, to) \in 0 .. BufLen - 1
      /\ Ring(buf, from, to) \in Seq(Chars) /\ Len(Ring(buf, from, to)) = Used(from, to)
      /\ \A k \in 1 .. Used(from, to) :
            Place(from, k) \in Slots /\ Ring(buf, from, to)[k] = buf[Place(from, k)]
  BY RingShape
<1>5. /\ Used(from, e) \in 0 .. BufLen - 1
      /\ Ring(new, from, e) \in Seq(Chars) /\ Len(Ring(new, from, e)) = Used(from, e)
      /\ \A k \in 1 .. Used(from, e) :
            Place(from, k) \in Slots /\ Ring(new, from, e)[k] = new[Place(from, k)]
  BY <1>2, RingShape, ZenonT(60)
<1>6. /\ Ring(buf, from, to) \o p \in Seq(Chars)
      /\ Len(Ring(buf, from, to) \o p) = Used(from, to) + n1
      /\ \A i \in 1 .. Used(from, to) + n1 :
            (Ring(buf, from, to) \o p)[i] =
               IF i <= Used(from, to) THEN Ring(buf, from, to)[i] ELSE p[i - Used(from, to)]
  <2> DEFINE r == Ring(buf, from, to)
  <2>1. r \in Seq(Chars) /\ Len(r) = Used(from, to)
    BY <1>4
  <2> HIDE DEF r
  <2>2. /\ r \o p \in Seq(Chars) /\ Len(r \o p) = Len(r) + Len(p)
        /\ \A i \in 1 .. Len(r) + Len(p) : (r \o p)[i] = IF i <= Len(r) THEN r[i] ELSE p[i - Len(r)]
    BY ONLY <1>0, <2>1, ConcatProperties
  <2> QED
    BY <2>1, <2>2 DEF r
<1>7. ASSUME NEW k \in 1 .. Used(from, to) + n1
      PROVE  Ring(new, from, e)[k] = (Ring(buf, from, to) \o p)[k]
  <2>1. Ring(new, from, e)[k] = new[Place(from, k)] /\ Place(from, k) \in Slots
    BY <1>3, <1>5
  <2>2. CASE k <= Used(from, to)
    <3>1. Place(from, k) \notin to .. to + n1 - 1
      BY <1>0, <1>1, <1>4, <2>2 DEF Used, Place
    <3>2. new[Place(from, k)] = buf[Place(from, k)]
      BY <2>1, <3>1
    <3>3. Ring(buf, from, to)[k] = buf[Place(from, k)]
      BY <1>4, <2>2
    <3> QED
      BY <1>6, <2>1, <2>2, <3>2, <3>3
  <2>3. CASE k > Used(from, to)
    <3>1. /\ Place(from, k) \in to .. to + n1 - 1
          /\ Place(from, k) - to + 1 = k - Used(from, to)
      BY <1>0, <1>1, <1>4, <2>3 DEF Used, Place
    <3>2. new[Place(from, k)] = p[k - Used(from, to)]
      BY <2>1, <3>1
    <3> QED
      BY <1>4, <1>6, <2>1, <2>3, <3>2
  <2> QED
    BY <1>0, <1>4, <2>2, <2>3
<1>8. Ring(new, from, e) = Ring(buf, from, to) \o p
  BY <1>3, <1>5, <1>6, <1>7, SeqEqual
<1> QED
  BY <1>2, <1>8 DEF e

LEMMA RingPush ==
    ASSUME NEW buf \in [Slots -> Chars], NEW from \in Slots, NEW to \in Slots,
           NEW c \in Chars, (to + 1) % BufLen # from
    PROVE  Ring([buf EXCEPT ![to] = c], from, (to + 1) % BufLen)
              = Append(Ring(buf, from, to), c)
<1> DEFINE p == <<c>>  new == [buf EXCEPT ![to] = c]
<1>1. p \in Seq(Chars) /\ Len(p) = 1 /\ p[1] = c /\ new \in [Slots -> Chars]
  OBVIOUS
<1>2. BufLen \in Nat /\ BufLen >= 2 /\ from \in 0 .. BufLen - 1 /\ to \in 0 .. BufLen - 1
  BY JtagUartAssumption DEF Slots
<1>3. (to + 1) % BufLen = IF to + 1 = BufLen THEN 0 ELSE to + 1
  BY AfterIndex DEF After
<1>4. Fits(from, to, Len(p))
  BY <1>1, <1>2, <1>3 DEF Fits
<1>5. Written(new, buf, to, p)
  <2> SUFFICES ASSUME NEW k \in Slots
               PROVE  new[k] = IF k \in to .. to + 1 - 1 THEN p[k - to + 1] ELSE buf[k]
    BY <1>1 DEF Written
  <2>1. k \in to .. to + 1 - 1 <=> k = to
    BY <1>2 DEF Slots
  <2> QED
    BY <1>1, <1>2, <2>1
<1>6. Ring(buf, from, to) \in Seq(Chars)
  BY RingShape
<1> HIDE DEF p, new
<1>7. Ring(new, from, (to + Len(p)) % BufLen) = Ring(buf, from, to) \o p
  BY <1>1, <1>4, <1>5, RingAppend, ZenonT(60)
<1>8. Ring(new, from, (to + 1) % BufLen) = Ring(buf, from, to) \o p
  BY <1>1, <1>7
<1>9. Append(Ring(buf, from, to), c) = Ring(buf, from, to) \o p
  BY <1>6, AppendIsConcat DEF p
<1> QED
  BY <1>8, <1>9 DEF new

(* Characters taken out at the other: a stretch without a wrap.            *)
LEMMA RingTake ==
    ASSUME NEW buf \in [Slots -> Chars], NEW from \in Slots, NEW to \in Slots,
           NEW m \in 1 .. Used(from, to), from + m <= BufLen
    PROVE  /\ (from + m) % BufLen \in Slots
           /\ Ring(buf, (from + m) % BufLen, to) = Drop(Ring(buf, from, to), m)
           /\ SubSeq(Ring(buf, from, to), 1, m) = [k \in 1 .. m |-> buf[from + k - 1]]
           /\ [k \in 1 .. m |-> buf[from + k - 1]] \in Seq(Chars)
<1> DEFINE f == (from + m) % BufLen  r == Ring(buf, from, to)  u == Used(from, to)
<1>0. /\ BufLen \in Nat /\ BufLen >= 2 /\ from \in 0 .. BufLen - 1 /\ to \in 0 .. BufLen - 1
      /\ u \in 0 .. BufLen - 1 /\ m \in 1 .. u
  BY JtagUartAssumption, RingShape DEF Slots
<1>1. f = IF from + m = BufLen THEN 0 ELSE from + m
  <2> DEFINE j == from + m
  <2>1. j \in 0 .. BufLen
    BY <1>0
  <2> HIDE DEF j
  <2>2. (j < BufLen => j % BufLen = j) /\ (j = BufLen => j % BufLen = 0)
    BY <1>0, <2>1, WrapIndex
  <2>3. j % BufLen = IF j = BufLen THEN 0 ELSE j
    BY <1>0, <2>1, <2>2
  <2> QED
    BY <2>3 DEF j
<1>2. f \in Slots
  BY <1>0, <1>1 DEF Slots
<1> HIDE DEF f
<1>3. Used(f, to) = u - m
  BY <1>0, <1>1 DEF Used
<1>4. /\ r \in Seq(Chars) /\ Len(r) = u
      /\ \A k \in 1 .. u : Place(from, k) \in Slots /\ r[k] = buf[Place(from, k)]
  BY RingShape
<1>5. /\ Ring(buf, f, to) \in Seq(Chars) /\ Len(Ring(buf, f, to)) = Used(f, to)
      /\ \A k \in 1 .. Used(f, to) : Ring(buf, f, to)[k] = buf[Place(f, k)]
  BY <1>2, RingShape
<1> HIDE DEF r, u
<1>6. /\ Drop(r, m) \in Seq(Chars) /\ Len(Drop(r, m)) = u - m
      /\ \A i \in 1 .. u - m : Drop(r, m)[i] = r[i + m]
  <2>1. m \in 0 .. Len(r) /\ r \in Seq(Chars)
    BY <1>0, <1>4
  <2> QED
    BY ONLY <1>4, <2>1, DropShape
<1>7. ASSUME NEW k \in 1 .. u - m PROVE Ring(buf, f, to)[k] = Drop(r, m)[k]
  <2>1. Place(f, k) = Place(from, k + m)
    BY <1>0, <1>1 DEF Place
  <2>2. k + m \in 1 .. u
    BY <1>0
  <2> QED
    BY <1>3, <1>4, <1>5, <1>6, <2>1, <2>2
<1>8. Ring(buf, f, to) = Drop(r, m)
  BY <1>3, <1>5, <1>6, <1>7, SeqEqual
<1>9. /\ SubSeq(r, 1, m) \in Seq(Chars) /\ Len(SubSeq(r, 1, m)) = m
      /\ \A i \in 1 .. m : SubSeq(r, 1, m)[i] = r[i]
  <2>1. \A i \in 1 .. m : r[i] \in Chars
    BY <1>0, <1>4, ElementOfSeq
  <2>2. /\ SubSeq(r, 1, m) \in Seq(Chars)
        /\ Len(SubSeq(r, 1, m)) = IF 1 <= m THEN m - 1 + 1 ELSE 0
        /\ \A i \in 1 .. m - 1 + 1 : SubSeq(r, 1, m)[i] = r[1 + i - 1]
    BY <1>0, <2>1, SubSeqProperties
  <2> QED
    BY <1>0, <2>2
<1> DEFINE c == [k \in 1 .. m |-> buf[from + k - 1]]
<1>10. c \in Seq(Chars) /\ Len(c) = m /\ \A k \in 1 .. m : c[k] = buf[from + k - 1]
  <2>1. \A k \in 1 .. m : from + k - 1 \in Slots
    BY <1>0 DEF Slots
  <2> QED
    BY <1>0, <2>1
<1>11. \A k \in 1 .. m : Place(from, k) = from + k - 1 /\ k \in 1 .. u
  BY <1>0 DEF Place
<1>12. \A k \in 1 .. m : SubSeq(r, 1, m)[k] = c[k]
  BY <1>4, <1>9, <1>10, <1>11
<1> HIDE DEF c
<1>13. SubSeq(r, 1, m) = c
  BY <1>9, <1>10, <1>12, SeqEqual
<1> QED
  BY <1>2, <1>8, <1>10, <1>13 DEF f, r, c

-----------------------------------------------------------------------------
(* Reception.  The ring and what of it a reader has copied already.        *)
RxRing == Ring(rx_buf, rx_out, rx_in)
Copied == IF pc = "r_update" THEN n ELSE 0

LEMMA Sizes ==
    /\ BufLen \in Nat /\ BufLen >= 2 /\ FifoLen \in Nat \ {0}
    /\ \A i \in Slots : i \in 0 .. BufLen - 1
BY JtagUartAssumption DEF Slots

LEMMA RxShape ==
    ASSUME Inv
    PROVE  /\ rx_buf \in [Slots -> Chars] /\ rx_out \in Slots /\ rx_in \in Slots
           /\ RxRing \in Seq(Chars) /\ Len(RxRing) = Used(rx_out, rx_in)
           /\ Used(rx_out, rx_in) \in 0 .. BufLen - 1
           /\ rx_fifo \in Seq(Chars) /\ Len(rx_fifo) \in 0 .. FifoLen
           /\ Copied \in 0 .. Len(RxRing)
           /\ pc \in {"r_copy", "r_update"} =>
                 out = rx_out /\ n \in 1 .. Used(rx_out, rx_in) /\ out + n <= BufLen
           /\ RxQueue = Drop(RxRing \o rx_fifo, Copied)
<1>1. /\ rx_buf \in [Slots -> Chars] /\ rx_out \in Slots /\ rx_in \in Slots
      /\ rx_fifo \in Seq(Chars) /\ Len(rx_fifo) <= FifoLen /\ n \in 0 .. BufLen - 1
  BY DEF Inv, TypeOK, DriverTypes, DeviceTypes, ProgramTypes
<1>2. /\ RxRing \in Seq(Chars) /\ Len(RxRing) = Used(rx_out, rx_in)
      /\ Used(rx_out, rx_in) \in 0 .. BufLen - 1
  BY <1>1, RingShape DEF RxRing
<1>3. pc \in {"r_copy", "r_update"} =>
         out = rx_out /\ n \in 1 .. Used(rx_out, rx_in) /\ out + n <= BufLen
  BY <1>1, Sizes DEF Inv, Reading, Used
<1>4. Copied \in 0 .. Len(RxRing)
  BY <1>2, <1>3 DEF Copied
<1>5. Len(rx_fifo) \in 0 .. FifoLen
  BY <1>1, Sizes, LenProperties
<1> QED
  BY <1>1, <1>2, <1>3, <1>4, <1>5 DEF RxQueue, RxRing, Copied

(* A reader has copied a piece: it is out of the queue from now on.        *)
LEMMA ReadCopyGets ==
    ASSUME Inv, ReadCopy, UNCHANGED <<device, sent>>
    PROVE  Rx!Get
<1> DEFINE q == RxRing \o rx_fifo
<1>1. /\ pc = "r_copy" /\ pc' = "r_update" /\ n' = n /\ out' = out /\ rx_buf' = rx_buf
      /\ rx_in' = rx_in /\ rx_out' = rx_out /\ rx_fifo' = rx_fifo /\ sent' = sent
      /\ got' = [k \in 1 .. n |-> rx_buf[out + k - 1]]
  BY DEF ReadCopy, device, rings, rx_ring
<1>2. /\ RxRing \in Seq(Chars) /\ Len(RxRing) = Used(rx_out, rx_in) /\ rx_fifo \in Seq(Chars)
      /\ out = rx_out /\ n \in 1 .. Used(rx_out, rx_in) /\ out + n <= BufLen
      /\ rx_buf \in [Slots -> Chars] /\ rx_out \in Slots /\ rx_in \in Slots
  BY <1>1, RxShape
<1>3. q \in Seq(Chars) /\ Len(q) = Len(RxRing) + Len(rx_fifo)
  BY <1>2, ConcatProperties
<1>4. RxQueue = q
  BY <1>1, <1>3, DropNothing DEF RxQueue, RxRing
<1>5. RxQueue' = SubSeq(q, n + 1, Len(q))
  BY <1>1 DEF RxQueue, RxRing, Drop
<1>6. got' = SubSeq(RxRing, 1, n)
  <2>1. rx_out + n <= BufLen
    BY <1>2
  <2>2. SubSeq(Ring(rx_buf, rx_out, rx_in), 1, n) = [k \in 1 .. n |-> rx_buf[rx_out + k - 1]]
    BY ONLY <1>2, <2>1, RingTake
  <2> QED
    BY ONLY <1>1, <1>2, <2>2 DEF RxRing
<1>7. SubSeq(q, 1, n) = SubSeq(RxRing, 1, n)
  BY <1>2, FirstConcat
<1>8. n \in 1 .. Len(q)
  BY <1>2, <1>3, LenProperties
<1> QED
  BY <1>1, <1>4, <1>5, <1>6, <1>7, <1>8 DEF Rx!Get

(* The new index only confirms it.                                         *)
LEMMA ReadUpdateKeeps ==
    ASSUME Inv, ReadUpdate, UNCHANGED device
    PROVE  RxQueue' = RxQueue
<1>1. /\ pc = "r_update" /\ pc' # "r_update" /\ rx_buf' = rx_buf /\ rx_in' = rx_in
      /\ rx_out' = (out + n) % BufLen /\ rx_fifo' = rx_fifo
  BY DEF ReadUpdate, device
<1>2. /\ RxRing \in Seq(Chars) /\ Len(RxRing) = Used(rx_out, rx_in) /\ rx_fifo \in Seq(Chars)
      /\ out = rx_out /\ n \in 1 .. Used(rx_out, rx_in) /\ out + n <= BufLen
      /\ rx_buf \in [Slots -> Chars] /\ rx_out \in Slots /\ rx_in \in Slots
      /\ Used(rx_out, rx_in) \in 0 .. BufLen - 1
  BY <1>1, RxShape
<1>3. RxRing' = Drop(RxRing, n)
  BY <1>1, <1>2, RingTake DEF RxRing
<1>4. n \in 0 .. Len(RxRing)
  BY <1>2
<1>5. Drop(RxRing \o rx_fifo, n) = Drop(RxRing, n) \o rx_fifo /\ Drop(RxRing, n) \in Seq(Chars)
  BY <1>2, <1>4, DropConcat, DropShape
<1>6. RxQueue = RxRing' \o rx_fifo
  BY <1>1, <1>3, <1>5 DEF RxQueue, RxRing
<1>7. RxRing' \o rx_fifo \in Seq(Chars)
  BY <1>2, <1>3, <1>5, ConcatProperties
<1>8. RxQueue' = RxRing' \o rx_fifo
  BY <1>1, <1>7, DropNothing DEF RxQueue, RxRing
<1> QED
  BY <1>6, <1>8

(* The routine moves a character from the FIFO to the ring.                *)
LEMMA IsrReceiveKeeps ==
    ASSUME Inv, IsrReceive, UNCHANGED program
    PROVE  RxQueue' = RxQueue
<1> DEFINE h == Head(rx_fifo)
<1>1. /\ pc' = pc /\ n' = n /\ rx_out' = rx_out /\ rx_fifo # <<>>
      /\ rx_buf' = [rx_buf EXCEPT ![rx_in] = h] /\ rx_fifo' = Tail(rx_fifo)
      /\ rx_in' = (rx_in + 1) % BufLen /\ (rx_in + 1) % BufLen # rx_out
  BY DEF IsrReceive, program, RxFull, After
<1>2. /\ RxRing \in Seq(Chars) /\ rx_fifo \in Seq(Chars)
      /\ rx_buf \in [Slots -> Chars] /\ rx_out \in Slots /\ rx_in \in Slots
  BY RxShape
<1>3. h \in Chars
  BY <1>1, <1>2, HeadTailProperties
<1>4. Ring([rx_buf EXCEPT ![rx_in] = h], rx_out, (rx_in + 1) % BufLen)
         = Append(Ring(rx_buf, rx_out, rx_in), h)
  BY <1>1, <1>2, <1>3, RingPush
<1>5. RxRing' = Append(RxRing, h)
  BY <1>1, <1>4 DEF RxRing
<1>6. RxRing' \o rx_fifo' = RxRing \o rx_fifo
  BY <1>1, <1>2, <1>5, MoveHead
<1> QED
  BY <1>1, <1>6 DEF RxQueue, RxRing

(* The host sends a character.                                             *)
LEMMA HostSendPuts ==
    ASSUME Inv, HostSend
    PROVE  Rx!Put
<1> DEFINE q == RxRing \o rx_fifo
<1>1. PICK c \in use.chars : rx_fifo' = Append(rx_fifo, c) /\ sent' = <<c>>
  BY DEF HostSend
<1>2. /\ pc' = pc /\ n' = n /\ rx_out' = rx_out /\ rx_buf' = rx_buf /\ rx_in' = rx_in
      /\ got' = got /\ Len(rx_fifo) < FifoLen
  BY DEF HostSend, program, rings, rx_ring
<1>3. /\ RxRing \in Seq(Chars) /\ Len(RxRing) \in 0 .. BufLen - 1 /\ rx_fifo \in Seq(Chars)
      /\ Len(rx_fifo) \in 0 .. FifoLen /\ Copied \in 0 .. Len(RxRing)
      /\ RxQueue = Drop(q, Copied)
  BY RxShape
<1>4. c \in Chars /\ <<c>> \in Seq(Chars) /\ <<c>> \in [1 .. 1 -> Chars]
  <2>1. use \in Uses
    BY DEF Inv, TypeOK, DeviceTypes
  <2>2. c \in Chars
    BY <1>1, <2>1, UsedChars
  <2> QED
    BY <2>2
<1>5. q \in Seq(Chars) /\ Len(q) = Len(RxRing) + Len(rx_fifo)
  BY <1>3, ConcatProperties
<1>6. RxRing \o rx_fifo' = q \o <<c>>
  <2>1. rx_fifo' = rx_fifo \o <<c>>
    BY <1>1, <1>3, <1>4, AppendIsConcat
  <2> QED
    BY <1>3, <1>4, <2>1, ConcatAssociative
<1> HIDE DEF q
<1>7. Copied \in 0 .. Len(q)
  BY <1>3, <1>5
<1>8. Drop(q \o <<c>>, Copied) = Drop(q, Copied) \o <<c>> /\ Len(Drop(q, Copied)) = Len(q) - Copied
  BY <1>4, <1>5, <1>7, DropConcat, DropShape
<1>9. RxQueue' = RxQueue \o sent'
  BY <1>1, <1>2, <1>3, <1>6, <1>8 DEF RxQueue, RxRing, Copied
<1>10. 1 \in 1 .. (BufLen - 1 + FifoLen) - Len(RxQueue)
  BY <1>2, <1>3, <1>5, <1>8, Sizes
<1> QED
  BY <1>1, <1>2, <1>4, <1>9, <1>10 DEF Rx!Put

(* Every other step leaves the queue alone.                                *)
RxQuiet == /\ UNCHANGED <<rx_ring, rx_fifo, sent, got>>
           /\ UNCHANGED <<pc, n>> \/ (pc # "r_update" /\ pc' # "r_update")

LEMMA RxQuietKeeps ==
    ASSUME RxQuiet PROVE UNCHANGED <<RxQueue, sent, got>>
BY DEF RxQuiet, RxQueue, rx_ring

LEMMA RxProgram ==
    ASSUME Program
    PROVE  RxQuiet \/ ReadCopy \/ ReadUpdate
<1> USE DEF Program, RxQuiet, rings, rx_ring, device, link
<1>1. CASE Reader
  BY <1>1 DEF Reader, ReadSnap, ReadSpin, ReadCheck, ReadEnable
<1>2. CASE Writer
  BY <1>2 DEF Writer, WriteSnap, WriteCopy, WriteUpdate, WriteKick, WriteSpin, WriteCheck
<1>3. CASE CloseWait \/ Read \/ Write \/ Close
  BY <1>3 DEF CloseWait, Read, Write, Close
<1>4. CASE SetTimeout
  BY <1>4 DEF SetTimeout, program
<1> QED
  BY <1>1, <1>2, <1>3, <1>4

LEMMA RxOthers ==
    ASSUME Routine \/ Alarm \/ HostPause \/ HostTake \/ HostPlug \/ UNCHANGED vars
    PROVE  RxQuiet \/ (IsrReceive /\ UNCHANGED <<program, sent, got>>)
<1> USE DEF RxQuiet, rings, rx_ring, device, program, history
<1>1. CASE Routine
  BY <1>1 DEF Routine, Interrupt, IsrControl, IsrReceiveEnd, IsrTransmit, IsrTransmitEnd
<1>2. CASE Alarm
  BY <1>2 DEF Alarm
<1>3. CASE HostTake
  BY <1>3 DEF HostTake
<1>4. CASE HostPlug \/ HostPause
  BY <1>4 DEF HostPlug, HostPause
<1>5. CASE UNCHANGED vars
  BY <1>5 DEF vars
<1> QED
  BY <1>1, <1>2, <1>3, <1>4, <1>5

(* What the host sends is what read returns: reception implements a queue  *)
(* of the size of ring and FIFO, whatever interrupts what.                 *)
THEOREM ReceiveImplemented == Spec => ReceivesInOrder
<1>1. Init => Rx!Init
  <2> SUFFICES ASSUME Init PROVE RxQueue = <<>> /\ sent = <<>> /\ got = <<>>
    BY DEF Rx!Init
  <2>1. RxRing = <<>> /\ rx_fifo = <<>>
    BY DEF Init, RxRing, Ring, Used
  <2>2. RxRing \o rx_fifo = <<>> /\ <<>> \in Seq(Chars)
    BY <2>1
  <2> QED
    BY <2>2, DropNothing DEF Init, RxQueue, RxRing
<1>2. Inv /\ [Next]_vars => [Rx!Next]_(Rx!vars)
  <2> SUFFICES ASSUME Inv, [Next]_vars PROVE Rx!Next \/ UNCHANGED <<RxQueue, sent, got>>
    BY DEF Rx!vars
  <2>1. CASE RxQuiet
    BY <2>1, RxQuietKeeps
  <2>2. CASE Program /\ ReadCopy
    BY <2>2, ReadCopyGets DEF Program, Rx!Next
  <2>3. CASE Program /\ ReadUpdate
    BY <2>3, ReadUpdateKeeps DEF Program, ReadUpdate
  <2>4. CASE IsrReceive /\ UNCHANGED <<program, sent, got>>
    BY <2>4, IsrReceiveKeeps
  <2>5. CASE HostSend
    BY <2>5, HostSendPuts DEF Rx!Next
  <2> QED
    BY <2>1, <2>2, <2>3, <2>4, <2>5, RxProgram, RxOthers DEF Next
<1> QED
  BY <1>1, <1>2, InvCorrect, PTL DEF Spec, ReceivesInOrder, Rx!Spec

-----------------------------------------------------------------------------
(* Transmission.  A writer's characters are in the ring from its copy on,  *)
(* although the index says so only one step later.                         *)
LEMMA RingPop ==
    ASSUME NEW buf \in [Slots -> Chars], NEW from \in Slots, NEW to \in Slots, from # to
    PROVE  /\ Ring(buf, from, to) # <<>> /\ Head(Ring(buf, from, to)) = buf[from]
           /\ Ring(buf, (from + 1) % BufLen, to) = Tail(Ring(buf, from, to))
<1> DEFINE r == Ring(buf, from, to)
<1>1. BufLen \in Nat /\ BufLen >= 2 /\ from \in 0 .. BufLen - 1 /\ to \in 0 .. BufLen - 1
  BY JtagUartAssumption DEF Slots
<1>2. 1 \in 1 .. Used(from, to) /\ from + 1 <= BufLen
  BY <1>1 DEF Used
<1>3. /\ r \in Seq(Chars) /\ Len(r) = Used(from, to)
      /\ \A k \in 1 .. Used(from, to) : Place(from, k) \in Slots /\ r[k] = buf[Place(from, k)]
  BY RingShape
<1>4. Ring(buf, (from + 1) % BufLen, to) = Drop(r, 1)
  BY <1>2, RingTake
<1> HIDE DEF r
<1>5. r # <<>>
  BY <1>2, <1>3, EmptySeq
<1>6. r[1] = buf[Place(from, 1)] /\ Place(from, 1) = from
  BY <1>1, <1>2, <1>3 DEF Place
<1>7. Head(r) = r[1] /\ Tail(r) = SubSeq(r, 2, Len(r))
  BY <1>3, <1>5, TailIsSubSeq
<1> QED
  BY <1>4, <1>5, <1>6, <1>7 DEF r, Drop

TxEnd == IF pc = "w_update" THEN (in + n) % BufLen ELSE tx_in
TxRing == Ring(tx_buf, tx_out, TxEnd)

LEMMA TxShape ==
    ASSUME Inv
    PROVE  /\ tx_buf \in [Slots -> Chars] /\ tx_out \in Slots /\ tx_in \in Slots
           /\ in \in Slots /\ n \in 0 .. BufLen - 1 /\ data \in Seq(Chars)
           /\ TxEnd \in Slots /\ (tx_out # tx_in => tx_out # TxEnd)
           /\ TxRing \in Seq(Chars) /\ Len(TxRing) \in 0 .. BufLen - 1
           /\ tx_fifo \in Seq(Chars) /\ Len(tx_fifo) \in 0 .. FifoLen
           /\ pc = "w_copy" => in = tx_in /\ Fits(tx_out, in, n) /\ n <= Len(data)
           /\ TxQueue = tx_fifo \o TxRing
<1>1. /\ tx_buf \in [Slots -> Chars] /\ tx_out \in Slots /\ tx_in \in Slots
      /\ in \in Slots /\ n \in 0 .. BufLen - 1 /\ data \in Seq(Chars)
      /\ tx_fifo \in Seq(Chars) /\ Len(tx_fifo) <= FifoLen
  BY DEF Inv, TypeOK, DriverTypes, DeviceTypes, ProgramTypes
<1>2. pc \in {"w_copy", "w_update"} => in = tx_in /\ Fits(tx_out, in, n)
  BY DEF Inv, Writing, Fits
<1>3. pc = "w_copy" => n <= Len(data)
  BY DEF Inv, Writing
<1>4. TxEnd \in Slots /\ (tx_out # tx_in => tx_out # TxEnd)
  <2>1. CASE pc = "w_update"
    <3> DEFINE j == in + n
    <3>1. Fits(tx_out, in, n) /\ TxEnd = j % BufLen /\ j = in + n
      BY <1>2, <2>1 DEF TxEnd
    <3>2. j \in 0 .. BufLen
      BY <1>1, <3>1, JtagUartAssumption DEF Fits, Slots
    <3> HIDE DEF j
    <3>3. j % BufLen \in 0 .. BufLen - 1 /\ (j < BufLen => j % BufLen = j)
          /\ (j = BufLen => j % BufLen = 0)
      BY <3>2, Sizes, WrapIndex
    <3>4. TxEnd = IF j = BufLen THEN 0 ELSE j
      BY <3>1, <3>2, <3>3, Sizes
    <3> QED
      BY <1>1, <3>1, <3>2, <3>3, <3>4, Sizes DEF Fits, Slots
  <2>2. CASE pc # "w_update"
    BY <1>1, <2>2 DEF TxEnd
  <2> QED
    BY <2>1, <2>2
<1>5. TxRing \in Seq(Chars) /\ Len(TxRing) \in 0 .. BufLen - 1
  BY <1>1, <1>4, RingShape, ZenonT(60) DEF TxRing
<1>6. Len(tx_fifo) \in 0 .. FifoLen
  BY <1>1, Sizes, LenProperties
<1> QED
  BY <1>1, <1>2, <1>3, <1>4, <1>5, <1>6 DEF TxQueue, TxRing, TxEnd

(* A writer has copied a piece: it is in the queue from now on.            *)
LEMMA WriteCopyPuts ==
    ASSUME Inv, WriteCopy, UNCHANGED <<device, taken>>
    PROVE  Tx!Put
<1> DEFINE p == SubSeq(data, 1, n)
           new == [k \in Slots |-> IF k \in in .. in + n - 1 THEN data[k - in + 1] ELSE tx_buf[k]]
<1>1. /\ pc = "w_copy" /\ pc' = "w_update" /\ in' = in /\ n' = n /\ tx_out' = tx_out
      /\ tx_fifo' = tx_fifo /\ taken' = taken /\ given' = p /\ tx_buf' = new
  BY DEF WriteCopy, device
<1>2. /\ tx_buf \in [Slots -> Chars] /\ tx_out \in Slots /\ in \in Slots /\ in = tx_in
      /\ n \in 0 .. BufLen - 1 /\ Fits(tx_out, in, n) /\ data \in Seq(Chars) /\ n <= Len(data)
      /\ TxRing \in Seq(Chars) /\ Len(TxRing) \in 0 .. BufLen - 1
      /\ tx_fifo \in Seq(Chars) /\ Len(tx_fifo) \in 0 .. FifoLen
      /\ TxQueue = tx_fifo \o TxRing
  BY <1>1, TxShape
<1>3. n \in Nat \ {0} /\ n <= Len(data) /\ Len(data) \in Nat
  BY <1>2, Sizes, LenProperties DEF Fits
<1>4. p \in Seq(Chars) /\ Len(p) = n /\ \A i \in 1 .. n : p[i] = data[i]
  <2>1. \A i \in 1 .. n : data[i] \in Chars
    BY <1>2, <1>3, ElementOfSeq
  <2>2. /\ SubSeq(data, 1, n) \in Seq(Chars)
        /\ Len(SubSeq(data, 1, n)) = IF 1 <= n THEN n - 1 + 1 ELSE 0
        /\ \A i \in 1 .. n - 1 + 1 : SubSeq(data, 1, n)[i] = data[1 + i - 1]
    BY <1>3, <2>1, SubSeqProperties
  <2> QED
    BY <1>3, <2>2
<1> HIDE DEF p
<1>5. ASSUME NEW k \in Slots
      PROVE  /\ new[k] \in Chars
             /\ new[k] = IF k \in in .. in + Len(p) - 1 THEN p[k - in + 1] ELSE tx_buf[k]
  <2>1. k \in in .. in + n - 1 => k - in + 1 \in 1 .. n
    BY <1>2, <1>3, Sizes
  <2>2. k - in + 1 \in 1 .. n => data[k - in + 1] = p[k - in + 1] /\ data[k - in + 1] \in Chars
    BY <1>2, <1>3, <1>4, ElementOfSeq
  <2> QED
    BY <1>2, <1>4, <2>1, <2>2
<1>6. new \in [Slots -> Chars] /\ Written(new, tx_buf, in, p)
  BY <1>5 DEF Written
<1> HIDE DEF new
<1>7. TxRing = Ring(tx_buf, tx_out, in)
  BY <1>1, <1>2 DEF TxRing, TxEnd
<1>8. /\ (in + Len(p)) % BufLen \in Slots
      /\ Ring(new, tx_out, (in + Len(p)) % BufLen) = Ring(tx_buf, tx_out, in) \o p
  <2>1. Fits(tx_out, in, Len(p)) /\ p \in Seq(Chars)
    BY <1>2, <1>4
  <2>2. tx_buf \in [Slots -> Chars] /\ tx_out \in Slots /\ in \in Slots
    BY <1>2
  <2> QED
    BY <1>6, <2>1, <2>2, RingAppend
<1>9. TxRing' = TxRing \o p
  BY <1>1, <1>4, <1>7, <1>8 DEF TxRing, TxEnd
<1>10. TxQueue' = tx_fifo \o (TxRing \o p)
  BY <1>1, <1>9 DEF TxQueue, TxRing, TxEnd
<1>11. TxQueue' = TxQueue \o given'
  <2>0. tx_fifo \in Seq(Chars) /\ TxRing \in Seq(Chars) /\ p \in Seq(Chars)
    BY <1>2, <1>4
  <2>1. tx_fifo \o (TxRing \o p) = (tx_fifo \o TxRing) \o p
    BY <2>0, ConcatAssociative, SMTT(40)
  <2> QED
    BY <1>1, <1>2, <1>10, <2>1
<1>12. Len(TxRing) + n <= BufLen - 1
  <2> DEFINE e == (in + Len(p)) % BufLen
  <2>0. e \in Slots
    BY <1>8
  <2> HIDE DEF e
  <2>1. Len(Ring(new, tx_out, e)) <= BufLen - 1
    <3>1. tx_out \in Slots
      BY <1>2
    <3>2. Len(Ring(new, tx_out, e)) = Used(tx_out, e) /\ Used(tx_out, e) \in 0 .. BufLen - 1
      BY <1>6, <2>0, <3>1, RingShape
    <3> QED
      BY <3>2, Sizes
  <2>2. Len(TxRing \o p) = Len(TxRing) + n
    BY <1>2, <1>4, ConcatProperties
  <2> QED
    BY <1>7, <1>8, <2>1, <2>2 DEF e
<1>13. Len(TxQueue) = Len(tx_fifo) + Len(TxRing)
  BY <1>2, ConcatProperties
<1>14. n \in 1 .. (BufLen - 1 + FifoLen) - Len(TxQueue)
  BY <1>2, <1>3, <1>12, <1>13, Sizes
<1>15. given' \in [1 .. n -> Chars]
  BY <1>1, <1>4, LenProperties
<1> QED
  BY <1>1, <1>11, <1>14, <1>15 DEF Tx!Put

(* The index follows.                                                      *)
LEMMA WriteUpdateKeeps ==
    ASSUME WriteUpdate, UNCHANGED device
    PROVE  TxQueue' = TxQueue
BY DEF WriteUpdate, device, TxQueue

(* The routine moves a character from the ring to the FIFO.                *)
LEMMA IsrTransmitKeeps ==
    ASSUME Inv, IsrTransmit, UNCHANGED program
    PROVE  TxQueue' = TxQueue
<1>1. /\ TxEnd' = TxEnd /\ tx_buf' = tx_buf /\ tx_out' = (tx_out + 1) % BufLen
      /\ tx_fifo' = Append(tx_fifo, tx_buf[tx_out]) /\ tx_out # tx_in
  BY DEF IsrTransmit, program, TxEnd, After
<1>2. /\ tx_buf \in [Slots -> Chars] /\ tx_out \in Slots /\ TxEnd \in Slots /\ tx_out # TxEnd
      /\ TxRing \in Seq(Chars) /\ tx_fifo \in Seq(Chars) /\ TxQueue = tx_fifo \o TxRing
  BY <1>1, TxShape
<1>3. /\ TxRing # <<>> /\ Head(TxRing) = tx_buf[tx_out]
      /\ Ring(tx_buf, (tx_out + 1) % BufLen, TxEnd) = Tail(TxRing)
  BY <1>2, RingPop DEF TxRing
<1>4. TxRing' = Tail(TxRing)
  BY <1>1, <1>3 DEF TxRing
<1>5. tx_fifo' \o TxRing' = tx_fifo \o TxRing
  BY <1>1, <1>2, <1>3, <1>4, MoveHead
<1>6. TxQueue' = tx_fifo' \o TxRing'
  BY DEF TxQueue, TxRing, TxEnd
<1> QED
  BY <1>2, <1>5, <1>6

(* The host takes a character.                                             *)
LEMMA HostTakeGets ==
    ASSUME Inv, HostTake
    PROVE  Tx!Get
<1> DEFINE q == tx_fifo \o TxRing
<1>1. /\ tx_fifo # <<>> /\ tx_fifo' = Tail(tx_fifo) /\ taken' = <<Head(tx_fifo)>>
      /\ given' = given /\ TxRing' = TxRing
  BY DEF HostTake, program, rings, tx_ring, TxRing, TxEnd
<1>2. /\ TxRing \in Seq(Chars) /\ tx_fifo \in Seq(Chars) /\ TxQueue = q
  BY TxShape
<1>3. Len(tx_fifo) \in Nat \ {0} /\ Len(TxRing) \in Nat
  BY <1>1, <1>2, EmptySeq, LenProperties
<1>4. q \in Seq(Chars) /\ Len(q) = Len(tx_fifo) + Len(TxRing)
  BY <1>2, ConcatProperties
<1>5. SubSeq(q, 1, 1) = SubSeq(tx_fifo, 1, 1)
  BY <1>2, <1>3, FirstConcat
<1>6. SubSeq(tx_fifo, 1, 1) = <<Head(tx_fifo)>>
  <2>1. Head(tx_fifo) = tx_fifo[1]
    BY <1>1, <1>2, TailIsSubSeq
  <2>2. SubSeq(tx_fifo, 1, 1) = <<tx_fifo[1]>> \o SubSeq(tx_fifo, 2, 1)
    BY <1>2, <1>3, SubSeqRecursiveFirst
  <2>3. SubSeq(tx_fifo, 2, 1) = <<>>
    BY <1>2, <1>3
  <2>4. tx_fifo[1] \in Chars
    BY <1>2, <1>3, ElementOfSeq
  <2>5. <<tx_fifo[1]>> \in Seq(Chars)
    BY <2>4
  <2>6. <<tx_fifo[1]>> \o <<>> = <<tx_fifo[1]>>
    BY <2>5, ConcatEmptySeq
  <2> QED
    BY <2>1, <2>2, <2>3, <2>6
<1>7. Tail(tx_fifo) = Drop(tx_fifo, 1)
  BY <1>1, <1>2, TailIsSubSeq DEF Drop
<1>8. Drop(q, 1) = Drop(tx_fifo, 1) \o TxRing
  <2>1. 1 \in 0 .. Len(tx_fifo)
    BY <1>3
  <2> QED
    BY <1>2, <2>1, DropConcat
<1>9. TxQueue' = tx_fifo' \o TxRing'
  BY DEF TxQueue, TxRing, TxEnd
<1>10. TxQueue' = SubSeq(q, 2, Len(q))
  BY <1>1, <1>7, <1>8, <1>9 DEF Drop
<1>11. 1 \in 1 .. Len(q) /\ taken' = SubSeq(q, 1, 1)
  BY <1>1, <1>3, <1>4, <1>5, <1>6
<1> HIDE DEF q
<1> QED
  BY <1>1, <1>2, <1>10, <1>11 DEF Tx!Get

TxQuiet == /\ UNCHANGED <<tx_buf, tx_out, tx_in, tx_fifo, given, taken>>
           /\ UNCHANGED <<pc, in, n>> \/ (pc # "w_update" /\ pc' # "w_update")

LEMMA TxQuietKeeps ==
    ASSUME TxQuiet PROVE UNCHANGED <<TxQueue, given, taken>>
BY DEF TxQuiet, TxQueue

LEMMA TxProgram ==
    ASSUME Program
    PROVE  TxQuiet \/ WriteCopy \/ WriteUpdate
<1> USE DEF Program, TxQuiet, rings, tx_ring, device, link
<1>1. CASE Reader
  BY <1>1 DEF Reader, ReadSnap, ReadCopy, ReadUpdate, ReadSpin, ReadCheck, ReadEnable
<1>2. CASE Writer
  BY <1>2 DEF Writer, WriteSnap, WriteKick, WriteSpin, WriteCheck
<1>3. CASE CloseWait \/ Read \/ Write \/ Close
  BY <1>3 DEF CloseWait, Read, Write, Close
<1>4. CASE SetTimeout
  BY <1>4 DEF SetTimeout, program
<1> QED
  BY <1>1, <1>2, <1>3, <1>4

LEMMA TxOthers ==
    ASSUME Routine \/ Alarm \/ HostSend \/ HostPause \/ HostPlug \/ UNCHANGED vars
    PROVE  TxQuiet \/ (IsrTransmit /\ UNCHANGED <<program, given, taken>>)
<1> USE DEF TxQuiet, rings, tx_ring, device, program, history
<1>1. CASE Routine
  BY <1>1 DEF Routine, Interrupt, IsrControl, IsrReceive, IsrReceiveEnd, IsrTransmitEnd
<1>2. CASE Alarm
  BY <1>2 DEF Alarm
<1>3. CASE HostSend
  BY <1>3 DEF HostSend
<1>4. CASE HostPlug \/ HostPause
  BY <1>4 DEF HostPlug, HostPause
<1>5. CASE UNCHANGED vars
  BY <1>5 DEF vars
<1> QED
  BY <1>1, <1>2, <1>3, <1>4, <1>5

(* What write is given is what the host takes: transmission implements the *)
(* same queue.                                                             *)
THEOREM SendImplemented == Spec => SendsInOrder
<1>1. Init => Tx!Init
  <2> SUFFICES ASSUME Init PROVE TxQueue = <<>> /\ given = <<>> /\ taken = <<>>
    BY DEF Tx!Init
  <2>1. Ring(tx_buf, tx_out, tx_in) = <<>> /\ tx_fifo = <<>> /\ pc = "idle"
    BY DEF Init, Ring, Used
  <2> QED
    BY <2>1 DEF Init, TxQueue
<1>2. Inv /\ [Next]_vars => [Tx!Next]_(Tx!vars)
  <2> SUFFICES ASSUME Inv, [Next]_vars PROVE Tx!Next \/ UNCHANGED <<TxQueue, given, taken>>
    BY DEF Tx!vars
  <2>1. CASE TxQuiet
    BY <2>1, TxQuietKeeps
  <2>2. CASE Program /\ WriteCopy
    BY <2>2, WriteCopyPuts DEF Program, Tx!Next
  <2>3. CASE Program /\ WriteUpdate
    BY <2>3, WriteUpdateKeeps DEF Program, WriteUpdate
  <2>4. CASE IsrTransmit /\ UNCHANGED <<program, given, taken>>
    BY <2>4, IsrTransmitKeeps
  <2>5. CASE HostTake
    BY <2>5, HostTakeGets DEF Tx!Next
  <2> QED
    BY <2>1, <2>2, <2>3, <2>4, <2>5, TxProgram, TxOthers DEF Next
<1> QED
  BY <1>1, <1>2, InvCorrect, PTL DEF Spec, SendsInOrder, Tx!Spec
=============================================================================
