------------------------------ MODULE AesProofs ------------------------------
(***************************************************************************)
(* The hardware given for decryption undoes what the software does to any  *)
(* message under any key.                                                  *)
(*                                                                         *)
(* First the algebra: exclusive or is a sum of bits, xtime is linear, and  *)
(* so are the two columns steps, of which the second takes back the first; *)
(* the inverse table undoes the table.  Then the hardware: after as many   *)
(* edges as there are stages before it, a stage of KeyExpansion shows its  *)
(* words of the expanded key.  Then main: the block is where its round     *)
(* says in the chain of blocks that the modules go back.                   *)
(***************************************************************************)
EXTENDS Aes, TLAPS

Word == [1 .. 4 -> Byte]
Block == [0 .. 15 -> Byte]

-----------------------------------------------------------------------------
\* Bytes are their bits, and exclusive or is a sum of bits without carry.
LEMMA ByteBits ==
  ASSUME NEW x \in Byte
  PROVE  /\ \A i \in 0 .. 7 : Bit(x, i) \in {0, 1}
         /\ x = Bit(x, 0) + 2 * Bit(x, 1) + 4 * Bit(x, 2) + 8 * Bit(x, 3) + 16 * Bit(x, 4)
                + 32 * Bit(x, 5) + 64 * Bit(x, 6) + 128 * Bit(x, 7)
<1> USE DEF Byte
<1>1. /\ Bit(x, 0) = x % 2 /\ Bit(x, 1) = (x \div 2) % 2
      /\ Bit(x, 2) = (x \div 4) % 2 /\ Bit(x, 3) = (x \div 8) % 2
      /\ Bit(x, 4) = (x \div 16) % 2 /\ Bit(x, 5) = (x \div 32) % 2
      /\ Bit(x, 6) = (x \div 64) % 2 /\ Bit(x, 7) = (x \div 128) % 2
  BY DEF Bit, Weight
<1>2. \A i \in 0 .. 7 : i \in {0, 1, 2, 3, 4, 5, 6, 7}
  OBVIOUS
<1>3. \A i \in 0 .. 7 : Bit(x, i) \in {0, 1}
  BY <1>1, <1>2
<1>4. /\ x = (x % 2) + 2 * (x \div 2)
      /\ x \div 2 = ((x \div 2) % 2) + 2 * (x \div 4)
      /\ x \div 4 = ((x \div 4) % 2) + 2 * (x \div 8)
      /\ x \div 8 = ((x \div 8) % 2) + 2 * (x \div 16)
      /\ x \div 16 = ((x \div 16) % 2) + 2 * (x \div 32)
      /\ x \div 32 = ((x \div 32) % 2) + 2 * (x \div 64)
      /\ x \div 64 = ((x \div 64) % 2) + 2 * (x \div 128)
      /\ x \div 128 = (x \div 128) % 2
  OBVIOUS
<1> QED
  BY <1>1, <1>3, <1>4

LEMMA BitsOfSum ==
  ASSUME NEW b0 \in {0, 1}, NEW b1 \in {0, 1}, NEW b2 \in {0, 1}, NEW b3 \in {0, 1},
         NEW b4 \in {0, 1}, NEW b5 \in {0, 1}, NEW b6 \in {0, 1}, NEW b7 \in {0, 1}
  PROVE  LET x == b0 + 2 * b1 + 4 * b2 + 8 * b3 + 16 * b4 + 32 * b5 + 64 * b6 + 128 * b7
         IN  /\ x \in Byte
             /\ Bit(x, 0) = b0 /\ Bit(x, 1) = b1 /\ Bit(x, 2) = b2 /\ Bit(x, 3) = b3
             /\ Bit(x, 4) = b4 /\ Bit(x, 5) = b5 /\ Bit(x, 6) = b6 /\ Bit(x, 7) = b7
BY DEF Bit, Weight, Byte

LEMMA ByteXorBits ==
  ASSUME NEW a \in Byte, NEW b \in Byte
  PROVE  /\ ByteXor(a, b) \in Byte
         /\ \A i \in 0 .. 7 : Bit(ByteXor(a, b), i) = (Bit(a, i) + Bit(b, i)) % 2
<1> DEFINE x(i) == (Bit(a, i) + Bit(b, i)) % 2
<1>1. ByteXor(a, b) = x(0) + 2 * x(1) + 4 * x(2) + 8 * x(3) + 16 * x(4) + 32 * x(5)
                      + 64 * x(6) + 128 * x(7)
  BY DEF ByteXor, XorTable
<1>2. \A i \in 0 .. 7 : x(i) \in {0, 1}
  BY ByteBits
<1>3. \A i \in 0 .. 7 : i \in {0, 1, 2, 3, 4, 5, 6, 7}
  OBVIOUS
<1> HIDE DEF x
<1>4. x(0) \in {0, 1} /\ x(1) \in {0, 1} /\ x(2) \in {0, 1} /\ x(3) \in {0, 1}
      /\ x(4) \in {0, 1} /\ x(5) \in {0, 1} /\ x(6) \in {0, 1} /\ x(7) \in {0, 1}
  BY <1>2
<1>5. /\ ByteXor(a, b) \in Byte
      /\ Bit(ByteXor(a, b), 0) = x(0) /\ Bit(ByteXor(a, b), 1) = x(1)
      /\ Bit(ByteXor(a, b), 2) = x(2) /\ Bit(ByteXor(a, b), 3) = x(3)
      /\ Bit(ByteXor(a, b), 4) = x(4) /\ Bit(ByteXor(a, b), 5) = x(5)
      /\ Bit(ByteXor(a, b), 6) = x(6) /\ Bit(ByteXor(a, b), 7) = x(7)
  BY <1>1, <1>4, BitsOfSum
<1>6. \A i \in 0 .. 7 : Bit(ByteXor(a, b), i) = x(i)
  BY <1>3, <1>5
<1> QED
  BY <1>5, <1>6 DEF x

LEMMA SameBits ==
  ASSUME NEW a \in Byte, NEW b \in Byte, \A i \in 0 .. 7 : Bit(a, i) = Bit(b, i)
  PROVE  a = b
BY ByteBits

\* Bytes are a group under it, in which each is its own inverse.
LEMMA XorLaws ==
  ASSUME NEW a \in Byte, NEW b \in Byte, NEW c \in Byte
  PROVE  /\ ByteXor(a, b) = ByteXor(b, a)
         /\ ByteXor(ByteXor(a, b), c) = ByteXor(a, ByteXor(b, c))
         /\ ByteXor(ByteXor(a, b), b) = a
<1>1. ByteXor(a, b) = ByteXor(b, a)
  <2>1. \A i \in 0 .. 7 : Bit(ByteXor(a, b), i) = Bit(ByteXor(b, a), i)
    BY ByteBits, ByteXorBits
  <2> QED
    BY <2>1, ByteXorBits, SameBits
<1>2. ByteXor(ByteXor(a, b), c) = ByteXor(a, ByteXor(b, c))
  <2>1. \A i \in 0 .. 7 : Bit(ByteXor(ByteXor(a, b), c), i) = Bit(ByteXor(a, ByteXor(b, c)), i)
    BY ByteBits, ByteXorBits
  <2> QED
    BY <2>1, ByteXorBits, SameBits
<1>3. ByteXor(ByteXor(a, b), b) = a
  <2>1. \A i \in 0 .. 7 : Bit(ByteXor(ByteXor(a, b), b), i) = Bit(a, i)
    BY ByteBits, ByteXorBits
  <2> QED
    BY <2>1, ByteXorBits, SameBits
<1> QED
  BY <1>1, <1>2, <1>3

-----------------------------------------------------------------------------
\* xtime doubles a polynomial, and so distributes over sums.
LEMMA XtimeLinear ==
  /\ \A a \in Byte : xtime(a) \in Byte
  /\ \A a, b \in Byte : xtime(ByteXor(a, b)) = ByteXor(xtime(a), xtime(b))
<1> DEFINE Reduced(i) == IF i \in {0, 1, 3, 4} THEN 1 ELSE 0
           Below(a, i) == IF i = 0 THEN 0 ELSE Bit(a, i - 1)
<1>1. ASSUME NEW a \in Byte
      PROVE  /\ (2 * a) % 256 \in Byte
             /\ \A i \in 0 .. 7 : Bit((2 * a) % 256, i) = Below(a, i)
             /\ a >= 128 <=> Bit(a, 7) = 1
             /\ a < 128 => (2 * a) % 256 = 2 * a
  <2>1. /\ Bit(a, 0) \in {0, 1} /\ Bit(a, 1) \in {0, 1} /\ Bit(a, 2) \in {0, 1}
        /\ Bit(a, 3) \in {0, 1} /\ Bit(a, 4) \in {0, 1} /\ Bit(a, 5) \in {0, 1}
        /\ Bit(a, 6) \in {0, 1} /\ Bit(a, 7) \in {0, 1}
    BY ByteBits
  <2>2. a = Bit(a, 0) + 2 * Bit(a, 1) + 4 * Bit(a, 2) + 8 * Bit(a, 3) + 16 * Bit(a, 4)
            + 32 * Bit(a, 5) + 64 * Bit(a, 6) + 128 * Bit(a, 7)
    BY ByteBits
  <2>3. (2 * a) % 256 = 0 + 2 * Bit(a, 0) + 4 * Bit(a, 1) + 8 * Bit(a, 2) + 16 * Bit(a, 3)
            + 32 * Bit(a, 4) + 64 * Bit(a, 5) + 128 * Bit(a, 6)
    BY <2>1, <2>2
  <2>4. /\ (2 * a) % 256 \in Byte
        /\ Bit((2 * a) % 256, 0) = 0 /\ Bit((2 * a) % 256, 1) = Bit(a, 0)
        /\ Bit((2 * a) % 256, 2) = Bit(a, 1) /\ Bit((2 * a) % 256, 3) = Bit(a, 2)
        /\ Bit((2 * a) % 256, 4) = Bit(a, 3) /\ Bit((2 * a) % 256, 5) = Bit(a, 4)
        /\ Bit((2 * a) % 256, 6) = Bit(a, 5) /\ Bit((2 * a) % 256, 7) = Bit(a, 6)
    BY <2>1, <2>3, BitsOfSum
  <2>5. \A i \in 0 .. 7 : i \in {0, 1, 2, 3, 4, 5, 6, 7}
    OBVIOUS
  <2>6. \A i \in 0 .. 7 : Bit((2 * a) % 256, i) = Below(a, i)
    BY <2>4, <2>5
  <2>7. (a >= 128 <=> Bit(a, 7) = 1) /\ (a < 128 => (2 * a) % 256 = 2 * a)
    BY <2>1, <2>2 DEF Byte
  <2> QED
    BY <2>4, <2>6, <2>7
<1>2. \h11b % 256 \in Byte /\ \A i \in 0 .. 7 : Bit(\h11b % 256, i) = Reduced(i)
  <2>1. \h11b % 256 = 27
    OBVIOUS
  <2>2. /\ Bit(27, 0) = 1 /\ Bit(27, 1) = 1 /\ Bit(27, 2) = 0 /\ Bit(27, 3) = 1
        /\ Bit(27, 4) = 1 /\ Bit(27, 5) = 0 /\ Bit(27, 6) = 0 /\ Bit(27, 7) = 0
    BY DEF Bit, Weight
  <2>3. \A i \in 0 .. 7 : i \in {0, 1, 2, 3, 4, 5, 6, 7}
    OBVIOUS
  <2> QED
    BY <2>1, <2>2, <2>3 DEF Byte
<1>3. ASSUME NEW a \in Byte
      PROVE  /\ xtime(a) \in Byte
             /\ \A i \in 0 .. 7 : Bit(xtime(a), i) = (Below(a, i) + Reduced(i) * Bit(a, 7)) % 2
  <2>1. \A i \in 0 .. 7 : Below(a, i) \in {0, 1} /\ Reduced(i) \in {0, 1}
    BY ByteBits
  <2>2. CASE a >= 128
    <3>1. Bit(a, 7) = 1
      BY <1>1, <2>2
    <3>2. xtime(a) = ByteXor((2 * a) % 256, \h11b % 256)
      BY <2>2 DEF xtime
    <3> HIDE DEF Below, Reduced
    <3> QED
      BY <1>1, <1>2, <2>1, <3>1, <3>2, ByteXorBits
  <2>3. CASE ~(a >= 128)
    <3>1. Bit(a, 7) = 0
      BY <1>1, <2>3, ByteBits
    <3>2. xtime(a) = (2 * a) % 256
      BY <1>1, <2>3 DEF xtime, Byte
    <3> HIDE DEF Below, Reduced
    <3> QED
      BY <1>1, <2>1, <3>1, <3>2
  <2> QED
    BY <2>2, <2>3
<1>4. ASSUME NEW a \in Byte, NEW b \in Byte
      PROVE  xtime(ByteXor(a, b)) = ByteXor(xtime(a), xtime(b))
  <2> DEFINE c == ByteXor(a, b)
  <2>1. c \in Byte /\ \A i \in 0 .. 7 : Bit(c, i) = (Bit(a, i) + Bit(b, i)) % 2
    BY ByteXorBits
  <2>2. \A i \in 0 .. 7 : /\ Below(a, i) \in {0, 1} /\ Below(b, i) \in {0, 1}
                          /\ Reduced(i) \in {0, 1}
    BY ByteBits
  <2>3. \A i \in 0 .. 7 : Below(c, i) = (Below(a, i) + Below(b, i)) % 2
    BY <2>1
  <2>4. Bit(a, 7) \in {0, 1} /\ Bit(b, 7) \in {0, 1} /\ Bit(c, 7) = (Bit(a, 7) + Bit(b, 7)) % 2
    BY <2>1, ByteBits
  <2> HIDE DEF Below, Reduced, c
  <2>5. \A i \in 0 .. 7 : Bit(xtime(c), i) = Bit(ByteXor(xtime(a), xtime(b)), i)
    <3> SUFFICES ASSUME NEW i \in 0 .. 7
                 PROVE  Bit(xtime(c), i) = Bit(ByteXor(xtime(a), xtime(b)), i)
      OBVIOUS
    <3>1. Bit(ByteXor(xtime(a), xtime(b)), i) =
            (((Below(a, i) + (Reduced(i) * Bit(a, 7))) % 2)
             + ((Below(b, i) + (Reduced(i) * Bit(b, 7))) % 2)) % 2
      BY <1>3, ByteXorBits
    <3>2. Bit(xtime(c), i) = (((Below(a, i) + Below(b, i)) % 2)
                              + Reduced(i) * ((Bit(a, 7) + Bit(b, 7)) % 2)) % 2
      BY <1>3, <2>1, <2>3, <2>4
    <3> QED
      BY <2>2, <2>4, <3>1, <3>2
  <2>6. xtime(c) \in Byte /\ ByteXor(xtime(a), xtime(b)) \in Byte
    BY <1>3, <2>1, ByteXorBits
  <2> QED
    BY <2>5, <2>6, SameBits DEF c
<1> QED
  BY <1>3, <1>4

\* Sums of three, four and five bytes, as the two columns steps make them.
Xor3(p, q, r) == ByteXor(ByteXor(p, q), r)
Xor5(p, q, r, s, t) == Xor4(p, ByteXor(q, r), s, t)

LEMMA SumOfThree ==
  ASSUME NEW p, NEW q, NEW r, {p, q, r} \subseteq Byte
  PROVE  /\ Xor3(p, q, r) \in Byte
         /\ \A i \in 0 .. 7 : Bit(Xor3(p, q, r), i) = (Bit(p, i) + Bit(q, i) + Bit(r, i)) % 2
BY ByteXorBits, ByteBits DEF Xor3

LEMMA SumOfFour ==
  ASSUME NEW p, NEW q, NEW r, NEW s, {p, q, r, s} \subseteq Byte
  PROVE  /\ Xor4(p, q, r, s) \in Byte
         /\ \A i \in 0 .. 7 : Bit(Xor4(p, q, r, s), i) =
                                (Bit(p, i) + Bit(q, i) + Bit(r, i) + Bit(s, i)) % 2
         /\ xtime(Xor4(p, q, r, s)) = Xor4(xtime(p), xtime(q), xtime(r), xtime(s))
<1> DEFINE m == ByteXor(p, q)  n == ByteXor(r, s)
<1>1. /\ p \in Byte /\ q \in Byte /\ r \in Byte /\ s \in Byte /\ m \in Byte /\ n \in Byte
      /\ Xor4(p, q, r, s) = ByteXor(m, n)
  BY ByteXorBits DEF Xor4
<1>2. ByteXor(m, n) \in Byte
  BY <1>1, ByteXorBits
<1>3. \A i \in 0 .. 7 :
        Bit(ByteXor(m, n), i) = (Bit(p, i) + Bit(q, i) + Bit(r, i) + Bit(s, i)) % 2
  BY <1>1, ByteXorBits, ByteBits
<1>4. xtime(ByteXor(m, n)) = ByteXor(ByteXor(xtime(p), xtime(q)), ByteXor(xtime(r), xtime(s)))
  BY <1>1, XtimeLinear
<1> QED
  BY <1>1, <1>2, <1>3, <1>4 DEF Xor4

LEMMA SumOfFive ==
  ASSUME NEW p, NEW q, NEW r, NEW s, NEW t, {p, q, r, s, t} \subseteq Byte
  PROVE  /\ Xor5(p, q, r, s, t) \in Byte
         /\ \A i \in 0 .. 7 : Bit(Xor5(p, q, r, s, t), i) =
                                (Bit(p, i) + Bit(q, i) + Bit(r, i) + Bit(s, i) + Bit(t, i)) % 2
         /\ xtime(Xor5(p, q, r, s, t)) = Xor5(xtime(p), xtime(q), xtime(r), xtime(s), xtime(t))
<1> DEFINE m == ByteXor(q, r)
<1>1. m \in Byte /\ Xor5(p, q, r, s, t) = Xor4(p, m, s, t) /\ Xor4(p, m, s, t) \in Byte
  BY ByteXorBits, SumOfFour DEF Xor5
<1>2. ASSUME NEW i \in 0 .. 7
      PROVE  Bit(Xor5(p, q, r, s, t), i) =
               (Bit(p, i) + Bit(q, i) + Bit(r, i) + Bit(s, i) + Bit(t, i)) % 2
  <2>1. /\ Bit(m, i) = (Bit(q, i) + Bit(r, i)) % 2
        /\ Bit(Xor4(p, m, s, t), i) = (Bit(p, i) + Bit(m, i) + Bit(s, i) + Bit(t, i)) % 2
    BY <1>1, ByteXorBits, SumOfFour
  <2>2. /\ Bit(p, i) \in {0, 1} /\ Bit(q, i) \in {0, 1} /\ Bit(r, i) \in {0, 1}
        /\ Bit(s, i) \in {0, 1} /\ Bit(t, i) \in {0, 1}
    BY ByteBits
  <2> HIDE DEF m
  <2> QED
    BY <1>1, <2>1, <2>2
<1>3. xtime(Xor4(p, m, s, t)) = Xor4(xtime(p), xtime(m), xtime(s), xtime(t))
  BY <1>1, SumOfFour
<1>4. xtime(m) = ByteXor(xtime(q), xtime(r))
  BY XtimeLinear
<1> QED
  BY <1>1, <1>2, <1>3, <1>4 DEF Xor5

\* The powers of two by which the columns steps multiply.
Two(x) == xtime(x)
Four(x) == xtime(xtime(x))
Eight(x) == xtime(xtime(xtime(x)))
Sixteen(x) == xtime(xtime(xtime(xtime(x))))

LEMMA PowersInByte ==
  ASSUME NEW x \in Byte
  PROVE  {Two(x), Four(x), Eight(x), Sixteen(x)} \subseteq Byte
BY XtimeLinear DEF Two, Four, Eight, Sixteen

\* The hardware's function is the software's.
LEMMA HardwareXtime ==
  ASSUME NEW a \in Byte
  PROVE  hw_xtime(a) = xtime(a)
<1>1. CASE a >= 128
  BY <1>1 DEF hw_xtime, xtime, Byte
<1>2. CASE a < 128
  <2>1. 0 \in Byte /\ (2 * a) % 256 = 2 * a /\ 2 * a \in Byte /\ a \div 128 = 0
    BY <1>2 DEF Byte
  <2>2. ByteXor(2 * a, 0) = 2 * a
    <3>1. ByteXor(ByteXor(2 * a, 2 * a), 2 * a) = 2 * a
      BY <2>1, XorLaws
    <3>2. \A i \in 0 .. 7 : Bit(ByteXor(2 * a, 2 * a), i) = Bit(0, i)
      BY <2>1, ByteXorBits, ByteBits DEF Bit
    <3>3. ByteXor(2 * a, 2 * a) = 0
      BY <2>1, <3>2, ByteXorBits, SameBits
    <3> QED
      BY <2>1, <3>1, <3>3, XorLaws
  <2>3. \h1b * (a \div 128) = 0
    BY <2>1
  <2>4. ~(a >= 128)
    BY <1>2 DEF Byte
  <2> QED
    BY <2>1, <2>2, <2>3, <2>4 DEF hw_xtime, xtime
<1> QED
  BY <1>1, <1>2 DEF Byte

LEMMA HardwarePowers ==
  ASSUME NEW x \in Byte
  PROVE  hw_xtime(x) = Two(x) /\ hw_four(x) = Four(x) /\ hw_eight(x) = Eight(x)
BY HardwareXtime, XtimeLinear DEF hw_four, hw_eight, Two, Four, Eight

LEMMA MixByteBits ==
  ASSUME NEW w, NEW x, NEW y, NEW z, {w, x, y, z} \subseteq Byte
  PROVE  LET m == MixByte(w, x, y, z)
         IN  /\ m \in Byte
             /\ \A i \in 0 .. 7 :
                  /\ Bit(m, i) = (Bit(Two(w), i) + Bit(Two(x), i) + Bit(x, i)
                                  + Bit(y, i) + Bit(z, i)) % 2
                  /\ Bit(Two(m), i) = (Bit(Four(w), i) + Bit(Four(x), i) + Bit(Two(x), i)
                                       + Bit(Two(y), i) + Bit(Two(z), i)) % 2
                  /\ Bit(Four(m), i) = (Bit(Eight(w), i) + Bit(Eight(x), i) + Bit(Four(x), i)
                                        + Bit(Four(y), i) + Bit(Four(z), i)) % 2
                  /\ Bit(Eight(m), i) = (Bit(Sixteen(w), i) + Bit(Sixteen(x), i) + Bit(Eight(x), i)
                                         + Bit(Eight(y), i) + Bit(Eight(z), i)) % 2
<1> DEFINE m == MixByte(w, x, y, z)
<1>1. /\ {Two(w), Two(x), x, y, z} \subseteq Byte
      /\ {Four(w), Four(x), Two(x), Two(y), Two(z)} \subseteq Byte
      /\ {Eight(w), Eight(x), Four(x), Four(y), Four(z)} \subseteq Byte
      /\ {Sixteen(w), Sixteen(x), Eight(x), Eight(y), Eight(z)} \subseteq Byte
  BY PowersInByte
<1>2. m = Xor5(Two(w), Two(x), x, y, z)
  BY DEF MixByte, Xor5, gf_mul3, Two
<1>3. Two(m) = Xor5(Four(w), Four(x), Two(x), Two(y), Two(z))
  BY <1>1, <1>2, SumOfFive DEF Two, Four
<1>4. Four(m) = Xor5(Eight(w), Eight(x), Four(x), Four(y), Four(z))
  BY <1>1, <1>3, SumOfFive DEF Two, Four, Eight
<1>5. Eight(m) = Xor5(Sixteen(w), Sixteen(x), Eight(x), Eight(y), Eight(z))
  BY <1>1, <1>4, SumOfFive DEF Two, Four, Eight, Sixteen
<1> HIDE DEF m
<1>6. m \in Byte /\ \A i \in 0 .. 7 :
        Bit(m, i) = (Bit(Two(w), i) + Bit(Two(x), i) + Bit(x, i) + Bit(y, i) + Bit(z, i)) % 2
  BY <1>1, <1>2, SumOfFive
<1>7. \A i \in 0 .. 7 : Bit(Two(m), i) =
        (Bit(Four(w), i) + Bit(Four(x), i) + Bit(Two(x), i) + Bit(Two(y), i) + Bit(Two(z), i)) % 2
  BY <1>1, <1>3, SumOfFive
<1>8. \A i \in 0 .. 7 : Bit(Four(m), i) =
        (Bit(Eight(w), i) + Bit(Eight(x), i) + Bit(Four(x), i) + Bit(Four(y), i) + Bit(Four(z), i)) % 2
  BY <1>1, <1>4, SumOfFive
<1>9. \A i \in 0 .. 7 : Bit(Eight(m), i) =
        (Bit(Sixteen(w), i) + Bit(Sixteen(x), i) + Bit(Eight(x), i)
         + Bit(Eight(y), i) + Bit(Eight(z), i)) % 2
  BY <1>1, <1>5, SumOfFive
<1> QED
  BY <1>6, <1>7, <1>8, <1>9 DEF m

LEMMA InvMixByteBits ==
  ASSUME NEW w, NEW x, NEW y, NEW z, {w, x, y, z} \subseteq Byte
  PROVE  /\ InvMixByte(w, x, y, z) \in Byte
         /\ \A i \in 0 .. 7 :
              Bit(InvMixByte(w, x, y, z), i) =
                (Bit(Eight(w), i) + Bit(Four(w), i) + Bit(Two(w), i)
                 + Bit(Eight(x), i) + Bit(Two(x), i) + Bit(x, i)
                 + Bit(Eight(y), i) + Bit(Four(y), i) + Bit(y, i)
                 + Bit(Eight(z), i) + Bit(z, i)) % 2
<1> DEFINE e == GF_Mul_e(w)  b == GF_Mul_b(x)  d == GF_Mul_d(y)  n == GF_Mul_9(z)
<1>1. /\ {Eight(w), Four(w), Two(w)} \subseteq Byte /\ {Eight(x), x, Two(x)} \subseteq Byte
      /\ {Eight(y), y, Four(y)} \subseteq Byte /\ {Eight(z), z} \subseteq Byte
  BY PowersInByte
<1>2. /\ e = Xor3(Eight(w), Four(w), Two(w))
      /\ b = Xor3(Eight(x), Two(x), x)
      /\ d = Xor3(Eight(y), Four(y), y)
      /\ n = ByteXor(Eight(z), z)
  BY HardwarePowers DEF GF_Mul_e, GF_Mul_b, GF_Mul_d, GF_Mul_9, Xor3
<1>3. InvMixByte(w, x, y, z) = Xor4(e, b, d, n)
  BY DEF InvMixByte
<1> HIDE DEF e, b, d, n
<1>4. /\ {e, b, d, n} \subseteq Byte
      /\ \A i \in 0 .. 7 :
           /\ Bit(e, i) = (Bit(Eight(w), i) + Bit(Four(w), i) + Bit(Two(w), i)) % 2
           /\ Bit(b, i) = (Bit(Eight(x), i) + Bit(Two(x), i) + Bit(x, i)) % 2
           /\ Bit(d, i) = (Bit(Eight(y), i) + Bit(Four(y), i) + Bit(y, i)) % 2
           /\ Bit(n, i) = (Bit(Eight(z), i) + Bit(z, i)) % 2
  BY <1>1, <1>2, SumOfThree, ByteXorBits
<1>5. /\ InvMixByte(w, x, y, z) \in Byte
      /\ \A i \in 0 .. 7 : Bit(InvMixByte(w, x, y, z), i) =
                             (Bit(e, i) + Bit(b, i) + Bit(d, i) + Bit(n, i)) % 2
  BY <1>3, <1>4, SumOfFour
<1> QED
  BY <1>1, <1>4, <1>5, ByteBits, SMTT(40)

\* So InvMixColumns undoes MixColumns, byte by byte: each of the four bytes
\* comes in an even number of times, multiplied by each power of two, except
\* for the first, which remains once.
LEMMA MixByteUndone ==
  ASSUME NEW a, NEW b, NEW c, NEW d, {a, b, c, d} \subseteq Byte
  PROVE  InvMixByte(MixByte(a, b, c, d), MixByte(b, c, d, a), MixByte(c, d, a, b),
                    MixByte(d, a, b, c)) = a
<1> DEFINE A == MixByte(a, b, c, d)  B == MixByte(b, c, d, a)
           C == MixByte(c, d, a, b)  D == MixByte(d, a, b, c)
<1>1. {A, B, C, D} \subseteq Byte
  BY MixByteBits
<1>2. InvMixByte(A, B, C, D) \in Byte
  BY <1>1, InvMixByteBits
<1>3. \A i \in 0 .. 7 : Bit(InvMixByte(A, B, C, D), i) = Bit(a, i)
  <2> SUFFICES ASSUME NEW i \in 0 .. 7 PROVE Bit(InvMixByte(A, B, C, D), i) = Bit(a, i)
    OBVIOUS
  <2> DEFINE o(x) == Bit(x, i)  t(x) == Bit(Two(x), i)  f(x) == Bit(Four(x), i)
             e(x) == Bit(Eight(x), i)  s(x) == Bit(Sixteen(x), i)
  <2>1. o(InvMixByte(A, B, C, D)) =
          (e(A) + f(A) + t(A) + e(B) + t(B) + o(B) + e(C) + f(C) + o(C) + e(D) + o(D)) % 2
    <3> HIDE DEF A, B, C, D
    <3> QED
      BY <1>1, InvMixByteBits
  <2>2. /\ t(A) = (f(a) + f(b) + t(b) + t(c) + t(d)) % 2
        /\ f(A) = (e(a) + e(b) + f(b) + f(c) + f(d)) % 2
        /\ e(A) = (s(a) + s(b) + e(b) + e(c) + e(d)) % 2
    BY MixByteBits
  <2>3. /\ o(B) = (t(b) + t(c) + o(c) + o(d) + o(a)) % 2
        /\ t(B) = (f(b) + f(c) + t(c) + t(d) + t(a)) % 2
        /\ e(B) = (s(b) + s(c) + e(c) + e(d) + e(a)) % 2
    BY MixByteBits
  <2>4. /\ o(C) = (t(c) + t(d) + o(d) + o(a) + o(b)) % 2
        /\ f(C) = (e(c) + e(d) + f(d) + f(a) + f(b)) % 2
        /\ e(C) = (s(c) + s(d) + e(d) + e(a) + e(b)) % 2
    BY MixByteBits
  <2>5. /\ o(D) = (t(d) + t(a) + o(a) + o(b) + o(c)) % 2
        /\ e(D) = (s(d) + s(a) + e(a) + e(b) + e(c)) % 2
    BY MixByteBits
  <2>6. /\ o(a) \in {0, 1} /\ o(b) \in {0, 1} /\ o(c) \in {0, 1} /\ o(d) \in {0, 1}
        /\ t(a) \in {0, 1} /\ t(b) \in {0, 1} /\ t(c) \in {0, 1} /\ t(d) \in {0, 1}
        /\ f(a) \in {0, 1} /\ f(b) \in {0, 1} /\ f(c) \in {0, 1} /\ f(d) \in {0, 1}
        /\ e(a) \in {0, 1} /\ e(b) \in {0, 1} /\ e(c) \in {0, 1} /\ e(d) \in {0, 1}
        /\ s(a) \in {0, 1} /\ s(b) \in {0, 1} /\ s(c) \in {0, 1} /\ s(d) \in {0, 1}
    <3>1. /\ {Two(a), Four(a), Eight(a), Sixteen(a)} \subseteq Byte
          /\ {Two(b), Four(b), Eight(b), Sixteen(b)} \subseteq Byte
          /\ {Two(c), Four(c), Eight(c), Sixteen(c)} \subseteq Byte
          /\ {Two(d), Four(d), Eight(d), Sixteen(d)} \subseteq Byte
      BY PowersInByte
    <3> QED
      BY <3>1, ByteBits
  <2> HIDE DEF o, t, f, e, s, A, B, C, D
  <2>7. (e(A) + e(B) + e(C) + e(D)) % 2 = (e(a) + e(b) + e(c) + e(d)) % 2
    BY <2>2, <2>3, <2>4, <2>5, <2>6
  <2>8. (f(A) + f(C)) % 2 = (e(a) + e(b) + e(c) + e(d) + f(a) + f(c)) % 2
    BY <2>2, <2>4, <2>6
  <2>9. (t(A) + t(B)) % 2 = (f(a) + f(c) + t(a) + t(b)) % 2
    BY <2>2, <2>3, <2>6
  <2>10. (o(B) + o(C) + o(D)) % 2 = (t(a) + t(b) + o(a)) % 2
    BY <2>3, <2>4, <2>5, <2>6
  <2>11. /\ e(A) \in {0, 1} /\ f(A) \in {0, 1} /\ t(A) \in {0, 1}
         /\ e(B) \in {0, 1} /\ t(B) \in {0, 1} /\ o(B) \in {0, 1}
         /\ e(C) \in {0, 1} /\ f(C) \in {0, 1} /\ o(C) \in {0, 1}
         /\ e(D) \in {0, 1} /\ o(D) \in {0, 1}
    BY <2>2, <2>3, <2>4, <2>5, <2>6
  <2> DEFINE p == e(A) + e(B) + e(C) + e(D)  q == f(A) + f(C)  r == t(A) + t(B)
             u == o(B) + o(C) + o(D)
             v == e(a) + e(b) + e(c) + e(d)  w == f(a) + f(c)  x == t(a) + t(b)
  <2>12. /\ p \in Nat /\ q \in Nat /\ r \in Nat /\ u \in Nat
         /\ o(InvMixByte(A, B, C, D)) = (p + q + r + u) % 2
    <3>1. e(A) + f(A) + t(A) + e(B) + t(B) + o(B) + e(C) + f(C) + o(C) + e(D) + o(D) = p + q + r + u
      BY <2>11
    <3>2. p \in Nat /\ q \in Nat /\ r \in Nat /\ u \in Nat
      BY <2>11
    <3> QED
      BY <2>1, <3>1, <3>2
  <2>13. /\ v \in Nat /\ w \in Nat /\ x \in Nat
         /\ p % 2 = v % 2 /\ q % 2 = (v + w) % 2 /\ r % 2 = (w + x) % 2 /\ u % 2 = (x + o(a)) % 2
    <3>1. v \in Nat /\ w \in Nat /\ x \in Nat
      BY <2>6
    <3>2. /\ e(a) + e(b) + e(c) + e(d) + f(a) + f(c) = v + w
          /\ f(a) + f(c) + t(a) + t(b) = w + x
          /\ t(a) + t(b) + o(a) = x + o(a)
      BY <2>6
    <3> QED
      BY <2>7, <2>8, <2>9, <2>10, <3>1, <3>2
  <2> HIDE DEF p, q, r, u, v, w, x
  <2>14. (p + q) % 2 = w % 2
    BY <2>12, <2>13
  <2>15. (p + q + r) % 2 = x % 2
    BY <2>12, <2>13, <2>14
  <2>16. (p + q + r + u) % 2 = o(a)
    BY <2>6, <2>12, <2>13, <2>15
  <2> QED
    BY <2>12, <2>16 DEF o
<1> QED
  BY <1>2, <1>3, SameBits

-----------------------------------------------------------------------------
\* The inverse table undoes the table, entry by entry.
LEMMA SboxUndone ==
  ASSUME NEW x \in Byte
  PROVE  sbox(x) \in Byte /\ aes_invsbox[sbox(x) + 1] = x
<1>1. CASE x \in {0, 1, 2, 3, 4, 5, 6, 7, 8, 9, 10, 11, 12, 13, 14, 15}
  BY <1>1 DEF sbox, aes_sbox, aes_invsbox, Byte
<1>2. CASE x \in {16, 17, 18, 19, 20, 21, 22, 23, 24, 25, 26, 27, 28, 29, 30, 31}
  BY <1>2 DEF sbox, aes_sbox, aes_invsbox, Byte
<1>3. CASE x \in {32, 33, 34, 35, 36, 37, 38, 39, 40, 41, 42, 43, 44, 45, 46, 47}
  BY <1>3 DEF sbox, aes_sbox, aes_invsbox, Byte
<1>4. CASE x \in {48, 49, 50, 51, 52, 53, 54, 55, 56, 57, 58, 59, 60, 61, 62, 63}
  BY <1>4 DEF sbox, aes_sbox, aes_invsbox, Byte
<1>5. CASE x \in {64, 65, 66, 67, 68, 69, 70, 71, 72, 73, 74, 75, 76, 77, 78, 79}
  BY <1>5 DEF sbox, aes_sbox, aes_invsbox, Byte
<1>6. CASE x \in {80, 81, 82, 83, 84, 85, 86, 87, 88, 89, 90, 91, 92, 93, 94, 95}
  BY <1>6 DEF sbox, aes_sbox, aes_invsbox, Byte
<1>7. CASE x \in {96, 97, 98, 99, 100, 101, 102, 103, 104, 105, 106, 107, 108, 109, 110, 111}
  BY <1>7 DEF sbox, aes_sbox, aes_invsbox, Byte
<1>8. CASE x \in {112, 113, 114, 115, 116, 117, 118, 119, 120, 121, 122, 123, 124, 125, 126, 127}
  BY <1>8 DEF sbox, aes_sbox, aes_invsbox, Byte
<1>9. CASE x \in {128, 129, 130, 131, 132, 133, 134, 135, 136, 137, 138, 139, 140, 141, 142, 143}
  BY <1>9 DEF sbox, aes_sbox, aes_invsbox, Byte
<1>10. CASE x \in {144, 145, 146, 147, 148, 149, 150, 151, 152, 153, 154, 155, 156, 157, 158, 159}
  BY <1>10 DEF sbox, aes_sbox, aes_invsbox, Byte
<1>11. CASE x \in {160, 161, 162, 163, 164, 165, 166, 167, 168, 169, 170, 171, 172, 173, 174, 175}
  BY <1>11 DEF sbox, aes_sbox, aes_invsbox, Byte
<1>12. CASE x \in {176, 177, 178, 179, 180, 181, 182, 183, 184, 185, 186, 187, 188, 189, 190, 191}
  BY <1>12 DEF sbox, aes_sbox, aes_invsbox, Byte
<1>13. CASE x \in {192, 193, 194, 195, 196, 197, 198, 199, 200, 201, 202, 203, 204, 205, 206, 207}
  BY <1>13 DEF sbox, aes_sbox, aes_invsbox, Byte
<1>14. CASE x \in {208, 209, 210, 211, 212, 213, 214, 215, 216, 217, 218, 219, 220, 221, 222, 223}
  BY <1>14 DEF sbox, aes_sbox, aes_invsbox, Byte
<1>15. CASE x \in {224, 225, 226, 227, 228, 229, 230, 231, 232, 233, 234, 235, 236, 237, 238, 239}
  BY <1>15 DEF sbox, aes_sbox, aes_invsbox, Byte
<1>16. CASE x \in {240, 241, 242, 243, 244, 245, 246, 247, 248, 249, 250, 251, 252, 253, 254, 255}
  BY <1>16 DEF sbox, aes_sbox, aes_invsbox, Byte
<1>17. x \in 0 .. 255
  BY DEF Byte
<1> QED
  BY <1>17, <1>1, <1>2, <1>3, <1>4, <1>5, <1>6, <1>7, <1>8, <1>9, <1>10, <1>11, <1>12, <1>13, <1>14, <1>15, <1>16

\* The blocks: sixteen bytes, four to a column.
LEMMA Index ==
  ASSUME NEW k \in 0 .. 15
  PROVE  /\ k \div 4 \in 0 .. 3 /\ k % 4 \in 0 .. 3 /\ k = 4 * (k \div 4) + (k % 4)
         /\ (k \div 4) + 1 \in 1 .. 4 /\ (k % 4) + 1 \in 1 .. 4
OBVIOUS

LEMMA BlockSteps ==
  ASSUME NEW s \in Block
  PROVE  /\ SubBytes(s) \in Block /\ InvSubBytes(SubBytes(s)) = s
         /\ ShiftRows(s) \in Block /\ InvShiftRows(ShiftRows(s)) = s
         /\ MixColumns(s) \in Block /\ InvMixColumns(MixColumns(s)) = s
<1> USE DEF Block
<1>1. SubBytes(s) \in Block /\ InvSubBytes(SubBytes(s)) = s
  BY SboxUndone DEF SubBytes, InvSubBytes
<1>2. ShiftRows(s) \in Block /\ InvShiftRows(ShiftRows(s)) = s
  <2>1. \A k \in 0 .. 15 : /\ (k + 4 * (k % 4)) % 16 \in 0 .. 15
                          /\ (k + 12 * (k % 4)) % 16 \in 0 .. 15
                          /\ LET j == (k + 12 * (k % 4)) % 16
                             IN  (j + 4 * (j % 4)) % 16 = k
    OBVIOUS
  <2>2. ShiftRows(s) \in Block
    BY <2>1 DEF ShiftRows
  <2> QED
    BY <2>1, <2>2 DEF ShiftRows, InvShiftRows
<1>3. MixColumns(s) \in Block
  <2> SUFFICES ASSUME NEW k \in 0 .. 15
               PROVE  MixColumns(s)[k] \in Byte
    BY DEF MixColumns
  <2> DEFINE a(j) == s[4 * (k \div 4) + ((k + j) % 4)]
  <2>1. {a(0), a(1), a(2), a(3)} \subseteq Byte
    BY Index, SMTT(40)
  <2> QED
    BY <2>1, MixByteBits DEF MixColumns
<1>4. InvMixColumns(MixColumns(s)) = s
  <2> DEFINE m == MixColumns(s)
  <2>1. ASSUME NEW n \in 0 .. 3
        PROVE  InvMixWord(m[4 * n], m[4 * n + 1], m[4 * n + 2], m[4 * n + 3])
                 = <<s[4 * n], s[4 * n + 1], s[4 * n + 2], s[4 * n + 3]>>
    <3> DEFINE a == s[4 * n]  b == s[4 * n + 1]  c == s[4 * n + 2]  d == s[4 * n + 3]
    <3>1. {a, b, c, d} \subseteq Byte
      OBVIOUS
    <3>2. /\ m[4 * n] = MixByte(a, b, c, d) /\ m[4 * n + 1] = MixByte(b, c, d, a)
          /\ m[4 * n + 2] = MixByte(c, d, a, b) /\ m[4 * n + 3] = MixByte(d, a, b, c)
      BY DEF MixColumns
    <3> HIDE DEF a, b, c, d, m
    <3>3. /\ {b, c, d, a} \subseteq Byte /\ {c, d, a, b} \subseteq Byte
          /\ {d, a, b, c} \subseteq Byte
      BY <3>1
    <3>4. /\ InvMixByte(m[4 * n], m[4 * n + 1], m[4 * n + 2], m[4 * n + 3]) = a
          /\ InvMixByte(m[4 * n + 1], m[4 * n + 2], m[4 * n + 3], m[4 * n]) = b
          /\ InvMixByte(m[4 * n + 2], m[4 * n + 3], m[4 * n], m[4 * n + 1]) = c
          /\ InvMixByte(m[4 * n + 3], m[4 * n], m[4 * n + 1], m[4 * n + 2]) = d
      BY <3>1, <3>2, <3>3, MixByteUndone, SMTT(40)
    <3> QED
      BY <3>4 DEF InvMixWord, a, b, c, d
  <2> SUFFICES ASSUME NEW k \in 0 .. 15
               PROVE  InvMixColumns(m)[k] = s[k]
    BY DEF InvMixColumns
  <2> QED
    BY <2>1, Index DEF InvMixColumns
<1> QED
  BY <1>1, <1>2, <1>3, <1>4

-----------------------------------------------------------------------------
\* The words, and what the steps make of them.
\* A tuple of four is a function.
LEMMA TupleType ==
  ASSUME NEW S, NEW a, NEW b, NEW c, NEW d, {a, b, c, d} \subseteq S
  PROVE  <<a, b, c, d>> \in [1 .. 4 -> S]
OBVIOUS

LEMMA WordSteps ==
  ASSUME NEW v \in Word, NEW w \in Word
  PROVE  WordXor(v, w) \in Word /\ SubWord(RotWord(v)) \in Word
<1>1. {v[1], v[2], v[3], v[4], w[1], w[2], w[3], w[4]} \subseteq Byte
  BY DEF Word
<1>2. {ByteXor(v[1], w[1]), ByteXor(v[2], w[2]), ByteXor(v[3], w[3]), ByteXor(v[4], w[4])} \subseteq Byte
  BY <1>1, ByteXorBits
<1>3. WordXor(v, w) \in Word
  BY <1>2, TupleType DEF WordXor, Word
<1>4. {sbox(v[2]), sbox(v[3]), sbox(v[4]), sbox(v[1])} \subseteq Byte
  BY <1>1, SboxUndone
<1>5. SubWord(RotWord(v)) \in Word
  BY <1>4, TupleType DEF SubWord, RotWord, Word
<1> QED
  BY <1>3, <1>5

LEMMA RconWords ==
  ASSUME NEW k \in 1 .. 10
  PROVE  RconWord(k) \in Word
<1>1. k \in {1, 2, 3, 4, 5, 6, 7, 8, 9, 10}
  OBVIOUS
<1>2. {Rcon[k], 0} \subseteq Byte
  BY <1>1 DEF Rcon, Byte
<1> QED
  BY <1>2, TupleType DEF RconWord, Word

LEMMA ZeroType == 0 \in Byte /\ ZeroWord \in Word
<1>1. 0 \in Byte
  BY DEF Byte
<1> QED
  BY <1>1, TupleType DEF ZeroWord, Word

LEMMA WordXorLaws ==
  ASSUME NEW u \in Word, NEW v \in Word, NEW w \in Word
  PROVE  /\ WordXor(u, v) = WordXor(v, u)
         /\ WordXor(WordXor(u, v), w) = WordXor(u, WordXor(v, w))
<1>1. ASSUME NEW j \in 1 .. 4
      PROVE  /\ ByteXor(u[j], v[j]) = ByteXor(v[j], u[j])
             /\ ByteXor(ByteXor(u[j], v[j]), w[j]) = ByteXor(u[j], ByteXor(v[j], w[j]))
  BY XorLaws DEF Word
<1>2. /\ \A j \in 1 .. 4 : WordXor(u, v)[j] = ByteXor(u[j], v[j])
      /\ \A j \in 1 .. 4 : WordXor(v, w)[j] = ByteXor(v[j], w[j])
  BY DEF WordXor
<1> QED
  BY <1>1, <1>2 DEF WordXor

Words44 == [0 .. 43 -> Word]

LEMMA NextKeyWordType ==
  ASSUME NEW keys \in Words44, NEW i \in 4 .. 43
  PROVE  NextKeyWord(keys, i) \in Word
<1>1. keys[i - 4] \in Word /\ keys[i - 1] \in Word
  BY DEF Words44
<1>2. i \div 4 \in 1 .. 10
  OBVIOUS
<1> QED
  BY <1>1, <1>2, WordSteps, RconWords DEF NextKeyWord

LEMMA AddRoundKeySteps ==
  ASSUME NEW s \in Block, NEW keys \in Words44, NEW r \in 0 .. 10
  PROVE  /\ AddRoundKey(s, keys, 4 * r) \in Block
         /\ AddRoundKey(AddRoundKey(s, keys, 4 * r), keys, 4 * r) = s
<1>1. ASSUME NEW k \in 0 .. 15
      PROVE  s[k] \in Byte /\ keys[(k \div 4) + 4 * r][(k % 4) + 1] \in Byte
  <2>1. (k \div 4) + 4 * r \in 0 .. 43 /\ (k % 4) + 1 \in 1 .. 4
    BY Index
  <2> QED
    BY <2>1 DEF Words44, Word, Block
<1>2. AddRoundKey(s, keys, 4 * r) \in Block
  BY <1>1, ByteXorBits DEF AddRoundKey, Block
<1> QED
  BY <1>1, <1>2, XorLaws DEF AddRoundKey, Block

LEMMA WordsOfBytes ==
  /\ \A b \in Block : Words(b) \in [1 .. 4 -> Word]
  /\ \A t \in [1 .. 32 -> Byte] : Bytes(t) \in Block
<1>1. ASSUME NEW b \in Block
      PROVE  Words(b) \in [1 .. 4 -> Word]
  <2>1. \A k \in 1 .. 4, j \in 1 .. 4 : 4 * (k - 1) + j - 1 \in 0 .. 15
    OBVIOUS
  <2> QED
    BY <2>1 DEF Words, Block, Word
<1>2. ASSUME NEW t \in [1 .. 32 -> Byte]
      PROVE  Bytes(t) \in Block
  <2>1. \A c \in Byte : charToHex(c) \in Nat
    BY DEF charToHex, Byte
  <2>2. \A c1, c2 \in Byte : charsToHex(c1, c2) \in Byte
    <3>1. \A m, n \in Nat : (m * 16 + n) % 256 \in 0 .. 255
      OBVIOUS
    <3> QED
      BY <2>1, <3>1, ZenonT(40) DEF charsToHex, Byte
  <2> QED
    BY <2>2 DEF Bytes, Block
<1> QED
  BY <1>1, <1>2

FourWords == [1 .. 4 -> Word]

\* Stage by stage, and the words that the stages show.
key_0 == KeyExpansionOne(Cipherkey, 0)
key_1 == KeyExpansionOne(key_0, 1)
key_2 == KeyExpansionOne(key_1, 2)
key_3 == KeyExpansionOne(key_2, 3)
key_4 == KeyExpansionOne(key_3, 4)
key_5 == KeyExpansionOne(key_4, 5)
key_6 == KeyExpansionOne(key_5, 6)
key_7 == KeyExpansionOne(key_6, 7)
key_8 == KeyExpansionOne(key_7, 8)
key_9 == KeyExpansionOne(key_8, 9)
Unrolled ==
  [k \in 0 .. 10 |->
     <<Cipherkey, key_0, key_1, key_2, key_3, key_4, key_5, key_6, key_7, key_8, key_9>>[k + 1]]
Chained == /\ Stage[0] = Cipherkey
           /\ \A k \in 0 .. 9 : Stage[k + 1] = KeyExpansionOne(Stage[k], k)
           /\ \A k \in 0 .. 10, j \in 0 .. 3 : KeySchedule[4 * k + j] = Stage[k][j + 1]

LEMMA StagesChained == Chained
<1> DEFINE Shown(f) ==
             [k \in 0 .. 10 |-> IF k = 0 THEN Cipherkey ELSE KeyExpansionOne(f[k - 1], k - 1)]
<1>1. Unrolled = Shown(Unrolled)
  <2>1. \A k \in 0 .. 10 : k \in {0, 1, 2, 3, 4, 5, 6, 7, 8, 9, 10}
    OBVIOUS
  <2>2. /\ Unrolled[0] = Cipherkey /\ Unrolled[1] = key_0 /\ Unrolled[2] = key_1
        /\ Unrolled[3] = key_2 /\ Unrolled[4] = key_3 /\ Unrolled[5] = key_4
        /\ Unrolled[6] = key_5 /\ Unrolled[7] = key_6 /\ Unrolled[8] = key_7
        /\ Unrolled[9] = key_8 /\ Unrolled[10] = key_9
    BY DEF Unrolled
  <2>3. \A k \in 0 .. 10 :
          Unrolled[k] = IF k = 0 THEN Cipherkey ELSE KeyExpansionOne(Unrolled[k - 1], k - 1)
    BY <2>1, <2>2 DEF key_0, key_1, key_2, key_3, key_4, key_5, key_6, key_7, key_8, key_9
  <2> QED
    BY <2>3 DEF Unrolled
<1>2. \E f : f = Shown(f)
  BY <1>1
<1>3. Stage = Shown(Stage)
  BY <1>2 DEF Stage
<1>4. Stage[0] = Cipherkey
  BY <1>3
<1>5. \A k \in 0 .. 9 : Stage[k + 1] = KeyExpansionOne(Stage[k], k)
  <2>1. \A k \in 0 .. 9 : k + 1 \in 0 .. 10 /\ k + 1 # 0 /\ (k + 1) - 1 = k
    OBVIOUS
  <2> QED
    BY <1>3, <2>1
<1>6. \A k \in 0 .. 10, j \in 0 .. 3 : KeySchedule[4 * k + j] = Stage[k][j + 1]
  <2>1. \A k \in 0 .. 10, j \in 0 .. 3 :
          4 * k + j \in 0 .. 43 /\ (4 * k + j) \div 4 = k /\ (4 * k + j) % 4 = j
    OBVIOUS
  <2> QED
    BY <2>1 DEF KeySchedule
<1> QED
  BY <1>4, <1>5, <1>6 DEF Chained

LEMMA KeyScheduleType ==
  ASSUME reg_file \in [0 .. 15 -> Word], subword \in [KeyStages -> Word]
  PROVE  KeySchedule \in Words44
<1>1. Cipherkey \in FourWords
  BY TupleType DEF Cipherkey, FourWords
<1>2. ASSUME NEW w \in FourWords, NEW k \in 0 .. 9
      PROVE  KeyExpansionOne(w, k) \in FourWords
  <2> DEFINE w0 == WordXor(WordXor(w[1], subword[k]), RconWord(k + 1))
             w1 == WordXor(w[2], w0)
             w2 == WordXor(w[3], w1)
             w3 == WordXor(w[4], w2)
  <2>1. /\ w[1] \in Word /\ w[2] \in Word /\ w[3] \in Word /\ w[4] \in Word
        /\ subword[k] \in Word /\ RconWord(k + 1) \in Word
    BY RconWords DEF FourWords, KeyStages
  <2>2. w0 \in Word
    BY <2>1, WordSteps
  <2> HIDE DEF w0
  <2>3. w1 \in Word
    BY <2>1, <2>2, WordSteps
  <2> HIDE DEF w1
  <2>4. w2 \in Word
    BY <2>1, <2>3, WordSteps
  <2> HIDE DEF w2
  <2>5. w3 \in Word
    BY <2>1, <2>4, WordSteps
  <2>6. KeyExpansionOne(w, k) = <<w0, w1, w2, w3>>
    BY DEF KeyExpansionOne, w0, w1, w2
  <2> HIDE DEF w3
  <2> QED
    BY <2>2, <2>3, <2>4, <2>5, <2>6, TupleType DEF FourWords
<1>3. ASSUME NEW k \in 0 .. 9, Stage[k] \in FourWords
      PROVE  Stage[k + 1] \in FourWords
  BY <1>2, <1>3, StagesChained DEF Chained
<1>4. Stage[0] \in FourWords /\ Stage[1] \in FourWords
  BY <1>1, <1>3, StagesChained DEF Chained
<1>5. Stage[2] \in FourWords /\ Stage[3] \in FourWords
  BY <1>3, <1>4
<1>6. Stage[4] \in FourWords /\ Stage[5] \in FourWords
  BY <1>3, <1>5
<1>7. Stage[6] \in FourWords /\ Stage[7] \in FourWords
  BY <1>3, <1>6
<1>8. Stage[8] \in FourWords /\ Stage[9] \in FourWords /\ Stage[10] \in FourWords
  BY <1>3, <1>7
<1>9. \A k \in 0 .. 10 : Stage[k] \in FourWords
  <2>1. \A k \in 0 .. 10 : k \in {0, 1, 2, 3, 4, 5, 6, 7, 8, 9, 10}
    OBVIOUS
  <2> QED
    BY <2>1, <1>4, <1>5, <1>6, <1>7, <1>8
<1>10. KeySchedule = [i \in 0 .. 43 |-> Stage[i \div 4][(i % 4) + 1]]
  BY DEF KeySchedule
<1>11. \A i \in 0 .. 43 : i \div 4 \in 0 .. 10 /\ (i % 4) + 1 \in 1 .. 4
  OBVIOUS
<1> QED
  BY <1>9, <1>10, <1>11 DEF FourWords, Words44

-----------------------------------------------------------------------------
(* The type invariant: the round is one of the ten while encrypt works,    *)
(* and four words of the key are there when its expansion begins.          *)
TypeOK ==
  /\ pc \in {"scan", "expand", "sub", "shift", "mix", "add", "write"}
  /\ round \in 0 .. 10
  /\ pc \in {"sub", "shift", "mix", "add"} => round >= 1
  /\ pc = "mix" => round <= 9
  /\ text \in Texts
  /\ state \in Block
  /\ expandedKey \in Words44
  /\ filled \in 0 .. 44
  /\ pc = "expand" => filled >= 4
  /\ msg_enc \in [1 .. 4 -> Word] /\ key \in [1 .. 4 -> Word]
  /\ next \in 0 .. 8
  /\ reg_file \in [0 .. 15 -> Word]
  /\ subword \in [KeyStages -> Word]
  /\ edges \in 0 .. 10

\* Every variable of main, encrypt and the hardware keeps its type.
THEOREM TypeCorrect == Spec => []TypeOK
<1>1. Init => TypeOK
  BY ZeroType DEF Init, TypeOK, Block, Words44
<1>2. TypeOK /\ [Next]_vars => TypeOK'
  <2> SUFFICES ASSUME TypeOK, [Next]_vars PROVE TypeOK'
    OBVIOUS
  <2> USE DEF TypeOK
  <2>1. ZeroWord \in Word
    BY ZeroType
  <2>2. CASE UNCHANGED vars
    BY <2>2 DEF vars, program
  <2>3. CASE Scan /\ UNCHANGED subword
    <3>1. /\ text' \in Texts /\ Bytes(text'.msg_ascii) \in Block
          /\ Words(Bytes(text'.key_ascii)) \in [1 .. 4 -> Word]
      BY <2>3, AesAssumption, WordsOfBytes DEF Scan
    <3>2. expandedKey' \in Words44
      BY <2>1, <2>3, <3>1 DEF Scan, Words44
    <3> QED
      BY <2>3, <3>1, <3>2 DEF Scan
  <2>4. CASE ExpandStep /\ UNCHANGED subword
    <3>1. filled \in 4 .. 43 /\ NextKeyWord(expandedKey, filled) \in Word
      BY <2>4, NextKeyWordType DEF ExpandStep
    <3>2. expandedKey' \in Words44
      BY <2>4, <3>1 DEF ExpandStep, Words44
    <3> QED
      BY <2>4, <3>1, <3>2 DEF ExpandStep
  <2>5. CASE FirstAdd /\ UNCHANGED subword
    <3>1. AddRoundKey(state, expandedKey, 0) \in Block
      <4>1. AddRoundKey(state, expandedKey, 4 * 0) \in Block
        BY AddRoundKeySteps
      <4> QED
        BY <4>1
    <3> QED
      BY <2>5, <3>1 DEF FirstAdd
  <2>6. CASE SubStep /\ UNCHANGED subword
    BY <2>6, BlockSteps DEF SubStep
  <2>7. CASE ShiftStep /\ UNCHANGED subword
    BY <2>7, BlockSteps DEF ShiftStep
  <2>8. CASE MixStep /\ UNCHANGED subword
    BY <2>8, BlockSteps DEF MixStep
  <2>9. CASE AddStep /\ UNCHANGED subword
    <3>1. state' \in Block
      BY <2>9, AddRoundKeySteps DEF AddStep
    <3>2. Words(state') \in [1 .. 4 -> Word] /\ Words(Bytes(text.key_ascii)) \in [1 .. 4 -> Word]
      BY <3>1, AesAssumption, WordsOfBytes
    <3> QED
      BY <2>9, <3>1, <3>2 DEF AddStep
  <2>10. CASE WriteStep /\ UNCHANGED subword
    <3>1. next \in 0 .. 7 /\ (IF next < 4 THEN key[next + 1] ELSE msg_enc[next - 3]) \in Word
      BY <2>10 DEF WriteStep
    <3> QED
      BY <2>10, <3>1 DEF WriteStep, AvalonWrite, program
  <2>11. CASE TestStep /\ UNCHANGED subword
    <3>1. <<\hde, \had, \hbe, \hef>> \in Word
      <4>1. {\hde, \had, \hbe, \hef} \subseteq Byte
        BY DEF Byte
      <4> QED
        BY <4>1, TupleType DEF Word
    <3> QED
      BY <2>11, <3>1 DEF TestStep, AvalonWrite, program
  <2>12. CASE HwEdge
    <3>1. subword' \in [KeyStages -> Word]
      <4>1. \A k \in KeyStages : SubWord(RotWord(KeySchedule[4 * k + 3])) \in Word
        BY KeyScheduleType, WordSteps DEF Words44, KeyStages
      <4> QED
        BY <2>12, <4>1 DEF HwEdge
    <3> QED
      BY <2>12, <3>1 DEF HwEdge, program, SettleEdges
  <2>13. CASE Reset
    BY <2>1, <2>13 DEF Reset, program
  <2> QED
    BY <2>2, <2>3, <2>4, <2>5, <2>6, <2>7, <2>8, <2>9, <2>10, <2>11, <2>12, <2>13
       DEF Next, Main
<1> QED
  BY <1>1, <1>2, PTL DEF Spec

(* Each module of the hardware undoes its step of the software, on every   *)
(* block: InvSubBytes SubBytes, InvShiftRows ShiftRows, InvMixColumns      *)
(* MixColumns.                                                             *)
THEOREM StepsCorrect == Spec => StepsUndone
<1>1. TypeOK /\ [Next]_vars => [StepUndone]_vars
  BY BlockSteps DEF TypeOK, StepUndone, SubStep, ShiftStep, MixStep
<1> QED
  BY <1>1, TypeCorrect, PTL DEF Spec, StepsUndone

-----------------------------------------------------------------------------
\* A stage shows what it showed while the key and the bytes of the stages
\* before it stay.
LEMMA StagesStay ==
  ASSUME NEW e \in 0 .. 10, Cipherkey' = Cipherkey,
         \A k \in 0 .. 9 : k < e => subword'[k] = subword[k]
  PROVE  \A k \in 0 .. 10 : k <= e => Stage'[k] = Stage[k]
<1>0. Chained'
  BY StagesChained, PTL
<1>1. ASSUME NEW k \in 0 .. 9, k < e, Stage'[k] = Stage[k]
      PROVE  Stage'[k + 1] = Stage[k + 1]
  <2>1. Stage'[k + 1] = KeyExpansionOne(Stage[k], k)' /\ Stage[k + 1] = KeyExpansionOne(Stage[k], k)
    BY <1>0, StagesChained DEF Chained
  <2> QED
    BY <1>1, <2>1 DEF KeyExpansionOne
<1>2. Stage'[0] = Stage[0]
  BY <1>0, StagesChained DEF Chained
<1>3. 1 <= e => Stage'[1] = Stage[1]
  BY <1>1, <1>2
<1>4. 2 <= e => Stage'[2] = Stage[2]
  BY <1>1, <1>3
<1>5. 3 <= e => Stage'[3] = Stage[3]
  BY <1>1, <1>4
<1>6. 4 <= e => Stage'[4] = Stage[4]
  BY <1>1, <1>5
<1>7. 5 <= e => Stage'[5] = Stage[5]
  BY <1>1, <1>6
<1>8. 6 <= e => Stage'[6] = Stage[6]
  BY <1>1, <1>7
<1>9. 7 <= e => Stage'[7] = Stage[7]
  BY <1>1, <1>8
<1>10. 8 <= e => Stage'[8] = Stage[8]
  BY <1>1, <1>9
<1>11. 9 <= e => Stage'[9] = Stage[9]
  BY <1>1, <1>10
<1>12. 10 <= e => Stage'[10] = Stage[10]
  BY <1>1, <1>11
<1>13. \A k \in 0 .. 10 : k \in {0, 1, 2, 3, 4, 5, 6, 7, 8, 9, 10}
  OBVIOUS
<1> QED
  BY <1>2, <1>3, <1>4, <1>5, <1>6, <1>7, <1>8, <1>9, <1>10, <1>11, <1>12, <1>13

\* After so many edges with one key that many stages hold the substituted
\* bytes of the word before them.
Settled == \A k \in 0 .. 9 : edges > k => subword[k] = SubWord(RotWord(Stage[k][4]))

LEMMA SettledKept ==
  ASSUME TypeOK, Settled, [Next]_vars
  PROVE  Settled'
<1> USE DEF Settled, TypeOK
<1>1. CASE reg_file' = reg_file /\ subword' = subword /\ edges' = edges
  <2>1. Cipherkey' = Cipherkey
    BY <1>1 DEF Cipherkey
  <2>2. \A k \in 0 .. 10 : k <= 10 => Stage'[k] = Stage[k]
    BY <1>1, <2>1, StagesStay
  <2> QED
    BY <1>1, <2>2
<1>2. CASE edges' = 0
  BY <1>2
<1>3. ASSUME NEW addr \in 0 .. 15, NEW data, AvalonWrite(addr, data), UNCHANGED subword
      PROVE  Settled'
  <2>1. CASE addr < 4
    BY <1>2, <1>3, <2>1 DEF AvalonWrite
  <2>2. CASE addr >= 4
    <3>1. Cipherkey' = Cipherkey
      BY <1>3, <2>2 DEF AvalonWrite, Cipherkey
    <3>2. \A k \in 0 .. 10 : k <= 10 => Stage'[k] = Stage[k]
      BY <1>3, <3>1, StagesStay
    <3> QED
      BY <1>3, <2>2, <3>2 DEF AvalonWrite
  <2> QED
    BY <2>1, <2>2
<1>4. CASE HwEdge
  <2>1. \A k \in 0 .. 9 : subword'[k] = SubWord(RotWord(Stage[k][4]))
    <3>1. \A k \in 0 .. 9 : subword'[k] = SubWord(RotWord(KeySchedule[4 * k + 3]))
      BY <1>4 DEF HwEdge, KeyStages
    <3> QED
      BY <3>1, StagesChained DEF Chained
  <2>2. Cipherkey' = Cipherkey
    BY <1>4 DEF HwEdge, Cipherkey
  <2>3. \A k \in 0 .. 9 : k < edges => subword'[k] = subword[k]
    BY <2>1
  <2>4. \A k \in 0 .. 10 : k <= edges => Stage'[k] = Stage[k]
    BY <2>2, <2>3, StagesStay
  <2>5. \A k \in 0 .. 9 : edges' > k => k <= edges
    BY <1>4 DEF HwEdge, SettleEdges
  <2> QED
    BY <2>1, <2>4, <2>5
<1>5. CASE Main
  <2>1. CASE WriteStep
    BY <1>3, <1>5, <2>1 DEF Main, WriteStep
  <2>2. CASE TestStep
    BY <1>3, <1>5, <2>2 DEF Main, TestStep
  <2> QED
    BY <1>1, <1>5, <2>1, <2>2, SMTT(40)
       DEF Main, Scan, ExpandStep, FirstAdd, SubStep, ShiftStep, MixStep, AddStep
<1>6. CASE Reset
  BY <1>2, <1>6 DEF Reset
<1>7. CASE UNCHANGED vars
  BY <1>1, <1>7 DEF vars
<1> QED
  BY <1>4, <1>5, <1>6, <1>7 DEF Next

\* What the stages then show is the key expanded.
LEMMA ExpandedWhenSettled ==
  ASSUME TypeOK, Settled, edges >= SettleEdges
  PROVE  IsKeyExpansion(KeySchedule, Cipherkey)
<1>1. \A i \in 0 .. 3 : KeySchedule[i] = Cipherkey[i + 1]
  <2>1. \A i \in 0 .. 3 : KeySchedule[4 * 0 + i] = Stage[0][i + 1] /\ 4 * 0 + i = i
    BY StagesChained DEF Chained
  <2> QED
    BY <2>1, StagesChained DEF Chained
<1>2. ASSUME NEW i \in 4 .. 43
      PROVE  KeySchedule[i] = NextKeyWord(KeySchedule, i)
  <2>1. PICK k \in 0 .. 9, j \in 0 .. 3 :
          /\ i = 4 * (k + 1) + j /\ i % 4 = j /\ i \div 4 = k + 1 /\ i - 4 = 4 * k + j
    <3>1. /\ (i \div 4) - 1 \in 0 .. 9 /\ i % 4 \in 0 .. 3
          /\ i = 4 * (((i \div 4) - 1) + 1) + (i % 4)
          /\ i - 4 = 4 * ((i \div 4) - 1) + (i % 4)
      OBVIOUS
    <3> QED
      BY <3>1
  <2> DEFINE old == Stage[k]
             w0 == WordXor(WordXor(old[1], subword[k]), RconWord(k + 1))
             w1 == WordXor(old[2], w0)
             w2 == WordXor(old[3], w1)
             w3 == WordXor(old[4], w2)
  <2>2. Stage[k + 1] = <<w0, w1, w2, w3>>
    BY StagesChained DEF Chained, KeyExpansionOne
  <2>3. /\ \A n \in 0 .. 3 : KeySchedule[4 * (k + 1) + n] = Stage[k + 1][n + 1]
        /\ \A n \in 0 .. 3 : KeySchedule[4 * k + n] = old[n + 1]
    BY StagesChained DEF Chained
  <2>4. CASE j = 0
    <3>1. /\ i - 1 = 4 * k + 3 /\ i = 4 * (k + 1) + 0 /\ i - 4 = 4 * k + 0
      BY <2>1, <2>4
    <3>2. KeySchedule[i] = w0 /\ KeySchedule[i - 1] = old[4] /\ KeySchedule[i - 4] = old[1]
      BY <2>2, <2>3, <3>1
    <3>3. subword[k] = SubWord(RotWord(old[4]))
      BY DEF Settled, SettleEdges, TypeOK
    <3>4. old[1] \in Word /\ old[4] \in Word /\ subword[k] \in Word /\ RconWord(k + 1) \in Word
      <4>1. KeySchedule \in Words44
        BY KeyScheduleType DEF TypeOK
      <4>2. i - 4 \in 0 .. 43 /\ i - 1 \in 0 .. 43 /\ k + 1 \in 1 .. 10 /\ k \in KeyStages
        BY DEF KeyStages
      <4> QED
        BY <3>2, <4>1, <4>2, RconWords DEF Words44, TypeOK
    <3>5. w0 = WordXor(old[1], WordXor(subword[k], RconWord(k + 1)))
      <4> HIDE DEF old
      <4> QED
        BY <3>4, WordXorLaws
    <3> HIDE DEF w0, old
    <3> QED
      BY <2>1, <2>4, <3>2, <3>3, <3>5 DEF NextKeyWord
  <2>5. CASE j = 1
    <3>1. /\ i - 1 = 4 * (k + 1) + 0 /\ i = 4 * (k + 1) + 1 /\ i - 4 = 4 * k + 1
      BY <2>1, <2>5
    <3>2. KeySchedule[i] = w1 /\ KeySchedule[i - 1] = w0 /\ KeySchedule[i - 4] = old[2]
      BY <2>2, <2>3, <3>1
    <3> HIDE DEF w0, old
    <3> QED
      BY <2>1, <2>5, <3>2 DEF NextKeyWord
  <2>6. CASE j = 2
    <3>1. /\ i - 1 = 4 * (k + 1) + 1 /\ i = 4 * (k + 1) + 2 /\ i - 4 = 4 * k + 2
      BY <2>1, <2>6
    <3>2. KeySchedule[i] = w2 /\ KeySchedule[i - 1] = w1 /\ KeySchedule[i - 4] = old[3]
      BY <2>2, <2>3, <3>1
    <3> HIDE DEF w1, old
    <3> QED
      BY <2>1, <2>6, <3>2 DEF NextKeyWord
  <2>7. CASE j = 3
    <3>1. /\ i - 1 = 4 * (k + 1) + 2 /\ i = 4 * (k + 1) + 3 /\ i - 4 = 4 * k + 3
      BY <2>1, <2>7
    <3>2. KeySchedule[i] = w3 /\ KeySchedule[i - 1] = w2 /\ KeySchedule[i - 4] = old[4]
      BY <2>2, <2>3, <3>1
    <3> HIDE DEF w2, old
    <3> QED
      BY <2>1, <2>7, <3>2 DEF NextKeyWord
  <2> QED
    BY <2>4, <2>5, <2>6, <2>7
<1> QED
  BY <1>1, <1>2 DEF IsKeyExpansion

THEOREM SettledCorrect == Spec => []Settled
<1>1. Init => Settled
  BY DEF Init, Settled
<1>2. TypeOK /\ Settled /\ [Next]_vars => Settled'
  BY SettledKept
<1> QED
  BY <1>1, <1>2, TypeCorrect, PTL DEF Spec

(* "KeyExpansion does not complete in single clock cycle": ten edges after *)
(* the last write to the key registers it shows the key expanded.          *)
THEOREM ScheduleCorrect == Spec => []ScheduleSettles
<1>1. TypeOK /\ Settled => ScheduleSettles
  BY ExpandedWhenSettled DEF ScheduleSettles
<1> QED
  BY <1>1, TypeCorrect, SettledCorrect, PTL

-----------------------------------------------------------------------------
\* Two expansions of the same key into forty-four words are one.
LEMMA OneExpansion ==
  ASSUME NEW ks \in Words44, NEW hs \in Words44, NEW words,
         IsKeyExpansion(ks, words), IsKeyExpansion(hs, words)
  PROVE  ks = hs
<1> DEFINE Same(k) == \A j \in 0 .. 3 : ks[4 * k + j] = hs[4 * k + j]
<1>1. ASSUME NEW i \in 4 .. 43, ks[i - 4] = hs[i - 4], ks[i - 1] = hs[i - 1]
      PROVE  ks[i] = hs[i]
  BY <1>1 DEF IsKeyExpansion, NextKeyWord
<1>2. ASSUME NEW k \in 0 .. 9, Same(k)
      PROVE  Same(k + 1)
  <2>1. /\ ks[4 * k] = hs[4 * k] /\ ks[4 * k + 1] = hs[4 * k + 1]
        /\ ks[4 * k + 2] = hs[4 * k + 2] /\ ks[4 * k + 3] = hs[4 * k + 3]
    BY <1>2
  <2>2. /\ 4 * k + 4 \in 4 .. 43 /\ (4 * k + 4) - 4 = 4 * k /\ (4 * k + 4) - 1 = 4 * k + 3
        /\ 4 * k + 5 \in 4 .. 43 /\ (4 * k + 5) - 4 = 4 * k + 1 /\ (4 * k + 5) - 1 = 4 * k + 4
        /\ 4 * k + 6 \in 4 .. 43 /\ (4 * k + 6) - 4 = 4 * k + 2 /\ (4 * k + 6) - 1 = 4 * k + 5
        /\ 4 * k + 7 \in 4 .. 43 /\ (4 * k + 7) - 4 = 4 * k + 3 /\ (4 * k + 7) - 1 = 4 * k + 6
    OBVIOUS
  <2>3. ks[4 * k + 4] = hs[4 * k + 4]
    BY <1>1, <2>1, <2>2
  <2>4. ks[4 * k + 5] = hs[4 * k + 5]
    BY <1>1, <2>1, <2>2, <2>3
  <2>5. ks[4 * k + 6] = hs[4 * k + 6]
    BY <1>1, <2>1, <2>2, <2>4
  <2>6. ks[4 * k + 7] = hs[4 * k + 7]
    BY <1>1, <2>1, <2>2, <2>5
  <2>7. /\ 4 * (k + 1) + 0 = 4 * k + 4 /\ 4 * (k + 1) + 1 = 4 * k + 5
        /\ 4 * (k + 1) + 2 = 4 * k + 6 /\ 4 * (k + 1) + 3 = 4 * k + 7
        /\ \A j \in 0 .. 3 : j \in {0, 1, 2, 3}
    OBVIOUS
  <2> QED
    BY <2>3, <2>4, <2>5, <2>6, <2>7
<1>3. Same(0)
  <2>1. \A j \in 0 .. 3 : 4 * 0 + j = j
    OBVIOUS
  <2> QED
    BY <2>1 DEF IsKeyExpansion
<1> HIDE DEF Same
<1>4. Same(1)
  BY <1>2, <1>3
<1>5. Same(2)
  BY <1>2, <1>4
<1>6. Same(3)
  BY <1>2, <1>5
<1>7. Same(4)
  BY <1>2, <1>6
<1>8. Same(5)
  BY <1>2, <1>7
<1>9. Same(6)
  BY <1>2, <1>8
<1>10. Same(7)
  BY <1>2, <1>9
<1>11. Same(8)
  BY <1>2, <1>10
<1>12. Same(9)
  BY <1>2, <1>11
<1>13. Same(10)
  BY <1>2, <1>12
<1>14. \A k \in 0 .. 10 : Same(k)
  <2>1. \A k \in 0 .. 10 : k \in {0, 1, 2, 3, 4, 5, 6, 7, 8, 9, 10}
    OBVIOUS
  <2> QED
    BY <2>1, <1>3, <1>4, <1>5, <1>6, <1>7, <1>8, <1>9, <1>10, <1>11, <1>12, <1>13
<1>15. ASSUME NEW i \in 0 .. 43
       PROVE  ks[i] = hs[i]
  <2>1. i \div 4 \in 0 .. 10 /\ i % 4 \in 0 .. 3 /\ i = 4 * (i \div 4) + (i % 4)
    OBVIOUS
  <2> QED
    BY <1>14, <2>1 DEF Same
<1> QED
  BY <1>15 DEF Words44

\* The blocks that encrypt passes through, after each addition of a round key.
Past0 == AddRoundKey(Bytes(text.msg_ascii), expandedKey, 0)
Past1 == AddRoundKey(MixColumns(ShiftRows(SubBytes(Past0))), expandedKey, 4)
Past2 == AddRoundKey(MixColumns(ShiftRows(SubBytes(Past1))), expandedKey, 8)
Past3 == AddRoundKey(MixColumns(ShiftRows(SubBytes(Past2))), expandedKey, 12)
Past4 == AddRoundKey(MixColumns(ShiftRows(SubBytes(Past3))), expandedKey, 16)
Past5 == AddRoundKey(MixColumns(ShiftRows(SubBytes(Past4))), expandedKey, 20)
Past6 == AddRoundKey(MixColumns(ShiftRows(SubBytes(Past5))), expandedKey, 24)
Past7 == AddRoundKey(MixColumns(ShiftRows(SubBytes(Past6))), expandedKey, 28)
Past8 == AddRoundKey(MixColumns(ShiftRows(SubBytes(Past7))), expandedKey, 32)
Past9 == AddRoundKey(MixColumns(ShiftRows(SubBytes(Past8))), expandedKey, 36)
Past == [r \in 0 .. 9 |-> <<Past0, Past1, Past2, Past3, Past4, Past5, Past6, Past7, Past8, Past9>>[r + 1]]
Mixed(r) == MixColumns(ShiftRows(SubBytes(Past[r - 1])))
Encrypted == AddRoundKey(ShiftRows(SubBytes(Past[9])), expandedKey, 40)

LEMMA PastSteps ==
  ASSUME text.msg_ascii \in [1 .. 32 -> Byte], expandedKey \in Words44
  PROVE  /\ \A r \in 0 .. 9 : Past[r] \in Block
         /\ Past[0] = AddRoundKey(Bytes(text.msg_ascii), expandedKey, 0)
         /\ \A r \in 1 .. 9 : Past[r] = AddRoundKey(Mixed(r), expandedKey, 4 * r)
<1>0. 4 * 0 = 0
  OBVIOUS
<1>1. /\ Past[0] = Past0 /\ Past[1] = Past1 /\ Past[2] = Past2 /\ Past[3] = Past3 /\ Past[4] = Past4
      /\ Past[5] = Past5 /\ Past[6] = Past6 /\ Past[7] = Past7 /\ Past[8] = Past8 /\ Past[9] = Past9
  BY DEF Past
<1>2. \A r \in 1 .. 9 : r \in {1, 2, 3, 4, 5, 6, 7, 8, 9}
  OBVIOUS
<1>3. Past[0] = AddRoundKey(Bytes(text.msg_ascii), expandedKey, 0)
  BY <1>1 DEF Past0
<1>4. Past[1] = AddRoundKey(Mixed(1), expandedKey, 4 * 1)
  <2>1. 4 * 1 = 4 /\ 1 - 1 = 0
    OBVIOUS
  <2> QED
    BY <1>1, <2>1 DEF Past1, Mixed
<1>5. Past[2] = AddRoundKey(Mixed(2), expandedKey, 4 * 2)
  <2>1. 4 * 2 = 8 /\ 2 - 1 = 1
    OBVIOUS
  <2> QED
    BY <1>1, <2>1 DEF Past2, Mixed
<1>6. Past[3] = AddRoundKey(Mixed(3), expandedKey, 4 * 3)
  <2>1. 4 * 3 = 12 /\ 3 - 1 = 2
    OBVIOUS
  <2> QED
    BY <1>1, <2>1 DEF Past3, Mixed
<1>7. Past[4] = AddRoundKey(Mixed(4), expandedKey, 4 * 4)
  <2>1. 4 * 4 = 16 /\ 4 - 1 = 3
    OBVIOUS
  <2> QED
    BY <1>1, <2>1 DEF Past4, Mixed
<1>8. Past[5] = AddRoundKey(Mixed(5), expandedKey, 4 * 5)
  <2>1. 4 * 5 = 20 /\ 5 - 1 = 4
    OBVIOUS
  <2> QED
    BY <1>1, <2>1 DEF Past5, Mixed
<1>9. Past[6] = AddRoundKey(Mixed(6), expandedKey, 4 * 6)
  <2>1. 4 * 6 = 24 /\ 6 - 1 = 5
    OBVIOUS
  <2> QED
    BY <1>1, <2>1 DEF Past6, Mixed
<1>10. Past[7] = AddRoundKey(Mixed(7), expandedKey, 4 * 7)
  <2>1. 4 * 7 = 28 /\ 7 - 1 = 6
    OBVIOUS
  <2> QED
    BY <1>1, <2>1 DEF Past7, Mixed
<1>11. Past[8] = AddRoundKey(Mixed(8), expandedKey, 4 * 8)
  <2>1. 4 * 8 = 32 /\ 8 - 1 = 7
    OBVIOUS
  <2> QED
    BY <1>1, <2>1 DEF Past8, Mixed
<1>12. Past[9] = AddRoundKey(Mixed(9), expandedKey, 4 * 9)
  <2>1. 4 * 9 = 36 /\ 9 - 1 = 8
    OBVIOUS
  <2> QED
    BY <1>1, <2>1 DEF Past9, Mixed
<1>13. ASSUME NEW r \in 1 .. 9, Past[r - 1] \in Block, Past[r] = AddRoundKey(Mixed(r), expandedKey, 4 * r)
       PROVE  Past[r] \in Block
  <2>1. Mixed(r) \in Block
    BY <1>13, BlockSteps DEF Mixed
  <2>2. r \in 0 .. 10
    OBVIOUS
  <2>3. AddRoundKey(Mixed(r), expandedKey, 4 * r) \in Block
    BY <2>1, <2>2, AddRoundKeySteps
  <2> QED
    BY <1>13, <2>3
<1>14. Past[0] \in Block
  <2>1. Bytes(text.msg_ascii) \in Block
    BY WordsOfBytes
  <2> QED
    BY <1>0, <1>3, <2>1, AddRoundKeySteps
<1>15. Past[1] \in Block
  BY <1>13, <1>4, <1>14
<1>16. Past[2] \in Block
  BY <1>13, <1>5, <1>15
<1>17. Past[3] \in Block
  BY <1>13, <1>6, <1>16
<1>18. Past[4] \in Block
  BY <1>13, <1>7, <1>17
<1>19. Past[5] \in Block
  BY <1>13, <1>8, <1>18
<1>20. Past[6] \in Block
  BY <1>13, <1>9, <1>19
<1>21. Past[7] \in Block
  BY <1>13, <1>10, <1>20
<1>22. Past[8] \in Block
  BY <1>13, <1>11, <1>21
<1>23. Past[9] \in Block
  BY <1>13, <1>12, <1>22
<1>24. \A r \in 1 .. 9 : Past[r] = AddRoundKey(Mixed(r), expandedKey, 4 * r)
  BY <1>2, <1>4, <1>5, <1>6, <1>7, <1>8, <1>9, <1>10, <1>11, <1>12
<1>25. \A r \in 0 .. 9 : r = 0 \/ r \in 1 .. 9
  OBVIOUS
<1>26. \A r \in 0 .. 9 : Past[r] \in Block
  BY <1>2, <1>25, <1>14, <1>15, <1>16, <1>17, <1>18, <1>19, <1>20, <1>21, <1>22, <1>23
<1> QED
  BY <1>3, <1>24, <1>26

LEMMA PastStays ==
  ASSUME UNCHANGED <<text, expandedKey>>
  PROVE  Past' = Past
BY DEF Past, Past0, Past1, Past2, Past3, Past4, Past5, Past6, Past7, Past8, Past9

-----------------------------------------------------------------------------
(* The inductive invariant behind the last theorem.  The words of the key  *)
(* so far are its expansion; the block is where its round says in the      *)
(* chain of blocks; the registers written hold what they are to hold.      *)
Encrypting == {"expand", "sub", "shift", "mix", "add", "write"}
KeyInv ==
  pc \in Encrypting =>
    /\ \A i \in 0 .. 3 : expandedKey[i] = Words(Bytes(text.key_ascii))[i + 1]
    /\ \A i \in 4 .. 43 : i < filled => expandedKey[i] = NextKeyWord(expandedKey, i)
    /\ pc # "expand" => filled = 44
BlockInv ==
  /\ pc = "expand" => state = Bytes(text.msg_ascii)
  /\ pc = "sub" => state = Past[round - 1]
  /\ pc = "shift" => state = SubBytes(Past[round - 1])
  /\ pc = "mix" => state = ShiftRows(SubBytes(Past[round - 1]))
  /\ pc = "add" => IF round <= 9 THEN state = Mixed(round)
                                 ELSE state = ShiftRows(SubBytes(Past[9]))
WriteInv ==
  pc = "write" =>
    /\ msg_enc = Words(Encrypted) /\ key = Words(Bytes(text.key_ascii))
    /\ \A r \in 0 .. 7 : r < next => reg_file[r] = IF r < 4 THEN key[r + 1] ELSE msg_enc[r - 3]
Inv == KeyInv /\ BlockInv /\ WriteInv

LEMMA KeyInvKept ==
  ASSUME TypeOK, KeyInv, [Next]_vars
  PROVE  KeyInv'
<1> USE DEF KeyInv, Encrypting
<1>1. CASE Scan
  <2>1. /\ pc' = "expand" /\ filled' = 4
        /\ \A i \in 0 .. 3 : expandedKey'[i] = Words(Bytes(text'.key_ascii))[i + 1]
    BY <1>1 DEF Scan
  <2> QED
    BY <2>1
<1>2. CASE ExpandStep
  <2>1. /\ filled \in 4 .. 43 /\ filled' = filled + 1 /\ pc = "expand" /\ pc' = "expand"
        /\ text' = text
        /\ expandedKey'[filled] = NextKeyWord(expandedKey, filled)
        /\ \A i \in 0 .. 43 : i # filled => expandedKey'[i] = expandedKey[i]
    BY <1>2 DEF ExpandStep, TypeOK, Words44
  <2>2. ASSUME NEW i \in 4 .. 43, i <= filled
        PROVE  NextKeyWord(expandedKey, i)' = NextKeyWord(expandedKey, i)
    <3>1. /\ i - 4 \in 0 .. 43 /\ i - 4 # filled /\ i - 1 \in 0 .. 43 /\ i - 1 # filled
      BY <2>2, <2>1
    <3>2. expandedKey'[i - 4] = expandedKey[i - 4] /\ expandedKey'[i - 1] = expandedKey[i - 1]
      BY <2>1, <3>1
    <3> QED
      BY <3>2 DEF NextKeyWord
  <2>3. \A i \in 4 .. 43 : i < filled' => i = filled \/ i < filled
    BY <2>1
  <2>4. \A i \in 0 .. 3 : i # filled /\ i \in 0 .. 43
    BY <2>1
  <2> QED
    BY <2>1, <2>2, <2>3, <2>4
<1>3. CASE FirstAdd \/ SubStep \/ ShiftStep \/ MixStep \/ AddStep
  <2>1. /\ text' = text /\ expandedKey' = expandedKey /\ filled' = filled
        /\ pc \in Encrypting /\ (filled = 44)
    BY <1>3 DEF FirstAdd, SubStep, ShiftStep, MixStep, AddStep
  <2> QED
    BY <2>1 DEF NextKeyWord
<1>4. CASE pc' = pc /\ UNCHANGED program
  BY <1>4 DEF program, NextKeyWord
<1>5. CASE pc' = "scan"
  BY <1>5
<1> QED
  BY <1>1, <1>2, <1>3, <1>4, <1>5 DEF Next, Main, WriteStep, TestStep, HwEdge, Reset, vars

LEMMA BlockInvKept ==
  ASSUME TypeOK, BlockInv, [Next]_vars
  PROVE  BlockInv'
<1> USE DEF BlockInv
<1>1. CASE Scan
  BY <1>1 DEF Scan
<1>2. CASE ExpandStep
  BY <1>2 DEF ExpandStep
<1>3. ASSUME UNCHANGED <<text, expandedKey>>
      PROVE  /\ Past' = Past
             /\ \A r \in 0 .. 10 : Mixed(r)' = Mixed(r)
  BY <1>3, PastStays DEF Mixed
<1>4. CASE FirstAdd
  <2>1. text.msg_ascii \in [1 .. 32 -> Byte] /\ expandedKey \in Words44
    BY AesAssumption DEF TypeOK
  <2> QED
    BY <1>3, <1>4, <2>1, PastSteps DEF FirstAdd
<1>5. CASE SubStep
  BY <1>3, <1>5 DEF SubStep
<1>6. CASE ShiftStep
  <2>1. round \in 1 .. 10 /\ (round <= 9 \/ round - 1 = 9)
    BY <1>6 DEF ShiftStep, TypeOK
  <2> QED
    BY <1>3, <1>6, <2>1 DEF ShiftStep
<1>7. CASE MixStep
  <2>1. round \in 1 .. 9
    BY <1>7 DEF MixStep, TypeOK
  <2>2. state' = Mixed(round)
    BY <1>7 DEF MixStep, Mixed
  <2> QED
    BY <1>3, <1>7, <2>1, <2>2 DEF MixStep
<1>8. CASE AddStep
  <2>1. CASE round <= 9
    <3>1. round \in 1 .. 9 /\ (round + 1) - 1 = round
      BY <1>8, <2>1 DEF AddStep, TypeOK
    <3>2. text.msg_ascii \in [1 .. 32 -> Byte] /\ expandedKey \in Words44
      BY AesAssumption DEF TypeOK
    <3>3. state' = Past[round]
      BY <1>8, <2>1, <3>1, <3>2, PastSteps DEF AddStep
    <3>4. pc' = "sub" /\ round' = round + 1
      BY <1>8, <2>1 DEF AddStep
    <3> QED
      BY <1>3, <1>8, <3>1, <3>3, <3>4 DEF AddStep
  <2>2. CASE ~(round <= 9)
    BY <1>8, <2>2 DEF AddStep
  <2> QED
    BY <2>1, <2>2
<1>9. CASE pc' = pc /\ round' = round /\ UNCHANGED program
  <2>1. round \in 0 .. 10
    BY DEF TypeOK
  <2> QED
    BY <1>3, <1>9, <2>1 DEF program
<1>10. CASE pc' = "scan"
  BY <1>10
<1> QED
  BY <1>1, <1>2, <1>4, <1>5, <1>6, <1>7, <1>8, <1>9, <1>10
     DEF Next, Main, WriteStep, TestStep, HwEdge, Reset, vars

LEMMA WriteInvKept ==
  ASSUME TypeOK, BlockInv, WriteInv, [Next]_vars
  PROVE  WriteInv'
<1> USE DEF WriteInv
<1>1. CASE pc' # "write"
  BY <1>1
<1>2. CASE AddStep
  <2>1. CASE round <= 9
    BY <1>2, <2>1 DEF AddStep
  <2>2. CASE ~(round <= 9)
    <3>1. round = 10 /\ 4 * round = 40
      BY <2>2 DEF TypeOK
    <3>2. state' = Encrypted
      BY <1>2, <2>2, <3>1 DEF AddStep, BlockInv, Encrypted
    <3>3. Encrypted' = Encrypted
      BY <1>2, PastStays DEF AddStep, Encrypted
    <3>4. /\ msg_enc' = Words(state') /\ key' = Words(Bytes(text'.key_ascii)) /\ next' = 0
      BY <1>2, <2>2 DEF AddStep
    <3> QED
      BY <3>2, <3>3, <3>4
  <2> QED
    BY <2>1, <2>2
<1>3. ASSUME UNCHANGED program
      PROVE  /\ Encrypted' = Encrypted /\ msg_enc' = msg_enc /\ key' = key
             /\ Words(Bytes(text.key_ascii))' = Words(Bytes(text.key_ascii))
  BY <1>3, PastStays DEF program, Encrypted
<1>4. CASE WriteStep
  <2>1. /\ next \in 0 .. 7 /\ next' = next + 1 /\ pc = "write" /\ pc' = "write"
        /\ reg_file'[next] = IF next < 4 THEN key[next + 1] ELSE msg_enc[next - 3]
        /\ \A r \in 0 .. 15 : r # next => reg_file'[r] = reg_file[r]
    BY <1>4 DEF WriteStep, AvalonWrite, TypeOK
  <2>2. \A r \in 0 .. 7 : r \in 0 .. 15 /\ (r < next' => r = next \/ r < next)
    BY <2>1
  <2>3. UNCHANGED program
    BY <1>4 DEF WriteStep
  <2> QED
    BY <1>3, <2>1, <2>2, <2>3
<1>5. CASE pc' = pc /\ next' = next /\ reg_file' = reg_file /\ UNCHANGED program
  BY <1>3, <1>5
<1>6. CASE Main
  BY <1>1, <1>2, <1>4, <1>6
     DEF Main, Scan, ExpandStep, FirstAdd, SubStep, ShiftStep, MixStep, TestStep
<1> QED
  BY <1>1, <1>5, <1>6 DEF Next, HwEdge, Reset, vars

THEOREM InvCorrect == Spec => []Inv
<1>1. Init => Inv
  BY DEF Init, Inv, KeyInv, Encrypting, BlockInv, WriteInv
<1>2. TypeOK /\ Inv /\ [Next]_vars => Inv'
  BY KeyInvKept, BlockInvKept, WriteInvKept DEF Inv
<1> QED
  BY <1>1, <1>2, TypeCorrect, PTL DEF Spec

\* One round of the hardware takes back one round of the software.
LEMMA RoundUndone ==
  ASSUME TypeOK, text.msg_ascii \in [1 .. 32 -> Byte], NEW r \in 0 .. 9
  PROVE  /\ Undo(ShiftRows(SubBytes(Past[r])), expandedKey, r) =
              IF r = 0 THEN Bytes(text.msg_ascii) ELSE Mixed(r)
         /\ r # 0 => UndoRound(ShiftRows(SubBytes(Past[r])), expandedKey, r) =
                       ShiftRows(SubBytes(Past[r - 1]))
<1>0. expandedKey \in Words44
  BY DEF TypeOK
<1>1. Past[r] \in Block
  BY <1>0, PastSteps
<1>2. InvSubBytes(InvShiftRows(ShiftRows(SubBytes(Past[r])))) = Past[r]
  BY <1>1, BlockSteps
<1>3. Undo(ShiftRows(SubBytes(Past[r])), expandedKey, r) = AddRoundKey(Past[r], expandedKey, 4 * r)
  BY <1>2 DEF Undo
<1>4. CASE r = 0
  <2>1. Bytes(text.msg_ascii) \in Block /\ 4 * 0 = 0
    BY WordsOfBytes
  <2>2. Past[0] = AddRoundKey(Bytes(text.msg_ascii), expandedKey, 4 * 0)
    BY <1>0, <2>1, PastSteps
  <2>3. AddRoundKey(Past[0], expandedKey, 4 * 0) = Bytes(text.msg_ascii)
    BY <1>0, <2>1, <2>2, AddRoundKeySteps
  <2> QED
    BY <1>3, <1>4, <2>3
<1>5. CASE r # 0
  <2>1. r \in 1 .. 9 /\ r - 1 \in 0 .. 9 /\ r \in 0 .. 10
    BY <1>5
  <2>2. /\ Past[r - 1] \in Block
        /\ Past[r] = AddRoundKey(Mixed(r), expandedKey, 4 * r)
    BY <1>0, <2>1, PastSteps
  <2>3. ShiftRows(SubBytes(Past[r - 1])) \in Block /\ Mixed(r) \in Block
    BY <2>2, BlockSteps DEF Mixed
  <2>4. Undo(ShiftRows(SubBytes(Past[r])), expandedKey, r) = Mixed(r)
    <3>1. AddRoundKey(AddRoundKey(Mixed(r), expandedKey, 4 * r), expandedKey, 4 * r) = Mixed(r)
      BY <1>0, <2>1, <2>3, AddRoundKeySteps
    <3> QED
      BY <1>3, <2>2, <3>1
  <2>5. InvMixColumns(Mixed(r)) = ShiftRows(SubBytes(Past[r - 1]))
    BY <2>3, BlockSteps DEF Mixed
  <2> QED
    BY <1>5, <2>4, <2>5 DEF UndoRound
<1> QED
  BY <1>4, <1>5

LEMMA DecryptsWhenSettled ==
  ASSUME TypeOK, Settled, Inv, pc = "write", next = 8, edges >= SettleEdges
  PROVE  Decrypt = Bytes(text.msg_ascii)
<1>1. /\ text.msg_ascii \in [1 .. 32 -> Byte] /\ text.key_ascii \in [1 .. 32 -> Byte]
      /\ expandedKey \in Words44
  BY AesAssumption DEF TypeOK
<1>2. /\ IsKeyExpansion(expandedKey, key) /\ msg_enc = Words(Encrypted)
      /\ \A r \in 0 .. 7 : reg_file[r] = IF r < 4 THEN key[r + 1] ELSE msg_enc[r - 3]
  BY DEF Inv, KeyInv, Encrypting, WriteInv, IsKeyExpansion
<1>3. KeySchedule = expandedKey
  <2>1. KeySchedule \in Words44
    BY KeyScheduleType DEF TypeOK
  <2>2. \A i \in 0 .. 3 : Cipherkey[i + 1] = key[i + 1]
    <3>1. \A i \in 0 .. 3 : i \in {0, 1, 2, 3}
      OBVIOUS
    <3>2. /\ reg_file[0] = key[1] /\ reg_file[1] = key[2]
          /\ reg_file[2] = key[3] /\ reg_file[3] = key[4]
      BY <1>2
    <3> QED
      BY <3>1, <3>2 DEF Cipherkey
  <2>3. IsKeyExpansion(KeySchedule, key)
    BY <2>2, ExpandedWhenSettled DEF IsKeyExpansion
  <2> QED
    BY <1>1, <1>2, <2>1, <2>3, OneExpansion
<1> DEFINE block == [k \in 0 .. 15 |-> reg_file[4 + (k \div 4)][(k % 4) + 1]]
           S(r) == ShiftRows(SubBytes(Past[r]))
<1>4. S(9) \in Block /\ Encrypted \in Block
  <2>1. Past[9] \in Block
    BY <1>1, PastSteps
  <2>2. S(9) \in Block
    BY <2>1, BlockSteps
  <2>3. AddRoundKey(S(9), expandedKey, 4 * 10) \in Block /\ 4 * 10 = 40
    BY <1>1, <2>2, AddRoundKeySteps
  <2> QED
    BY <2>2, <2>3 DEF Encrypted
<1>5. block = Encrypted
  <2>1. ASSUME NEW k \in 0 .. 15
        PROVE  block[k] = Encrypted[k]
    <3> DEFINE n == k \div 4  j == k % 4
    <3>1. n \in 0 .. 3 /\ j \in 0 .. 3 /\ k = 4 * n + j
      BY Index
    <3> HIDE DEF n, j
    <3>2. /\ 4 + n \in 0 .. 7 /\ ~(4 + n < 4) /\ (4 + n) - 3 = n + 1
          /\ n + 1 \in 1 .. 4 /\ j + 1 \in 1 .. 4
          /\ 4 * ((n + 1) - 1) + (j + 1) - 1 = k
      BY <3>1
    <3>3. reg_file[4 + n] = msg_enc[n + 1]
      BY <1>2, <3>2
    <3>4. msg_enc[n + 1][j + 1] = Encrypted[k]
      BY <1>2, <3>2 DEF Words
    <3> QED
      BY <3>3, <3>4 DEF n, j
  <2> QED
    BY <1>4, <2>1 DEF Block
<1>6. AddRoundKey(block, expandedKey, 40) = S(9)
  <2>1. AddRoundKey(AddRoundKey(S(9), expandedKey, 4 * 10), expandedKey, 4 * 10) = S(9) /\ 4 * 10 = 40
    BY <1>1, <1>4, AddRoundKeySteps
  <2> QED
    BY <1>5, <2>1 DEF Encrypted
<1>7. /\ \A r \in 1 .. 9 : UndoRound(S(r), expandedKey, r) = S(r - 1)
      /\ Undo(S(0), expandedKey, 0) = Bytes(text.msg_ascii)
  BY <1>1, RoundUndone
<1> HIDE DEF S
<1>8. /\ UndoRound(S(9), expandedKey, 9) = S(8) /\ UndoRound(S(8), expandedKey, 8) = S(7)
      /\ UndoRound(S(7), expandedKey, 7) = S(6) /\ UndoRound(S(6), expandedKey, 6) = S(5)
      /\ UndoRound(S(5), expandedKey, 5) = S(4) /\ UndoRound(S(4), expandedKey, 4) = S(3)
      /\ UndoRound(S(3), expandedKey, 3) = S(2) /\ UndoRound(S(2), expandedKey, 2) = S(1)
      /\ UndoRound(S(1), expandedKey, 1) = S(0)
  <2>1. /\ 9 - 1 = 8 /\ 8 - 1 = 7 /\ 7 - 1 = 6 /\ 6 - 1 = 5 /\ 5 - 1 = 4 /\ 4 - 1 = 3
        /\ 3 - 1 = 2 /\ 2 - 1 = 1 /\ 1 - 1 = 0
    OBVIOUS
  <2> QED
    BY <1>7, <2>1
<1> DEFINE Goes(f) == [r \in 1 .. 10 |-> IF r = 10 THEN AddRoundKey(block, expandedKey, 40)
                                                 ELSE UndoRound(f[r + 1], expandedKey, r)]
           back == [r \in 1 .. 10 |-> S(r - 1)]
           before == CHOOSE f : f = Goes(f)
<1>9. back = Goes(back)
  <2>1. \A r \in 1 .. 9 : r + 1 \in 1 .. 10 /\ (r + 1) - 1 = r
    OBVIOUS
  <2>2. \A r \in 1 .. 9 : UndoRound(back[r + 1], expandedKey, r) = back[r]
    BY <1>7, <2>1
  <2>3. back[10] = S(9)
    BY <1>8
  <2>4. \A r \in 1 .. 10 : back[r] = IF r = 10 THEN AddRoundKey(block, expandedKey, 40)
                                              ELSE UndoRound(back[r + 1], expandedKey, r)
    BY <1>6, <2>2, <2>3, SMTT(40)
  <2> QED
    BY <2>4
<1>10. before = Goes(before)
  BY <1>9
<1> HIDE DEF before
<1>11. \A r \in 1 .. 9 : before[r] = UndoRound(before[r + 1], expandedKey, r)
  BY <1>10
<1>12. before[10] = S(9)
  BY <1>6, <1>10
<1>13. before[9] = S(8) /\ before[8] = S(7) /\ before[7] = S(6)
  BY <1>8, <1>11, <1>12
<1>14. before[6] = S(5) /\ before[5] = S(4) /\ before[4] = S(3)
  BY <1>8, <1>11, <1>13
<1>15. before[3] = S(2) /\ before[2] = S(1) /\ before[1] = S(0)
  BY <1>8, <1>11, <1>14
<1>16. Decrypt = Undo(before[1], expandedKey, 0)
  BY <1>3 DEF Decrypt, before
<1> QED
  BY <1>7, <1>15, <1>16

(* When main has written key and message, and ten edges have passed, what  *)
(* the modules given for decryption make of the registers in the order of  *)
(* the standard is the message that was typed, whatever it was.            *)
THEOREM DecryptCorrect == Spec => []DecryptsToMessage
<1>1. TypeOK /\ Settled /\ Inv => DecryptsToMessage
  BY DecryptsWhenSettled DEF DecryptsToMessage
<1> QED
  BY <1>1, TypeCorrect, SettledCorrect, InvCorrect, PTL

=============================================================================
