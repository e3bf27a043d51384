-------------------------------- MODULE Aes --------------------------------
(***************************************************************************)
(* Lab 9: main() encrypts what is typed and writes key and result into the *)
(* register file behind the Avalon bus, one register at a time, while the  *)
(* clock of the hardware runs.  The modules given for the decryption core  *)
(* (InvShiftRows, InvSubBytes, InvMixColumns, KeyExpansion) are checked    *)
(* against the software; KeyExpansion is attached to the key registers, as *)
(* the register map and the ports of the empty core foresee.               *)
(* Words are four bytes, the most significant first.                       *)
(***************************************************************************)
EXTENDS Naturals, AesTables

Byte == 0 .. 255

CONSTANTS Texts,   \* what is typed, and what the standard makes of it
          Between  \* clock edges between two writes of main, at most (a bound)

ASSUME AesAssumption ==
  /\ Between \in Nat
  /\ \A t \in Texts : t.msg_ascii \in [1 .. 32 -> Byte] /\ t.key_ascii \in [1 .. 32 -> Byte]

VARIABLES
  pc, round, text, state, msg_enc, key, \* main() and encrypt()
  expandedKey, filled,   \* KeyExpansion(): its words, and how many there are
  next,              \* the register written next
  reg_file,          \* avalon_aes_interface
  subword, edges     \* KeyExpansion: its clocked bytes; edges since the key last changed
program == <<text, state, expandedKey, filled, msg_enc, key>>
vars == <<pc, round, next, program, reg_file, subword, edges>>

(* Exclusive or, bit by bit, through a table.                              *)
Weight == <<1, 2, 4, 8, 16, 32, 64, 128>>
Bit(x, i) == (x \div Weight[i + 1]) % 2
XorTable ==
    [a \in Byte |-> [b \in Byte |->
       LET x(i) == (Bit(a, i) + Bit(b, i)) % 2
       IN  x(0) + 2 * x(1) + 4 * x(2) + 8 * x(3) + 16 * x(4) + 32 * x(5) + 64 * x(6) + 128 * x(7)]]
ByteXor(a, b) == XorTable[a][b]
Xor4(a, b, c, d) == ByteXor(ByteXor(a, b), ByteXor(c, d))
WordXor(v, w) ==
    <<ByteXor(v[1], w[1]), ByteXor(v[2], w[2]), ByteXor(v[3], w[3]), ByteXor(v[4], w[4])>>
ZeroWord == <<0, 0, 0, 0>>
sbox(b) == aes_sbox[b + 1]
KeyStages == 0 .. 9
SettleEdges == 10

-----------------------------------------------------------------------------
(* The software.                                                           *)
charToHex(c) == CASE c \in 48 .. 57  -> c - 48
                  [] c \in 65 .. 70  -> c - 65 + 10
                  [] c \in 97 .. 102 -> c - 97 + 10
                  [] OTHER           -> c
charsToHex(c1, c2) == (charToHex(c1) * 16 + charToHex(c2)) % 256
Bytes(ascii) == [k \in 0 .. 15 |-> charsToHex(ascii[2 * k + 1], ascii[2 * k + 2])]
Words(bytes) == [k \in 1 .. 4 |-> [j \in 1 .. 4 |-> bytes[4 * (k - 1) + j - 1]]]

RotWord(w) == <<w[2], w[3], w[4], w[1]>>
SubWord(w) == <<sbox(w[1]), sbox(w[2]), sbox(w[3]), sbox(w[4])>>
RconWord(k) == <<Rcon[k], 0, 0, 0>>

(* Word i of the expanded key, from those before it.                       *)
NextKeyWord(keys, i) ==
    WordXor(keys[i - 4],
            IF i % 4 # 0 THEN keys[i - 1]
            ELSE WordXor(SubWord(RotWord(keys[i - 1])), RconWord(i \div 4)))

(* The words that the standard wants from a key.                          *)
IsKeyExpansion(keys, words) ==
    /\ \A i \in 0 .. 3 : keys[i] = words[i + 1]
    /\ \A i \in 4 .. 43 : keys[i] = NextKeyWord(keys, i)

(* The first round key in every round.                                     *)
AddFirstRoundKey(s, keys, offset) ==
    [k \in 0 .. 15 |-> ByteXor(s[k], keys[k \div 4][(k % 4) + 1])]

AddRoundKey(s, keys, offset) ==
    [k \in 0 .. 15 |-> ByteXor(s[k], keys[(k \div 4) + offset][(k % 4) + 1])]
SubBytes(s) == [k \in 0 .. 15 |-> sbox(s[k])]

ShiftRows(s) == [k \in 0 .. 15 |-> s[(k + 4 * (k % 4)) % 16]]

xtime(x) == IF x >= 128 THEN ByteXor((2 * x) % 256, \h11b % 256) ELSE 2 * x
gf_mul3(x) == ByteXor(xtime(x), x)
MixByte(a, b, c, d) == Xor4(xtime(a), gf_mul3(b), c, d)
MixColumns(s) ==
    [k \in 0 .. 15 |->
       LET a(j) == s[4 * (k \div 4) + ((k + j) % 4)]
       IN  MixByte(a(0), a(1), a(2), a(3))]

-----------------------------------------------------------------------------
(* The hardware given for decryption.                                      *)
(* A constant with one bit wrong.                                          *)
hw_xtime_wrong(in) == ByteXor((2 * in) % 256, \h1d * (in \div 128))

(* Its own function xtime, a shift and a masked constant.                  *)
hw_xtime(in) == ByteXor((2 * in) % 256, \h1b * (in \div 128))
hw_four(in) == hw_xtime(hw_xtime(in))
hw_eight(in) == hw_xtime(hw_four(in))
GF_Mul_9(in) == ByteXor(hw_eight(in), in)
GF_Mul_b(in) == ByteXor(ByteXor(hw_eight(in), hw_xtime(in)), in)
GF_Mul_d(in) == ByteXor(ByteXor(hw_eight(in), hw_four(in)), in)
GF_Mul_e(in) == ByteXor(ByteXor(hw_eight(in), hw_four(in)), hw_xtime(in))
InvMixByte(a, b, c, d) == Xor4(GF_Mul_e(a), GF_Mul_b(b), GF_Mul_d(c), GF_Mul_9(d))
InvMixWord(a, b, c, d) ==
    <<InvMixByte(a, b, c, d), InvMixByte(b, c, d, a), InvMixByte(c, d, a, b), InvMixByte(d, a, b, c)>>
InvMixColumns(s) ==
    LET column(n) == InvMixWord(s[4 * n], s[4 * n + 1], s[4 * n + 2], s[4 * n + 3])
        columns == <<column(0), column(1), column(2), column(3)>>
    IN  [k \in 0 .. 15 |-> columns[(k \div 4) + 1][(k % 4) + 1]]
InvShiftRows(s) == [k \in 0 .. 15 |-> s[(k + 12 * (k % 4)) % 16]]
InvSubBytes(s) == [k \in 0 .. 15 |-> aes_invsbox[s[k] + 1]]

(* Every word from the first, not from the one before it.                  *)
KeyExpansionOneFromFirst(oldkey, k) ==
    LET w0 == WordXor(WordXor(oldkey[1], subword[k]), RconWord(k + 1))
    IN  <<w0, WordXor(oldkey[2], w0), WordXor(oldkey[3], w0), WordXor(oldkey[4], w0)>>

KeyExpansionOne(oldkey, k) ==
    LET w0 == WordXor(WordXor(oldkey[1], subword[k]), RconWord(k + 1))
        w1 == WordXor(oldkey[2], w0)
        w2 == WordXor(oldkey[3], w1)
    IN  <<w0, w1, w2, WordXor(oldkey[4], w2)>>
Cipherkey == <<reg_file[0], reg_file[1], reg_file[2], reg_file[3]>>
(* The key and what each of the ten instances, key_0 to key_9, makes of    *)
(* the words of the one before it.                                         *)
Stage[k \in 0 .. 10] == IF k = 0 THEN Cipherkey ELSE KeyExpansionOne(Stage[k - 1], k - 1)
KeySchedule == LET keys == Stage IN [i \in 0 .. 43 |-> keys[i \div 4][(i % 4) + 1]]

(* What the modules make of the message registers in inverse order.        *)
Undo(s, keys, r) == AddRoundKey(InvSubBytes(InvShiftRows(s)), keys, 4 * r)
UndoRound(s, keys, r) == InvMixColumns(Undo(s, keys, r))
Decrypt ==
    LET block == [k \in 0 .. 15 |-> reg_file[4 + (k \div 4)][(k % 4) + 1]]
        keys == KeySchedule
        before[r \in 1 .. 10] ==
            IF r = 10 THEN AddRoundKey(block, keys, 40) ELSE UndoRound(before[r + 1], keys, r)
    IN  Undo(before[1], keys, 0)

-----------------------------------------------------------------------------
Init == /\ text \in Texts
        /\ pc = "scan" /\ round = 0 /\ next = 0
        /\ state = [k \in 0 .. 15 |-> 0]
        /\ expandedKey = [i \in 0 .. 43 |-> ZeroWord] /\ filled = 0
        /\ msg_enc = [k \in 1 .. 4 |-> ZeroWord] /\ key = msg_enc
        /\ reg_file = [r \in 0 .. 15 |-> ZeroWord]
        /\ subword = [k \in KeyStages |-> ZeroWord] /\ edges = 0

(* main reads message and key, which takes the typist longer than the      *)
(* hardware ten edges; KeyExpansion copies the key.  The other words of    *)
(* its array are zero here until it writes them, and are not read before.  *)
Scan == /\ pc = "scan" /\ edges = SettleEdges /\ pc' = "expand"
        /\ text' \in Texts
        /\ state' = Bytes(text'.msg_ascii)
        /\ expandedKey' = [i \in 0 .. 43 |-> IF i < 4 THEN Words(Bytes(text'.key_ascii))[i + 1]
                                                     ELSE ZeroWord]
        /\ filled' = 4
        /\ UNCHANGED <<round, msg_enc, key, next, reg_file, edges>>

(* One turn of KeyExpansion's loop.                                        *)
ExpandStep ==
        /\ pc = "expand" /\ filled < 44
        /\ expandedKey' = [expandedKey EXCEPT ![filled] = NextKeyWord(expandedKey, filled)]
        /\ filled' = filled + 1
        /\ UNCHANGED <<pc, round, text, state, msg_enc, key, next, reg_file, edges>>

FirstAdd == /\ pc = "expand" /\ filled = 44 /\ pc' = "sub" /\ round' = 1
            /\ state' = AddRoundKey(state, expandedKey, 0)
            /\ UNCHANGED <<text, expandedKey, filled, msg_enc, key, next, reg_file, edges>>

SubStep == /\ pc = "sub" /\ pc' = "shift"
           /\ state' = SubBytes(state)
           /\ UNCHANGED <<round, text, expandedKey, filled, msg_enc, key, next, reg_file, edges>>

ShiftStep == /\ pc = "shift" /\ pc' = IF round <= 9 THEN "mix" ELSE "add"
             /\ state' = ShiftRows(state)
             /\ UNCHANGED <<round, text, expandedKey, filled, msg_enc, key, next, reg_file, edges>>

MixStep == /\ pc = "mix" /\ pc' = "add"
           /\ state' = MixColumns(state)
           /\ UNCHANGED <<round, text, expandedKey, filled, msg_enc, key, next, reg_file, edges>>

AddStep == /\ pc = "add"
           /\ state' = AddRoundKey(state, expandedKey, 4 * round)
           /\ IF round <= 9
              THEN pc' = "sub" /\ round' = round + 1 /\ UNCHANGED <<msg_enc, key, next>>
              ELSE /\ pc' = "write" /\ next' = 0 /\ UNCHANGED round
                   /\ msg_enc' = Words(state') /\ key' = Words(Bytes(text.key_ascii))
           /\ UNCHANGED <<text, expandedKey, filled, reg_file, edges>>

(* One write over the bus with all byte enables: main writes the key, then *)
(* the message.                                                            *)
AvalonWrite(addr, data) == /\ reg_file' = [reg_file EXCEPT ![addr] = data]
                           /\ edges' = IF addr < 4 THEN 0 ELSE edges

(* The words of the message in the other order.                            *)
WriteStepReversed ==
    /\ pc = "write" /\ next < 8
    /\ AvalonWrite(next, IF next < 4 THEN key[next + 1] ELSE msg_enc[8 - next])
    /\ next' = next + 1
    /\ UNCHANGED <<pc, round, program>>

WriteStep == /\ pc = "write" /\ next < 8
             /\ AvalonWrite(next, IF next < 4 THEN key[next + 1] ELSE msg_enc[next - 3])
             /\ next' = next + 1
             /\ UNCHANGED <<pc, round, program>>

(* The write and the reading back of register 10; decrypt does nothing.    *)
TestStep == /\ pc = "write" /\ next = 8 /\ pc' = "scan"
            /\ AvalonWrite(10, <<\hde, \had, \hbe, \hef>>)
            /\ UNCHANGED <<round, next, program>>

Main == (Scan \/ ExpandStep \/ FirstAdd \/ SubStep \/ ShiftStep \/ MixStep \/ AddStep \/ WriteStep \/ TestStep)
        /\ UNCHANGED subword

(* The clocked tables of KeyExpansion, at the falling edge.                *)
HwEdge == /\ pc = "write" /\ next < 8 => edges < Between
          /\ subword' = LET keys == KeySchedule
                         IN  [k \in KeyStages |-> SubWord(RotWord(keys[4 * k + 3]))]
          /\ edges' = IF edges < SettleEdges THEN edges + 1 ELSE edges
          /\ UNCHANGED <<pc, round, next, program, reg_file>>

(* The reset button restarts the processor and empties the register file.  *)
Reset == /\ pc' = "scan" /\ round' = 0 /\ next' = 0
         /\ reg_file' = [r \in 0 .. 15 |-> ZeroWord] /\ edges' = 0
         /\ UNCHANGED <<program, subword>>

Next == Main \/ HwEdge \/ Reset
Spec == Init /\ [][Next]_vars

-----------------------------------------------------------------------------
StepUndone == /\ SubStep => InvSubBytes(state') = state
              /\ ShiftStep => InvShiftRows(state') = state
              /\ MixStep => InvMixColumns(state') = state

(* Each module of the hardware undoes its step of the software, on every   *)
(* block that an encryption passes through.                                *)
StepsUndone == [][StepUndone]_vars

(* Encryption computes what the standard says.                             *)
MatchesStandard == pc = "write" => msg_enc = Words(text.enc)

(* "KeyExpansion does not complete in single clock cycle": ten edges after *)
(* the last write to the key registers it shows the software's key.        *)
ScheduleSettles == edges >= SettleEdges => IsKeyExpansion(KeySchedule, Cipherkey)

(* When main has written both, the registers hold what the hardware needs  *)
(* to find the message again.                                              *)
DecryptsToMessage ==
    pc = "write" /\ next = 8 /\ edges >= SettleEdges => Decrypt = Bytes(text.msg_ascii)
=============================================================================
