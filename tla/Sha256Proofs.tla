---------------------------- MODULE Sha256Proofs ----------------------------
(***************************************************************************)
(* Sha256Stream absorbs the padding of every message, for every way of     *)
(* cutting it into calls, every content the buffer begins with and every   *)
(* compression function.                                                   *)
(***************************************************************************)
EXTENDS Sha256Stream, TLAPS

LEMMA ByteOfType == ASSUME NEW n \in Nat, NEW x \in 0..7 PROVE ByteOf(n, x) \in 0..255
<1> DEFINE s == Shifted(n)
<1>1. \A y \in Nat : y \div 256 \in Nat
  OBVIOUS
<1>2. s[1] \in Nat /\ s[2] \in Nat /\ s[3] \in Nat /\ s[4] \in Nat
  BY <1>1 DEF Shifted
<1>3. (((n \div 256) \div 256) \div 256) \div 256 \in Nat
  BY <1>1
<1>4. s[5] \in Nat /\ s[6] \in Nat /\ s[7] \in Nat /\ s[8] \in Nat
  BY <1>1, <1>3 DEF Shifted
<1>5. s[x + 1] \in Nat
  BY <1>2, <1>4
<1> QED BY <1>5 DEF ByteOf

\* Appending a block adds one to the history and leaves the blocks before it.
LEMMA Absorb ==
  ASSUME StreamTypeOK, NEW block \in Block, absorbed' = Append(absorbed, block)
  PROVE  /\ absorbed' \in Seq(Block)
         /\ Len(absorbed') = Len(absorbed) + 1
         /\ \A b \in 1..Len(absorbed) : absorbed'[b] = absorbed[b]
         /\ absorbed'[Len(absorbed) + 1] = block
BY DEF StreamTypeOK

LEMMA InitHolds == StreamInit => StreamInv
BY StaleAssumption DEF StreamInit, StreamInv, StreamTypeOK, Buffered, PaddedInv, AbsorbsPaddedMessage

LEMMA PaddedToType == ASSUME StreamTypeOK, NEW last \in 0..64 PROVE PaddedTo(last) \in Block
BY ByteAssumption DEF StreamTypeOK, PaddedTo, Block

\* A byte of the message is taken into the buffer.
LEMMA TakesByte ==
  ASSUME StreamTypeOK, Buffered, UpdateByte
  PROVE  /\ pos' \in 0..Len(message) /\ pos' = pos + 1
         /\ data' \in Block
         /\ Len(absorbed) \in Nat /\ datalen \in 0..63 /\ bitlen \in Nat
         /\ pos = 64 * Len(absorbed) + datalen /\ bitlen = 512 * Len(absorbed)
         /\ \A j \in 0..datalen : data'[j] = message[64 * Len(absorbed) + j + 1]
<1>1. /\ spc = "update" /\ pos < end /\ pos' = pos + 1
      /\ data' = [data EXCEPT ![datalen] = message[pos + 1]]
  BY DEF UpdateByte
<1>2. /\ pos \in 0..Len(message) /\ end \in 0..Len(message) /\ message \in Seq(Byte)
      /\ data \in Block /\ datalen \in 0..63 /\ bitlen \in Nat
  BY DEF StreamTypeOK
<1>3. Len(absorbed) \in Nat
  BY DEF StreamTypeOK
<1>4. /\ pos = 64 * Len(absorbed) + datalen /\ bitlen = 512 * Len(absorbed)
      /\ \A j \in 0..(datalen - 1) : data[j] = message[64 * Len(absorbed) + j + 1]
  BY <1>1 DEF Buffered
<1>5. pos' \in 0..Len(message) /\ pos + 1 \in 1..Len(message)
  BY <1>1, <1>2
<1>6. message[pos + 1] \in Byte
  BY <1>2, <1>5
<1>7. data' \in Block
  BY <1>1, <1>2, <1>6 DEF Block
<1>8. \A j \in 0..datalen : data'[j] = message[64 * Len(absorbed) + j + 1]
  <2> SUFFICES ASSUME NEW j \in 0..datalen PROVE data'[j] = message[64 * Len(absorbed) + j + 1]
    OBVIOUS
  <2>1. CASE j = datalen
    BY <2>1, <1>1, <1>2, <1>4 DEF Block
  <2>2. CASE j # datalen
    <3>1. j \in 0..(datalen - 1) /\ j \in 0..63
      BY <2>2, <1>2
    <3>2. data'[j] = data[j]
      BY <3>1, <2>2, <1>1, <1>2 DEF Block
    <3> QED BY <3>1, <3>2, <1>4
  <2> QED BY <2>1, <2>2
<1> QED BY <1>1, <1>2, <1>3, <1>4, <1>5, <1>7, <1>8

\* The block it fills is the next one of the message.
LEMMA FillsBlock ==
  ASSUME StreamTypeOK, Buffered, UpdateByte, datalen = 63 PROVE StreamInv'
<1>1. absorbed' = Append(absorbed, data')
  BY DEF UpdateByte, Full, sha256_transform
<1>2. bitlen' = bitlen + 512 /\ datalen' = 0 /\ spc = "update" /\ spc' = spc
  BY DEF UpdateByte, Full
<1>3. message' = message /\ end' = end
  BY DEF UpdateByte
<1>4. data' \in Block
  BY TakesByte
<1>5. pos' = pos + 1 /\ pos' \in 0..Len(message)
  BY TakesByte
<1>6. /\ Len(absorbed) \in Nat /\ bitlen \in Nat
      /\ pos = 64 * Len(absorbed) + 63 /\ bitlen = 512 * Len(absorbed)
  BY TakesByte
<1>7. \A j \in 0..63 : data'[j] = message[64 * Len(absorbed) + j + 1]
  BY TakesByte
<1>8. absorbed' \in Seq(Block)
  BY <1>1, <1>4, Absorb
<1>9. Len(absorbed') = Len(absorbed) + 1
  BY <1>1, <1>4, Absorb
<1>10. \A b \in 1..Len(absorbed) : absorbed'[b] = absorbed[b]
  BY <1>1, <1>4, Absorb
<1>11. absorbed'[Len(absorbed) + 1] = data'
  BY <1>1, <1>4, Absorb
<1>12. message \in Seq(Byte) /\ end \in 0..Len(message)
  BY DEF StreamTypeOK
<1>13. StreamTypeOK'
  <2>1. datalen' \in 0..63 /\ bitlen' \in Nat
    BY <1>2, <1>6
  <2> QED BY <2>1, <1>2, <1>3, <1>4, <1>5, <1>8, <1>12 DEF StreamTypeOK
<1>14. \A b \in 1..Len(absorbed') : \A j \in 0..63 :
        absorbed'[b][j] = message'[64 * (b - 1) + j + 1]
  <2> SUFFICES ASSUME NEW b \in 1..Len(absorbed'), NEW j \in 0..63
               PROVE  absorbed'[b][j] = message'[64 * (b - 1) + j + 1]
    OBVIOUS
  <2>1. CASE b \in 1..Len(absorbed)
    <3>1. absorbed[b][j] = message[64 * (b - 1) + j + 1]
      BY <2>1, <1>2, ZenonT(30) DEF Buffered
    <3> QED BY <3>1, <2>1, <1>3, <1>10
  <2>2. CASE b = Len(absorbed) + 1
    <3>1. 64 * (b - 1) + j + 1 = 64 * Len(absorbed) + j + 1
      BY <2>2, <1>6
    <3> QED BY <3>1, <2>2, <1>3, <1>7, <1>11
  <2>3. b \in 1..Len(absorbed) \/ b = Len(absorbed) + 1
    BY <1>6, <1>9
  <2> QED BY <2>1, <2>2, <2>3
<1>15. pos' = 64 * Len(absorbed') + datalen' /\ bitlen' = 512 * Len(absorbed')
  BY <1>2, <1>5, <1>6, <1>9
<1>16. Buffered'
  <2>1. \A j \in 0..(datalen' - 1) : data'[j] = message'[64 * Len(absorbed') + j + 1]
    BY <1>2
  <2> QED BY <1>14, <1>15, <2>1 DEF Buffered
<1> QED BY <1>2, <1>13, <1>16 DEF StreamInv, PaddedInv, AbsorbsPaddedMessage

LEMMA BuffersByte ==
  ASSUME StreamTypeOK, Buffered, UpdateByte, datalen # 63 PROVE StreamInv'
<1>1. datalen \in 0..63 /\ Len(absorbed) \in Nat
  BY TakesByte
<1>2. ~Full(datalen + 1)
  BY <1>1 DEF Full
<1>3. /\ datalen' = datalen + 1 /\ bitlen' = bitlen /\ absorbed' = absorbed
      /\ spc = "update" /\ spc' = spc /\ message' = message /\ end' = end
  BY <1>2 DEF UpdateByte
<1>4. data' \in Block
  BY TakesByte
<1>5. pos' = pos + 1 /\ pos' \in 0..Len(message)
  BY TakesByte
<1>6. pos = 64 * Len(absorbed) + datalen /\ bitlen = 512 * Len(absorbed) /\ bitlen \in Nat
  BY TakesByte
<1>7. message \in Seq(Byte) /\ end \in 0..Len(message) /\ absorbed \in Seq(Block)
  BY DEF StreamTypeOK
<1>8. datalen' \in 0..63
  BY <1>1, <1>3
<1>9. StreamTypeOK'
  BY <1>3, <1>4, <1>5, <1>6, <1>7, <1>8 DEF StreamTypeOK
<1>10. \A b \in 1..Len(absorbed) : \A j \in 0..63 : absorbed[b][j] = message[64 * (b - 1) + j + 1]
  BY <1>3 DEF Buffered
<1>11. \A j \in 0..datalen : data'[j] = message[64 * Len(absorbed) + j + 1]
  BY TakesByte
<1>12. datalen' - 1 = datalen /\ pos' = 64 * Len(absorbed) + datalen'
  BY <1>1, <1>3, <1>5, <1>6
<1>13. Buffered'
  BY <1>3, <1>6, <1>10, <1>11, <1>12 DEF Buffered
<1> QED BY <1>3, <1>9, <1>13 DEF StreamInv, PaddedInv, AbsorbsPaddedMessage

\* Where the padding is begun: what the buffer and the history hold.
LEMMA AtEnd ==
  ASSUME StreamTypeOK, Buffered, spc = "ready"
  PROVE  /\ pos \in Nat /\ pos \in 0..Len(message) /\ Len(absorbed) \in Nat
         /\ datalen \in 0..63 /\ bitlen \in Nat
         /\ pos = 64 * Len(absorbed) + datalen /\ bitlen = 512 * Len(absorbed)
         /\ \A b \in 1..Len(absorbed) : \A j \in 0..63 : absorbed[b][j] = BlockByte(b, j)
         /\ \A j \in 0..(datalen - 1) : data[j] = BlockByte(Len(absorbed) + 1, j)
<1>1. /\ pos \in 0..Len(message) /\ datalen \in 0..63 /\ bitlen \in Nat /\ message \in Seq(Byte)
  BY DEF StreamTypeOK
<1>2. Len(absorbed) \in Nat
  BY DEF StreamTypeOK
<1>3. /\ pos = 64 * Len(absorbed) + datalen /\ bitlen = 512 * Len(absorbed)
  BY DEF Buffered
<1>4. \A b \in 1..Len(absorbed) : \A j \in 0..63 : absorbed[b][j] = message[64 * (b - 1) + j + 1]
  BY DEF Buffered
<1>5. \A j \in 0..(datalen - 1) : data[j] = message[64 * Len(absorbed) + j + 1]
  BY DEF Buffered
<1>6. \A b \in 1..Len(absorbed) : \A j \in 0..63 : 64 * (b - 1) + j + 1 <= pos
  <2> SUFFICES ASSUME NEW b \in 1..Len(absorbed), NEW j \in 0..63 PROVE 64 * (b - 1) + j + 1 <= pos
    OBVIOUS
  <2>1. datalen \in 0..63
    BY <1>1
  <2> QED BY <2>1, <1>2, <1>3
<1>7. \A b \in 1..Len(absorbed) : \A j \in 0..63 : absorbed[b][j] = BlockByte(b, j)
  BY <1>4, <1>6 DEF BlockByte, PaddedByte
<1>8. \A j \in 0..(datalen - 1) : 64 * ((Len(absorbed) + 1) - 1) + j + 1 = 64 * Len(absorbed) + j + 1
  BY <1>2
<1>9. \A j \in 0..(datalen - 1) : 64 * Len(absorbed) + j + 1 <= pos
  BY <1>1, <1>2, <1>3
<1>10. \A j \in 0..(datalen - 1) : data[j] = BlockByte(Len(absorbed) + 1, j)
  BY <1>5, <1>8, <1>9 DEF BlockByte, PaddedByte
<1>11. pos \in Nat
  BY <1>1, <1>2, <1>3
<1> QED BY <1>1, <1>2, <1>3, <1>7, <1>10, <1>11

\* The byte 0x80 and the zeros after it, up to the length.
LEMMA PadBytes ==
  ASSUME StreamTypeOK, Buffered, spc = "ready", NEW last \in {56, 64}, datalen < last,
         NEW j \in 0..63, j < last, 64 * Len(absorbed) + last <= PaddedLen(pos) - 8
  PROVE  PaddedTo(last)[j] = BlockByte(Len(absorbed) + 1, j)
<1>1. /\ pos \in Nat /\ Len(absorbed) \in Nat /\ datalen \in 0..63
      /\ pos = 64 * Len(absorbed) + datalen
  BY AtEnd
<1>2. 64 * ((Len(absorbed) + 1) - 1) + j + 1 = 64 * Len(absorbed) + j + 1
  BY <1>1
<1>3. CASE j < datalen
  <2>1. data[j] = BlockByte(Len(absorbed) + 1, j)
    <3>1. j \in 0..(datalen - 1)
      BY <1>1, <1>3
    <3> QED BY <3>1, AtEnd
  <2> QED BY <2>1, <1>3 DEF PaddedTo
<1>4. CASE j = datalen
  <2>1. BlockByte(Len(absorbed) + 1, j) = 128
    BY <1>1, <1>2, <1>4 DEF BlockByte, PaddedByte
  <2> QED BY <2>1, <1>1, <1>4 DEF PaddedTo
<1>5. CASE j > datalen
  <2>1. /\ 64 * Len(absorbed) + j + 1 > pos + 1
        /\ 64 * Len(absorbed) + j + 1 <= PaddedLen(pos) - 8
    BY <1>1, <1>5 DEF PaddedLen
  <2>2. BlockByte(Len(absorbed) + 1, j) = 0
    BY <1>1, <1>2, <2>1 DEF BlockByte, PaddedByte
  <2> QED BY <2>2, <1>1, <1>5 DEF PaddedTo
<1> QED BY <1>1, <1>3, <1>4, <1>5

LEMMA PadsShort == ASSUME StreamTypeOK, Buffered, PadShort PROVE StreamInv'
<1>1. spc = "ready" /\ datalen < 56 /\ data' = PaddedTo(56) /\ spc' = "length"
  BY DEF PadShort, Short
<1>2. UNCHANGED <<datalen, bitlen, message, pos, end, absorbed>>
  BY DEF PadShort
<1>3. /\ pos \in Nat /\ Len(absorbed) \in Nat /\ datalen \in 0..63 /\ bitlen \in Nat
      /\ pos = 64 * Len(absorbed) + datalen /\ bitlen = 512 * Len(absorbed)
  BY <1>1, AtEnd
<1>4. 64 * (Len(absorbed) + 1) = PaddedLen(pos)
  <2>1. (pos + 8) \div 64 = Len(absorbed)
    BY <1>1, <1>3
  <2> QED BY <2>1, <1>3 DEF PaddedLen
<1>5. data' \in Block
  BY <1>1, PaddedToType
<1>6. StreamTypeOK'
  BY <1>1, <1>2, <1>5 DEF StreamTypeOK
<1>7. \A j \in 0..55 : data'[j] = BlockByte(Len(absorbed) + 1, j)
  <2> SUFFICES ASSUME NEW j \in 0..55 PROVE PaddedTo(56)[j] = BlockByte(Len(absorbed) + 1, j)
    BY <1>1
  <2>1. j \in 0..63 /\ j < 56 /\ 64 * Len(absorbed) + 56 <= PaddedLen(pos) - 8
    BY <1>3, <1>4
  <2> QED BY <2>1, <1>1, PadBytes
<1>8. \A b \in 1..Len(absorbed) : \A j \in 0..63 : absorbed[b][j] = BlockByte(b, j)
  BY <1>1, AtEnd
<1>9. bitlen + 8 * datalen = 8 * pos
  BY <1>3
<1>10. \A b, j : BlockByte(b, j)' = BlockByte(b, j)
  BY <1>2 DEF BlockByte
<1>11. PaddedInv'
  BY <1>2, <1>4, <1>7, <1>8, <1>9, <1>10 DEF PaddedInv
<1> QED BY <1>1, <1>6, <1>11 DEF StreamInv, Buffered, AbsorbsPaddedMessage

LEMMA PadsLong == ASSUME StreamTypeOK, Buffered, PadLong PROVE StreamInv'
<1>1. spc = "ready" /\ spc' = "length"
  BY DEF PadLong
<1>2. /\ pos \in Nat /\ Len(absorbed) \in Nat /\ datalen \in 0..63 /\ bitlen \in Nat
      /\ pos = 64 * Len(absorbed) + datalen /\ bitlen = 512 * Len(absorbed)
  BY <1>1, AtEnd
<1>3. datalen >= 56
  BY <1>2 DEF PadLong, Short
<1>4. absorbed' = Append(absorbed, PaddedTo(64))
  BY DEF PadLong, sha256_transform
<1>5. data' = [j \in 0..63 |-> IF j < 56 THEN 0 ELSE PaddedTo(64)[j]]
  BY DEF PadLong
<1>6. UNCHANGED <<datalen, bitlen, message, pos, end>>
  BY DEF PadLong
<1>7. PaddedLen(pos) = 64 * (Len(absorbed) + 2)
  <2>1. (pos + 8) \div 64 = Len(absorbed) + 1
    BY <1>2, <1>3
  <2> QED BY <2>1, <1>2 DEF PaddedLen
<1>8. PaddedTo(64) \in Block
  BY PaddedToType
<1>9. absorbed' \in Seq(Block)
  BY <1>4, <1>8, Absorb
<1>10. Len(absorbed') = Len(absorbed) + 1
  BY <1>4, <1>8, Absorb
<1>11. \A b \in 1..Len(absorbed) : absorbed'[b] = absorbed[b]
  BY <1>4, <1>8, Absorb
<1>12. absorbed'[Len(absorbed) + 1] = PaddedTo(64)
  BY <1>4, <1>8, Absorb
<1>13. data' \in Block
  <2>1. \A j \in 0..63 : PaddedTo(64)[j] \in Byte
    BY <1>8 DEF Block
  <2>2. 0 \in Byte
    BY ByteAssumption
  <2> QED BY <2>1, <2>2, <1>5 DEF Block
<1>14. StreamTypeOK'
  BY <1>1, <1>6, <1>9, <1>13 DEF StreamTypeOK
<1>15. \A j \in 0..63 : PaddedTo(64)[j] = BlockByte(Len(absorbed) + 1, j)
  <2> SUFFICES ASSUME NEW j \in 0..63 PROVE PaddedTo(64)[j] = BlockByte(Len(absorbed) + 1, j)
    OBVIOUS
  <2>1. datalen < 64 /\ j < 64 /\ 64 * Len(absorbed) + 64 <= PaddedLen(pos) - 8
    BY <1>2, <1>7
  <2> QED BY <2>1, <1>1, PadBytes
<1>16. \A b \in 1..Len(absorbed') : \A j \in 0..63 : absorbed'[b][j] = BlockByte(b, j)
  <2> SUFFICES ASSUME NEW b \in 1..Len(absorbed') PROVE \A j \in 0..63 : absorbed'[b][j] = BlockByte(b, j)
    OBVIOUS
  <2>1. CASE b \in 1..Len(absorbed)
    <3>1. \A j \in 0..63 : absorbed[b][j] = BlockByte(b, j)
      BY <2>1, <1>1, AtEnd
    <3> QED BY <3>1, <2>1, <1>11
  <2>2. CASE b = Len(absorbed) + 1
    BY <2>2, <1>12, <1>15
  <2>3. b \in 1..Len(absorbed) \/ b = Len(absorbed) + 1
    BY <1>2, <1>10
  <2> QED BY <2>1, <2>2, <2>3
<1>17. \A j \in 0..55 : data'[j] = BlockByte(Len(absorbed) + 2, j)
  <2> SUFFICES ASSUME NEW j \in 0..55 PROVE data'[j] = BlockByte(Len(absorbed) + 2, j)
    OBVIOUS
  <2>1. 64 * ((Len(absorbed) + 2) - 1) + j + 1 \in (pos + 2)..(PaddedLen(pos) - 8)
    BY <1>2, <1>7, SMTT(30)
  <2>2. BlockByte(Len(absorbed) + 2, j) = 0
    BY <2>1, <1>2 DEF BlockByte, PaddedByte
  <2>3. j \in 0..63 /\ j < 56
    OBVIOUS
  <2> QED BY <2>2, <2>3, <1>5
<1>18. \A b, j : BlockByte(b, j)' = BlockByte(b, j)
  BY <1>6 DEF BlockByte
<1>19. bitlen + 8 * datalen = 8 * pos /\ Len(absorbed') + 1 = Len(absorbed) + 2
  BY <1>2, <1>10
<1>20. 64 * (Len(absorbed') + 1) = PaddedLen(pos')
  BY <1>6, <1>7, <1>19
<1>21. PaddedInv'
  BY <1>6, <1>16, <1>17, <1>18, <1>19, <1>20 DEF PaddedInv
<1> QED BY <1>1, <1>14, <1>21 DEF StreamInv, Buffered, AbsorbsPaddedMessage

LEMMA AppendsLength == ASSUME StreamTypeOK, PaddedInv, AppendLength PROVE StreamInv'
<1>1. spc = "length" /\ spc' = "done" /\ bitlen' = bitlen + datalen * 8
  BY DEF AppendLength
<1>2. data' = [j \in 0..63 |-> IF j < 56 THEN data[j] ELSE ByteOf(bitlen', 63 - j)]
  BY DEF AppendLength
<1>3. absorbed' = Append(absorbed, data')
  BY DEF AppendLength, sha256_transform
<1>4. UNCHANGED <<datalen, message, pos, end>>
  BY DEF AppendLength
<1>5. pos \in Nat /\ datalen \in 0..63 /\ bitlen \in Nat /\ Len(absorbed) \in Nat
  <2>1. Len(absorbed) \in Nat /\ Len(message) \in Nat
    BY DEF StreamTypeOK
  <2> QED BY <2>1 DEF StreamTypeOK
<1>6. data \in Block
  BY DEF StreamTypeOK
<1>7. bitlen' = 8 * pos /\ PaddedLen(pos) = 64 * (Len(absorbed) + 1)
  BY <1>1, <1>5 DEF PaddedInv
<1>8. \A j \in 56..63 : ByteOf(bitlen', 63 - j) \in Byte
  <2> SUFFICES ASSUME NEW j \in 56..63 PROVE ByteOf(bitlen', 63 - j) \in Byte
    OBVIOUS
  <2>1. bitlen' \in Nat /\ 63 - j \in 0..7
    BY <1>5, <1>7
  <2>2. ByteOf(bitlen', 63 - j) \in 0..255
    BY <2>1, ByteOfType
  <2> QED BY <2>2, ByteAssumption
<1>9. data' \in Block
  BY <1>2, <1>6, <1>8 DEF Block
<1>10. absorbed' \in Seq(Block)
  BY <1>3, <1>9, Absorb
<1>11. Len(absorbed') = Len(absorbed) + 1
  BY <1>3, <1>9, Absorb
<1>12. \A b \in 1..Len(absorbed) : absorbed'[b] = absorbed[b]
  BY <1>3, <1>9, Absorb
<1>13. absorbed'[Len(absorbed) + 1] = data'
  BY <1>3, <1>9, Absorb
<1>14. StreamTypeOK'
  <2>1. bitlen' \in Nat
    BY <1>1, <1>5
  <2> QED BY <2>1, <1>1, <1>4, <1>9, <1>10 DEF StreamTypeOK
<1>15. \A j \in 0..63 : data'[j] = BlockByte(Len(absorbed) + 1, j)
  <2> SUFFICES ASSUME NEW j \in 0..63 PROVE data'[j] = BlockByte(Len(absorbed) + 1, j)
    OBVIOUS
  <2>1. CASE j < 56
    <3>1. j \in 0..55
      BY <2>1
    <3>2. data[j] = BlockByte(Len(absorbed) + 1, j)
      BY <3>1, <1>1 DEF PaddedInv
    <3> QED BY <3>2, <2>1, <1>2
  <2>2. CASE j >= 56
    <3>1. pos <= 64 * Len(absorbed) + 55
      BY <1>5, <1>7 DEF PaddedLen
    <3>2. /\ 64 * ((Len(absorbed) + 1) - 1) + j + 1 > PaddedLen(pos) - 8
          /\ 64 * ((Len(absorbed) + 1) - 1) + j + 1 > pos + 1
          /\ PaddedLen(pos) - (64 * ((Len(absorbed) + 1) - 1) + j + 1) = 63 - j
      BY <1>5, <1>7, <3>1, <2>2
    <3>3. BlockByte(Len(absorbed) + 1, j) = ByteOf(8 * pos, 63 - j)
      BY <3>2, <1>5, <1>7 DEF BlockByte, PaddedByte
    <3>4. data'[j] = ByteOf(bitlen', 63 - j)
      BY <2>2, <1>2
    <3> QED BY <3>3, <3>4, <1>7
  <2> QED BY <2>1, <2>2
<1>16. \A b \in 1..Len(absorbed') : \A j \in 0..63 : absorbed'[b][j] = BlockByte(b, j)
  <2> SUFFICES ASSUME NEW b \in 1..Len(absorbed') PROVE \A j \in 0..63 : absorbed'[b][j] = BlockByte(b, j)
    OBVIOUS
  <2>1. CASE b \in 1..Len(absorbed)
    <3>1. \A j \in 0..63 : absorbed[b][j] = BlockByte(b, j)
      BY <2>1, <1>1 DEF PaddedInv
    <3> QED BY <3>1, <2>1, <1>12
  <2>2. CASE b = Len(absorbed) + 1
    BY <2>2, <1>13, <1>15
  <2>3. b \in 1..Len(absorbed) \/ b = Len(absorbed) + 1
    BY <1>5, <1>11
  <2> QED BY <2>1, <2>2, <2>3
<1>17. \A b, j : BlockByte(b, j)' = BlockByte(b, j)
  BY <1>4 DEF BlockByte
<1>18. 64 * Len(absorbed') = PaddedLen(pos')
  BY <1>4, <1>7, <1>11
<1>19. AbsorbsPaddedMessage'
  BY <1>16, <1>17, <1>18 DEF AbsorbsPaddedMessage
<1> QED BY <1>1, <1>14, <1>19 DEF StreamInv, Buffered, PaddedInv

LEMMA Starts == ASSUME StreamTypeOK, Buffered, sha256_init PROVE StreamInv'
<1>1. /\ spc' = "ready" /\ message' \in Messages /\ data' = data
      /\ datalen' = 0 /\ bitlen' = 0 /\ pos' = 0 /\ end' = 0 /\ absorbed' = <<>>
  BY DEF sha256_init
<1>2. message' \in Seq(Byte) /\ Len(message') \in Nat
  BY <1>1, MessagesAssumption
<1>3. data \in Block
  BY DEF StreamTypeOK
<1>4. StreamTypeOK'
  <2>1. <<>> \in Seq(Block) /\ 0 \in 0..Len(message')
    BY <1>2
  <2>2. 0 \in 0..63 /\ 0 \in Nat
    OBVIOUS
  <2> QED BY <2>1, <2>2, <1>1, <1>2, <1>3 DEF StreamTypeOK
<1>5. Buffered'
  <2>1. Len(absorbed') = 0
    BY <1>1
  <2> QED BY <2>1, <1>1 DEF Buffered
<1> QED BY <1>1, <1>4, <1>5 DEF StreamInv, PaddedInv, AbsorbsPaddedMessage

LEMMA BeginsOrEndsCall == ASSUME StreamTypeOK, Buffered, CallUpdate \/ CallUpdateForever \/ UpdateReturns
                         PROVE  StreamInv'
<1>1. /\ spc \in {"ready", "update"} /\ spc' \in {"ready", "update", "forever"}
      /\ UNCHANGED <<data, datalen, bitlen, message, pos, absorbed>>
  BY DEF CallUpdate, CallUpdateForever, UpdateReturns, ctx
<1>2. end' \in 0..Len(message)
  <2>1. CASE CallUpdate
    BY <2>1, CallEndsAssumption DEF CallUpdate
  <2>2. CASE CallUpdateForever
    BY <2>2, CallEndsAssumption DEF CallUpdateForever
  <2>3. CASE UpdateReturns
    BY <2>3 DEF UpdateReturns, StreamTypeOK
  <2> QED BY <2>1, <2>2, <2>3
<1>3. StreamTypeOK'
  BY <1>1, <1>2 DEF StreamTypeOK
<1>4. Buffered'
  BY <1>1 DEF Buffered
<1> QED BY <1>1, <1>3, <1>4 DEF StreamInv, PaddedInv, AbsorbsPaddedMessage

LEMMA Stutters == ASSUME StreamTypeOK, Buffered, PaddedInv, AbsorbsPaddedMessage, UNCHANGED streamVars PROVE StreamInv'
BY DEF streamVars, ctx, StreamInv, StreamTypeOK, Buffered, PaddedInv, AbsorbsPaddedMessage, BlockByte

LEMMA StepHolds == StreamInv /\ [StreamNext]_streamVars => StreamInv'
<1> SUFFICES ASSUME StreamTypeOK, Buffered, PaddedInv, AbsorbsPaddedMessage, [StreamNext]_streamVars
             PROVE  StreamInv'
  BY DEF StreamInv
<1>1. CASE sha256_init
  BY <1>1, Starts
<1>2. CASE CallUpdate \/ CallUpdateForever \/ UpdateReturns
  BY <1>2, BeginsOrEndsCall
<1>3. CASE UpdateByte
  BY <1>3, FillsBlock, BuffersByte
<1>4. CASE PadShort
  BY <1>4, PadsShort
<1>5. CASE PadLong
  BY <1>5, PadsLong
<1>6. CASE AppendLength
  BY <1>6, AppendsLength
<1>7. CASE UNCHANGED streamVars
  BY <1>7, Stutters
<1> QED BY <1>1, <1>2, <1>3, <1>4, <1>5, <1>6, <1>7 DEF StreamNext

\* The digest is that of the standard's padding of exactly the bytes given between
\* sha256_init and sha256_final, however they were cut into calls.
THEOREM PaddingIsStandard == StreamSpec => []AbsorbsPaddedMessage
<1>1. StreamInv => AbsorbsPaddedMessage
  BY DEF StreamInv
<1> QED BY InitHolds, StepHolds, <1>1, PTL DEF StreamSpec

=============================================================================
