--------------------------- MODULE RoutinesProofs ---------------------------
(***************************************************************************)
(* The small routines: what gen_ds_file and gen_hashed_ds_file leave in    *)
(* the file for any arguments, strings and digest, whatever writes fail;   *)
(* that convert_hash_to_string prints a hash of any length into a buffer   *)
(* of any; and what the arithmetic helpers return for ints of any width.   *)
(***************************************************************************)
EXTENDS DsFile, HashText, Defs, NaturalsInduction, SequenceTheorems, WellFoundedInduction, TLAPS

-----------------------------------------------------------------------------
(* The file generators *)

LEMMA FileStarts ==
  ASSUME FileInit
  PROVE  FileInv
BY FileAssumption, EmptySeq DEF FileInit, FileInv, SizeShowsDamage

\* The bytes of a record are bytes of a file.
LEMMA BufferBytes ==
  ASSUME FileInv, NEW s \in Drawable, buffer_len > 0
  PROVE  buffer_len \in Nat \ {0} /\ buffer(s) \in Seq(FileByte) /\ Len(buffer(s)) = buffer_len
<1>1. buffer_len \in Nat \ {0} /\ IntSize \in Nat /\ index \in Nat
  BY FileAssumption DEF FileInv, buffer_len, index
<1>2. PICK l : l = buffer_len
  OBVIOUS
<1>3. ASSUME NEW k \in 1..l PROVE RecordByte(index, s, k) \in FileByte
  <2>1. k \in Nat
    BY <1>1, <1>2
  <2>2. CASE k <= IntSize
    BY <1>1, <2>1, <2>2 DEF RecordByte, FileByte
  <2>3. CASE ~ (k <= IntSize)
    <3>1. PICK p : p = Payload(s)
      OBVIOUS
    <3>2. p \in Drawable \cup {Digest(t) : t \in Drawable} /\ k - IntSize \in Nat
      BY <1>1, <2>1, <2>3, <3>1 DEF Payload
    <3> QED
      BY <2>3, <3>1, <3>2 DEF RecordByte, FileByte
  <2> QED
    BY <2>2, <2>3
<1>4. buffer(s) = [k \in 1..l |-> RecordByte(index, s, k)]
  BY <1>2 DEF buffer
<1> QED
  BY <1>1, <1>2, <1>3, <1>4

\* What a write of the first bytes of a buffer leaves in the file.
LEMMA Stored ==
  ASSUME NEW S, NEW f \in Seq(S), NEW buf \in Seq(S), NEW stored \in 0..Len(buf),
         NEW new, new = f \o SubSeq(buf, 1, stored)
  PROVE  /\ new \in Seq(S) /\ Len(new) = Len(f) + stored
         /\ \A x \in 1..Len(f) : new[x] = f[x]
         /\ \A k \in 1..stored : new[Len(f) + k] = buf[k]
<1>1. PICK part : part = SubSeq(buf, 1, stored)
  OBVIOUS
<1>2. part \in Seq(S) /\ Len(part) = stored /\ \A k \in 1..stored : part[k] = buf[k]
  BY <1>1
<1>3. new = f \o part
  BY <1>1
<1> QED
  BY <1>2, <1>3

\* Byte k of the n-th of m records of length l is at x, and the last one ends at z.
PlacedAt(l, m, n, k, z, x) ==
  l \in Nat \ {0} /\ m \in Nat /\ n \in 1..m /\ k \in 1..l /\ z = m * l /\ x = (n - 1) * l + k

LEMMA RecordEnds ==
  ASSUME NEW l, NEW m, NEW n, NEW k, NEW z, NEW x, PlacedAt(l, m, n, k, z, x)
  PROVE  x \in 1..z
<1> USE DEF PlacedAt
<1>1. PICK a, b : a = n - 1 /\ b = m - n
  OBVIOUS
<1>2. a \in Nat /\ b \in Nat /\ m = (a + 1) + b
  BY <1>1
<1>3. PICK u, v : u = a * l /\ v = b * l
  OBVIOUS
<1>4. u \in Nat /\ v \in Nat
  BY <1>2, <1>3
<1>5. z = (u + l) + v
  BY <1>2, <1>3
<1>6. x = u + k
  BY <1>1, <1>3
<1> QED
  BY <1>4, <1>5, <1>6

\* One write: the records stored whole stay where they are, and if all were and this
\* one is, it comes right behind them.
LEMMA WriteKeeps ==
  ASSUME FileInv, fd # -1, buffer_len > 0, NEW s \in Drawable, NEW stored \in 0..buffer_len,
         written' = written \o SubSeq(buffer(s), 1, stored), drawn' = Append(drawn, s),
         wi' = wi + 1, UNCHANGED <<hashed, string_len>>,
         whole' = IF stored = buffer_len /\ whole = wi THEN wi + 1 ELSE whole
  PROVE  /\ written' \in Seq(FileByte) /\ whole' \in 0..wi' /\ whole' * buffer_len <= Len(written')
         /\ InPlace(whole)' /\ Len(written') <= wi' * buffer_len
         /\ Len(written') = wi' * buffer_len => whole' = wi'
<1>1. PICK l, f, g, buf, len : /\ l = buffer_len /\ f = written /\ g = written' /\ buf = buffer(s)
                               /\ len = Len(f)
  OBVIOUS
<1>2. /\ l \in Nat \ {0} /\ f \in Seq(FileByte) /\ buf \in Seq(FileByte) /\ Len(buf) = l
      /\ wi \in Nat /\ whole \in 0..wi /\ len \in Nat
      /\ Len(drawn) = wi /\ drawn \in Seq(Drawable)
  <2>1. f \in Seq(FileByte) /\ wi \in Nat /\ whole \in 0..wi /\ Len(drawn) = wi /\ drawn \in Seq(Drawable)
    BY <1>1 DEF FileInv
  <2>2. l \in Nat \ {0} /\ buf \in Seq(FileByte) /\ Len(buf) = l
    BY <1>1, BufferBytes
  <2> QED
    BY <1>1, <2>1, <2>2
<1>3. /\ g \in Seq(FileByte) /\ Len(g) = len + stored
      /\ \A x \in 1..len : g[x] = f[x]
      /\ \A k \in 1..stored : g[len + k] = buf[k]
  BY <1>1, <1>2, Stored
<1>4. PICK u, w : u = whole * l /\ w = wi * l
  OBVIOUS
<1>5. /\ u \in Nat /\ w \in Nat /\ u <= len /\ len <= w /\ (len = w => whole = wi)
      /\ (wi + 1) * l = w + l /\ stored \in 0..l
  BY <1>1, <1>2, <1>4 DEF FileInv
<1>6. /\ buffer_len' = l /\ drawn'[wi + 1] = s /\ \A n \in 1..wi : drawn'[n] = drawn[n]
      /\ \A n, t, k : RecordByte(n, t, k)' = RecordByte(n, t, k)
  BY <1>1, <1>2 DEF buffer_len, RecordByte, Payload
<1>7. \A n \in 1..whole : \A k \in 1..l : g[(n - 1) * l + k] = RecordByte(n, drawn'[n], k)
  <2> SUFFICES ASSUME NEW n \in 1..whole, NEW k \in 1..l
               PROVE  g[(n - 1) * l + k] = RecordByte(n, drawn'[n], k)
    OBVIOUS
  <2>1. PICK x : x = (n - 1) * l + k
    OBVIOUS
  <2>2. x \in 1..u
    <3>1. PlacedAt(l, whole, n, k, u, x)
      BY <1>2, <1>4, <2>1 DEF PlacedAt
    <3> QED
      BY <3>1, RecordEnds
  <2>3. x \in 1..len
    BY <1>2, <1>5, <2>2
  <2>4. f[x] = RecordByte(n, drawn[n], k)
    BY <1>1, <1>2, <2>1 DEF FileInv, InPlace, Offset
  <2>5. n \in 1..wi
    BY <1>2
  <2> QED
    BY <1>3, <1>6, <2>1, <2>3, <2>4, <2>5
<1>8. CASE stored = l /\ whole = wi
  <2>1. whole' = wi + 1 /\ len = w /\ Len(g) = w + l
    <3>1. u = w
      BY <1>4, <1>8
    <3>2. len = w
      BY <1>2, <1>5, <3>1
    <3> QED
      BY <1>1, <1>3, <1>8, <3>2
  <2>2. \A k \in 1..l : g[w + k] = RecordByte(wi + 1, s, k)
    <3>1. \A k \in 1..l : buf[k] = RecordByte(wi + 1, s, k)
      BY <1>1 DEF buffer, index
    <3> QED
      BY <1>3, <1>8, <2>1, <3>1
  <2>3. \A n \in 1..(wi + 1) : \A k \in 1..l : g[(n - 1) * l + k] = RecordByte(n, drawn'[n], k)
    <3> SUFFICES ASSUME NEW n \in 1..(wi + 1), NEW k \in 1..l
                 PROVE  g[(n - 1) * l + k] = RecordByte(n, drawn'[n], k)
      OBVIOUS
    <3>1. CASE n = wi + 1
      <4>1. (n - 1) * l = w
        <5>1. n - 1 = wi
          BY <1>2, <3>1
        <5> QED
          BY <5>1, <1>4
      <4> QED
        BY <4>1, <2>2, <3>1, <1>6
    <3>2. CASE n # wi + 1
      <4>1. n \in 1..whole
        BY <1>2, <1>8, <3>2
      <4> QED
        BY <4>1, <1>7
    <3> QED
      BY <3>1, <3>2
  <2>4. InPlace(whole)'
    BY <1>1, <1>6, <2>1, <2>3 DEF InPlace, Offset
  <2>5. whole' * l = w + l /\ wi' * l = w + l
    BY <1>5, <2>1
  <2> QED
    BY <1>1, <1>2, <1>3, <1>5, <2>1, <2>4, <2>5
<1>9. CASE ~ (stored = l /\ whole = wi)
  <2>1. whole' = whole
    BY <1>1, <1>9
  <2>2. InPlace(whole)'
    BY <1>1, <1>6, <1>7, <2>1 DEF InPlace, Offset
  <2>3. whole' * l = u /\ wi' * l = w + l
    BY <1>4, <1>5, <2>1
  <2>4. u <= len + stored /\ len + stored <= w + l /\ (len + stored = w + l => FALSE)
    <3>1. len + stored = w + l => stored = l /\ len = w
      BY <1>2, <1>5
    <3> QED
      BY <1>2, <1>5, <1>9, <3>1
  <2> QED
    BY <1>1, <1>2, <1>3, <2>1, <2>2, <2>3, <2>4
<1> QED
  BY <1>8, <1>9

LEMMA FileStepKeeps ==
  ASSUME FileInv, [FileNext]_fileVars
  PROVE  FileInv'
<1>1. ASSUME UNCHANGED <<hashed, string_len, wi, written, drawn, whole>>
      PROVE  /\ buffer_len' = buffer_len /\ InPlace(whole)' = InPlace(whole)
             /\ SizeShowsDamage' = SizeShowsDamage
  BY <1>1 DEF buffer_len, InPlace, Offset, RecordByte, Payload, SizeShowsDamage
<1>2. CASE OpenFile
  <2>1. /\ wpc = "open" /\ wpc' = "loop" /\ wi = 0 /\ whole = 0
        /\ UNCHANGED <<hashed, string_len, wi, drawn, whole>>
    BY <1>2 DEF OpenFile, args, FileInv
  <2>2. CASE fd' = 3 /\ written' = <<>>
    <3>1. Len(written') = 0 /\ written' \in Seq(FileByte) /\ 1..0 = {}
      BY <2>2, EmptySeq
    <3>2. buffer_len' = buffer_len /\ buffer_len \in Int
      BY <2>1, FileAssumption DEF buffer_len, FileInv
    <3>3. 0 * buffer_len = 0
      BY <3>2
    <3>4. InPlace(whole)'
      BY <2>1, <3>1 DEF InPlace
    <3> QED
      BY <2>1, <2>2, <3>1, <3>2, <3>3, <3>4 DEF FileInv, SizeShowsDamage
  <2>3. CASE UNCHANGED <<fd, written>>
    BY <1>1, <2>1, <2>3 DEF FileInv
  <2> QED
    BY <1>2, <2>2, <2>3 DEF OpenFile
<1>3. CASE WriteRecord
  <2>1. /\ wpc = "loop" /\ string_len >= 0 /\ wi' = wi + 1
        /\ UNCHANGED <<wpc, hashed, string_len, fd>>
    BY <1>3 DEF WriteRecord, args
  <2>2. PICK s \in Drawable :
          /\ drawn' = Append(drawn, s)
          /\ \/ fd = -1 /\ UNCHANGED <<written, whole>>
             \/ /\ fd # -1
                /\ \E stored \in 0..buffer_len :
                     /\ written' = written \o SubSeq(buffer(s), 1, stored)
                     /\ whole' = IF stored = buffer_len /\ whole = wi THEN wi + 1 ELSE whole
    BY <1>3 DEF WriteRecord, Drawable
  <2>3. drawn' \in Seq(Drawable) /\ Len(drawn') = wi' /\ wi' \in Nat /\ wi \in Nat /\ whole \in 0..wi
    BY <2>1, <2>2 DEF FileInv
  <2>4. buffer_len' = buffer_len /\ buffer_len > 0
    BY <2>1, FileAssumption DEF buffer_len, FileInv
  <2>5. CASE fd = -1
    <3>1. written' = Old /\ whole' = 0
      BY <2>1, <2>2, <2>5 DEF FileInv
    <3> QED
      BY <2>1, <2>3, <2>4, <2>5, <3>1 DEF FileInv, SizeShowsDamage
  <2>6. CASE fd # -1
    <3>1. PICK stored \in 0..buffer_len :
            /\ written' = written \o SubSeq(buffer(s), 1, stored)
            /\ whole' = IF stored = buffer_len /\ whole = wi THEN wi + 1 ELSE whole
      BY <2>2, <2>6
    <3>2. /\ written' \in Seq(FileByte) /\ whole' \in 0..wi' /\ whole' * buffer_len <= Len(written')
          /\ InPlace(whole)' /\ Len(written') <= wi' * buffer_len
          /\ Len(written') = wi' * buffer_len => whole' = wi'
      BY <2>1, <2>2, <2>4, <2>6, <3>1, WriteKeeps
    <3> QED
      BY <2>1, <2>3, <2>4, <2>6, <3>2 DEF FileInv, SizeShowsDamage
  <2> QED
    BY <2>5, <2>6
<1>4. CASE NegativeLength
  BY <1>1, <1>4 DEF NegativeLength, args, FileInv
<1>5. CASE CloseFile
  BY <1>1, <1>5 DEF CloseFile, args, FileInv
<1>6. CASE UNCHANGED fileVars
  BY <1>1, <1>6 DEF fileVars, args, FileInv
<1> QED
  BY <1>2, <1>3, <1>4, <1>5, <1>6 DEF FileNext

\* Whatever the arguments, the sizes of an int and a digest, the strings drawn and the
\* bytes each write stores: the records before the first that was cut are at their
\* offsets, and the size of the file tells whether any was.
THEOREM DamageShows == FileSpec => []SizeShowsDamage
<1>1. FileInit => FileInv
  BY FileStarts
<1>2. FileInv /\ [FileNext]_fileVars => FileInv'
  BY FileStepKeeps
<1>3. FileInv => SizeShowsDamage
  BY DEF FileInv
<1> QED
  BY <1>1, <1>2, <1>3, PTL DEF FileSpec

-----------------------------------------------------------------------------
(* The text of a hash *)

LEMMA TextStarts ==
  ASSUME TextInit
  PROVE  TextInv
<1>1. /\ tpc = "loop" /\ i = 0 /\ hash \in [0..(SHA256_BLOCK_SIZE - 1) -> Bytes] /\ out_string_len \in BufferLens
      /\ tmp_string = [k \in 0..TextLen |-> IF k < TextLen THEN NUL ELSE Behind]
      /\ out_string = [k \in 0..(out_string_len - 1) |-> NUL]
  BY DEF TextInit
<1>2. NUL \in Int /\ Behind \in Int /\ SHA256_BLOCK_SIZE \in Nat /\ out_string_len \in Nat
  BY <1>1, TextAssumption DEF NUL, Behind
<1>3. tmp_string \in [0..TextLen -> Int] /\ out_string \in [0..(out_string_len - 1) -> Int]
  BY <1>1, <1>2
<1>4. \A k \in 0..(out_string_len - 1) : out_string[k] = NUL
  BY <1>1
<1> QED  BY <1>1, <1>2, <1>3, <1>4 DEF TextInv, TextIsHash

\* The two digits of byte i go behind those before, and the zero behind them.
LEMMA BytePrinted ==
  ASSUME TextInv, PrintByte
  PROVE  TextInv'
<1>1. /\ tpc = "loop" /\ tpc' = tpc /\ Accepted /\ i < SHA256_BLOCK_SIZE /\ i' = i + 1
      /\ out_string_len > TextLen
      /\ UNCHANGED <<absent, hash, out_string_len, out_string>>
      /\ tmp_string' = [tmp_string EXCEPT ![i * 2] = hash[i] \div 16, ![i * 2 + 1] = hash[i] % 16, ![i * 2 + 2] = NUL]
      /\ SHA256_BLOCK_SIZE \in Nat /\ i \in 0..SHA256_BLOCK_SIZE /\ out_string_len \in Nat
      /\ hash \in [0..(SHA256_BLOCK_SIZE - 1) -> Bytes] /\ tmp_string \in [0..TextLen -> Int]
      /\ out_string \in [0..(out_string_len - 1) -> Int]
  <2>1. out_string_len \in Nat /\ SHA256_BLOCK_SIZE \in Nat
    BY TextAssumption DEF TextInv
  <2> QED  BY <2>1 DEF TextInv, PrintByte, Accepted, Place, TextLen
<1>2. PICK high, low, at : high = hash[i] \div 16 /\ low = hash[i] % 16 /\ at = i * 2
  OBVIOUS
<1>3. hash[i] \in Nat
  <2>1. i \in 0..(SHA256_BLOCK_SIZE - 1)
    BY <1>1
  <2>2. hash[i] \in Bytes
    BY <1>1, <2>1
  <2> QED  BY <2>2, TextAssumption
<1>4. high \in Int /\ low \in Int /\ NUL \in Int
  BY <1>2, <1>3 DEF NUL
<1>5. tmp_string' = [tmp_string EXCEPT ![at] = high, ![at + 1] = low, ![at + 2] = NUL]
  BY <1>1, <1>2
<1>6. at \in 0..TextLen /\ at + 1 \in 0..TextLen /\ at + 2 \in 0..TextLen /\ at \in Nat
  BY <1>1, <1>2 DEF TextLen
<1>7. /\ tmp_string' \in [0..TextLen -> Int] /\ tmp_string'[at] = high /\ tmp_string'[at + 1] = low
      /\ \A k \in 0..TextLen : k # at /\ k # at + 1 /\ k # at + 2 => tmp_string'[k] = tmp_string[k]
  <2>1. PICK one, two : one = at + 1 /\ two = at + 2
    OBVIOUS
  <2>2. at # one /\ at # two /\ one # two /\ one \in 0..TextLen /\ two \in 0..TextLen /\ at \in 0..TextLen
    BY <1>6, <2>1
  <2>3. tmp_string \in [0..TextLen -> Int] /\ tmp_string' = [tmp_string EXCEPT ![at] = high, ![one] = low, ![two] = NUL]
    BY <1>1, <1>5, <2>1
  <2>4. /\ tmp_string' \in [0..TextLen -> Int] /\ tmp_string'[at] = high /\ tmp_string'[one] = low
        /\ \A k \in 0..TextLen : k # at /\ k # one /\ k # two => tmp_string'[k] = tmp_string[k]
    BY <1>4, <2>2, <2>3
  <2> QED  BY <2>1, <2>4
<1>8. \A k : Digit(k)' = Digit(k)
  BY <1>1 DEF Digit
<1>9. ASSUME NEW k \in 0..(2 * i' - 1)
      PROVE  tmp_string'[k] = Digit(k)
  <2>1. k \in Nat /\ k \in 0..TextLen /\ (k < at \/ k = at \/ k = at + 1)
    <3>1. i \in Nat /\ i' = i + 1 /\ TextLen \in Nat /\ at + 2 <= TextLen /\ at = i * 2
      BY <1>1, <1>2, <1>6 DEF TextLen
    <3> QED  BY <3>1
  <2>2. CASE k < at
    <3>1. k \in 0..(2 * i - 1)
      BY <1>1, <1>2, <2>1, <2>2
    <3>2. tmp_string[k] = Digit(k)
      BY <1>1, <3>1 DEF TextInv
    <3> QED  BY <1>6, <1>7, <2>1, <2>2, <3>2
  <2>3. CASE k = at
    <3>1. k % 2 = 0 /\ k \div 2 = i
      BY <1>1, <1>2, <2>3
    <3> QED  BY <1>2, <1>7, <2>3, <3>1 DEF Digit
  <2>4. CASE k = at + 1
    <3>1. k % 2 = 1 /\ k \div 2 = i
      BY <1>1, <1>2, <2>4
    <3> QED  BY <1>2, <1>7, <2>4, <3>1 DEF Digit
  <2> QED  BY <2>1, <2>2, <2>3, <2>4
<1>10. \A k \in 0..(2 * i' - 1) : tmp_string'[k] = Digit(k)'
  BY <1>8, <1>9
<1>11. \A k \in 0..(out_string_len - 1) : out_string'[k] = NUL
  BY <1>1 DEF TextInv
<1>12. i' \in 0..SHA256_BLOCK_SIZE
  BY <1>1
<1>13. TextIsHash'
  BY <1>1 DEF TextIsHash
<1>14. TextLen' = TextLen /\ NUL' = NUL /\ Accepted'
  BY <1>1 DEF TextLen, NUL, Accepted
<1> QED  BY <1>1, <1>7, <1>10, <1>11, <1>12, <1>13, <1>14 DEF TextInv

LEMMA TextStepKeeps ==
  ASSUME TextInv, [TextNext]_textVars
  PROVE  TextInv'
<1>1. SHA256_BLOCK_SIZE \in Nat /\ out_string_len \in Nat /\ TextLen \in Nat
  BY TextAssumption DEF TextInv, TextLen
<1>2. CASE Refuse
  <2>1. /\ tpc = "loop" /\ tpc' = "returned" /\ ~Accepted /\ i = 0
        /\ UNCHANGED <<absent, hash, out_string_len, i, tmp_string, out_string>>
    BY <1>2 DEF Refuse
  <2>2. ~Accepted'
    BY <2>1 DEF Accepted
  <2>3. TextIsHash'
    BY <1>1, <2>1, <2>2 DEF TextInv, TextIsHash
  <2> QED  BY <2>1, <2>2, <2>3 DEF TextInv
<1>3. CASE PrintByte
  BY <1>3, BytePrinted
<1>4. CASE CopyOut
  <2>1. /\ tpc = "loop" /\ tpc' = "returned" /\ i = SHA256_BLOCK_SIZE /\ Accepted
        /\ UNCHANGED <<absent, hash, out_string_len, i, tmp_string>>
        /\ out_string' = [k \in DOMAIN out_string |-> IF k < TextLen THEN tmp_string[k] ELSE out_string[k]]
    BY <1>4 DEF CopyOut
  <2>2. /\ tmp_string \in [0..TextLen -> Int] /\ out_string \in [0..(out_string_len - 1) -> Int]
        /\ \A k \in 0..(out_string_len - 1) : out_string[k] = NUL
        /\ \A k \in 0..(2 * i - 1) : tmp_string[k] = Digit(k)
    BY <2>1 DEF TextInv
  <2>3. out_string' \in [0..(out_string_len - 1) -> Int]
    <3>1. \A k \in 0..(out_string_len - 1) : k < TextLen => tmp_string[k] \in Int
      BY <1>1, <2>2
    <3> QED  BY <2>1, <2>2, <3>1
  <2>4. ASSUME NEW k \in 0..(out_string_len - 1)
        PROVE  out_string'[k] = IF k < TextLen THEN Digit(k) ELSE NUL
    <3>1. k \in Nat /\ k < out_string_len
      BY <1>1
    <3>2. CASE k >= TextLen
      BY <1>1, <2>1, <2>2, <3>1, <3>2
    <3>3. CASE k < TextLen
      <4>1. k \in 0..(2 * i - 1)
        BY <1>1, <2>1, <3>1, <3>3 DEF TextLen
      <4>2. out_string'[k] = Digit(k)
        BY <2>1, <2>2, <3>3, <4>1
      <4> QED  BY <3>3, <4>2
    <3> QED  BY <1>1, <3>1, <3>2, <3>3
  <2>5. \A k : Digit(k)' = Digit(k)
    BY <2>1 DEF Digit
  <2>6. Accepted'
    BY <2>1 DEF Accepted
  <2>7. TextIsHash'
    BY <2>1, <2>4, <2>5, <2>6 DEF TextIsHash, TextLen, NUL
  <2> QED  BY <2>1, <2>3, <2>6, <2>7 DEF TextInv
<1>5. CASE UNCHANGED textVars
  BY <1>5 DEF textVars, TextInv, TextIsHash, Accepted, Digit
<1> QED  BY <1>2, <1>3, <1>4, <1>5 DEF TextNext

\* What convert_hash_to_string leaves in the buffer is the hash and a terminating zero, for
\* a hash of any length; a buffer without room for both, or none at all, is left alone.
THEOREM HashIsPrinted == TextSpec => []TextIsHash
<1>1. TextInit => TextInv
  BY TextStarts
<1>2. TextInv /\ [TextNext]_textVars => TextInv'
  BY TextStepKeeps
<1>3. TextInv => TextIsHash
  BY DEF TextInv
<1> QED  BY <1>1, <1>2, <1>3, PTL DEF TextSpec

-----------------------------------------------------------------------------
(* Powers of two and the bits of a number *)

LEMMA UpTo ==
  ASSUME NEW n \in Nat, NEW T, 0 \in T, \A k \in 0..(n - 1) : k \in T => k + 1 \in T
  PROVE  \A k \in 0..n : k \in T
<1> SUFFICES ASSUME NEW c \in 0..n, c \notin T PROVE FALSE
  OBVIOUS
<1>1. PICK D : D = {k \in 0..n : k \notin T}
  OBVIOUS
<1>2. PICK u \in D : \A v \in D : ~ (<<v, u>> \in OpToRel(<, Nat))
  <2>1. D \in SUBSET Nat /\ D # {}
    BY <1>1
  <2> QED  BY <2>1, NatLessThanWellFounded, WFMin
<1>3. \A v \in D : ~ (v < u)
  <2>1. D \in SUBSET Nat
    BY <1>1
  <2> QED  BY <2>1, <1>2 DEF OpToRel
<1>4. u \in 0..n /\ u \notin T /\ u # 0
  BY <1>1
<1>5. u - 1 \in 0..(n - 1) /\ u - 1 \in 0..n /\ u - 1 < u /\ (u - 1) + 1 = u
  BY <1>4
<1>6. u - 1 \in T
  BY <1>1, <1>3, <1>5
<1> QED  BY <1>4, <1>5, <1>6

\* f is Power2 up to n.
PowersUpTo(f, n) == f = [k \in 0..n |-> IF k = 0 THEN 1 ELSE 2 * f[k - 1]]

\* The recursive definition of the powers has a solution.
LEMMA PowersAreDefined == PowersUpTo(Power2, Width)
<1> DEFINE T == {m \in 0..Width : \E f : PowersUpTo(f, m)}
<1>1. 0 \in T
  <2>1. PICK f : f = [k \in 0..0 |-> 1]
    OBVIOUS
  <2>2. PowersUpTo(f, 0)
    BY <2>1 DEF PowersUpTo
  <2> QED  BY <2>2, WidthAssumption
<1>2. ASSUME NEW m \in 0..(Width - 1), m \in T
      PROVE  m + 1 \in T
  <2>1. PICK f : PowersUpTo(f, m)
    BY <1>2
  <2>2. PICK g : g = [k \in 0..(m + 1) |-> IF k <= m THEN f[k] ELSE 2 * f[m]]
    OBVIOUS
  <2>3. ASSUME NEW k \in 0..(m + 1)
        PROVE  g[k] = IF k = 0 THEN 1 ELSE 2 * g[k - 1]
    BY <2>1, <2>2 DEF PowersUpTo
  <2>4. PowersUpTo(g, m + 1)
    BY <2>2, <2>3 DEF PowersUpTo
  <2> QED  BY <2>4, WidthAssumption
<1>3. Width \in T
  <2> HIDE DEF T
  <2>1. \A k \in 0..Width : k \in T
    BY <1>1, <1>2, UpTo, WidthAssumption
  <2> QED  BY <2>1, WidthAssumption
<1>4. \E f : f = [k \in 0..Width |-> IF k = 0 THEN 1 ELSE 2 * f[k - 1]]
  BY <1>3 DEF PowersUpTo
<1> QED  BY <1>4 DEF PowersUpTo, Power2

\* What is used of the powers.
LEMMA Powers ==
  /\ Power2[0] = 1
  /\ \A k \in 0..(Width - 1) : Power2[k + 1] = 2 * Power2[k]
  /\ \A k \in 0..Width : Power2[k] \in Nat \ {0}
<1>1. Power2[0] = 1 /\ \A k \in 0..(Width - 1) : Power2[k + 1] = 2 * Power2[k]
  BY PowersAreDefined, WidthAssumption DEF PowersUpTo
<1>2. \A k \in 0..Width : Power2[k] \in Nat \ {0}
  <2> DEFINE T == {k \in 0..Width : Power2[k] \in Nat \ {0}}
  <2>1. 0 \in T
    BY <1>1, WidthAssumption
  <2>2. ASSUME NEW k \in 0..(Width - 1), k \in T
        PROVE  k + 1 \in T
    <3>1. PICK p \in Nat \ {0} : p = Power2[k]
      BY <2>2
    <3>2. Power2[k + 1] = 2 * p /\ k + 1 \in 0..Width
      BY <1>1, <3>1, WidthAssumption
    <3> QED  BY <3>2
  <2>3. \A k \in 0..Width : k \in T
    <3> HIDE DEF T
    <3> QED  BY <2>1, <2>2, UpTo, WidthAssumption
  <2> QED  BY <2>3
<1> QED  BY <1>1, <1>2

\* A power with a smaller exponent is smaller.
LEMMA PowersIncrease ==
  ASSUME NEW j \in 0..Width, NEW k \in 0..Width, j < k
  PROVE  Power2[j] < Power2[k]
<1> DEFINE T == {m \in 0..Width : \A e \in 0..Width : e < m => Power2[e] < Power2[m]}
<1>1. 0 \in T
  BY WidthAssumption
<1>2. ASSUME NEW m \in 0..(Width - 1), m \in T
      PROVE  m + 1 \in T
  <2>1. PICK p \in Nat \ {0} : p = Power2[m] /\ Power2[m + 1] = 2 * p /\ m \in 0..Width /\ m + 1 \in 0..Width
    BY Powers, WidthAssumption
  <2>2. ASSUME NEW e \in 0..Width, e < m + 1
        PROVE  Power2[e] < Power2[m + 1]
    <3>1. PICK q \in Nat : q = Power2[e]
      BY Powers
    <3>2. e = m \/ e < m
      BY <2>2
    <3>3. q <= p
      BY <1>2, <2>1, <3>1, <3>2
    <3> QED  BY <2>1, <3>1, <3>3
  <2> QED  BY <2>1, <2>2
<1>3. \A m \in 0..Width : m \in T
  <2> HIDE DEF T
  <2> QED  BY <1>1, <1>2, UpTo, WidthAssumption
<1> QED  BY <1>3

\* The least int is half of what an int can tell apart.
LEMMA ModulusIsTwoHalves ==
  /\ Modulus \in Nat /\ Half \in Nat \ {0} /\ Modulus = 2 * Half
<1>1. Width - 1 \in 0..(Width - 1) /\ Width - 1 \in 0..Width /\ Width \in 0..Width /\ (Width - 1) + 1 = Width
  BY WidthAssumption
<1> QED  BY <1>1, Powers DEF Modulus, Half

\* f is & for first operands up to n.
AndUpTo(f, n) ==
  f = [a \in 0..n |->
        [b \in Uints |->
           IF a = 0 THEN 0
           ELSE 2 * f[a \div 2][b \div 2] + (IF a % 2 = 1 /\ b % 2 = 1 THEN 1 ELSE 0)]]

\* So has that of &, which goes from a number to its half.
LEMMA AndIsDefined == AndUpTo(And, Modulus - 1)
<1> DEFINE T == {m \in 0..(Modulus - 1) : \E f : AndUpTo(f, m)}
<1>1. Modulus \in Nat /\ Modulus - 1 \in Nat
  BY ModulusIsTwoHalves
<1>2. 0 \in T
  <2>1. PICK f : f = [a \in 0..0 |-> [b \in Uints |-> 0]]
    OBVIOUS
  <2>2. AndUpTo(f, 0)
    BY <2>1 DEF AndUpTo
  <2> QED  BY <1>1, <2>2
<1>3. ASSUME NEW m \in 0..(Modulus - 2), m \in T
      PROVE  m + 1 \in T
  <2>1. PICK f : AndUpTo(f, m)
    BY <1>3
  <2>2. PICK new : new = [b \in Uints |->
                            2 * f[(m + 1) \div 2][b \div 2] + (IF (m + 1) % 2 = 1 /\ b % 2 = 1 THEN 1 ELSE 0)]
    OBVIOUS
  <2>3. PICK g : g = [a \in 0..(m + 1) |-> IF a <= m THEN f[a] ELSE new]
    OBVIOUS
  <2>4. \A a \in 0..m : g[a] = f[a]
    BY <2>3
  <2>5. ASSUME NEW a \in 0..(m + 1)
        PROVE  g[a] = [b \in Uints |->
                         IF a = 0 THEN 0
                         ELSE 2 * g[a \div 2][b \div 2] + (IF a % 2 = 1 /\ b % 2 = 1 THEN 1 ELSE 0)]
    <3>1. CASE a = 0
      <4>1. g[a] = f[a] /\ a \in 0..m
        BY <2>4, <3>1
      <4> QED  BY <2>1, <3>1, <4>1 DEF AndUpTo
    <3>2. CASE a # 0
      <4>1. a \div 2 \in 0..m
        BY <3>2
      <4>2. g[a \div 2] = f[a \div 2]
        BY <2>4, <4>1
      <4>3. CASE a \in 0..m
        <5>1. f[a] = [b \in Uints |->
                        IF a = 0 THEN 0
                        ELSE 2 * f[a \div 2][b \div 2] + (IF a % 2 = 1 /\ b % 2 = 1 THEN 1 ELSE 0)]
          BY <2>1, <4>3, Zenon DEF AndUpTo
        <5>2. g[a] = f[a]
          BY <2>4, <4>3
        <5> QED  BY <3>2, <4>2, <5>1, <5>2
      <4>4. CASE a = m + 1
        <5>1. g[a] = new
          BY <2>3, <4>4
        <5> QED  BY <2>2, <3>2, <4>2, <4>4, <5>1
      <4> QED  BY <4>3, <4>4
    <3> QED  BY <3>1, <3>2
  <2>6. AndUpTo(g, m + 1)
    BY <2>3, <2>5 DEF AndUpTo
  <2> QED  BY <1>1, <2>6
<1>4. Modulus - 1 \in T
  <2> HIDE DEF T
  <2>1. PICK n \in Nat : n = Modulus - 1 /\ n - 1 = Modulus - 2
    BY <1>1
  <2>2. \A k \in 0..n : k \in T
    BY <1>2, <1>3, <2>1, UpTo
  <2> QED  BY <2>1, <2>2
<1>5. \E f : f = [a \in Uints |->
                   [b \in Uints |->
                      IF a = 0 THEN 0
                      ELSE 2 * f[a \div 2][b \div 2] + (IF a % 2 = 1 /\ b % 2 = 1 THEN 1 ELSE 0)]]
  BY <1>4 DEF AndUpTo, Uints
<1> QED  BY <1>5 DEF AndUpTo, And, Uints

\* So & is computed from the lowest bits and the halves.
LEMMA AndBits ==
  /\ \A b \in Uints : And[0][b] = 0
  /\ \A a \in Uints \ {0}, b \in Uints :
       And[a][b] = 2 * And[a \div 2][b \div 2] + (IF a % 2 = 1 /\ b % 2 = 1 THEN 1 ELSE 0)
<1>1. And = [a \in Uints |->
               [b \in Uints |->
                  IF a = 0 THEN 0
                  ELSE 2 * And[a \div 2][b \div 2] + (IF a % 2 = 1 /\ b % 2 = 1 THEN 1 ELSE 0)]]
  BY AndIsDefined DEF AndUpTo, Uints
<1>2. 0 \in Uints
  BY ModulusIsTwoHalves DEF Uints
<1>3. ASSUME NEW a \in Uints, NEW b \in Uints
      PROVE  And[a][b] = IF a = 0 THEN 0
                         ELSE 2 * And[a \div 2][b \div 2] + (IF a % 2 = 1 /\ b % 2 = 1 THEN 1 ELSE 0)
  <2>1. And[a] = [c \in Uints |->
                    IF a = 0 THEN 0
                    ELSE 2 * And[a \div 2][c \div 2] + (IF a % 2 = 1 /\ c % 2 = 1 THEN 1 ELSE 0)]
    BY <1>1, Zenon
  <2> QED  BY <2>1, Zenon
<1>4. \A b \in Uints : And[0][b] = 0
  BY <1>2, <1>3
<1> QED  BY <1>3, <1>4

\* Its values are natural numbers.
LEMMA AndIsNat ==
  ASSUME NEW n \in Uints, NEW b \in Uints
  PROVE  And[n][b] \in Nat
<1> DEFINE T == {m \in 0..(Modulus - 1) : \A a \in 0..m, c \in Uints : And[a][c] \in Nat}
<1>1. Modulus \in Nat /\ Modulus - 1 \in Nat
  BY ModulusIsTwoHalves
<1>2. 0 \in T
  BY <1>1, AndBits
<1>3. ASSUME NEW m \in 0..((Modulus - 1) - 1), m \in T
      PROVE  m + 1 \in T
  <2>1. (m + 1) \div 2 \in 0..m /\ m + 1 \in Uints \ {0}
    BY <1>1 DEF Uints
  <2>2. ASSUME NEW c \in Uints
        PROVE  And[m + 1][c] \in Nat
    <3>1. c \div 2 \in Uints
      BY <1>1 DEF Uints
    <3>2. PICK x \in Nat : x = And[(m + 1) \div 2][c \div 2]
      BY <1>3, <2>1, <3>1
    <3>3. And[m + 1][c] = 2 * x + (IF (m + 1) % 2 = 1 /\ c % 2 = 1 THEN 1 ELSE 0)
      BY <2>1, <3>2, AndBits
    <3> QED  BY <3>2, <3>3
  <2> QED  BY <1>1, <1>3, <2>2
<1>4. \A m \in 0..(Modulus - 1) : m \in T
  <2> HIDE DEF T
  <2> QED  BY <1>1, <1>2, <1>3, UpTo
<1>5. n \in 0..n /\ n \in 0..(Modulus - 1)
  BY <1>1 DEF Uints
<1> QED  BY <1>4, <1>5

\* A number and itself have its bits in common.
LEMMA AndWithItself ==
  ASSUME NEW n \in Uints
  PROVE  And[n][n] = n
<1> DEFINE T == {m \in 0..(Modulus - 1) : \A a \in 0..m : And[a][a] = a}
<1>1. Modulus \in Nat /\ Modulus - 1 \in Nat
  BY ModulusIsTwoHalves
<1>2. 0 \in T
  BY <1>1, AndBits DEF Uints
<1>3. ASSUME NEW m \in 0..((Modulus - 1) - 1), m \in T
      PROVE  m + 1 \in T
  <2>1. PICK h : h = (m + 1) \div 2
    OBVIOUS
  <2>2. h \in 0..m /\ m + 1 \in Uints \ {0}
    BY <1>1, <2>1 DEF Uints
  <2>3. And[m + 1][m + 1] = 2 * And[h][h] + (IF (m + 1) % 2 = 1 THEN 1 ELSE 0)
    BY <2>1, <2>2, AndBits
  <2>4. And[h][h] = h
    BY <1>3, <2>2
  <2>5. m + 1 = 2 * h + (IF (m + 1) % 2 = 1 THEN 1 ELSE 0)
    BY <2>1
  <2>6. And[m + 1][m + 1] = m + 1
    BY <2>3, <2>4, <2>5
  <2> QED  BY <1>1, <1>3, <2>6
<1>4. \A m \in 0..(Modulus - 1) : m \in T
  <2> HIDE DEF T
  <2> QED  BY <1>1, <1>2, <1>3, UpTo
<1>5. n \in 0..n /\ n \in 0..(Modulus - 1)
  BY <1>1 DEF Uints
<1> QED  BY <1>4, <1>5

\* A number and the one below it have no bit in common if and only if it is a power of two.
LEMMA AndWithPredecessor ==
  ASSUME NEW n \in Uints \ {0}
  PROVE  And[n][n - 1] = 0 <=> n \in PowersOf2
<1> DEFINE P(a) == And[a][a - 1] = 0 <=> a \in PowersOf2
           T == {m \in 0..(Modulus - 1) : \A a \in 1..m : P(a)}
<1>1. Modulus \in Nat /\ Modulus - 1 \in Nat
  BY ModulusIsTwoHalves
<1>2. 0 \in T
  BY <1>1
<1>3. ASSUME NEW m \in 0..((Modulus - 1) - 1), m \in T
      PROVE  m + 1 \in T
  <2>1. PICK h : h = (m + 1) \div 2
    OBVIOUS
  <2>2. h \in 0..m /\ m + 1 \in Uints \ {0} /\ m \in Uints /\ h \in Uints /\ (m + 1) - 1 = m
    BY <1>1, <2>1 DEF Uints
  <2>3. And[m + 1][m] = 2 * And[h][m \div 2]
    <3>1. ~((m + 1) % 2 = 1 /\ m % 2 = 1)
      OBVIOUS
    <3>2. And[m + 1][m] = 2 * And[h][m \div 2] + (IF (m + 1) % 2 = 1 /\ m % 2 = 1 THEN 1 ELSE 0)
      BY <2>1, <2>2, AndBits
    <3>3. PICK x \in Nat : x = And[h][m \div 2]
      <4>1. m \div 2 \in Uints
        BY <1>1 DEF Uints
      <4> QED  BY <2>2, <4>1, AndIsNat
    <3> QED  BY <3>1, <3>2, <3>3
  <2>4. CASE m % 2 = 0
    <3>1. m \div 2 = h /\ m + 1 = 2 * h + 1
      BY <2>1, <2>4
    <3>2. And[m + 1][m] = 2 * h
      BY <2>2, <2>3, <3>1, AndWithItself
    <3>3. m + 1 \in PowersOf2 <=> h = 0
      <4>1. ASSUME NEW k \in 0..(Width - 1), m + 1 = Power2[k]
            PROVE  h = 0
        <5>1. CASE k = 0
          BY <2>2, <3>1, <4>1, <5>1, Powers
        <5>2. CASE k # 0
          <6>1. k - 1 \in 0..(Width - 1) /\ (k - 1) + 1 = k /\ k - 1 \in 0..Width
            BY <5>2, WidthAssumption
          <6>2. PICK p \in Nat : p = Power2[k - 1]
            BY <6>1, Powers
          <6>3. m + 1 = 2 * p
            BY <4>1, <6>1, <6>2, Powers
          <6> QED  BY <2>2, <3>1, <6>2, <6>3
        <5> QED  BY <5>1, <5>2
      <4>2. h = 0 => m + 1 = Power2[0] /\ 0 \in 0..(Width - 1)
        BY <3>1, Powers, WidthAssumption
      <4> QED  BY <4>1, <4>2 DEF PowersOf2
    <3>4. P(m + 1)
      BY <2>2, <3>2, <3>3
    <3> QED  BY <1>1, <1>3, <3>4
  <2>5. CASE m % 2 = 1
    <3>1. m \div 2 = h - 1 /\ m + 1 = 2 * h /\ h \in 1..m
      BY <2>1, <2>5
    <3>2. And[h][h - 1] = 0 <=> h \in PowersOf2
      BY <1>3, <3>1
    <3>3. m + 1 \in PowersOf2 <=> h \in PowersOf2
      <4>1. ASSUME NEW k \in 0..(Width - 1), m + 1 = Power2[k]
            PROVE  h \in PowersOf2
        <5>1. k # 0
          BY <3>1, <4>1, Powers
        <5>2. k - 1 \in 0..(Width - 1) /\ (k - 1) + 1 = k /\ k - 1 \in 0..Width
          BY <5>1, WidthAssumption
        <5>3. PICK p \in Nat : p = Power2[k - 1]
          BY <5>2, Powers
        <5>4. h = p
          BY <3>1, <4>1, <5>2, <5>3, Powers
        <5> QED  BY <5>2, <5>3, <5>4 DEF PowersOf2
      <4>2. ASSUME NEW k \in 0..(Width - 1), h = Power2[k]
            PROVE  m + 1 \in PowersOf2
        <5>1. m + 1 = Power2[k + 1]
          BY <3>1, <4>2, Powers
        <5>2. k # Width - 1
          <6>1. k = Width - 1 => m + 1 = Modulus
            BY <5>1, WidthAssumption DEF Modulus
          <6> QED  BY <1>1, <6>1
        <5>3. k + 1 \in 0..(Width - 1)
          BY <5>2, WidthAssumption
        <5> QED  BY <5>1, <5>3 DEF PowersOf2
      <4> QED  BY <4>1, <4>2 DEF PowersOf2
    <3>4. P(m + 1)
      <4>1. And[m + 1][m] = 2 * And[h][h - 1]
        BY <2>3, <3>1
      <4>2. PICK x \in Nat : x = And[h][h - 1]
        <5>1. h - 1 \in Uints
          BY <1>1, <2>2, <3>1 DEF Uints
        <5> QED  BY <2>2, <5>1, AndIsNat
      <4>3. And[m + 1][m] = 0 <=> And[h][h - 1] = 0
        BY <4>1, <4>2
      <4> QED  BY <2>2, <3>2, <3>3, <4>3
    <3> QED  BY <1>1, <1>3, <3>4
  <2> QED  BY <2>4, <2>5
<1>4. \A m \in 0..(Modulus - 1) : m \in T
  <2> HIDE DEF T
  <2> QED  BY <1>1, <1>2, <1>3, UpTo
<1>5. n \in 1..n /\ n \in 0..(Modulus - 1)
  BY <1>1 DEF Uints
<1> QED  BY <1>4, <1>5

\* No power below the width is above the half, and only the last is the half.
LEMMA PowerOfHalf ==
  ASSUME NEW k \in 0..(Width - 1)
  PROVE  /\ Power2[k] \in Nat \ {0} /\ Power2[k] <= Half
         /\ Power2[k] = Half => k = Width - 1
<1>1. k \in 0..Width /\ Width - 1 \in 0..Width /\ (k = Width - 1 \/ k < Width - 1)
  BY WidthAssumption
<1>2. PICK p \in Nat \ {0}, q \in Nat \ {0} : p = Power2[k] /\ q = Power2[Width - 1]
  BY <1>1, Powers
<1>3. k < Width - 1 => p < q
  BY <1>1, <1>2, PowersIncrease
<1> QED  BY <1>1, <1>2, <1>3 DEF Half

\* What is_power_of_2 tells apart.
LEMMA PowerTest ==
  ASSUME NEW d \in Ints
  PROVE  is_power_of_2(d) = 0 <=> d \in PowersOf2 \cup {0, -Half}
<1>1. Modulus \in Nat /\ Half \in Nat \ {0} /\ Modulus = 2 * Half /\ d \in Int
      /\ -Half <= d /\ d < Half
  BY ModulusIsTwoHalves DEF Ints
<1>2. Half \in PowersOf2
  BY WidthAssumption DEF PowersOf2, Half
<1>3. \A p \in PowersOf2 : p \in Nat \ {0} /\ p <= Half
  BY PowerOfHalf DEF PowersOf2
<1>4. CASE d = 0
  <2>1. Bits(d) = 0 /\ Bits(d - 1) = Modulus - 1 /\ Modulus - 1 \in Uints
    BY <1>1, <1>4 DEF Bits, Uints
  <2>2. is_power_of_2(d) = 0
    BY <2>1, AndBits DEF is_power_of_2
  <2> QED  BY <1>4, <2>2
<1>5. CASE d > 0
  <2>1. Bits(d) = d /\ Bits(d - 1) = d - 1 /\ d \in Uints \ {0}
    BY <1>1, <1>5 DEF Bits, Uints
  <2>2. is_power_of_2(d) = 0 <=> d \in PowersOf2
    BY <2>1, AndWithPredecessor DEF is_power_of_2
  <2>3. d # 0 /\ d # -Half
    BY <1>1, <1>5
  <2> QED  BY <2>2, <2>3
<1>6. CASE d < 0
  <2>1. PICK e \in Uints \ {0} : e = d + Modulus
    BY <1>1, <1>6 DEF Uints
  <2>2. Bits(d) = e /\ Bits(d - 1) = e - 1
    BY <1>1, <1>6, <2>1 DEF Bits
  <2>3. is_power_of_2(d) = 0 <=> e \in PowersOf2
    BY <2>1, <2>2, AndWithPredecessor DEF is_power_of_2
  <2>4. e \in PowersOf2 <=> e = Half
    <3>1. e >= Half
      BY <1>1, <2>1
    <3>2. e \in PowersOf2 => e <= Half
      BY <1>3
    <3>3. e \in Int
      BY <2>1, <1>1
    <3> QED  BY <1>1, <1>2, <3>1, <3>2, <3>3
  <2>5. e = Half <=> d = -Half
    BY <1>1, <2>1
  <2>6. d \notin PowersOf2 /\ d # 0
    BY <1>3, <1>6
  <2> QED  BY <2>3, <2>4, <2>5, <2>6
<1> QED  BY <1>1, <1>4, <1>5, <1>6

\* There is a least exponent whose power is not below n.
LEMMA CeilLog2Is ==
  ASSUME NEW n \in Uints \ {0}
  PROVE  /\ CeilLog2(n) \in 0..Width
         /\ n <= Power2[CeilLog2(n)]
         /\ \A k \in 0..Width : k < CeilLog2(n) => Power2[k] < n
<1> DEFINE T == {k \in 0..Width : Power2[k] < n}
           Reached(k) == n <= Power2[k] /\ (k = 0 \/ Power2[k - 1] < n)
<1>1. n \in Nat \ {0} /\ n < Modulus
  BY ModulusIsTwoHalves DEF Uints
<1>2. \E k \in 0..Width : Reached(k)
  <2>1. SUFFICES ASSUME \A k \in 0..Width : ~Reached(k)
                 PROVE  FALSE
    OBVIOUS
  <2>2. 0 \in T
    <3>1. ~(n <= Power2[0]) /\ 0 \in 0..Width
      BY <2>1, WidthAssumption
    <3> QED  BY <1>1, <3>1, Powers
  <2>3. ASSUME NEW k \in 0..(Width - 1), k \in T
        PROVE  k + 1 \in T
    <3>1. k + 1 \in 0..Width /\ k + 1 # 0 /\ (k + 1) - 1 = k /\ Power2[k + 1] \in Nat
      BY WidthAssumption, Powers
    <3>2. ~(n <= Power2[k + 1])
      BY <2>1, <2>3, <3>1
    <3> QED  BY <1>1, <3>1, <3>2
  <2>4. Width \in T
    <3> HIDE DEF T
    <3>1. \A k \in 0..Width : k \in T
      BY <2>2, <2>3, UpTo, WidthAssumption
    <3> QED  BY <3>1, WidthAssumption
  <2> QED  BY <1>1, <2>4, ModulusIsTwoHalves DEF Modulus
<1>3. PICK c \in 0..Width : c = CeilLog2(n) /\ Reached(c)
  BY <1>2 DEF CeilLog2
<1>4. ASSUME NEW k \in 0..Width, k < c
      PROVE  Power2[k] < n
  <2>1. c - 1 \in 0..Width /\ (k = c - 1 \/ k < c - 1) /\ c # 0
    BY <1>4, WidthAssumption
  <2>2. PICK p \in Nat, q \in Nat : p = Power2[k] /\ q = Power2[c - 1]
    BY <2>1, Powers
  <2>3. k < c - 1 => p < q
    BY <2>1, <2>2, PowersIncrease
  <2>4. q < n
    BY <1>3, <2>1, <2>2
  <2> QED  BY <1>1, <2>1, <2>2, <2>3, <2>4
<1> QED  BY <1>3, <1>4

\* What cal_the_least_pow2_to_n returns.
LEMMA LeastPower ==
  ASSUME NEW n \in Uints
  PROVE  LET above == {p \in PowersOf2 : p >= n}
         IN  IF n = 0 \/ above = {} THEN cal_the_least_pow2_to_n(n) = 0
             ELSE /\ cal_the_least_pow2_to_n(n) \in above
                  /\ \A p \in above : cal_the_least_pow2_to_n(n) <= p
<1> DEFINE above == {p \in PowersOf2 : p >= n}
           c == CeilLog2(n)
<1>1. CASE n = 0
  BY <1>1 DEF cal_the_least_pow2_to_n
<1>2. CASE n # 0
  <2>1. n \in Uints \ {0} /\ n \in Nat
    BY <1>2, ModulusIsTwoHalves DEF Uints
  <2>2. /\ c \in 0..Width
        /\ n <= Power2[c]
        /\ \A k \in 0..Width : k < c => Power2[k] < n
    BY <2>1, CeilLog2Is
  <2> HIDE DEF c
  <2>3. ASSUME NEW k \in 0..(Width - 1), Power2[k] >= n
        PROVE  c <= k
    <3>1. k \in 0..Width /\ Power2[k] \in Nat
      BY Powers, WidthAssumption
    <3> QED  BY <2>1, <2>2, <2>3, <3>1
  <2>4. CASE c = Width
    <3>1. above = {}
      BY <2>3, <2>4, WidthAssumption DEF PowersOf2
    <3>2. cal_the_least_pow2_to_n(n) = 0
      BY <2>4 DEF cal_the_least_pow2_to_n, c
    <3> QED  BY <3>1, <3>2
  <2>5. CASE c # Width
    <3>1. c \in 0..(Width - 1)
      BY <2>2, <2>5, WidthAssumption
    <3>2. cal_the_least_pow2_to_n(n) = Power2[c]
      BY <1>2, <2>5 DEF cal_the_least_pow2_to_n, c
    <3>3. Power2[c] \in Nat /\ Power2[c] >= n
      BY <2>1, <2>2, Powers
    <3>4. Power2[c] \in above
      BY <3>1, <3>3 DEF PowersOf2
    <3>5. ASSUME NEW k \in 0..(Width - 1), Power2[k] >= n
          PROVE  Power2[c] <= Power2[k]
      <4>1. c <= k /\ k \in 0..Width
        BY <2>3, <3>5, WidthAssumption
      <4>2. PICK q \in Nat : q = Power2[k]
        BY <4>1, Powers
      <4>3. c < k => Power2[c] < q
        BY <2>2, <4>1, <4>2, PowersIncrease
      <4>4. c = k \/ c < k
        BY <2>2, <4>1
      <4> QED  BY <3>3, <4>2, <4>3, <4>4
    <3>6. \A p \in above : Power2[c] <= p
      BY <3>5 DEF PowersOf2
    <3> QED  BY <1>2, <3>2, <3>4, <3>6
  <2> QED  BY <2>4, <2>5
<1> QED  BY <1>1, <1>2

\* The bits of an int are a uint, and zero only for zero.
LEMMA BitsAreUint ==
  ASSUME NEW d \in Ints
  PROVE  Bits(d) \in Uints /\ (Bits(d) = 0 <=> d = 0)
<1>1. Modulus \in Nat /\ Half \in Nat \ {0} /\ Modulus = 2 * Half
  BY ModulusIsTwoHalves
<1>2. d \in Int /\ -Half <= d /\ d < Half
  BY <1>1 DEF Ints
<1>3. CASE d < 0
  BY <1>1, <1>2, <1>3 DEF Bits, Uints
<1>4. CASE ~ (d < 0)
  BY <1>1, <1>2, <1>4 DEF Bits, Uints
<1> QED
  BY <1>3, <1>4

\* The results on record are those of the call on record.
HelpersInv ==
  called => arg \in Ints /\ power = is_power_of_2(arg) /\ least = cal_the_least_pow2_to_n(Bits(arg))

\* For every width of an int, is_power_of_2 gives 0 exactly for the powers of two, 0 and the
\* least int, and cal_the_least_pow2_to_n the least power not below its argument, 0 if none is.
THEOREM HelpersAreRight == DefsSpec => []HelpersReturn
<1>1. DefsInit => HelpersInv
  BY DEF DefsInit, HelpersInv
<1>2. HelpersInv /\ [CallHelpers]_defsVars => HelpersInv'
  BY DEF CallHelpers, HelpersInv, defsVars
<1>3. HelpersInv => HelpersReturn
  <2>1. HelpersInv => ZeroForPowers
    BY PowerTest DEF HelpersInv, ZeroForPowers
  <2>2. HelpersInv => LeastNotBelow
    <3> SUFFICES ASSUME HelpersInv, called PROVE LeastNotBelow
      BY DEF LeastNotBelow
    <3>1. PICK n : n = Bits(arg)
      OBVIOUS
    <3>2. n \in Uints /\ (n = 0 <=> arg = 0) /\ least = cal_the_least_pow2_to_n(n)
      BY <3>1, BitsAreUint DEF HelpersInv
    <3> QED
      BY <3>1, <3>2, LeastPower DEF LeastNotBelow
  <2> QED
    BY <2>1, <2>2 DEF HelpersReturn
<1> QED
  BY <1>1, <1>2, <1>3, PTL DEF DefsSpec

=============================================================================
