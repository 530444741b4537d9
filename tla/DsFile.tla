------------------------------- MODULE DsFile -------------------------------
(***************************************************************************)
(* gen_ds_file and gen_hashed_ds_file of utils.c: a file of numbered       *)
(* records, each a random string or its digest.  The file is a stream of   *)
(* bytes without frames: a record is whatever stands at a multiple of its  *)
(* length.  The file may not open, and a write may store a part of the     *)
(* buffer or nothing; the code looks at neither result, and what it writes *)
(* next goes where the last write ended.                                   *)
(***************************************************************************)
EXTENDS Integers, Sequences

CONSTANTS
  BlockNums,   \* data_block_num: ints
  StringLens,  \* string_len: ints
  Strings,     \* what generate_random_string may return
  Empty,       \* the string of length 0
  Digest(_),   \* SHA-256
  DigestLen,   \* its length, 32 in the code
  IntSize,     \* sizeof(int), 4 in the build
  Old          \* what the file held before

ASSUME FileAssumption ==
  /\ BlockNums \subseteq Int /\ StringLens \subseteq Int
  /\ DigestLen \in Nat /\ IntSize \in Nat \ {0}

VARIABLES
  wpc,       \* "open", "loop", "done" or "crash"
  hashed,    \* it is gen_hashed_ds_file
  data_block_num, string_len, wi, fd,
  written,   \* the bytes in the file
  drawn,     \* history: the strings, in the order they were drawn
  whole      \* history: the writes before the first that did not store the whole buffer

fileVars == <<wpc, hashed, data_block_num, string_len, wi, fd, written, drawn, whole>>
args == <<hashed, data_block_num, string_len>>

FileInit ==
  /\ wpc = "open" /\ hashed \in BOOLEAN /\ data_block_num \in BlockNums /\ string_len \in StringLens
  /\ wi = 0 /\ fd = -1 /\ written = Old /\ drawn = <<>> /\ whole = 0

\* O_CREAT | O_WRONLY | O_TRUNC; arguments <= 0 are complained of, and used.
OpenFile ==
  /\ wpc = "open" /\ wpc' = "loop"
  /\ \/ fd' = 3 /\ written' = <<>>
     \/ UNCHANGED <<fd, written>>
  /\ UNCHANGED <<args, wi, drawn, whole>>

\* Mutant: the records are numbered from 0.
FromZero == wi

index == wi + 1

Payload(s) == IF hashed THEN Digest(s) ELSE s

buffer_len == IntSize + (IF hashed THEN DigestLen ELSE string_len)

\* Byte k of the record with number n made of string s: its number, then its payload.
RecordByte(n, s, k) ==
  IF k <= IntSize THEN [index |-> n, at |-> k] ELSE [payload |-> Payload(s), at |-> k - IntSize]

buffer(s) == [k \in 1..buffer_len |-> RecordByte(index, s, k)]

\* One record in one write, which stores the first bytes of it, or all or none.
WriteRecord ==
  /\ wpc = "loop" /\ wi < data_block_num /\ string_len >= 0
  /\ \E s \in IF string_len = 0 THEN {Empty} ELSE Strings :
       /\ drawn' = Append(drawn, s)
       /\ \/ fd = -1 /\ UNCHANGED <<written, whole>>
          \/ /\ fd # -1
             /\ \E stored \in 0..buffer_len :
                  /\ written' = written \o SubSeq(buffer(s), 1, stored)
                  /\ whole' = IF stored = buffer_len /\ whole = wi THEN wi + 1 ELSE whole
  /\ wi' = wi + 1
  /\ UNCHANGED <<wpc, args, fd>>

\* generate_random_string returns NULL, and about 2^64 bytes are read from there.
NegativeLength ==
  /\ wpc = "loop" /\ wi < data_block_num /\ string_len < 0
  /\ wpc' = "crash" /\ UNCHANGED <<args, wi, fd, written, drawn, whole>>

CloseFile ==
  /\ wpc = "loop" /\ wi >= data_block_num
  /\ wpc' = "done" /\ fd' = -1 /\ UNCHANGED <<args, wi, written, drawn, whole>>

FileNext == OpenFile \/ WriteRecord \/ NegativeLength \/ CloseFile

FileSpec == FileInit /\ [][FileNext]_fileVars

-----------------------------------------------------------------------------

\* Where record n begins, less one.
Offset(n) == (n - 1) * buffer_len

\* The first m records stand at their offsets, each with its number and with the
\* string drawn for it.
InPlace(m) ==
  \A n \in 1..m : \A k \in 1..buffer_len : written[Offset(n) + k] = RecordByte(n, drawn[n], k)

\* A short write goes unnoticed and moves everything behind it; it shows all the same.
\* The records before it are at their offsets, whatever is written later, and the file
\* is shorter than the records asked for: one of full size, unless it is the old file
\* because it did not open, has every record in its place.
SizeShowsDamage ==
  \/ written = Old /\ whole = 0
  \/ /\ InPlace(whole)
     /\ Len(written) <= wi * buffer_len
     /\ Len(written) = wi * buffer_len => whole = wi

Drawable == Strings \cup {Empty}
FileByte == [index : Nat, at : Nat] \cup [payload : Drawable \cup {Digest(s) : s \in Drawable}, at : Nat]

\* The inductive invariant: until it has been opened the file is the old one, and then
\* it begins with the records that were stored whole.
FileInv ==
  /\ hashed \in BOOLEAN /\ string_len \in Int /\ wi \in Nat /\ whole \in 0..wi
  /\ drawn \in Seq(Drawable) /\ Len(drawn) = wi
  /\ wi > 0 => buffer_len > 0
  /\ fd = -1 /\ wpc # "done" => written = Old /\ whole = 0
  /\ wpc = "open" => wi = 0
  /\ fd # -1 => written \in Seq(FileByte) /\ whole * buffer_len <= Len(written)
  /\ fd # -1 => InPlace(whole) /\ Len(written) <= wi * buffer_len
  /\ fd # -1 /\ Len(written) = wi * buffer_len => whole = wi
  /\ SizeShowsDamage

=============================================================================
