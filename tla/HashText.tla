------------------------------ MODULE HashText ------------------------------
(***************************************************************************)
(* convert_hash_to_string of sha256.c: every byte of a hash is printed by  *)
(* a sprintf of two digits and a terminating zero into a local array, and  *)
(* the array is copied to the caller's buffer.  One action is one sprintf. *)
(*                                                                         *)
(* print_ds_with_hash and print_pg_info_vector clear the buffer before     *)
(* each call and print it after.                                           *)
(***************************************************************************)
EXTENDS Integers

CONSTANTS
  SHA256_BLOCK_SIZE,   \* 32 in the code
  Bytes,               \* the bytes a hash is made of, below 256
  BufferLens           \* the out_string_len a caller may give

ASSUME TextAssumption == SHA256_BLOCK_SIZE \in Nat /\ Bytes \subseteq Nat /\ BufferLens \subseteq Nat

VARIABLES
  tpc,            \* "loop" or "returned"
  absent,         \* which of the two pointers, hash and out_string, are NULL
  hash, out_string_len,
  i,
  tmp_string,     \* the array and, at TextLen, the byte behind it: padding in the build
  out_string

textVars == <<tpc, absent, hash, out_string_len, i, tmp_string, out_string>>

NUL == -1       \* the terminating zero; a digit is the number it stands for
Behind == -2    \* what the byte behind the array holds

TextLen == SHA256_BLOCK_SIZE * 2

TextInit ==
  /\ tpc = "loop" /\ i = 0 /\ absent \in SUBSET {"hash", "out_string"}
  /\ hash \in [0..(SHA256_BLOCK_SIZE - 1) -> Bytes]
  /\ tmp_string = [k \in 0..TextLen |-> IF k < TextLen THEN NUL ELSE Behind]
  /\ out_string_len \in BufferLens
  /\ out_string = [k \in 0..(out_string_len - 1) |-> NUL]

Accepted == absent = {} /\ out_string_len >= TextLen + 1

\* A NULL argument or a buffer that is too short: a message, and nothing else.
Refuse ==
  /\ i = 0 /\ tpc = "loop" /\ ~Accepted
  /\ tpc' = "returned"
  /\ UNCHANGED <<absent, hash, out_string_len, i, tmp_string, out_string>>

\* Mutant: the digits of the next byte go one further, not two.
NextPlace(k) == k

Place(k) == k * 2

\* sprintf(tmp_string + i * 2, "%02x", hash[i]).
PrintByte ==
  /\ tpc = "loop" /\ Accepted /\ i < SHA256_BLOCK_SIZE
  /\ tmp_string' = [tmp_string EXCEPT ![Place(i)] = hash[i] \div 16,
                                      ![Place(i) + 1] = hash[i] % 16,
                                      ![Place(i) + 2] = NUL]
  /\ i' = i + 1
  /\ UNCHANGED <<tpc, absent, hash, out_string_len, out_string>>

CopyOut ==
  /\ tpc = "loop" /\ Accepted /\ i = SHA256_BLOCK_SIZE
  /\ out_string' = [k \in DOMAIN out_string |-> IF k < TextLen THEN tmp_string[k] ELSE out_string[k]]
  /\ tpc' = "returned"
  /\ UNCHANGED <<absent, hash, out_string_len, i, tmp_string>>

TextNext == Refuse \/ PrintByte \/ CopyOut

TextSpec == TextInit /\ [][TextNext]_textVars

-----------------------------------------------------------------------------

\* The digit of the hash at place k of the text.
Digit(k) == IF k % 2 = 0 THEN hash[k \div 2] \div 16 ELSE hash[k \div 2] % 16

\* What is printed is the hash: the terminating zero of each sprintf is overwritten by
\* the next, and the buffer's own zero behind the last digit is still there.  A buffer
\* without room for it, or for which there is no hash, is left alone.
TextIsHash ==
  tpc = "returned" =>
    \A k \in 0..(out_string_len - 1) :
      out_string[k] = IF k < TextLen /\ Accepted THEN Digit(k) ELSE NUL

\* The inductive invariant: the digits of the first i bytes are in the array.
TextInv ==
  /\ i \in 0..SHA256_BLOCK_SIZE /\ hash \in [0..(SHA256_BLOCK_SIZE - 1) -> Bytes] /\ out_string_len \in Nat
  /\ tmp_string \in [0..TextLen -> Int] /\ out_string \in [0..(out_string_len - 1) -> Int]
  /\ i > 0 => Accepted
  /\ tpc = "loop" => /\ \A k \in 0..(out_string_len - 1) : out_string[k] = NUL
                     /\ \A k \in 0..(2 * i - 1) : tmp_string[k] = Digit(k)
  /\ TextIsHash

=============================================================================
