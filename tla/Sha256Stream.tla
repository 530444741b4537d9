---------------------------- MODULE Sha256Stream ----------------------------
(***************************************************************************)
(* The streaming interface of sha256.c: sha256_init, any number of         *)
(* sha256_update, sha256_final on one SHA256_CTX.  The caller's chunks end *)
(* anywhere, blocks of 64 bytes are cut out of their concatenation, and    *)
(* sha256_final pads what is left in the buffer.                           *)
(*                                                                         *)
(* sha256_transform is the CONSTANT Compress: module Sha256Transform has   *)
(* the one of the code.  A context may be used for one message after       *)
(* another; sha256_init does not clear the block buffer.                   *)
(***************************************************************************)
EXTENDS Integers, Sequences

CONSTANTS
  Messages,        \* the byte sequences a caller may hash
  CallEnds,        \* the positions in a message where a call of sha256_update may end
  UintRange,       \* the values of an unsigned int: 2^32 in the build
  Byte,
  Compress(_, _),  \* sha256_transform: the next ctx->state, of a state and a block
  H0,              \* the state sha256_init sets
  Output(_),       \* the 32 bytes sha256_final makes of the last state
  StaleData        \* what ctx->data may hold before its first use

\* BYTE data[64] of SHA256_CTX.
Block == [0..63 -> Byte]

ASSUME MessagesAssumption == Messages \subseteq Seq(Byte)
ASSUME CallEndsAssumption == CallEnds \subseteq Nat
ASSUME ByteAssumption == 0..255 \subseteq Byte
ASSUME UintAssumption == UintRange \in Nat \ {0}
ASSUME StaleAssumption == StaleData \subseteq Block

VARIABLES
  spc,        \* "new", "ready" between calls, "update" in a call of sha256_update,
             \* "forever" in one that does not return,
             \* "length" in sha256_final when the padding is there, "done" after it
  data, datalen, bitlen, state,   \* the SHA256_CTX
  digest,    \* the output of sha256_final
  message,   \* the bytes given to sha256_update since sha256_init, and those to come
  pos,       \* how many of them have been given
  end,       \* where the running call ends
  absorbed   \* history: the blocks sha256_transform was called with

ctx == <<data, datalen, bitlen, state>>
streamVars == <<spc, ctx, digest, message, pos, end, absorbed>>

-----------------------------------------------------------------------------

\* bitlen >> 8 * k, for k = 0..7, and its lowest byte.  (A message of 2^61 bytes,
\* past which bitlen would wrap around, is out of the caller's reach.)
Shifted(n) ==
  LET by8(x) == x \div 256
      by32(x) == by8(by8(by8(by8(x))))
  IN <<n, by8(n), by8(by8(n)), by8(by8(by8(n))),
       by32(n), by8(by32(n)), by8(by8(by32(n))), by8(by8(by8(by32(n))))>>
ByteOf(n, k) == Shifted(n)[k + 1] % 256

StreamInit ==
  /\ spc = "new"
  /\ data \in StaleData /\ datalen = 0 /\ bitlen = 0 /\ state = H0
  /\ digest = <<>> /\ message = <<>> /\ pos = 0 /\ end = 0 /\ absorbed = <<>>

sha256_init ==
  /\ spc \in {"new", "done"}
  /\ spc' = "ready" /\ message' \in Messages
  /\ datalen' = 0 /\ bitlen' = 0 /\ state' = H0
  /\ pos' = 0 /\ end' = 0 /\ absorbed' = <<>>
  /\ UNCHANGED <<data, digest>>

sha256_transform(block) ==
  /\ state' = Compress(state, block)
  /\ absorbed' = Append(absorbed, block)

\* The counter of the loop is an unsigned int, len a size_t: it goes from 0 up to len
\* if that is one of its values, and else back to 0 before it gets there.
CounterReaches(len) == len < UintRange

\* A call of sha256_update, perhaps with no byte at all.
CallUpdate ==
  /\ spc = "ready"
  /\ end' \in {e \in CallEnds : pos <= e /\ e <= Len(message) /\ CounterReaches(e - pos)}
  /\ spc' = "update"
  /\ UNCHANGED <<ctx, digest, message, pos, absorbed>>

\* A chunk it takes in over and over: nobody sees the context again.
CallUpdateForever ==
  /\ spc = "ready"
  /\ end' \in {e \in CallEnds : pos <= e /\ e <= Len(message) /\ ~CounterReaches(e - pos)}
  /\ spc' = "forever"
  /\ UNCHANGED <<ctx, digest, message, pos, absorbed>>

Full(n) == n = 64

\* An iteration of its loop.
UpdateByte ==
  /\ spc = "update" /\ pos < end
  /\ data' = [data EXCEPT ![datalen] = message[pos + 1]]
  /\ pos' = pos + 1
  /\ IF Full(datalen + 1)
     THEN sha256_transform(data') /\ bitlen' = bitlen + 512 /\ datalen' = 0
     ELSE datalen' = datalen + 1 /\ UNCHANGED <<bitlen, state, absorbed>>
  /\ UNCHANGED <<spc, digest, message, end>>

UpdateReturns ==
  /\ spc = "update" /\ pos = end
  /\ spc' = "ready"
  /\ UNCHANGED <<ctx, digest, message, pos, end, absorbed>>

(* sha256_final *)

\* Mutant: the length is thought to fit behind 56 bytes of data and the 0x80.
ShortUpTo56 == datalen <= 56

Short == datalen < 56

\* The data in the buffer, 0x80, and zeros up to position last.
PaddedTo(last) ==
  [j \in 0..63 |-> IF j < datalen \/ j >= last THEN data[j] ELSE IF j = datalen THEN 128 ELSE 0]

PadShort ==
  /\ spc = "ready" /\ Short
  /\ data' = PaddedTo(56)
  /\ spc' = "length"
  /\ UNCHANGED <<datalen, bitlen, state, digest, message, pos, end, absorbed>>

PadLong ==
  /\ spc = "ready" /\ ~Short
  /\ sha256_transform(PaddedTo(64))
  /\ data' = [j \in 0..63 |-> IF j < 56 THEN 0 ELSE PaddedTo(64)[j]]
  /\ spc' = "length"
  /\ UNCHANGED <<datalen, bitlen, digest, message, pos, end>>

AppendLength ==
  /\ spc = "length"
  /\ bitlen' = bitlen + datalen * 8
  /\ data' = [j \in 0..63 |-> IF j < 56 THEN data[j] ELSE ByteOf(bitlen', 63 - j)]
  /\ sha256_transform(data')
  /\ digest' = Output(state')
  /\ spc' = "done"
  /\ UNCHANGED <<datalen, message, pos, end>>

StreamNext ==
  \/ sha256_init \/ CallUpdate \/ CallUpdateForever \/ UpdateByte \/ UpdateReturns
  \/ PadShort \/ PadLong \/ AppendLength

StreamSpec == StreamInit /\ [][StreamNext]_streamVars

-----------------------------------------------------------------------------
(* The padded message, as the standard the header of sha256.c refers to has it *)

\* The least multiple of 64 with room for n bytes, 0x80 and the length's 8 bytes.
PaddedLen(n) == 64 * ((n + 8) \div 64 + 1)

\* Byte k of the padding of the first n bytes of m: the message, a one bit, zeros,
\* and the number of bits in 8 bytes.
PaddedByte(m, n, k) ==
  IF k <= n THEN m[k]
  ELSE IF k = n + 1 THEN 128
  ELSE IF k <= PaddedLen(n) - 8 THEN 0
  ELSE ByteOf(8 * n, PaddedLen(n) - k)

\* Byte j of block b of it.
BlockByte(b, j) == PaddedByte(message, pos, 64 * (b - 1) + j + 1)

-----------------------------------------------------------------------------
(* Correctness *)

\* The type invariant: the buffer is never written outside its 64 bytes.
StreamTypeOK ==
  /\ spc \in {"new", "ready", "update", "forever", "length", "done"}
  /\ data \in Block /\ datalen \in 0..63 /\ bitlen \in Nat
  /\ message \in Seq(Byte)
  /\ pos \in 0..Len(message) /\ end \in 0..Len(message)
  /\ absorbed \in Seq(Block)

\* Whatever the chunks, and whatever an earlier message left in the buffer, the
\* blocks that are compressed are those of the padded message: no byte lost or
\* stale where a chunk ends in a block, where the data ends at 55, 56, 63 or 64.
AbsorbsPaddedMessage ==
  spc = "done" =>
    /\ 64 * Len(absorbed) = PaddedLen(pos)
    /\ \A b \in 1..Len(absorbed) : \A j \in 0..63 : absorbed[b][j] = BlockByte(b, j)

-----------------------------------------------------------------------------
(* Why: what every step preserves *)

\* While data is taken: the blocks and the buffer are the message so far.
Buffered ==
  spc \in {"ready", "update"} =>
    /\ pos = 64 * Len(absorbed) + datalen
    /\ bitlen = 512 * Len(absorbed)
    /\ \A b \in 1..Len(absorbed) : \A j \in 0..63 :
         absorbed[b][j] = message[64 * (b - 1) + j + 1]
    /\ \A j \in 0..(datalen - 1) : data[j] = message[64 * Len(absorbed) + j + 1]

\* Once padded: all but the 8 bytes of the length is in place.
PaddedInv ==
  spc = "length" =>
    /\ bitlen + 8 * datalen = 8 * pos
    /\ 64 * (Len(absorbed) + 1) = PaddedLen(pos)
    /\ \A b \in 1..Len(absorbed) : \A j \in 0..63 : absorbed[b][j] = BlockByte(b, j)
    /\ \A j \in 0..55 : data[j] = BlockByte(Len(absorbed) + 1, j)

\* Inductive.
StreamInv == StreamTypeOK /\ Buffered /\ PaddedInv /\ AbsorbsPaddedMessage

=============================================================================
