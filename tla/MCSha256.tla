------------------------------ MODULE MCSha256 ------------------------------
(***************************************************************************)
(* Instance of Sha256Stream for TLC, with the compression function of the  *)
(* code: a message of three blocks whose bytes all differ, and the known   *)
(* answers the repository has.                                             *)
(***************************************************************************)
EXTENDS Sha256Stream

CONSTANT MaxLen   \* bound: the length of the messages

T == INSTANCE Sha256Transform

MCByte == 0..255
MCCompress(s, block) == T!sha256_transform(s, block)
MCOutput(s) == T!DigestBytes(s)
MCH0 == T!InitialState
MCStaleData == {[j \in 0..63 |-> 255]}

\* sha256_test.c: "abc" and "abcdbcde..nopq", whose 56 letters are the first
\* length that needs a second block; and "0", of which defs.h keeps the hash.
Text1 == <<97, 98, 99>>
Text2 == [j \in 1..56 |-> 97 + ((j - 1) \div 4) + ((j - 1) % 4)]
Zero == <<48>>

\* Bytes that are neither the padding's nor the used buffer's.
Long == [j \in 1..MaxLen |-> IF j < 128 THEN j ELSE j + 1]
MCMessages == {Text1, Text2, Zero, Long}

\* Around every boundary of blocks and of the padding, and between.
MCCallEnds == {0, 1, 3, 30, 55, 56, 57, 63, 64, 65, 119, 120, MaxLen}

hash1 == <<
  \hba, \h78, \h16, \hbf, \h8f, \h01, \hcf, \hea,
  \h41, \h41, \h40, \hde, \h5d, \hae, \h22, \h23,
  \hb0, \h03, \h61, \ha3, \h96, \h17, \h7a, \h9c,
  \hb4, \h10, \hff, \h61, \hf2, \h00, \h15, \had>>
hash2 == <<
  \h24, \h8d, \h6a, \h61, \hd2, \h06, \h38, \hb8,
  \he5, \hc0, \h26, \h93, \h0c, \h3e, \h60, \h39,
  \ha3, \h3c, \he4, \h59, \h64, \hff, \h21, \h67,
  \hf6, \hec, \hed, \hd4, \h19, \hdb, \h06, \hc1>>
g_zeroHash == <<
  \h5f, \hec, \heb, \h66, \hff, \hc8, \h6f, \h38,
  \hd9, \h52, \h78, \h6c, \h6d, \h69, \h6c, \h79,
  \hc2, \hdb, \hc2, \h39, \hdd, \h4e, \h91, \hb4,
  \h67, \h29, \hd7, \h3a, \h27, \hfb, \h57, \he9>>

\* The digests of the texts of sha256_test.c, in any chunks and after any other
\* text, are those of the test; and the hash of every padding leaf ("a MHT node
\* with hashed zero") is the one generateHashByPageNo_SHA256(0) computes, the
\* digest of the text "0".
KnownAnswers ==
  spc = "done" /\ pos = Len(message) =>
    /\ message = Text1 => digest = hash1
    /\ message = Text2 => digest = hash2
    /\ message = Zero => digest = g_zeroHash

=============================================================================
