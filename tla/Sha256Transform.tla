-------------------------- MODULE Sha256Transform --------------------------
(***************************************************************************)
(* sha256_transform of sha256.c, on 32-bit words as pairs of 16-bit        *)
(* halves, and the byte order of the digest.  For TLC: it gives the        *)
(* CONSTANTs Compress, H0 and Output of Sha256Stream their values.         *)
(***************************************************************************)
EXTENDS Integers, Sequences, Bitwise

Half == 65536

\* Sum modulo 2^32.
x ++ y == LET low == x[2] + y[2]
          IN <<(x[1] + y[1] + (low \div Half)) % Half, low % Half>>
Xor2(x, y) == <<x[1] ^^ y[1], x[2] ^^ y[2]>>
Xor3(x, y, z) == Xor2(x, Xor2(y, z))
And2(x, y) == <<x[1] & y[1], x[2] & y[2]>>
Neg(x) == <<Half - 1 - x[1], Half - 1 - x[2]>>

\* x >> n for n < 16, the bits of carry coming in from above.
ShiftIn(carry, x, n) ==
  <<(x[1] \div 2^n) + (carry % 2^n) * 2^(16 - n), (x[2] \div 2^n) + (x[1] % 2^n) * 2^(16 - n)>>
ShiftRight(x, n) == ShiftIn(0, x, n)
ROTRIGHT(x, n) == IF n < 16 THEN ShiftIn(x[2], x, n) ELSE ShiftIn(x[1], <<x[2], x[1]>>, n - 16)

CH(x, y, z) == Xor2(And2(x, y), And2(Neg(x), z))
MAJ(x, y, z) == Xor3(And2(x, y), And2(x, z), And2(y, z))
EP0(x) == Xor3(ROTRIGHT(x, 2), ROTRIGHT(x, 13), ROTRIGHT(x, 22))
EP1(x) == Xor3(ROTRIGHT(x, 6), ROTRIGHT(x, 11), ROTRIGHT(x, 25))
SIG0(x) == Xor3(ROTRIGHT(x, 7), ROTRIGHT(x, 18), ShiftRight(x, 3))

\* Mutant: the last part is rotated, not shifted.
SIG1Rotates(x) == Xor3(ROTRIGHT(x, 17), ROTRIGHT(x, 19), ROTRIGHT(x, 10))

SIG1(x) == Xor3(ROTRIGHT(x, 17), ROTRIGHT(x, 19), ShiftRight(x, 10))

k == <<
  <<\h428a, \h2f98>>, <<\h7137, \h4491>>, <<\hb5c0, \hfbcf>>, <<\he9b5, \hdba5>>,
  <<\h3956, \hc25b>>, <<\h59f1, \h11f1>>, <<\h923f, \h82a4>>, <<\hab1c, \h5ed5>>,
  <<\hd807, \haa98>>, <<\h1283, \h5b01>>, <<\h2431, \h85be>>, <<\h550c, \h7dc3>>,
  <<\h72be, \h5d74>>, <<\h80de, \hb1fe>>, <<\h9bdc, \h06a7>>, <<\hc19b, \hf174>>,
  <<\he49b, \h69c1>>, <<\hefbe, \h4786>>, <<\h0fc1, \h9dc6>>, <<\h240c, \ha1cc>>,
  <<\h2de9, \h2c6f>>, <<\h4a74, \h84aa>>, <<\h5cb0, \ha9dc>>, <<\h76f9, \h88da>>,
  <<\h983e, \h5152>>, <<\ha831, \hc66d>>, <<\hb003, \h27c8>>, <<\hbf59, \h7fc7>>,
  <<\hc6e0, \h0bf3>>, <<\hd5a7, \h9147>>, <<\h06ca, \h6351>>, <<\h1429, \h2967>>,
  <<\h27b7, \h0a85>>, <<\h2e1b, \h2138>>, <<\h4d2c, \h6dfc>>, <<\h5338, \h0d13>>,
  <<\h650a, \h7354>>, <<\h766a, \h0abb>>, <<\h81c2, \hc92e>>, <<\h9272, \h2c85>>,
  <<\ha2bf, \he8a1>>, <<\ha81a, \h664b>>, <<\hc24b, \h8b70>>, <<\hc76c, \h51a3>>,
  <<\hd192, \he819>>, <<\hd699, \h0624>>, <<\hf40e, \h3585>>, <<\h106a, \ha070>>,
  <<\h19a4, \hc116>>, <<\h1e37, \h6c08>>, <<\h2748, \h774c>>, <<\h34b0, \hbcb5>>,
  <<\h391c, \h0cb3>>, <<\h4ed8, \haa4a>>, <<\h5b9c, \hca4f>>, <<\h682e, \h6ff3>>,
  <<\h748f, \h82ee>>, <<\h78a5, \h636f>>, <<\h84c8, \h7814>>, <<\h8cc7, \h0208>>,
  <<\h90be, \hfffa>>, <<\ha450, \h6ceb>>, <<\hbef9, \ha3f7>>, <<\hc671, \h78f2>>>>

\* The state sha256_init sets.
InitialState == <<
  <<\h6a09, \he667>>, <<\hbb67, \hae85>>, <<\h3c6e, \hf372>>, <<\ha54f, \hf53a>>,
  <<\h510e, \h527f>>, <<\h9b05, \h688c>>, <<\h1f83, \hd9ab>>, <<\h5be0, \hcd19>>>>

-----------------------------------------------------------------------------

\* Word i of a block of bytes 0..63, big end first.
WordAt(block, i) ==
  <<256 * block[4 * i] + block[4 * i + 1], 256 * block[4 * i + 2] + block[4 * i + 3]>>

\* The message schedule m, of which the first words are given.  The code's m[i] is
\* element i + 1 here, and so is its k[i].
RECURSIVE Schedule(_)
Schedule(m) ==
  LET n == Len(m) + 1
  IN  IF n > 64 THEN m
      ELSE Schedule(Append(m, SIG1(m[n - 2]) ++ m[n - 7] ++ SIG0(m[n - 15]) ++ m[n - 16]))

\* The rounds that are left, on the working variables v, v.i the round.
RECURSIVE Rounds(_, _)
Rounds(v, m) ==
  IF v.i = 64 THEN v
  ELSE LET t1 == v.h ++ EP1(v.e) ++ CH(v.e, v.f, v.g) ++ k[v.i + 1] ++ m[v.i + 1]
           t2 == EP0(v.a) ++ MAJ(v.a, v.b, v.c)
       IN  Rounds([a |-> t1 ++ t2, b |-> v.a, c |-> v.b, d |-> v.c, e |-> v.d ++ t1,
                   f |-> v.e, g |-> v.f, h |-> v.g, i |-> v.i + 1], m)

sha256_transform(state, block) ==
  LET m == Schedule([i \in 1..16 |-> WordAt(block, i - 1)])
      v == Rounds([a |-> state[1], b |-> state[2], c |-> state[3], d |-> state[4],
                   e |-> state[5], f |-> state[6], g |-> state[7], h |-> state[8],
                   i |-> 0], m)
      w == <<v.a, v.b, v.c, v.d, v.e, v.f, v.g, v.h>>
  IN [j \in 1..8 |-> state[j] ++ w[j]]

\* The bytes of the state, each word's highest first.
DigestBytes(state) ==
  [i \in 1..32 |-> LET half == state[((i - 1) \div 4) + 1][(((i - 1) \div 2) % 2) + 1]
                   IN IF i % 2 = 1 THEN half \div 256 ELSE half % 256]

=============================================================================
