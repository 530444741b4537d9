-------------------------------- MODULE Defs --------------------------------
(***************************************************************************)
(* The arithmetic of defs.c on integers of Width bits (32 in the code), as *)
(* the build computes it: signed overflow wraps around, and a double too   *)
(* large for uint32 is converted to 0.                                     *)
(***************************************************************************)
EXTENDS Integers

CONSTANT Width   \* the bits of an int

ASSUME WidthAssumption == Width \in Nat /\ Width > 1

VARIABLES
  called,  \* the helpers have been called
  arg,     \* the int they were called with, which the second takes as a uint32
  power,   \* what is_power_of_2 returned for it
  least    \* what cal_the_least_pow2_to_n returned for it

defsVars == <<called, arg, power, least>>

\* 2 to the k.
Power2[k \in 0..Width] == IF k = 0 THEN 1 ELSE 2 * Power2[k - 1]
Modulus == Power2[Width]
Half == Power2[Width - 1]

Ints == -Half .. (Half - 1)
Uints == 0 .. (Modulus - 1)
PowersOf2 == {Power2[k] : k \in 0..(Width - 1)}

\* The bits of an int, and of the one below the least.
Bits(d) == IF d < 0 THEN d + Modulus ELSE d

\* The operator &, bit by bit from the lowest.
And[a \in Uints] ==
  [b \in Uints |->
     IF a = 0 THEN 0
     ELSE 2 * And[a \div 2][b \div 2] + (IF a % 2 = 1 /\ b % 2 = 1 THEN 1 ELSE 0)]

\* d & d - 1: the subtraction binds tighter.
is_power_of_2(d) == And[Bits(d)][Bits(d - 1)]

\* ceil(log10(n) / log10(2)).
CeilLog2(n) == CHOOSE k \in 0..Width : n <= Power2[k] /\ (k = 0 \/ Power2[k - 1] < n)

\* log10(0) is -infinity, its conversion to int the least int, and 2 to that 0.
cal_the_least_pow2_to_n(n) ==
  IF n = 0 \/ CeilLog2(n) = Width THEN 0 ELSE Power2[CeilLog2(n)]

DefsInit == called = FALSE /\ arg = 0 /\ power = 0 /\ least = 0

CallHelpers ==
  /\ called' = TRUE /\ arg' \in Ints
  /\ power' = is_power_of_2(arg') /\ least' = cal_the_least_pow2_to_n(Bits(arg'))

DefsSpec == DefsInit /\ [][CallHelpers]_defsVars

-----------------------------------------------------------------------------

\* Of the positive ints exactly the powers of two give 0; of the others 0 and the
\* least int do, and no other.
ZeroForPowers == called => (power = 0 <=> arg \in PowersOf2 \cup {0, -Half})

\* The least power of two not below the argument, as long as there is one; then 0.
LeastNotBelow ==
  called =>
    LET above == {p \in PowersOf2 : p >= Bits(arg)}
    IN  IF arg = 0 \/ above = {} THEN least = 0
        ELSE least \in above /\ \A p \in above : least <= p

\* What the two helpers return for every argument, the wrap-around included.
HelpersReturn == ZeroForPowers /\ LeastNotBelow

-----------------------------------------------------------------------------
(* Statements of the documentation that the code does not keep *)

\* defs.h: "0 is returned if the specified d is an integer power of 2, other integers
\* otherwise"; and "a minimal integer that is the integer power of 2 and larger than n".
HelpersKeepTheirWord ==
  called =>
    /\ power = 0 <=> arg \in PowersOf2
    /\ least \in PowersOf2 /\ least > Bits(arg)
    /\ \A p \in PowersOf2 : p > Bits(arg) => least <= p

=============================================================================
