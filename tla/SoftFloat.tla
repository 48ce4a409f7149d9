----------------------------- MODULE SoftFloat ------------------------------
(***************************************************************************)
(* lib/stub/math.c: ldexp, frexp and finitef on the fields of a number,    *)
(* and what they come to as arithmetic.                                    *)
(*                                                                         *)
(* A number that is not normal - zero, subnormal, infinite, NaN - is       *)
(* returned as it is, and what would be subnormal becomes zero.  `e += n`  *)
(* is an int: where it overflows, near INT_MAX, nothing is said here.      *)
(***************************************************************************)
EXTENDS Integers

ExpMax == 2047   \* 0x7ff
FloatExpMax == 255   \* 0xff
Half == 1022     \* the exponent of the numbers from 1/2 to 1

Doubles == [neg : BOOLEAN, e : 0 .. ExpMax, m : Nat]

Infinity(neg) == [neg |-> neg, e |-> ExpMax, m |-> 0]
Zero(neg) == [neg |-> neg, e |-> 0, m |-> 0]

Normal(x) == x.e # 0 /\ x.e # ExpMax

ldexp(x, n) ==
  IF ~Normal(x) THEN x
  ELSE IF x.e + n >= ExpMax THEN Infinity(x.neg)
  ELSE IF x.e + n <= 0 THEN Zero(x.neg)
  ELSE [neg |-> x.neg, e |-> x.e + n, m |-> x.m]

frexp(x) ==
  IF ~Normal(x) THEN [d |-> x, ep |-> 0]
  ELSE [d |-> [neg |-> x.neg, e |-> Half, m |-> x.m], ep |-> x.e - Half]

\* Of a float, whose exponent has eight bits.
finitef(x) == x.e # FloatExpMax
=============================================================================
