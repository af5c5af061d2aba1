------------------------------ MODULE Doubles ------------------------------
(***************************************************************************)
(* The floating-point numbers dtoa.c computes with, of any precision: a    *)
(* number that is not negative is its own bit pattern, (rv)->LL in the     *)
(* source, an exponent field above P - 1 bits of fraction.  Patterns are   *)
(* ordered as the numbers are, and rv + 1 is the number after rv.          *)
(***************************************************************************)
EXTENDS Integers

CONSTANTS
  P,           (* bits of precision: 53                                     *)
  Bias         (* of the exponent field: 1023                               *)

ASSUME DoublesAssumption == P \in Nat /\ P > 1 /\ Bias \in Nat /\ Bias > P

Hidden == 2^(P-1)
MaxField == 2 * Bias + 1
Emin == 1 - Bias
Inf == MaxField * Hidden
Big == Inf - 1
Doubles == 0 .. Inf

Pattern(field, frac) == field * Hidden + frac
Field(x) == x \div Hidden
Frac(x) == x % Hidden

(* x = Mant(x) * 2^Exp2(x)                                                  *)
Mant(x) == IF Field(x) = 0 THEN Frac(x) ELSE Hidden + Frac(x)
LeastExp == Emin - P + 1
Exp2(x) == LeastExp + (IF Field(x) = 0 THEN 0 ELSE Field(x) - 1)

(* The number x * 2^k, as long as it is a normal number.                    *)
AddToField(x, k) == x + k * Hidden

BitLength(n) ==
  LET len[m \in Nat] == IF m = 0 THEN 0 ELSE 1 + len[m \div 2] IN len[n]

Up(n, s) == IF s > 0 THEN n * 2^s ELSE n
Least(a, b) == IF a < b THEN a ELSE b
Most(a, b) == IF a < b THEN b ELSE a

(* The fraction a/b in units of 2^t, and the pattern of the nearest number, *)
(* the even one of two.                                                     *)
NearestAt(a, b, t) ==
  LET q == a \div b
      r == a % b
      odd == IF 2*r > b \/ (2*r = b /\ q % 2 = 1) THEN 1 ELSE 0
  IN  Least(Inf, (t - LeastExp) * Hidden + q + odd)

(* The number nearest to n/d * 2^k: in units of 2^t it has P bits, or fewer *)
(* if it is a denormal number.                                              *)
Nearest(n, d, k) ==
  LET t0 == Most(LeastExp, BitLength(n) - BitLength(d) + k - P)
      t == IF Up(n, k - t0) \div Up(d, t0 - k) < 2^P THEN t0 ELSE t0 + 1
  IN  IF n = 0 THEN 0 ELSE NearestAt(Up(n, k - t), Up(d, t - k), t)

Mul(x, y) == Nearest(Mant(x) * Mant(y), 1, Exp2(x) + Exp2(y))
Div(x, y) == Nearest(Mant(x), Mant(y), Exp2(x) - Exp2(y))

AddMant(x, y, sign) ==
  LET e == Least(Exp2(x), Exp2(y))
  IN  Nearest(Up(Mant(x), Exp2(x) - e) + sign * Up(Mant(y), Exp2(y) - e), 1, e)

Add(x, y) == AddMant(x, y, 1)
Sub(x, y) == AddMant(x, y, -1)

(* The integer part.                                                        *)
Floor(x) == IF Exp2(x) >= 0 THEN Mant(x) * 2^Exp2(x) ELSE Mant(x) \div 2^(-Exp2(x))

=============================================================================
