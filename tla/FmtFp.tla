-------------------------------- MODULE FmtFp ------------------------------
(***************************************************************************)
(* fmt_fp(), the printing of a double with %f, %e and %g                   *)
(* (src/nolibc/vfprintf.c): the exact decimal expansion of the number in   *)
(* an array of limbs, shifted into place, rounded at a digit and printed.  *)
(*                                                                         *)
(* A number being printed is a record:                                     *)
(*   b.big        the limbs; those that were never written hold junk       *)
(*   b.a, b.z     the limbs in use, from a to z - 1                        *)
(*   b.e2, b.e    the number is that of the limbs times 2^e2, and its      *)
(*                first digit that of 10^e                                 *)
(*   b.ok         FALSE once a limb outside of the array was used          *)
(* and limb r is the last one of the integer part.                         *)
(***************************************************************************)
EXTENDS Doubles, Fields

CONSTANTS
  LimbDigits,     (* decimal digits of a limb: 9                            *)
  ShiftBits,      (* bits of the first limb: 29                             *)
  DefaultPrec,    (* of a conversion without precision: 6                   *)
  LeastFixed      (* the least exponent %g prints without one: -4           *)

ASSUME FmtFpAssumption ==
  /\ {LimbDigits, ShiftBits, DefaultPrec} \subseteq Nat \ {0}
  /\ 2^ShiftBits < 10^LimbDigits /\ LeastFixed \in Int

Limb == 10^LimbDigits
CeilDiv(n, d) == (n + d - 1) \div d

(* Limbs for the mantissa and for the exponent: the size of the array.      *)
BigLen == CeilDiv(P, ShiftBits) + 1
            + CeilDiv(Bias + 1 + P + ShiftBits - 1, LimbDigits)
Cells == 0 .. BigLen - 1

(* frexp(): x = m * 2^(e - P + 1) with 2^(P-1) <= m < 2^P.                   *)
frexp(x) ==
  LET up == P - BitLength(Mant(x))
  IN  [m |-> Mant(x) * 2^up, e |-> Exp2(x) - up + P - 1]

Radix(e2) == IF e2 < 0 THEN 0 ELSE BigLen - P - 1

(* The loop that writes the limbs of num / den, of which the first holds    *)
(* the integer part.                                                        *)
RECURSIVE Expanded(_, _, _)
Expanded(b, num, den) ==
  LET c == [b EXCEPT !.big[b.z] = num \div den, !.z = @ + 1,
                     !.ok = @ /\ b.z \in Cells]
  IN  IF num % den = 0 THEN c ELSE Expanded(c, Limb * (num % den), den)

Expansion(x, junk) ==
  LET f == frexp(x)
      e2 == IF x = 0 THEN 0 ELSE f.e - (ShiftBits - 1)
      r == Radix(e2)
      b == [big |-> [d \in Cells |-> junk], a |-> r, z |-> r, e2 |-> e2, e |-> 0, ok |-> TRUE]
  IN  IF x = 0 THEN Expanded(b, 0, 1)
               ELSE Expanded(b, f.m * 2^(ShiftBits - 1), 2^(P-1))

(* The limbs without the zeros at their end.                                *)
Trim(b) ==
  LET ends == {d + 1 : d \in {q \in b.a .. b.z - 1 : b.big[q] # 0}}
  IN  [b EXCEPT !.z = IF @ <= b.a THEN @ ELSE Max({b.a} \cup ends)]

(* while (e2>0): multiply by 2^sh, from the last limb to the first.         *)
RECURSIVE ShiftedLeft(_)
ShiftedLeft(b) ==
  LET sh == Least(ShiftBits, b.e2)
      x[d \in b.a .. b.z - 1] == b.big[d] * 2^sh + (IF d = b.z - 1 THEN 0 ELSE x[d+1] \div Limb)
      carry == x[b.a] \div Limb
      c == [b EXCEPT !.big = [d \in Cells |->
                       CASE d \in DOMAIN x -> x[d] % Limb
                         [] d = b.a - 1 /\ carry # 0 -> carry
                         [] OTHER -> @[d]],
                     !.a = IF carry = 0 THEN @ ELSE @ - 1,
                     !.e2 = @ - sh]
  IN  IF b.e2 <= 0 THEN b
      ELSE ShiftedLeft(Trim([c EXCEPT !.ok = @ /\ c.a >= 0]))

(* Limbs that a conversion with p digits needs.                             *)
Need(p) == 1 + CeilDiv(p + P \div 3, LimbDigits)

(* while (e2<0): divide by 2^sh, from the first limb to the last, and drop   *)
(* the limbs that cannot matter.                                            *)
RECURSIVE ShiftedRight(_, _, _, _)
ShiftedRight(b, r, p, t) ==
  LET sh == Least(LimbDigits, -b.e2)
      used == b.a .. b.z - 1
      from(d) == (Limb \div 2^sh) * (b.big[d] % 2^sh)
      carry == IF used = {} THEN 0 ELSE from(b.z - 1)
      big == [d \in Cells |->
                CASE d \in used -> b.big[d] \div 2^sh + (IF d = b.a THEN 0 ELSE from(d - 1))
                  [] d = b.z /\ carry # 0 -> carry
                  [] OTHER -> b.big[d]]
      first == IF b.a \in used THEN big[b.a] ELSE b.big[b.a]
      a == IF first = 0 THEN b.a + 1 ELSE b.a
      z == IF carry = 0 THEN b.z ELSE b.z + 1
      c == [b EXCEPT !.big = big, !.a = a, !.e2 = @ + sh,
                     !.z = Least(z, (IF t = "f" THEN r ELSE a) + Need(p)),
                     !.ok = @ /\ b.a \in Cells /\ z <= BigLen]
  IN  IF b.e2 >= 0 THEN b ELSE ShiftedRight(c, r, p, t)

DecimalDigits(n) == Len(fmt_u(n))

(* b.e: the decimal exponent of the first digit.                            *)
WithExponent(b, r) ==
  [b EXCEPT !.e = IF b.a < b.z THEN LimbDigits * (r - b.a) + Most(1, DecimalDigits(b.big[b.a])) - 1
                               ELSE 0]

(***************************************************************************)
(* Rounding.                                                               *)
(***************************************************************************)

(* small doubles of the source: halves of a unit, and 2 / DBL_EPSILON.       *)
Halves(n) == Nearest(n, 2, 0)
TwoOverEpsilon == Nearest(2^P, 1, 0)

(* Is the digit above the i units of limb d rounded up, when x is below it  *)
(* in the limb, and nothing after the limb if it is the last one?  The code *)
(* probes whether round + small # round.                                    *)
Probe(b, d, i, x, last) ==
  LET odd == (b.big[d] \div i) % 2 = 1
      round == IF odd THEN Add(TwoOverEpsilon, Nearest(2, 1, 0)) ELSE TwoOverEpsilon
      small == CASE x < i \div 2 -> Halves(1)
                 [] x = i \div 2 /\ last -> Halves(2)
                 [] OTHER -> Halves(3)
  IN  Add(round, small) # round

(* A mutant: the limbs after d are forgotten.                               *)
BlindRoundsUp(b, d, i, x) == Probe(b, d, i, x, TRUE)

RoundsUp(b, d, i, x) == Probe(b, d, i, x, d + 1 = b.z)

(* *d = *d + i, and the carry into the limbs before it: q is where it stops, *)
(* maybe before the first limb.                                             *)
Incremented(b, d, i) ==
  LET q == IF b.big[d] + i < Limb THEN d
           ELSE Max({k \in b.a - 1 .. d - 1 : k < b.a \/ b.big[k] < Limb - 1})
      old(k) == IF k < b.a THEN 0 ELSE b.big[k]
      big == [k \in Cells |->
                CASE k = q -> IF q = d THEN b.big[d] + i ELSE old(q) + 1
                  [] q < k /\ k <= d -> 0
                  [] OTHER -> b.big[k]]
  IN  [b EXCEPT !.big = big, !.a = Least(@, q), !.z = Least(@, q + 1),
                !.ok = @ /\ q \in Cells]

(* The number rounded to j digits after the radix.                          *)
RoundedTo(b, r, j) ==
  LET d == r + 1 + j \div LimbDigits
      i == 10^(LimbDigits - (j % LimbDigits))
      x == b.big[d] % i
      cut == [b EXCEPT !.big[d] = @ - x, !.z = Least(@, d + 1)]
  IN  IF j >= LimbDigits * (b.z - r - 1) THEN b
      ELSE IF (x # 0 \/ d + 1 # b.z) /\ RoundsUp(b, d, i, x) THEN WithExponent(Incremented(cut, d, i), r)
      ELSE cut

(***************************************************************************)
(* Printing.                                                               *)
(***************************************************************************)

(* The digits of limb d, all LimbDigits of them unless it is the first.     *)
LimbText(b, d) ==
  IF d # b.a THEN ZeroPadded(fmt_u(b.big[d]), LimbDigits)
  ELSE IF b.big[d] = 0 THEN <<"0">> ELSE fmt_u(b.big[d])

Digits(b, first, last) == FlattenSeq([k \in 1 .. last - first + 1 |-> LimbText(b, first + k - 1)])

(* p digits of a text, and zeros where it is too short.                     *)
Figures(text, p) == [k \in 1 .. p |-> IF k <= Len(text) THEN text[k] ELSE "0"]

Dot(p, fl) == IF p > 0 \/ "#" \in fl THEN <<".">> ELSE <<>>

(* The first limb of the fraction is not the first limb that is printed.    *)
FixedText(b, r, p, fl) ==
  LET c == [b EXCEPT !.a = Least(@, r)]
  IN  Digits(c, c.a, r) \o Dot(p, fl) \o Figures(Digits(c, r + 1, c.z - 1), p)

ExponentText(e) ==
  <<"e", IF e < 0 THEN "-" ELSE "+">> \o ZeroPadded(fmt_u(IF e < 0 THEN -e ELSE e), 2)

ScientificText(b, p, fl) ==
  LET digits == Digits(b, b.a, Most(b.z, b.a + 1) - 1)
  IN  <<Head(digits)>> \o Dot(p, fl) \o Figures(Tail(digits), p) \o ExponentText(b.e)

(* Zeros at the end of the last limb.                                       *)
LastZeros(b) ==
  IF b.z > b.a /\ b.big[b.z - 1] # 0
  THEN Max({j \in 0 .. LimbDigits - 1 : b.big[b.z - 1] % 10^j = 0})
  ELSE LimbDigits

(* The style and the precision %g stands for.                               *)
General(b, r, p0, fl) ==
  LET p == Most(p0, 1)
      fixed == p > b.e /\ b.e >= LeastFixed
      more == IF fixed THEN p - (b.e + 1) ELSE p - 1
      used == LimbDigits * (b.z - r - 1) - LastZeros(b) + (IF fixed THEN 0 ELSE b.e)
  IN  [t |-> IF fixed THEN "f" ELSE "e",
       p |-> IF "#" \in fl THEN more ELSE Least(more, Most(0, used))]

(* The text of a rounded number, in the style %g stands for, if any.        *)
TextIn(b, r, p, fl, style) ==
  IF style = "f" THEN FixedText(b, r, p, fl) ELSE ScientificText(b, p, fl)
GeneralText(b, r, fl, as) == TextIn(b, r, as.p, fl, as.t)
TextOfLimbs(b, r, p, fl, t) ==
  IF t = "g" THEN GeneralText(b, r, fl, General(b, r, p, fl)) ELSE TextIn(b, r, p, fl, t)

(* Digits after the radix that are kept.                                    *)
Kept(b, p, t) == p - (IF t = "f" THEN 0 ELSE b.e) - (IF t = "g" /\ p # 0 THEN 1 ELSE 0)

Rounded(b, r, p, t) == Trim(RoundedTo(b, r, Kept(b, p, t)))

(* The limbs of a number whose expansion is b, ready to be printed.          *)
Limbs(b, p, t) ==
  Rounded(WithExponent(ShiftedRight(ShiftedLeft(b), b.a, p, t), b.a), b.a, p, t)

Precision(prec) == IF prec < 0 THEN DefaultPrec ELSE prec

LimbsOf(x, prec, t, junk) == Limbs(Expansion(x, junk), Precision(prec), t)

(* What fmt_fp() prints for the number x, or -x if neg, when the array held *)
(* junk.                                                                    *)
fmt_fp(x, neg, w, prec, fl, t, junk) ==
  IF x = Inf
  THEN Laid(Sign(neg, fl), <<"i", "n", "f">>, w, fl \ {"0"})
  ELSE Laid(Sign(neg, fl),
            TextOfLimbs(LimbsOf(x, prec, t, junk), Expansion(x, junk).a, Precision(prec), fl, t),
            w, fl)

=============================================================================
