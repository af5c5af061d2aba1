-------------------------------- MODULE Bf96 -------------------------------
(***************************************************************************)
(* The quick part of strtod() in dtoa.c: the first digits times a table    *)
(* entry for the power of ten, in software floating point.  The product    *)
(* either rounds safely or leaves the numeral to big integers.             *)
(*                                                                         *)
(* Ten is 2 * Five.  Each branch exists twice in the source, for a product *)
(* with and without its top bit; here the half bit h and the exponent      *)
(* field f tell the two apart.                                             *)
(***************************************************************************)
EXTENDS Doubles, Sequences

CONSTANTS
  Five,        (* half of the base of numerals: 5                           *)
  W,           (* bits in a word: 32                                        *)
  DT,          (* digits that two words hold: 19                            *)
  MinTen,      (* the least and the largest power in pten: -342 and 308     *)
  MaxTen,
  ExactTen     (* the largest one that is exact: 41                         *)

ASSUME Bf96Assumption ==
  /\ Five \in Nat /\ Five > 1 /\ Five % 2 = 1
  /\ W \in Nat /\ 2*W > P + 1 /\ (2*Five)^DT < 2^(2*W)
  /\ Five^ExactTen < 2^(3*W)

Outcome(go, rv, scale) == [go |-> go, rv |-> rv, scale |-> scale]
Done(rv) == Outcome("done", rv, 0)
Tiny(rv) == Outcome("erange", rv, 0)
Ovfl == Outcome("ovfl", Inf, 0)
Undfl == Outcome("undfl", 0, 0)
ManyDigits == Outcome("many_digits", 0, 0)

Bit(n, i) == (n \div 2^i) % 2 = 1
Word(n, i) == (n \div 2^(W*i)) % 2^W

(* Bits of 1/den, from the first one after the point.                       *)
Reciprocal(den, bits) ==
  LET r[i \in Nat] == IF i = 0 THEN 1 ELSE (2 * r[i-1]) % den
      q[i \in Nat] == IF i = 0 THEN 0 ELSE 2 * q[i-1] + (2 * r[i-1]) \div den
  IN  q[bits]

(* The entry for Ten^i: b * 2^e, b with three words behind its point and    *)
(* its first bit set, what does not fit cut off.                            *)
PowerOfTen(i) ==
  LET L == BitLength(Five^(IF i < 0 THEN -i ELSE i))
  IN  IF i < 0 THEN [b |-> Reciprocal(Five^(-i), 3*W + L - 1), e |-> 1 - L + i]
      ELSE [b |-> Five^i * 2^(3*W - L), e |-> L + i]

pten == [i \in MinTen .. MaxTen |-> PowerOfTen(i)]

-----------------------------------------------------------------------------
(* Label denormal: the low bits of t00 go, half of the last one that stays  *)
(* rounds up, and smallest_normal is no range error.                        *)
Denormal(t00, lead, erv, f) ==
  LET shift == 2*W - P + 1 - erv
      rv == t00 \div 2^shift + (IF Bit(t00, shift - 1) THEN 1 ELSE 0)
  IN  IF f < -(P-1) \/ (f = -(P-1) /\ t00 = 2^lead) THEN Undfl
      ELSE IF f = -(P-1) THEN Tiny(1)
      ELSE IF rv >= Hidden THEN Done(rv) ELSE Tiny(rv)

(* Labels roundup and noround.                                              *)
Rounded(t00, h, f, up) ==
  LET rv == Pattern(f, (t00 \div 2^(h+1)) % Hidden) + (IF up THEN 1 ELSE 0)
  IN  IF rv >= Inf THEN Ovfl ELSE Done(rv)

(* The first try, without the lowest words; its error is too small to       *)
(* change t00 unless the bits below the half bit are all the same.          *)
IsSafe(t00, h) == t00 % 2^h # 0 /\ (t00 % 2^h) \div 2 # 2^(h-1) - 1

Flips(t00, i, h) == Bit(t00 + 2^i + 2, h) # Bit(t00, h)

(* A mutant: the digits that were left out are taken to be zeros.           *)
ForgetfulFirstTry(t00, h, lead, erv, f, i, nd) ==
  IF f <= 0 THEN Denormal(t00, lead, erv, f) ELSE Rounded(t00, h, f, Bit(t00, h))

FirstTry(t00, h, lead, erv, f, i, nd) ==
  IF nd > DT /\ Flips(t00, i, h) THEN ManyDigits
  ELSE IF f <= 0 THEN Denormal(t00, lead, erv, f)
  ELSE Rounded(t00, h, f, Bit(t00, h))

(* The second try, with the next word tlo.                                  *)
Sticky(t00, tlo, h) == tlo % 2^W >= 16 \/ t00 % 2^h # 0

SecondTry(t00, tlo, h, lead, erv, f, i, nd, bexact) ==
  IF f <= 0 THEN IF nd > DT \/ ~Sticky(t00, tlo, h) THEN ManyDigits
                 ELSE Denormal(t00, lead, erv, f)
  ELSE IF bexact
  THEN Rounded(t00, h, f, Bit(t00, h) /\ (tlo # 0 \/ t00 % 2^h # 0 \/ Bit(t00, h+1)))
  ELSE IF Sticky(t00, tlo, h) /\ (nd <= DT \/ (t00 + 2^i) \div 2^h = t00 \div 2^h)
  THEN Rounded(t00, h, f, Bit(t00, h))
  ELSE ManyDigits

(* The half bit, the first bit and the exponent field of a product.         *)
Place(t00, erv) ==
  IF Bit(t00, 2*W - 1) THEN [h |-> 2*W - P - 1, lead |-> 2*W - 1, f |-> erv]
                       ELSE [h |-> 2*W - P - 2, lead |-> 2*W - 2, f |-> erv - 1]

Refine(t00, t10, bhi, blo, b, erv, i, nd, e1) ==
  LET t02 == bhi * Word(b, 0)
      t11 == blo * Word(b, 1) + (t02 % 2^W)
      bexact == e1 \in 0 .. ExactTen /\ t10 % 2^W = 0 /\ t11 % 2^W = 0 /\ nd <= DT
      tlo == (t10 % 2^W) + t02 \div 2^W + t11 \div 2^W
      t == t00 + tlo \div 2^W
      at == Place(t, erv)
  IN  IF ~bexact /\ (tlo + 16) \div 2^W > tlo \div 2^W THEN ManyDigits
      ELSE SecondTry(t, tlo, at.h, at.lead, erv, at.f, i, nd, bexact)

Multiply(bhi, blo, b, erv, i, nd, e1) ==
  LET t01 == bhi * Word(b, 1)
      t10 == blo * Word(b, 2) + (t01 % 2^W)
      t00 == bhi * Word(b, 2) + t01 \div 2^W + t10 \div 2^W
      at == Place(t00, erv)
  IN  IF IsSafe(t00, at.h) THEN FirstTry(t00, at.h, at.lead, erv, at.f, i, nd)
      ELSE Refine(t00, t10, bhi, blo, b, erv, i, nd, e1)

(* yz are the first DT of nd digits, or all, times Ten^e1.                  *)
Quick(yz, nd, e1) ==
  LET i == 2*W - BitLength(yz)
      brv == yz * 2^i
      erv == 2*W + Bias - 1 + pten[e1].e - i
  IN  IF e1 < MinTen THEN Undfl
      ELSE IF e1 > MaxTen THEN Ovfl
      ELSE IF erv <= 0 /\ nd > DT THEN ManyDigits
      ELSE Multiply(Word(brv, 1), Word(brv, 0), pten[e1].b, erv, i, nd, e1)

=============================================================================
