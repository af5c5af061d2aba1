----------------------------- MODULE PrintfSpec ----------------------------
(***************************************************************************)
(* What a conversion of printf promises, as the C standard says it: the    *)
(* texts a number may become, in a field of its width.  It shares nothing  *)
(* with the code's way there but the characters.                           *)
(***************************************************************************)
EXTENDS Fields

(* A body with a prefix in a field of w characters: blanks on the right if  *)
(* it is left-adjusted, zeros after the prefix if zero, else blanks before. *)
InField(prefix, body, w, left, zero) ==
  LET fill == w - Len(prefix) - Len(body)
  IN  CASE left -> prefix \o body \o Repeat(" ", fill)
        [] ~left /\ zero -> prefix \o Repeat("0", fill) \o body
        [] OTHER -> Repeat(" ", fill) \o prefix \o body

(* At least p digits; no digit for a 0 of precision 0.                      *)
AtLeast(x, base, p) == ZeroPadded(Numeral(x, base), p)

Scale(x, b, k) == IF k > 0 THEN x * b^k ELSE x

(* The integers nearest to m * 2^k * 10^j, the even one of two.  Where tol   *)
(* tolerates it, either will do: for the middle of two when tol.limb        *)
(* divides j, and for what is past the middle by less than one of tol.parts *)
(* parts of a half.                                                         *)
NearestTo(m, k, j, tol) ==
  LET num == Scale(Scale(m, 5, j), 2, k + j)
      den == Scale(Scale(1, 5, -j), 2, -(k + j))
      q == num \div den
      twice == 2 * (num % den)
  IN  CASE twice < den -> {q}
        [] twice > den -> IF tol.some /\ (twice - den) * tol.parts < den THEN {q, q + 1} ELSE {q + 1}
        [] OTHER -> IF tol.some /\ j % tol.limb = 0 THEN {q, q + 1} ELSE {q + (q % 2)}

(* The e with 10^e <= m * 2^k < 10^(e+1): near three tenths of the number of *)
(* bits, as 10^3 is near 2^10.                                              *)
Magnitude(m, k) ==
  LET AtMost(e) == Scale(Scale(1, 5, e), 2, e - k) <= Scale(Scale(m, 5, -e), 2, k - e)
      near == ((Len(Numeral(m, 2)) + k) * 3) \div 10
  IN  CHOOSE e \in near - 2 .. near + 1 : AtMost(e) /\ ~AtMost(e + 1)

Mantissas(m, k, p, tol) ==
  IF m = 0 THEN {[n |-> 0, e |-> 0]}
  ELSE LET e == Magnitude(m, k)
       IN  {IF n = 10^(p+1) THEN [n |-> 10^p, e |-> e + 1] ELSE [n |-> n, e |-> e] :
              n \in NearestTo(m, k, p - e, tol)}

(* n / 10^p with p digits after the point, or without the zeros at the end. *)
WithPoint(n, p, alt) ==
  LET digits == AtLeast(n, 10, p + 1)
      i == Len(digits) - p
  IN  SubSeq(digits, 1, i)
        \o (IF p > 0 \/ alt THEN <<".">> ELSE <<>>) \o SubSeq(digits, i + 1, Len(digits))

RECURSIVE Stripped(_, _)
Stripped(n, p) ==
  IF p > 0 /\ n % 10 = 0 THEN Stripped(n \div 10, p - 1) ELSE [n |-> n, p |-> p]

Exponential(n, e, p, alt) ==
  WithPoint(n, p, alt) \o <<"e", IF e < 0 THEN "-" ELSE "+">>
    \o AtLeast(IF e < 0 THEN -e ELSE e, 10, 2)

(* The texts of m * 2^k with conversion t and precision p.                  *)
DecimalTexts(m, k, t, p, alt, least, tol) ==
  CASE t = "f" -> {WithPoint(n, p, alt) : n \in NearestTo(m, k, p, tol)}
    [] t = "e" -> {Exponential(x.n, x.e, p, alt) : x \in Mantissas(m, k, p, tol)}
    [] OTHER ->
         LET s == IF p = 0 THEN 1 ELSE p
             Text(x) ==
               LET places == IF s > x.e /\ x.e >= least THEN s - 1 - x.e ELSE s - 1
                   y == IF alt THEN [n |-> x.n, p |-> places] ELSE Stripped(x.n, places)
               IN  IF s > x.e /\ x.e >= least THEN WithPoint(y.n, y.p, alt)
                                              ELSE Exponential(y.n, x.e, y.p, alt)
         IN  {Text(x) : x \in Mantissas(m, k, s - 1, tol)}

=============================================================================
