------------------------------ MODULE Numeral ------------------------------
(***************************************************************************)
(* How strtod() of dtoa.c reads a decimal numeral.  A string is a sequence *)
(* of characters; the C string's end is the character "nul".  A scan       *)
(* yields a record with                                                    *)
(*   kind    "number", "zero", "inf", "nan", or "none" (label ret0)        *)
(*   minus   whether the result is negated                                 *)
(*   end     the characters that belong to the numeral: *se - s00          *)
(*   digits  nd digits, from the first to the last that counts             *)
(*   nd0     how many of them come before the point, or all of them        *)
(*   nz1     how many zeros end the digits                                 *)
(*   e       the numeral is digits * Ten^e                                 *)
(***************************************************************************)
EXTENDS Integers, Sequences

CONSTANTS
  Figures,     (* the digits, in order: "0" to "9"                          *)
  ExpLen,      (* longest exponent that is computed: 8 digits               *)
  ExpCap       (* the largest exponent: 19999                               *)

Ten == Len(Figures)
Digit == {Figures[i] : i \in 1 .. Ten}
Value(c) == (CHOOSE i \in 1 .. Ten : Figures[i] = c) - 1
White == {" "}

At(s, i) == IF i \in DOMAIN s THEN s[i] ELSE "nul"
After(s, i, C) == CHOOSE j \in i .. Len(s) + 1 : At(s, j) \notin C /\ \A m \in i .. j-1 : s[m] \in C
Slice(s, i, j) == SubSeq(s, i, j - 1)

(* The number that a sequence of digits stands for.                         *)
Num(d) ==
  LET num[i \in Nat] == IF i = 0 THEN 0 ELSE Ten * num[i-1] + d[i] IN num[Len(d)]

Values(t) == [i \in DOMAIN t |-> Value(t[i])]
LeadingZeros(t) == After(t, 1, {"0"}) - 1
LastNonzero(t) ==
  IF \A i \in DOMAIN t : t[i] = "0" THEN 0
  ELSE CHOOSE i \in DOMAIN t : t[i] # "0" /\ \A j \in i+1 .. Len(t) : t[j] = "0"

Scanned(kind, minus, end) ==
  [kind |-> kind, minus |-> minus, end |-> end, digits |-> <<>>, nd0 |-> 0, nz1 |-> 0, e |-> 0]
None == Scanned("none", FALSE, 0)

-----------------------------------------------------------------------------
(* A mutant: s is not set back to an e without digits.                      *)
GreedyExponent(s, i) ==
  LET signed == At(s, i+1) \in {"-", "+"}
      from == IF signed THEN i+2 ELSE i+1
      first == After(s, from, {"0"})
      to == After(s, first, Digit)
      L == Num(Values(Slice(s, first, to)))
      size == IF to - first > ExpLen \/ L > ExpCap THEN ExpCap ELSE L
  IN  IF At(s, i) # "e" THEN <<0, i>>
      ELSE IF At(s, from) \notin Digit THEN <<0, from>>
      ELSE <<IF At(s, i+1) = "-" THEN -size ELSE size, to>>

(* The exponent from position i on: <<its value, the position after it>>;   *)
(* an e without digits is not part of the numeral.                          *)
Exponent(s, i) ==
  LET signed == At(s, i+1) \in {"-", "+"}
      from == IF signed THEN i+2 ELSE i+1
      first == After(s, from, {"0"})
      to == After(s, first, Digit)
      L == Num(Values(Slice(s, first, to)))
      size == IF to - first > ExpLen \/ L > ExpCap THEN ExpCap ELSE L
  IN  IF At(s, i) # "e" \/ At(s, from) \notin Digit THEN <<0, i>>
      ELSE <<IF At(s, i+1) = "-" THEN -size ELSE size, to>>

(* match(): the characters after position i spell word.                     *)
Match(s, i, word) == \A j \in DOMAIN word : At(s, i+j) = word[j]

(* hexnan(): everything up to a closing parenthesis belongs to the NaN.     *)
AfterNan(s, i) ==
  LET close == {j \in i .. Len(s) : s[j] = ")"}
  IN  IF At(s, i) = "(" /\ close # {} THEN 1 + CHOOSE j \in close : \A m \in close : j <= m
      ELSE i

InfOrNan(s, i, minus) ==
  IF At(s, i) = "i" /\ Match(s, i, <<"n", "f">>)
  THEN Scanned("inf", minus, IF Match(s, i+2, <<"i", "n", "i", "t", "y">>) THEN i+7 ELSE i+2)
  ELSE IF At(s, i) = "n" /\ Match(s, i, <<"a", "n">>)
  THEN Scanned("nan", minus, AfterNan(s, i+3) - 1)
  ELSE None

(* From s0 on: the digits of the integer part I and the fraction F, up to   *)
(* the last one that is not zero.                                           *)
Assemble(I, F, minus, exponent) ==
  LET lead == IF I = <<>> THEN LeadingZeros(F) ELSE 0
      nf == LastNonzero(F)
      digits == Values(I \o SubSeq(F, lead + 1, nf))
  IN  [kind |-> IF digits = <<>> THEN "zero" ELSE "number", minus |-> minus,
       end |-> exponent[2] - 1, digits |-> digits,
       nd0 |-> IF I = <<>> THEN Len(digits) ELSE Len(I),
       nz1 |-> IF nf > 0 THEN 0 ELSE Len(I) - LastNonzero(I),
       e |-> exponent[1] - nf]

ScanDigits(s, s0, nz0, minus) ==
  LET dp0 == After(s, s0, Digit)
      point == At(s, dp0) = "."
      last == IF point THEN After(s, dp0 + 1, Digit) ELSE dp0
      I == Slice(s, s0, dp0)
      F == IF point THEN Slice(s, dp0 + 1, last) ELSE <<>>
  IN  IF I # <<>> \/ F # <<>> \/ nz0 THEN Assemble(I, F, minus, Exponent(s, last))
      ELSE IF point THEN None ELSE InfOrNan(s, s0, minus)

Scan(s) ==
  LET start == After(s, 1, White)
      signed == At(s, start) \in {"-", "+"}
      minus == At(s, start) = "-"
      body == IF signed THEN start + 1 ELSE start
      s0 == After(s, body, {"0"})
      nz0 == At(s, body) = "0"
  IN  IF At(s, body) = "nul" THEN None
      ELSE IF nz0 /\ At(s, s0) = "nul" THEN Scanned("zero", minus, s0 - 1)
      ELSE ScanDigits(s, s0, nz0, minus)

=============================================================================
