------------------------------ MODULE MCStrtod -----------------------------
(* strtod() for numerals of base six and doubles of five bits.              *)
EXTENDS Strtod

MCFigures == <<"0", "1", "2", "3", "4", "5">>
MCMinTen == -15

(* Every short string of these characters, and some words.                  *)
Strings == UNION {[1 .. n -> {" ", "-", ".", "0", "1", "e"}] : n \in 0 .. 4}
Words == {<<"i", "n", "f">>, <<"-", "i", "n", "f", "i">>, <<"i", "n", "f", "i", "n", "i", "t", "y">>,
          <<"n", "a", "n">>, <<"n", "a", "n", "(", "1", ")", "1">>, <<"n", "a", "n", "(", "1">>,
          <<"n", "a">>, <<".", "i", "n", "f">>, <<"+", "0", "0", "1", "e", "+", "0", "1">>,
          <<"1", "e", "1", "1", "1", "1">>, <<"1", "e", "-", "1", "1", "1", "1">>}

Figure(n) == <<MCFigures[n + 1]>>
Chars(n) ==
  LET c[m \in Nat] == IF m < 6 THEN Figure(m) ELSE c[m \div 6] \o Figure(m % 6) IN c[n]
Scientific(d, e) == d \o <<"e">> \o (IF e < 0 THEN <<"-">> \o Chars(-e) ELSE Chars(e))

(* Every numeral of up to four digits with every exponent that is not too    *)
(* large or too small.                                                       *)
Short == {Scientific(Chars(n), e) : n \in 1 .. 1295, e \in -17 .. 8}

(* Long ones next to the middle between two doubles, (2m+1) * 2^(e+k), with  *)
(* a point somewhere.                                                        *)
Middle(m, k, e) == Up((2*m + 1) * 3^Most(0, -e), k) \div Up(3^Most(0, e), -k)
Middles(e) ==
  {n \in {Middle(m, k, e) : m \in 16 .. 31, k \in Most(-23, 2*e - 6) .. 2*e + 16} :
     1296 <= n /\ n < 10077696}
Pointed(d, e, i) ==
  IF i >= Len(d) THEN Scientific(d, e)
  ELSE Scientific(SubSeq(d, 1, i) \o <<".">> \o SubSeq(d, i + 1, Len(d)), e + Len(d) - i)
Long == UNION {{Pointed(Chars(n + i), e, n % 9) : n \in Middles(e), i \in -2 .. 2} : e \in -14 .. 4}

(* Five digits around half of the least double, 2^-26.                       *)
Least5 == {Scientific(Chars(n), -15) : n \in 6990 .. 7020}

MCInputs == Strings \cup Words \cup Short \cup Long \cup Least5
=============================================================================
