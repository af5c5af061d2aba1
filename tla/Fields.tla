------------------------------- MODULE Fields ------------------------------
(***************************************************************************)
(* The fields printf lays out (src/nolibc/vfprintf.c): a text of           *)
(* characters, in blanks or zeros up to the width, as the flags want it.   *)
(* A character is a one-letter string, a text a sequence of them, flags a  *)
(* set of the characters "-", "0", "+", " " and "#".                       *)
(***************************************************************************)
EXTENDS Integers, SequencesExt

DigitChars == <<"0", "1", "2", "3", "4", "5", "6", "7", "8", "9",
  "a", "b", "c", "d", "e", "f", "g", "h", "i", "j", "k", "l", "m",
  "n", "o", "p", "q", "r", "s", "t", "u", "v", "w", "x", "y", "z">>

Numeral(x, base) ==
  LET digits[n \in Nat] ==
        IF n = 0 THEN <<>> ELSE Append(digits[n \div base], DigitChars[(n % base) + 1])
  IN  digits[x]

(* The texts of a number: none at all for 0.                                *)
fmt_u(x) == Numeral(x, 10)
fmt_x(x) == Numeral(x, 16)
fmt_o(x) == Numeral(x, 8)

Repeat(c, n) == [i \in 1 .. n |-> c]
ZeroPadded(text, n) == Repeat("0", n - Len(text)) \o text

(* fl ^ f                                                                   *)
Flip(fl, f) == IF f \in fl THEN fl \ {f} ELSE fl \cup {f}

pad(c, w, l, fl) == IF fl \cap {"-", "0"} # {} \/ l >= w THEN <<>> ELSE Repeat(c, w - l)

(* The sign a number that is negative or not is printed with.               *)
Sign(neg, fl) ==
  CASE neg -> <<"-">>
    [] ~neg /\ "+" \in fl -> <<"+">>
    [] ~neg /\ "+" \notin fl /\ " " \in fl -> <<" ">>
    [] OTHER -> <<>>

(* A prefix and a text of l characters: blanks before it, zeros between the *)
(* prefix and it, or blanks after it.                                       *)
Laid(prefix, text, w, fl) ==
  LET l == Len(prefix) + Len(text)
  IN  pad(" ", w, l, fl) \o prefix \o pad("0", w, l, Flip(fl, "0")) \o text
        \o pad(" ", w, l, Flip(fl, "-"))

=============================================================================
