------------------------------- MODULE Strtod ------------------------------
(***************************************************************************)
(* strtod() of src/nolibc/dtoa.c for one decimal numeral: the exact fast   *)
(* path, the table of powers, and David Gay's loop, which compares an      *)
(* estimate with the numeral in big integers and corrects it, bigcomp()    *)
(* for long numerals included.                                             *)
(*                                                                         *)
(* Big integers are numbers here; module Bigint models what they are made  *)
(* of.  held counts the ones strtod() has not given back.  Numbers below   *)
(* the range of rv are carried 2^scale times too large, as in the source.  *)
(***************************************************************************)
EXTENDS Numeral, Bf96

CONSTANTS
  Inputs,      (* the strings to convert                                    *)
  DblDig,      (* digits that are exact as a double: DBL_DIG, 15            *)
  TenPmax,     (* the largest power of ten that is: Ten_pmax, 22            *)
  LowTens,     (* the powers of ten in one table: 16                        *)
  n_bigtens,   (* the powers Ten^(LowTens * 2^j) in the other: 5            *)
  WordDigits,  (* the digits that one word takes: 9                         *)
  DigLim,      (* strtod_diglim, 40: a longer numeral is cut to DT-1 digits *)
  Sure         (* what is below 1/Sure is surely below a half: 1/.4999999   *)

ASSUME StrtodAssumption ==
  /\ Ten = 2 * Five /\ Five^TenPmax < 2^P /\ Ten^DblDig < 2^P
  /\ WordDigits < DT - 2 /\ DT < DigLim /\ 2 < Sure
  /\ 2^(P+1) < Ten^(DT-2)

VARIABLES
  text,        (* s00                                                       *)
  at,          (* the label reached                                         *)
  num,         (* what was scanned                                          *)
  rv,          (* the result so far                                         *)
  bc,          (* as in the source, with the digits of bd0 and e            *)
  cmp,         (* delta, bs and how they compare                            *)
  held,        (* Bigints: how many of each name strtod() owns              *)
  erange       (* errno has been set                                        *)

vars == <<text, at, num, rv, bc, cmp, held, erange>>
work == <<bc, cmp, held>>

Labels == {"scan", "fast", "quick", "many_digits", "loop", "compared", "bigcomp", "scale",
           "ovfl", "undfl", "ret"}
Names == {"bb", "bd", "bs", "delta", "bd0"}
NoWork == [scale |-> 0, dsign |-> FALSE, nd |-> 0, kept |-> 0, e |-> 0, bd0 |-> 0, set |-> FALSE]
NoCmp == [delta |-> 0, bs |-> 0, dsign |-> FALSE, lsb |-> 0]

NaN == Inf + Hidden \div 2
Double(n) == Nearest(n, 1, 0)
TenTo(e) == IF e < 0 THEN Nearest(1, Five^(-e), e) ELSE Nearest(Five^e, 1, e)

Init ==
  /\ text \in Inputs
  /\ at = "scan" /\ num = None /\ rv = 0 /\ erange = FALSE
  /\ bc = NoWork /\ cmp = NoCmp /\ held = [b \in Names |-> 0]

Alloc(S) == held' = [b \in Names |-> IF b \in S THEN held[b] + 1 ELSE held[b]]
Bfree(S) == held' = [b \in Names |-> IF b \in S THEN held[b] - 1 ELSE held[b]]

ScanNumeral ==
  /\ at = "scan"
  /\ num' = Scan(text)
  /\ at' = IF num'.kind = "number" THEN "fast" ELSE "ret"
  /\ rv' = IF num'.kind = "inf" THEN Inf ELSE IF num'.kind = "nan" THEN NaN ELSE 0
  /\ UNCHANGED <<text, work, erange>>

-----------------------------------------------------------------------------
(* Two exact numbers and one rounding                                       *)

FewDigits == Len(num.digits) <= DblDig
IsExact(nd, e) == -TenPmax <= e /\ e <= TenPmax + DblDig - nd

Exactly(n, nd, e) ==
  IF e < 0 THEN Div(Double(n), TenTo(-e))
  ELSE IF e <= TenPmax THEN Mul(Double(n), TenTo(e))
  ELSE Mul(Mul(Double(n), TenTo(DblDig - nd)), TenTo(e - DblDig + nd))

FastPath ==
  /\ at = "fast"
  /\ IF FewDigits /\ IsExact(Len(num.digits), num.e)
     THEN /\ rv' = Exactly(Num(num.digits), Len(num.digits), num.e)
          /\ at' = "ret"
     ELSE at' = "quick" /\ rv' = rv
  /\ UNCHANGED <<text, num, work, erange>>

-----------------------------------------------------------------------------
(* The table of powers, then the first estimate                             *)

Yz == Num(SubSeq(num.digits, 1, Least(DT, Len(num.digits))))
E1 == num.e + Most(0, Len(num.digits) - DT)

Leave(o) ==
  /\ at' = IF o.go \in {"done", "erange"} THEN "ret" ELSE o.go
  /\ rv' = o.rv
  /\ erange' = (erange \/ o.go = "erange")

QuickPath ==
  /\ at = "quick"
  /\ Leave(Quick(Yz, Len(num.digits), E1))
  /\ UNCHANGED <<text, num, work>>

(* Times the big powers for the bits of m from j on, the last one with room *)
(* for an overflow.                                                         *)
LastTen(x, j) ==
  LET big == Mul(AddToField(x, -P), TenTo(LowTens * 2^j))
  IN  IF Field(big) > MaxField - P THEN Ovfl
      ELSE Outcome("loop", IF Field(big) > MaxField - 1 - P THEN Big ELSE AddToField(big, P), 0)

Raise(x, e1) ==
  LET low == IF e1 % LowTens = 0 THEN x ELSE Mul(x, TenTo(e1 % LowTens))
      m == e1 \div LowTens
      top == BitLength(m) - 1
      up[j \in Nat] == IF j = 0 THEN low
                       ELSE IF Bit(m, j-1) THEN Mul(up[j-1], TenTo(LowTens * 2^(j-1))) ELSE up[j-1]
  IN  IF m = 0 THEN Outcome("loop", low, 0)
      ELSE IF LowTens * m > MaxTen THEN Ovfl
      ELSE LastTen(up[top], top)

(* Bits that a denormal number has no room for are cleared.                 *)
Clear(x, scale) ==
  LET j == 2*P + 1 - Field(x)
  IN  IF x = 0 \/ (scale > 0 /\ j > P + 1) THEN Undfl
      ELSE IF scale = 0 \/ j <= 0 THEN Outcome("loop", x, scale)
      ELSE IF j >= P THEN Outcome("loop", Pattern(P + 2, 0), scale)
      ELSE Outcome("loop", x - (x % 2^j), scale)

TinyTen(j) == IF j = n_bigtens - 1 THEN Nearest(1, Five^(LowTens * 2^j), 2*P - LowTens * 2^j)
              ELSE TenTo(-(LowTens * 2^j))

Lower(x, e1) ==
  LET low == IF e1 % LowTens = 0 THEN x ELSE Div(x, TenTo(e1 % LowTens))
      m == e1 \div LowTens
      down[j \in Nat] == IF j = 0 THEN low
                         ELSE IF Bit(m, j-1) THEN Mul(down[j-1], TinyTen(j-1)) ELSE down[j-1]
  IN  IF m = 0 THEN Outcome("loop", low, 0)
      ELSE IF m >= 2^n_bigtens THEN Undfl
      ELSE Clear(down[n_bigtens], IF Bit(m, n_bigtens - 1) THEN 2*P ELSE 0)

Estimate(yz, e1) ==
  IF e1 > 0 THEN Raise(Double(yz), e1)
  ELSE IF e1 < 0 THEN Lower(Double(yz), -e1) ELSE Outcome("loop", Double(yz), 0)

(* yz loses one or two of its digits.                                       *)
Dropped(nd) == IF nd >= DT THEN 2 ELSE IF nd = DT - 1 THEN 1 ELSE 0

(* The digits of bd0: all of them, or the first DT-1 without their zeros.   *)
Kept(d) == IF Len(d) <= DigLim THEN Len(d)
           ELSE CHOOSE i \in 1 .. DT-1 : d[i] # 0 /\ \A j \in i+1 .. DT-1 : d[j] = 0

(* s2b() starts from the word y of the first WordDigits digits.             *)
S2b(y, d, kept) ==
  LET n[i \in Nat] == IF i <= WordDigits THEN y ELSE Ten * n[i-1] + d[i] IN n[kept]

FirstWord(d, kept) ==
  LET yz == Yz \div Ten^Dropped(Len(d))
  IN  IF kept < Len(d) /\ kept < WordDigits THEN Num(SubSeq(d, 1, kept))
      ELSE yz \div Ten^Most(0, Least(Len(d), DT - 2) - WordDigits)

Start(scale, d, kept) ==
  [scale |-> scale, dsign |-> FALSE, nd |-> Len(d) - num.nz1, kept |-> kept,
   e |-> num.e + Len(d) - kept, bd0 |-> S2b(FirstWord(d, kept), d, kept), set |-> TRUE]

Begin(o) ==
  /\ Leave(o)
  /\ IF o.go = "loop"
     THEN bc' = Start(o.scale, num.digits, Kept(num.digits)) /\ Alloc({"bd0"})
     ELSE UNCHANGED <<bc, held>>

ManyDigitsPath ==
  /\ at = "many_digits"
  /\ Begin(Estimate(Yz \div Ten^Dropped(Len(num.digits)), E1 + Dropped(Len(num.digits))))
  /\ UNCHANGED <<text, num, cmp>>

-----------------------------------------------------------------------------
(* The loop: bb/bs is rv and bd/bs the numeral, in half units of rv's last  *)
(* place.                                                                   *)

ulp(x) == AddToField(x - Frac(x), -(P-1))
sulp(x) == IF bc.scale = 0 THEN ulp(x) ELSE AddToField(ulp(x), Most(0, 2*P + 1 - Field(x)))

TrailingZeros(n) == CHOOSE k \in 0 .. P : n % 2^k = 0 /\ n % 2^(k+1) # 0

Comparison(bb, bd, bs, lsb) ==
  [delta |-> IF bb < bd THEN bd - bb ELSE bb - bd, bs |-> bs, dsign |-> bb < bd, lsb |-> lsb]

(* bb0 * 2^bbe is rv with bbbits bits; rv, the numeral and half a unit are  *)
(* brought to a common denominator without a common power of two.           *)
CompareAt(bb0, bbe, bbbits) ==
  LET lsb == Most(0, Emin - (bbe - bc.scale + bbbits - 1))
      j == P + 1 - bbbits - lsb
      bs2 == Most(0, -bc.e) + Most(0, bbe)
      bb2 == bs2 + j
      bd2 == Most(0, bc.e) + Most(0, -bbe) + j + bc.scale
      i == Most(0, Least(bs2, Least(bb2, bd2)))
      five(n) == Five^Most(0, n)
  IN  Comparison(Up(bb0 * five(-bc.e), bb2 - i), Up(bc.bd0 * five(bc.e), bd2 - i),
                 Up(five(-bc.e), bs2 - i), lsb)

Compare ==
  LET k == TrailingZeros(Mant(rv))
  IN  /\ at = "loop"
      /\ cmp' = CompareAt(Mant(rv) \div 2^k, Exp2(rv) + k, P - k)
      /\ at' = "compared"
      /\ Alloc({"bd", "bb", "bs", "delta"})
      /\ UNCHANGED <<text, num, rv, bc, erange>>

(* How an iteration ends: break with or without a later bigcomp(), cont, or *)
(* one of the labels ovfl and undfl, which look at bd0.                     *)
Break(x, label, dsign) ==
  /\ at' = label /\ rv' = x
  /\ bc' = [bc EXCEPT !.dsign = dsign]
  /\ Bfree(Names)
  /\ UNCHANGED <<text, num, cmp, erange>>

Cont(x) ==
  /\ at' = "loop" /\ rv' = x
  /\ bc' = [bc EXCEPT !.dsign = cmp.dsign]
  /\ Bfree(Names \ {"bd0"})
  /\ UNCHANGED <<text, num, cmp, erange>>

Goto(label) ==
  /\ at' = label
  /\ UNCHANGED <<text, num, rv, bc, cmp, held, erange>>

Truncated == bc.nd > bc.kept
Below == cmp.delta < cmp.bs
Tie == cmp.delta = cmp.bs
Above == cmp.delta > cmp.bs

(* The digits that were cut off decide.                                     *)
Undecided == at = "compared" /\ Truncated /\ cmp.dsign /\ ~Above /\ Break(rv, "bigcomp", TRUE)

(* Label drop_down: from a power of two to the number below it.             *)
DropDown ==
  IF bc.scale > 0 /\ Field(rv) <= 2*P + 1
  THEN IF Field(rv) > P + 2 \/ Truncated THEN Break(rv, "scale", cmp.dsign) ELSE Goto("undfl")
  ELSE IF Truncated THEN Cont(rv - 1) ELSE Break(rv - 1, "scale", cmp.dsign)

(* A tie of a numeral that was cut off and is below rv counts as less.      *)
LessThanHalf ==
  /\ at = "compared"
  /\ Below \/ (Truncated /\ Tie)
  /\ ~(Truncated /\ cmp.dsign)
  /\ IF cmp.dsign \/ Frac(rv) # 0 \/ Field(rv) <= 2*P + 1 \/ 2 * cmp.delta <= cmp.bs
     THEN Break(rv, "scale", cmp.dsign) ELSE DropDown

(* All bits are set that count in rv.                                       *)
AllOnes(x) ==
  LET low == IF bc.scale > 0 THEN Most(0, 2*P + 1 - Field(x)) ELSE 0
  IN  low < P - 1 /\ Frac(x) = Hidden - 2^low

IsOdd(x) == IF cmp.lsb < P - 1 THEN Bit(x, cmp.lsb) ELSE Field(x) # 0

Half ==
  /\ at = "compared" /\ Tie /\ ~Truncated
  /\ IF cmp.dsign /\ AllOnes(rv)
     THEN IF rv = Big THEN Goto("ovfl")
          ELSE Break(Pattern(Field(rv) + 1, 0), "scale", FALSE)
     ELSE IF ~cmp.dsign /\ Frac(rv) = 0 THEN DropDown
     ELSE IF ~IsOdd(rv) THEN Break(rv, "scale", cmp.dsign)
     ELSE IF cmp.dsign THEN Break(Add(rv, sulp(rv)), "scale", FALSE)
     ELSE IF Sub(rv, sulp(rv)) = 0 THEN Goto("undfl")
     ELSE Break(Sub(rv, sulp(rv)), "scale", TRUE)

(* b2d() keeps the first P bits of a big integer.                           *)
b2d(n) == n - (n % 2^Most(0, BitLength(n) - P))
ratio == Nearest(b2d(cmp.delta), b2d(cmp.bs), 0)
One == Double(1)
OneHalf == Nearest(1, 1, -1)

(* How many units rv is to move.                                            *)
aadj ==
  IF ratio <= Double(2) /\ (cmp.dsign \/ Frac(rv) # 0) THEN One
  ELSE Most(OneHalf, Mul(ratio, OneHalf))

Move(x, adj) == IF cmp.dsign THEN Add(x, adj) ELSE Sub(x, adj)

(* The last exit: rv was moved by a number of units that is surely not near *)
(* a half, aside from whole units.                                          *)
IsSure(moved, adj) ==
  LET fraction == Sub(adj, Double(Floor(adj)))
  IN  /\ bc.nd = bc.kept /\ bc.scale = 0 /\ Field(moved) = Field(rv)
      /\ IF cmp.dsign \/ Frac(moved) # 0
         THEN fraction < Nearest(1, Sure, 0) \/ fraction > Nearest(Sure - 1, Sure, 0)
         ELSE fraction < Nearest(1, 2 * Sure, 0)

Moved(x) == IF IsSure(x, aadj) THEN Break(x, "scale", cmp.dsign) ELSE Cont(x)

(* Near the largest number the sum is formed 2^P times too small.           *)
MovedAtTop(x) ==
  IF Field(x) >= MaxField - P THEN IF rv = Big THEN Goto("ovfl") ELSE Cont(Big)
  ELSE Moved(AddToField(x, P))

(* A mutant: a correction of less than one unit is none.                    *)
StuckMoveScaled(adj) ==
  LET units == Double(Floor(adj))
      x == Move(rv, Mul(AddToField(units, 2*P + 1 - Field(rv)), ulp(rv)))
  IN  IF x = 0 THEN Break(0, "bigcomp", cmp.dsign) ELSE Moved(x)

(* A denormal number moves by whole units.                                  *)
MoveScaled(adj) ==
  LET units == Double(Most(1, Floor(adj)))
      x == Move(rv, Mul(AddToField(units, 2*P + 1 - Field(rv)), ulp(rv)))
  IN  IF x = 0 THEN Break(0, "bigcomp", cmp.dsign) ELSE Moved(x)

MoreThanHalf ==
  /\ at = "compared" /\ Above
  /\ IF Field(rv) = MaxField - 1
     THEN MovedAtTop(Move(AddToField(rv, -P), Mul(aadj, ulp(AddToField(rv, -P)))))
     ELSE IF bc.scale > 0 /\ Field(rv) <= 2*P THEN MoveScaled(aadj)
     ELSE Moved(Move(rv, Mul(aadj, ulp(rv))))

-----------------------------------------------------------------------------
(* bigcomp(): the digits of the number half a unit above rv are compared    *)
(* with those of the numeral.                                               *)

(* <<b, d>>: the half, divided by the power of ten of the first digit       *)
HalfAbove(b, p2, p5) ==
  LET n == b * Five^Most(0, -p5) d == Five^Most(0, p5) IN <<Up(n, p2 - p5), Up(d, p5 - p2)>>

Halfway ==
  LET k == TrailingZeros(Mant(rv))
      p2 == Exp2(rv) + k - bc.scale
      i == Least(k, p2 - LeastExp)
      p5 == Len(num.digits) + num.e - 1
  IN  IF rv = 0 THEN HalfAbove(1, LeastExp - 1, p5)
      ELSE HalfAbove(2^(i+1) * (Mant(rv) \div 2^k) + 1, p2 - i - 1, p5)

(* Digit i of b/d and what is left of b then; a first digit 0 is skipped.   *)
Expansion(b, d) ==
  LET first == IF b \div d = 0 THEN Ten * b ELSE b
      left[i \in Nat] == IF i = 1 THEN first ELSE Ten * (left[i-1] % d)
  IN  [i \in 1 .. Len(num.digits) + 1 |-> [dig |-> left[i] \div d, rest |-> left[i] % d]]

(* dd: the sign of the numeral less the half                                *)
Verdict(h) ==
  LET n == Len(num.digits)
      stops == {i \in 1 .. n : num.digits[i] # h[i].dig \/ h[i].rest = 0}
      i == CHOOSE j \in stops : \A k \in stops : j <= k
  IN  IF stops = {} THEN -1
      ELSE IF num.digits[i] # h[i].dig THEN num.digits[i] - h[i].dig
      ELSE IF i < bc.nd THEN 1 ELSE 0

HalfIsOdd ==
  LET j == Field(rv) - bc.scale IN IF j <= 0 THEN Bit(rv, 1 - j) ELSE rv % 2 = 1

Decided(dd) ==
  IF rv = 0 THEN IF dd <= 0 THEN 0 ELSE Pattern(P + 2, 0)
  ELSE IF bc.dsign /\ (dd > 0 \/ (dd = 0 /\ HalfIsOdd)) THEN Add(rv, sulp(rv))
  ELSE IF ~bc.dsign /\ (dd < 0 \/ (dd = 0 /\ HalfIsOdd)) THEN Sub(rv, sulp(rv))
  ELSE rv

(* A mutant: bd0 still points to the Bigint that was freed.                 *)
DanglingBigcomp ==
  /\ at = "bigcomp"
  /\ rv' = Decided(Verdict(Expansion(Halfway[1], Halfway[2])))
  /\ at' = IF rv' = Inf THEN "ovfl" ELSE IF rv' = 0 THEN "undfl" ELSE "scale"
  /\ UNCHANGED <<text, num, work, erange>>

Bigcomp ==
  /\ at = "bigcomp"
  /\ rv' = Decided(Verdict(Expansion(Halfway[1], Halfway[2])))
  /\ at' = IF rv' = Inf THEN "ovfl" ELSE IF rv' = 0 THEN "undfl" ELSE "scale"
  /\ bc' = [bc EXCEPT !.set = FALSE]
  /\ UNCHANGED <<text, num, cmp, held, erange>>

-----------------------------------------------------------------------------
(* The end                                                                  *)

(* A mutant: a denormal result is not reported.                             *)
SilentUnscale ==
  /\ at = "scale" /\ at' = "ret"
  /\ rv' = IF bc.scale = 0 THEN rv ELSE Mul(rv, Nearest(1, 1, -2*P))
  /\ UNCHANGED <<text, num, work, erange>>

Unscale ==
  /\ at = "scale" /\ at' = "ret"
  /\ rv' = IF bc.scale = 0 THEN rv ELSE Mul(rv, Nearest(1, 1, -2*P))
  /\ erange' = (erange \/ (bc.scale > 0 /\ Field(rv') = 0))
  /\ UNCHANGED <<text, num, work>>

(* Labels ovfl, undfl and range_err.                                        *)
RangeErr ==
  /\ at \in {"ovfl", "undfl"} /\ at' = "ret"
  /\ rv' = IF at = "ovfl" THEN Inf ELSE 0
  /\ IF bc.set THEN Bfree(Names) ELSE UNCHANGED held
  /\ erange' = TRUE
  /\ UNCHANGED <<text, num, bc, cmp>>

Returned == at = "ret" /\ UNCHANGED vars

Next ==
  \/ ScanNumeral \/ FastPath \/ QuickPath \/ ManyDigitsPath
  \/ Compare \/ Undecided \/ LessThanHalf \/ Half \/ MoreThanHalf
  \/ Bigcomp \/ Unscale \/ RangeErr \/ Returned

(* The thread that called strtod() goes on as long as there is a next step, *)
(* which always leads to another label.                                     *)
Continue == at # "ret" /\ at' \in Labels \ {at}
Spec == Init /\ [][Next]_vars /\ WF_at(Continue)

-----------------------------------------------------------------------------
(* What strtod() promises                                                   *)

(* The longest start of a string that is a numeral of the C standard.       *)
All(t, C) == \A i \in DOMAIN t : t[i] \in C
Cut(s, i, j) == SubSeq(s, i + 1, j)
Unsigned(t) == IF t # <<>> /\ Head(t) \in {"-", "+"} THEN Tail(t) ELSE t
IsSignificand(t) ==
  \/ t # <<>> /\ All(t, Digit)
  \/ \E i \in DOMAIN t : t[i] = "." /\ All(Cut(t, 0, i-1) \o Cut(t, i, Len(t)), Digit) /\ Len(t) > 1
IsExponent(t) == t # <<>> /\ Head(t) = "e" /\ Unsigned(Tail(t)) # <<>> /\ All(Unsigned(Tail(t)), Digit)
IsDecimal(t) ==
  IsSignificand(t) \/ \E i \in DOMAIN t : IsSignificand(Cut(t, 0, i)) /\ IsExponent(Cut(t, i, Len(t)))
IsSpecial(t) ==
  \/ t \in {<<"i", "n", "f">>, <<"i", "n", "f", "i", "n", "i", "t", "y">>, <<"n", "a", "n">>}
  \/ Len(t) > 4 /\ Cut(t, 0, 4) = <<"n", "a", "n", "(">> /\ t[Len(t)] = ")" /\ All(Cut(t, 4, Len(t) - 1), Digit)
Subjects(s) ==
  {n \in 1 .. Len(s) : \E w \in 0 .. n-1 :
     All(Cut(s, 0, w), White) /\ LET t == Unsigned(Cut(s, w, n)) IN IsDecimal(t) \/ IsSpecial(t)}
Longest(S) == IF S = {} THEN 0 ELSE CHOOSE n \in S : \A m \in S : m <= n

(* The double nearest to digits * Ten^e; far out of range without the sum.  *)
Correct(d, e) ==
  IF e + Len(d) - 1 > MaxTen THEN Inf
  ELSE IF e + Len(d) < MinTen + DT THEN 0
  ELSE IF e < 0 THEN Nearest(Num(d), Five^(-e), e) ELSE Nearest(Num(d) * Five^e, 1, e)

(* The result is the double nearest to the numeral, the even one of two,    *)
(* whatever path is taken: "This strtod returns a nearest machine number".  *)
CorrectlyRounded ==
  at = "ret" /\ num.kind = "number" => rv = Correct(num.digits, num.e)

(* The same but for the numerals that round to the least double: those just *)
(* above half of it become 0.                                               *)
RoundedAboveLeast ==
  at = "ret" /\ num.kind = "number" =>
    LET x == Correct(num.digits, num.e) IN rv = x \/ (x = 1 /\ rv = 0)

(* *se points behind the longest start of the string that the C standard    *)
(* takes as a numeral, and to its beginning when there is none.             *)
EndptrExact == at = "ret" => num.end = Longest(Subjects(text))

(* errno is ERANGE when the numeral is too large, or below the normal       *)
(* numbers, and only then.                                                  *)
ErrnoExact ==
  at = "ret" => (erange <=> num.kind = "number" /\ (rv = Inf \/ rv < Hidden))

(* Every path out of strtod(), the early ones included, gives each Bigint   *)
(* back once, and no name is overwritten while it holds one.                *)
BigintsReturned ==
  /\ \A b \in Names : held[b] \in {0, 1}
  /\ at = "ret" => \A b \in Names : held[b] = 0

(* The loop comes to an end: each correction leads nearer.                  *)
Terminates == <>(at = "ret")

=============================================================================
