-------------------------------- MODULE Strtol -----------------------------
(***************************************************************************)
(* strtol() of src/nolibc/strtol.c.  A call is a record of its locals:     *)
(*   n.s, n.c       where it reads next, and the character before          *)
(*   n.acc, n.any   the number so far; any is negative after an overflow   *)
(*   n.neg, n.base, n.cutoff, n.cutlim                                     *)
(*   n.errno        errno                                                  *)
(*   n.done         whether it has returned acc, with n.endptr             *)
(* str is the string, a function from 0 on.                                *)
(***************************************************************************)
EXTENDS Fields

CONSTANT LongMax        (* 2^63 - 1                                         *)

ASSUME StrtolAssumption == LongMax \in Nat \ {0}

LongMin == -LongMax - 1

(* The value of a digit or a letter; 36, too much for any base, for others. *)
Value(c) == IF \E v \in 1 .. 36 : DigitChars[v] = c
            THEN CHOOSE v \in 0 .. 35 : DigitChars[v + 1] = c ELSE 36

(* / and % of C, which round to 0.                                          *)
Quotient(a, b) == IF a < 0 THEN -((-a) \div b) ELSE a \div b
Remainder(a, b) == a - Quotient(a, b) * b

cutoff(neg, base) ==
  LET limit == IF neg THEN LongMin ELSE LongMax
  IN  IF neg /\ Remainder(limit, base) > 0 THEN Quotient(limit, base) + 1
                                           ELSE Quotient(limit, base)
cutlim(neg, base) ==
  LET rest == Remainder(IF neg THEN LongMin ELSE LongMax, base)
  IN  CASE ~neg -> rest
        [] neg /\ rest > 0 -> -(rest - base)
        [] OTHER -> -rest

(* Spaces, a sign, and the 0x of a base of 16, which another base gets when *)
(* it is 0.                                                                 *)
Begin(str, base, errno) ==
  LET first == CHOOSE k \in DOMAIN str : k >= 0 /\ str[k] # " "
                                         /\ \A q \in 0 .. k - 1 : str[q] = " "
      neg == str[first] = "-"
      s == IF str[first] \in {"-", "+"} THEN first + 1 ELSE first
      hex == base \in {0, 16} /\ str[s] = "0" /\ str[s+1] = "x"
      at == IF hex THEN s + 2 ELSE s
      b == CASE hex -> 16
             [] ~hex /\ base = 0 -> IF str[at] = "0" THEN 8 ELSE 10
             [] OTHER -> base
      n == [s |-> at + 1, c |-> str[at], acc |-> 0, any |-> 0, neg |-> neg, base |-> b,
            cutoff |-> cutoff(neg, b), cutlim |-> cutlim(neg, b),
            errno |-> errno, done |-> FALSE, endptr |-> 0]
  IN  IF base < 0 \/ base = 1 \/ base > 36
      THEN [s |-> 0, c |-> " ", acc |-> 0, any |-> 0, neg |-> FALSE, base |-> base,
            cutoff |-> 0, cutlim |-> 0, errno |-> "EINVAL", done |-> TRUE, endptr |-> 0]
      ELSE n

(* A mutant: the last digit of the largest numbers is refused.              *)
EagerTooLarge(n, v) == IF n.neg THEN n.acc <= n.cutoff ELSE n.acc >= n.cutoff

(* Does the digit v make the number too large?                              *)
TooLarge(n, v) ==
  \/ IF n.neg THEN n.acc < n.cutoff ELSE n.acc > n.cutoff
  \/ n.acc = n.cutoff /\ v > n.cutlim

(* One turn of the loop.                                                    *)
Turn(str, n) ==
  LET v == Value(n.c)
      m == [n EXCEPT !.c = str[n.s], !.s = @ + 1]
  IN  IF v >= n.base
      THEN [n EXCEPT !.done = TRUE, !.endptr = IF n.any # 0 THEN n.s - 1 ELSE 0]
      ELSE IF n.any < 0 THEN m
      ELSE IF TooLarge(n, v)
      THEN [m EXCEPT !.any = -1, !.acc = IF n.neg THEN LongMin ELSE LongMax,
                     !.errno = "ERANGE"]
      ELSE [m EXCEPT !.any = 1, !.acc = n.acc * n.base + (IF n.neg THEN -v ELSE v)]

(***************************************************************************)
(* What the C standard says of it: from the first character that is no     *)
(* space, a sign, an optional 0x if the base allows and a digit follows it, *)
(* and all the digits there are.                                           *)
(***************************************************************************)
Numbered(str, base) ==
  LET first == CHOOSE k \in DOMAIN str : k >= 0 /\ str[k] # " "
                                         /\ \A q \in 0 .. k - 1 : str[q] = " "
      neg == str[first] = "-"
      s == IF str[first] \in {"-", "+"} THEN first + 1 ELSE first
      mark == str[s] = "0" /\ str[s+1] = "x" /\ base \in {0, 16}
      hex == mark /\ Value(str[s+2]) < 16
      b == IF base # 0 THEN base ELSE IF hex THEN 16 ELSE IF str[s] = "0" THEN 8 ELSE 10
      at == IF hex THEN s + 2 ELSE s
      last == CHOOSE k \in DOMAIN str : k >= at /\ Value(str[k]) >= b
                                        /\ \A q \in at .. k - 1 : Value(str[q]) < b
      digits == [k \in 1 .. last - at |-> Value(str[at + k - 1])]
      (* Beyond any long the number itself does not matter.                 *)
      size == FoldLeft(LAMBDA x, v : IF x > LongMax + 1 THEN x ELSE x * b + v, 0, digits)
      x == IF neg THEN -size ELSE size
  IN  [bare |-> mark /\ ~hex,       (* 0x before no digit                   *)
       value |-> IF x > LongMax THEN LongMax ELSE IF x < LongMin THEN LongMin ELSE x,
       range |-> x < LongMin \/ x > LongMax,
       endptr |-> IF last = at THEN 0 ELSE last]

=============================================================================
