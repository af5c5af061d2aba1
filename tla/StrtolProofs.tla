---------------------------- MODULE StrtolProofs ----------------------------
(***************************************************************************)
(* Proofs about Strtol for a long of every width, in every base: strtol()  *)
(* refuses a digit exactly when the number with it is no long, although it *)
(* never computes that number, so no operation on acc overflows.           *)
(***************************************************************************)
EXTENDS Strtol, TLAPS

Locals == {"s", "c", "acc", "any", "neg", "base", "cutoff", "cutlim", "errno",
           "done", "endptr"}

(* The value and the bounds that the loop keeps from turn to turn.          *)
NumberOK(n) ==
  /\ n = [k \in Locals |-> n[k]]
  /\ n.neg \in BOOLEAN
  /\ n.base \in 2 .. 36
  /\ n.any \in Int
  /\ n.cutoff = cutoff(n.neg, n.base)
  /\ n.cutlim = cutlim(n.neg, n.base)
  /\ n.acc \in IF n.neg THEN LongMin .. 0 ELSE 0 .. LongMax

(* The number with one more digit.                                          *)
Extended(n, v) == n.acc * n.base + (IF n.neg THEN -v ELSE v)

LEMMA Division ==
  ASSUME NEW a \in Nat, NEW b \in Nat, b > 0
  PROVE  /\ a \div b \in Nat
         /\ a % b \in 0 .. b - 1
         /\ a = (a \div b) * b + (a % b)
  BY SMTT(30)

LEMMA Monotonic ==
  ASSUME NEW x \in Int, NEW y \in Int, NEW b \in Nat, x <= y
  PROVE  x * b <= y * b
  BY SMTT(30)

(* Two numbers in a base compare as all digits but the last do, and as the  *)
(* last digits when those are the same.                                     *)
LEMMA Lexicographic ==
  ASSUME NEW b \in Nat, NEW a \in Nat, NEW v \in 0 .. b - 1,
         NEW q \in Nat, NEW r \in 0 .. b - 1
  PROVE  a > q \/ (a = q /\ v > r) <=> a * b + v > q * b + r
<1>1. CASE a < q
  <2>1. (a + 1) * b <= q * b
    BY <1>1, Monotonic
  <2>2. (a + 1) * b = a * b + b
    OBVIOUS
  <2> QED  BY <1>1, <2>1, <2>2
<1>2. CASE a = q
  BY <1>2
<1>3. CASE a > q
  <2>1. (q + 1) * b <= a * b
    BY <1>3, Monotonic
  <2>2. (q + 1) * b = q * b + b
    OBVIOUS
  <2> QED  BY <1>3, <2>1, <2>2
<1> QED  BY <1>1, <1>2, <1>3

(* The cutoff and its last digit are the limit of the sign, split in the    *)
(* base: for a negative number LONG_MIN, whose quotient rounds towards 0.   *)
LEMMA UpperSplit ==
  ASSUME NEW b \in 2 .. 36
  PROVE  \E q \in Nat, r \in 0 .. b - 1 :
           cutoff(FALSE, b) = q /\ cutlim(FALSE, b) = r /\ LongMax = q * b + r
<1> DEFINE q == LongMax \div b
           r == LongMax % b
<1>1. q \in Nat /\ r \in 0 .. b - 1 /\ LongMax = q * b + r
  BY StrtolAssumption, Division
<1>2. Quotient(LongMax, b) = q
  BY StrtolAssumption DEF Quotient
<1> HIDE DEF q, r
<1>3. Remainder(LongMax, b) = r
  BY <1>1, <1>2, StrtolAssumption DEF Remainder
<1>4. cutoff(FALSE, b) = q /\ cutlim(FALSE, b) = r
  BY <1>2, <1>3 DEF cutoff, cutlim
<1> QED  BY <1>1, <1>4

LEMMA LowerSplit ==
  ASSUME NEW b \in 2 .. 36
  PROVE  \E q \in Nat, r \in 0 .. b - 1 :
           cutoff(TRUE, b) = -q /\ cutlim(TRUE, b) = r /\ LongMax + 1 = q * b + r
<1> DEFINE q == (LongMax + 1) \div b
           r == (LongMax + 1) % b
<1>1. q \in Nat /\ r \in 0 .. b - 1 /\ LongMax + 1 = q * b + r
  BY StrtolAssumption, Division
<1>2. LongMin < 0 /\ LongMin = -(LongMax + 1) /\ -LongMin = LongMax + 1
  BY StrtolAssumption DEF LongMin
<1>3. Quotient(LongMin, b) = -q
  BY <1>2 DEF Quotient
<1> HIDE DEF q, r
<1>4. (-q) * b = -(q * b)
  BY <1>1
<1>5. Remainder(LongMin, b) = -r
  BY <1>1, <1>2, <1>3, <1>4 DEF Remainder
<1>6. ~(-r > 0) /\ -(-r) = r
  BY <1>1
<1>7. cutoff(TRUE, b) = -q
  BY <1>3, <1>5, <1>6 DEF cutoff
<1>8. cutlim(TRUE, b) = r
  BY <1>5, <1>6 DEF cutlim
<1> QED  BY <1>1, <1>7, <1>8

-----------------------------------------------------------------------------

(* strtol() calls a number too large before the digit that makes it so, and *)
(* never one that still is a long (strtol.c:125-141).                       *)
THEOREM TooLargeExact ==
  ASSUME NEW n, NumberOK(n), NEW v \in 0 .. n.base - 1
  PROVE  TooLarge(n, v) <=> Extended(n, v) \notin LongMin .. LongMax
<1> DEFINE b == n.base
<1>1. b \in 2 .. 36 /\ v \in 0 .. b - 1
  BY DEF NumberOK
<1>2. LongMax \in Nat /\ LongMin = -(LongMax + 1)
  BY StrtolAssumption DEF LongMin
<1>3. CASE ~n.neg
  <2>1. n.neg = FALSE
    BY <1>3 DEF NumberOK
  <2>2. PICK a \in Nat : n.acc = a
    BY <2>1, <1>2 DEF NumberOK
  <2>3. PICK q \in Nat, r \in 0 .. b - 1 :
               n.cutoff = q /\ n.cutlim = r /\ LongMax = q * b + r
    <3>1. n.cutoff = cutoff(FALSE, b) /\ n.cutlim = cutlim(FALSE, b)
      BY <2>1, Zenon DEF NumberOK
    <3> HIDE DEF b
    <3> QED  BY <1>1, <3>1, UpperSplit
  <2>4. TooLarge(n, v) <=> a > q \/ (a = q /\ v > r)
    BY <2>1, <2>2, <2>3 DEF TooLarge
  <2>5. Extended(n, v) = a * b + v
    BY <2>1, <2>2 DEF Extended
  <2>6. a * b \in Nat
    BY <1>1, <2>2
  <2>7. TooLarge(n, v) <=> a * b + v > LongMax
    BY <1>1, <2>2, <2>3, <2>4, Lexicographic
  <2> QED  BY <1>1, <1>2, <2>5, <2>6, <2>7
<1>4. CASE n.neg
  <2>1. n.neg = TRUE
    BY <1>4 DEF NumberOK
  <2>2. PICK a \in Nat : n.acc = -a
    <3>1. n.acc \in Int /\ n.acc <= 0
      BY <2>1, <1>2 DEF NumberOK
    <3>2. -n.acc \in Nat /\ n.acc = -(-n.acc)
      BY <3>1
    <3> QED  BY <3>2
  <2>3. PICK q \in Nat, r \in 0 .. b - 1 :
               n.cutoff = -q /\ n.cutlim = r /\ LongMax + 1 = q * b + r
    <3>1. n.cutoff = cutoff(TRUE, b) /\ n.cutlim = cutlim(TRUE, b)
      BY <2>1, Zenon DEF NumberOK
    <3> HIDE DEF b
    <3> QED  BY <1>1, <3>1, LowerSplit
  <2>4. TooLarge(n, v) <=> a > q \/ (a = q /\ v > r)
    BY <2>1, <2>2, <2>3 DEF TooLarge
  <2>5. a * b \in Nat /\ (-a) * b = -(a * b)
    BY <1>1, <2>2
  <2>6. Extended(n, v) = -(a * b) - v
    BY <1>1, <2>1, <2>2, <2>5 DEF Extended
  <2>7. TooLarge(n, v) <=> a * b + v > LongMax + 1
    BY <1>1, <2>2, <2>3, <2>4, Lexicographic
  <2> QED  BY <1>1, <1>2, <2>5, <2>6, <2>7
<1> QED  BY <1>3, <1>4

(* A character is worth a digit of some base, or 36.                        *)
LEMMA ValueType == \A c : Value(c) \in 0 .. 36
  BY DEF Value

(* A loop that starts with 0 and the bounds of its sign and base.           *)
LEMMA StartIsLong ==
  ASSUME NEW s, NEW c, NEW neg \in BOOLEAN, NEW b \in 2 .. 36, NEW errno
  PROVE  NumberOK([s |-> s, c |-> c, acc |-> 0, any |-> 0, neg |-> neg, base |-> b,
                   cutoff |-> cutoff(neg, b), cutlim |-> cutlim(neg, b),
                   errno |-> errno, done |-> FALSE, endptr |-> 0])
<1> DEFINE q == cutoff(neg, b)
           r == cutlim(neg, b)
           n == [s |-> s, c |-> c, acc |-> 0, any |-> 0, neg |-> neg, base |-> b,
                 cutoff |-> q, cutlim |-> r, errno |-> errno, done |-> FALSE, endptr |-> 0]
<1>1. 0 \in IF neg THEN LongMin .. 0 ELSE 0 .. LongMax
  BY StrtolAssumption DEF LongMin
<1> HIDE DEF q, r
<1>2. /\ n.neg = neg /\ n.base = b /\ n.any = 0 /\ n.acc = 0
      /\ n.cutoff = q /\ n.cutlim = r
  OBVIOUS
<1>3. n = [k \in Locals |-> n[k]]
  BY DEF Locals
<1> HIDE DEF n
<1>4. n.any \in Int
  BY <1>2
<1>5. NumberOK(n)
  BY <1>1, <1>2, <1>3, <1>4, Zenon DEF NumberOK, q, r
<1> QED  BY <1>5 DEF n, q, r

(* Every valid base starts the loop with 0 and its bounds, and one that is  *)
(* not ends the call at once (strtol.c:54-113).                             *)
THEOREM BeginIsLong ==
  ASSUME NEW str, NEW base \in Int, NEW errno
  PROVE  Begin(str, base, errno).done \/ NumberOK(Begin(str, base, errno))
<1>1. CASE base < 0 \/ base = 1 \/ base > 36
  BY <1>1 DEF Begin
<1>2. CASE ~(base < 0 \/ base = 1 \/ base > 36)
  <2> DEFINE first == CHOOSE k \in DOMAIN str : k >= 0 /\ str[k] # " "
                                                /\ \A q \in 0 .. k - 1 : str[q] = " "
             neg == str[first] = "-"
             s == IF str[first] \in {"-", "+"} THEN first + 1 ELSE first
             hex == base \in {0, 16} /\ str[s] = "0" /\ str[s+1] = "x"
             at == IF hex THEN s + 2 ELSE s
             b == CASE hex -> 16
                    [] ~hex /\ base = 0 -> IF str[at] = "0" THEN 8 ELSE 10
                    [] OTHER -> base
  <2>1. Begin(str, base, errno)
          = [s |-> at + 1, c |-> str[at], acc |-> 0, any |-> 0, neg |-> neg, base |-> b,
             cutoff |-> cutoff(neg, b), cutlim |-> cutlim(neg, b),
             errno |-> errno, done |-> FALSE, endptr |-> 0]
    BY <1>2, Zenon DEF Begin
  <2>2. neg \in BOOLEAN
    OBVIOUS
  <2> HIDE DEF neg, hex, at
  <2>3. b \in 2 .. 36
    BY <1>2
  <2> HIDE DEF b
  <2> QED  BY <2>1, <2>2, <2>3, StartIsLong, Zenon
<1> QED  BY <1>1, <1>2

(* What setting one local does to the others.                               *)
LEMMA SetField ==
  ASSUME NEW n, n = [k \in Locals |-> n[k]], NEW f \in Locals, NEW x
  PROVE  LET m == [n EXCEPT ![f] = x]
         IN  /\ m = [k \in Locals |-> m[k]]
             /\ m[f] = x
             /\ \A k \in Locals \ {f} : m[k] = n[k]
<1>1. DOMAIN n = Locals
  OBVIOUS
<1> QED  BY <1>1

(* Where strtol() reads, errno and the end do not matter to the number.     *)
LEMMA SetOther ==
  ASSUME NEW n, NumberOK(n), NEW f \in {"s", "c", "errno", "done", "endptr"}, NEW x
  PROVE  /\ NumberOK([n EXCEPT ![f] = x])
         /\ [n EXCEPT ![f] = x].neg = n.neg
<1> DEFINE m == [n EXCEPT ![f] = x]
<1>1. n = [k \in Locals |-> n[k]] /\ f \in Locals
  BY DEF NumberOK, Locals
<1>2. m = [k \in Locals |-> m[k]] /\ \A k \in Locals \ {f} : m[k] = n[k]
  BY <1>1, SetField
<1> HIDE DEF m
<1>3. /\ m.neg = n.neg /\ m.base = n.base /\ m.any = n.any /\ m.acc = n.acc
      /\ m.cutoff = n.cutoff /\ m.cutlim = n.cutlim
  BY <1>2 DEF Locals
<1>4. NumberOK(m)
  BY <1>2, <1>3, Zenon DEF NumberOK
<1> QED  BY <1>3, <1>4 DEF m

(* acc may be set to any long of the sign.                                  *)
LEMMA SetNumber ==
  ASSUME NEW n, NumberOK(n), NEW y \in Int,
         NEW a \in IF n.neg THEN LongMin .. 0 ELSE 0 .. LongMax
  PROVE  NumberOK([n EXCEPT !.any = y, !.acc = a])
<1> DEFINE l == [n EXCEPT !.any = y]
           m == [l EXCEPT !.acc = a]
<1>1. n = [k \in Locals |-> n[k]] /\ "any" \in Locals /\ "acc" \in Locals
  BY DEF NumberOK, Locals
<1>2. l = [k \in Locals |-> l[k]] /\ l["any"] = y /\ \A k \in Locals \ {"any"} : l[k] = n[k]
  BY <1>1, SetField
<1> HIDE DEF l
<1>3. m = [k \in Locals |-> m[k]] /\ m["acc"] = a /\ \A k \in Locals \ {"acc"} : m[k] = l[k]
  BY <1>1, <1>2, SetField
<1> HIDE DEF m
<1>4. /\ m.neg = n.neg /\ m.base = n.base /\ m.any = y /\ m.acc = a
      /\ m.cutoff = n.cutoff /\ m.cutlim = n.cutlim
  BY <1>2, <1>3 DEF Locals
<1>5. NumberOK(m)
  BY <1>3, <1>4, Zenon DEF NumberOK
<1> QED  BY <1>5 DEF m, l

(* The number keeps its sign as it gets longer.                             *)
LEMMA ExtendedSign ==
  ASSUME NEW n, NumberOK(n), NEW v \in Nat
  PROVE  /\ Extended(n, v) \in Int
         /\ IF n.neg THEN Extended(n, v) <= 0 ELSE Extended(n, v) >= 0
<1>1. LongMin \in Int /\ LongMax \in Nat
  BY StrtolAssumption DEF LongMin
<1>2. n.base \in 2 .. 36 /\ n.acc \in IF n.neg THEN LongMin .. 0 ELSE 0 .. LongMax
  BY Zenon DEF NumberOK
<1>3. CASE n.neg
  <2>1. PICK a \in Int : n.acc = a /\ a <= 0
    BY <1>1, <1>2, <1>3
  <2>2. PICK b \in Nat : n.base = b
    BY <1>2
  <2>3. a * b <= 0 * b
    BY <2>1, Monotonic
  <2> QED  BY <1>3, <2>1, <2>2, <2>3 DEF Extended
<1>4. CASE ~n.neg
  <2>1. PICK a \in Nat : n.acc = a
    BY <1>1, <1>2, <1>4
  <2>2. PICK b \in Nat : n.base = b
    BY <1>2
  <2>3. a * b \in Nat
    OBVIOUS
  <2> QED  BY <1>4, <2>1, <2>2, <2>3 DEF Extended
<1> QED  BY <1>3, <1>4

(* A turn of the loop leaves acc a long of the sign read, whether it takes  *)
(* the digit or sets acc to the limit (strtol.c:114-146).                   *)
THEOREM TurnKeepsLong ==
  ASSUME NEW str, NEW n, NumberOK(n)
  PROVE  NumberOK(Turn(str, n))
<1> DEFINE v == Value(n.c)
           next == [n EXCEPT !.c = str[n.s]]
           m == [next EXCEPT !.s = n.s + 1]
<1>1. v \in 0 .. 36 /\ n.base \in 2 .. 36 /\ LongMin \in Int /\ LongMin < 0
  BY ValueType, StrtolAssumption DEF NumberOK, LongMin
<1>2. NumberOK(m) /\ m.neg = n.neg
  <2>1. NumberOK(next) /\ next.neg = n.neg
    BY SetOther
  <2> HIDE DEF next
  <2> QED  BY <2>1, SetOther
<1>3. CASE v >= n.base
  <2> DEFINE last == [n EXCEPT !.done = TRUE]
             end == IF n.any # 0 THEN n.s - 1 ELSE 0
  <2>1. Turn(str, n) = [last EXCEPT !.endptr = end]
    BY <1>3, Zenon DEF Turn
  <2>2. NumberOK(last)
    BY SetOther
  <2> HIDE DEF last, end
  <2> QED  BY <2>1, <2>2, SetOther
<1>4. CASE ~(v >= n.base) /\ n.any < 0
  <2>1. Turn(str, n) = m
    BY <1>4, Zenon DEF Turn
  <2> QED  BY <1>2, <2>1, Zenon
<1>5. CASE ~(v >= n.base) /\ ~(n.any < 0) /\ TooLarge(n, v)
  <2> DEFINE limit == IF n.neg THEN LongMin ELSE LongMax
             l == [m EXCEPT !.any = -1, !.acc = limit]
  <2>1. Turn(str, n) = [l EXCEPT !.errno = "ERANGE"]
    BY <1>5, Zenon DEF Turn
  <2> HIDE DEF m
  <2>2. limit \in IF m.neg THEN LongMin .. 0 ELSE 0 .. LongMax
    BY <1>1, <1>2, StrtolAssumption
  <2> HIDE DEF limit
  <2>3. -1 \in Int
    OBVIOUS
  <2>4. NumberOK(l)
    BY <1>2, <2>2, <2>3, SetNumber, Zenon
  <2> HIDE DEF l
  <2> QED  BY <2>1, <2>4, SetOther
<1>6. CASE ~(v >= n.base) /\ ~(n.any < 0) /\ ~TooLarge(n, v)
  <2> DEFINE longer == Extended(n, v)
             l == [m EXCEPT !.any = 1, !.acc = longer]
  <2>1. Turn(str, n) = l
    BY <1>6, Zenon DEF Turn, Extended
  <2> HIDE DEF v
  <2>2. v \in Nat /\ v \in 0 .. n.base - 1
    BY <1>1, <1>6
  <2>3. longer \in LongMin .. LongMax
    BY <1>6, <2>2, TooLargeExact
  <2> HIDE DEF m
  <2>4. longer \in IF m.neg THEN LongMin .. 0 ELSE 0 .. LongMax
    BY <1>1, <1>2, <2>2, <2>3, ExtendedSign, StrtolAssumption
  <2> HIDE DEF longer
  <2>5. 1 \in Int
    OBVIOUS
  <2>6. NumberOK(l)
    BY <1>2, <2>4, <2>5, SetNumber, Zenon
  <2> HIDE DEF l
  <2> QED  BY <2>1, <2>6
<1> QED  BY <1>3, <1>4, <1>5, <1>6

=============================================================================
