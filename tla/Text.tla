--------------------------------- MODULE Text ------------------------------
(***************************************************************************)
(* Text made by snprintf() and read back by strtol(): a program prints     *)
(* into a buffer and converts what it finds there, in the bases of its     *)
(* call.  errno is the same variable for both.                             *)
(***************************************************************************)
EXTENDS Printf, Strtol, PrintfSpec

VARIABLES
  number,         (* the call of strtol(), or Unset                        *)
  before          (* the base and errno it was called with                 *)

vars == <<printfVars, number, before>>

Init == PrintfInit /\ number = Unset /\ before = Unset

HasText == ret >= 0 /\ call.n > 0

Parse ==
  /\ pc = "done" /\ number = Unset /\ HasText
  /\ \E base \in call.bases :
       /\ number' = Begin(mem, base, errno)
       /\ errno' = number'.errno
       /\ before' = [base |-> base, errno |-> errno]
  /\ UNCHANGED <<call, pc, formatVars, bufferVars, stored, ret>>

Digit ==
  /\ number # Unset
  /\ ~number.done
  /\ number' = Turn(mem, number)
  /\ errno' = number'.errno
  /\ UNCHANGED <<call, pc, formatVars, bufferVars, stored, ret, before>>

Done ==
  /\ pc = "done"
  /\ IF number = Unset THEN ~HasText \/ call.bases = {} ELSE number.done
  /\ UNCHANGED vars

NotParsing == UNCHANGED <<number, before>>

Next ==
  \/ vsnprintf /\ NotParsing
  \/ TextItem /\ NotParsing
  \/ BadItem /\ NotParsing
  \/ FirstPassItem /\ NotParsing
  \/ FirstPassEnd /\ NotParsing
  \/ SecondPassItem /\ NotParsing
  \/ SecondPassEnd /\ NotParsing
  \/ Parse \/ Digit \/ Done

Spec == Init /\ [][Next]_vars

(***************************************************************************)
(* What a call should print.                                               *)
(***************************************************************************)
Uses(c) ==
  (IF c.kind = "conv" /\ c.w.by = "next" THEN 1 ELSE 0)
  + (IF c.kind = "conv" /\ c.p.by = "next" THEN 1 ELSE 0)
  + (IF c.kind = "conv" /\ c.pos = 0 /\ c.t # "m" THEN 1 ELSE 0)
UsedBefore[k \in Nat] == IF k <= 1 THEN 0 ELSE UsedBefore[k - 1] + Uses(call.fmt[k - 1])

(* Item k with the numbers and the argument it stands for.                  *)
Resolved(k) ==
  LET c == call.fmt[k]
      first == UsedBefore[k] + 1
      Of(spec, at) == CASE spec.by = "next" -> call.args[at]
                        [] spec.by = "nth" -> call.args[spec.n]
                        [] OTHER -> spec.n
      w == Of(c.w, first)
      p == IF c.p.by = "absent" THEN -1
           ELSE Of(c.p, first + (IF c.w.by = "next" THEN 1 ELSE 0))
      own == IF c.pos # 0 THEN c.pos ELSE first + Uses(c) - 1
  IN  [left |-> "-" \in c.fl \/ w < 0, w |-> IF w < 0 THEN -w ELSE w, p |-> p,
       v |-> IF c.t = "m" THEN Unset ELSE call.args[own]]

SignedValue(len, v) ==
  LET low == v % 2^CharBits
  IN  IF len # "hh" THEN v ELSE IF low < 2^(CharBits - 1) THEN low ELSE low - 2^CharBits
UnsignedValue(len, v) ==
  v % 2^(CASE len = "hh" -> CharBits [] len = "bare" -> IntBits [] OTHER -> MaxBits)

(* The digits of an integer: none for a 0 of precision 0.                   *)
DigitsOf(x, base, p) ==
  IF x = 0 /\ p = 0 THEN <<>> ELSE AtLeast(x, base, Most(p, IF x = 0 THEN 1 ELSE 0))

(* The alternate form of an octal number has a precision: the zero it       *)
(* starts with.                                                             *)
OctalText(x, p, alt) ==
  LET text == DigitsOf(x, 8, p)
  IN  IF alt /\ (text = <<>> \/ text[1] # "0") THEN <<"0">> \o text ELSE text

SignOf(neg, fl) == IF neg THEN <<"-">> ELSE IF "+" \in fl THEN <<"+">>
                   ELSE IF " " \in fl THEN <<" ">> ELSE <<>>
SignedText(c, r, d) ==
  InField(SignOf(d < 0, c.fl), DigitsOf(IF d < 0 THEN -d ELSE d, 10, r.p), r.w, r.left,
          "0" \in c.fl /\ r.p < 0)
UnsignedText(c, r, x) ==
  LET alt == "#" \in c.fl
      zero == "0" \in c.fl /\ r.p < 0
  IN  CASE c.t = "u" -> InField(<<>>, DigitsOf(x, 10, r.p), r.w, r.left, zero)
        [] c.t = "o" -> InField(<<>>, OctalText(x, r.p, alt), r.w, r.left, zero /\ ~alt)
        [] OTHER -> InField(IF alt /\ x # 0 THEN <<"0", "x">> ELSE <<>>,
                            DigitsOf(x, 16, r.p), r.w, r.left, zero)
CharsText(r, chars) ==
  InField(<<>>, SubSeq(chars, 1, IF r.p < 0 THEN Len(chars) ELSE Least(r.p, Len(chars))),
          r.w, r.left, FALSE)

FieldText(c, r) ==
  CASE c.t = "d" -> SignedText(c, r, SignedValue(c.len, r.v))
    [] c.t \in {"u", "o", "x"} -> UnsignedText(c, r, UnsignedValue(c.len, r.v))
    [] c.t = "c" -> InField(<<>>, <<Chr(r.v)>>, r.w, r.left, FALSE)
    [] c.t = "m" -> CharsText(r, strerror("0"))
    [] c.t = "s" -> CharsText(r, IF r.v = Unset THEN NullText ELSE r.v)
    [] OTHER -> <<>>

TextOf(k) == IF call.fmt[k].kind = "text" THEN call.fmt[k].chars ELSE FieldText(call.fmt[k], Resolved(k))
FirstTexts(k) == FlattenSeq([q \in 1 .. k |-> TextOf(q)])

(***************************************************************************)
(* Properties.                                                             *)
(***************************************************************************)
Convs == {call.fmt[k] : k \in {q \in DOMAIN call.fmt : call.fmt[q].kind = "conv"}}
Fps == {c \in Convs : c.t \in {"e", "f", "g"}}
Positions == {c.pos : c \in Convs} \cup {s.n : s \in {q \in UNION {{c.w, c.p} : c \in Convs} : q.by = "nth"}}

(* What the code says it refuses: an unknown conversion, %m of an argument, *)
(* arguments named by position with a gap.                                  *)
Malformed ==
  \/ \E c \in Convs : states(c.len, c.t) = "none" \/ (c.t = "m" /\ c.pos # 0)
  \/ Positions \ {0} # 1 .. Cardinality(Positions \ {0})

(* A width or a precision that is no int.                                   *)
Oversized ==
  \E spec \in UNION {{c.w, c.p} : c \in Convs} : spec.by = "number" /\ spec.n > IntMax

(* Nothing was written after the buffer, and a string ends inside of it.    *)
Contained ==
  /\ call.n > 0 => \E a \in 0 .. call.n - 1 : mem[a] = Nul
  /\ \A a \in call.n .. IntMax : mem[a] = Unset

(* The buffer holds the first characters of the text that fit into it and a *)
(* 0, and nothing was written after that.                                   *)
Holds(text) ==
  LET end == Least(Len(text), call.n - 1)
  IN  \A a \in 0 .. IntMax :
        mem[a] = CASE call.n > 0 /\ a < end -> text[a + 1]
                   [] call.n > 0 /\ a = end -> Nul
                   [] OTHER -> Unset

(* Snprintf: whatever its size, the buffer ends up with the part of the     *)
(* text that fits and a terminator inside of it, every conversion prints    *)
(* the argument it names, by order or by position, as its flags, width and  *)
(* precision say, and the result is the length of the whole text, or -1     *)
(* with EOVERFLOW if that is no int; %n stores the length so far.  Of a     *)
(* width or precision that is no int it only says where the buffer ends.    *)
SnprintfExact ==
  (pc = "done" /\ Fps = {}) =>
    LET all == FirstTexts(Len(call.fmt))
        counts == {k \in DOMAIN call.fmt : call.fmt[k].kind = "conv" /\ call.fmt[k].t = "n"}
    IN  CASE call.n > IntMax ->
               ret = -1 /\ (\A a \in DOMAIN mem : mem[a] = Unset)
                 /\ errno = "EOVERFLOW"
          [] call.n <= IntMax /\ (Malformed \/ Oversized) ->
               Contained /\ (Malformed => ret = -1)
          [] OTHER ->
               /\ Holds(all)
               /\ ret = (IF Len(all) > IntMax THEN -1 ELSE Len(all))
               /\ (number = Unset) => errno = (IF Len(all) > IntMax THEN "EOVERFLOW" ELSE "0")
               /\ \A k \in counts :
                    LET far == Len(FirstTexts(k - 1))
                    IN  (far <= IntMax /\ \A q \in counts : q <= k) =>
                          stored = (IF call.fmt[k].len = "hh" THEN far % 2^CharBits ELSE far)

(* The texts a call that prints one double may leave.                       *)
Bodies(c, r, tol) ==
  IF r.v.x = Inf THEN {<<"i", "n", "f">>}
  ELSE DecimalTexts(Mant(r.v.x), Exp2(r.v.x), c.t, Precision(r.p), "#" \in c.fl, LeastFixed, tol)
FpTexts(c, r, tol) ==
  {InField(SignOf(r.v.neg, c.fl), b, r.w, r.left, "0" \in c.fl /\ r.v.x # Inf) :
     b \in Bodies(c, r, tol)}

PrintsOneOf(texts) == \E text \in texts : ret = Len(text) /\ Holds(text)

PrintedDouble == pc = "done" /\ Fps # {} /\ Len(call.fmt) = 1 /\ ~Oversized

Exactly == [some |-> FALSE, limb |-> LimbDigits, parts |-> 1]

(* Two rounding errors of fmt_fp(): a middle whose last digit ends a limb   *)
(* is not rounded to even, and what is past the middle only by what was     *)
(* dropped as not needed is taken for the middle.                           *)
Nearly == [some |-> TRUE, limb |-> LimbDigits, parts |-> 10^(P \div 3) \div 40]

(* A double printed with %f, %e or %g is the decimal number of the asked    *)
(* precision that is nearest to it, an even one of two, in the right style. *)
FpExact == PrintedDouble => PrintsOneOf(FpTexts(call.fmt[1], Resolved(1), Exactly))

(* The same, but for the two rounding errors; and no limb outside of the    *)
(* array that fmt_fp() declares is used (src/nolibc/vfprintf.c:210).        *)
FpNearlyExact ==
  PrintedDouble =>
    /\ PrintsOneOf(FpTexts(call.fmt[1], Resolved(1), Nearly))
    /\ LET r == Resolved(1)
       IN  r.v.x = Inf \/ LimbsOf(r.v.x, r.p, call.fmt[1].t, r.v.junk).ok

(* strtol() returns the number its text starts with, in the base asked for  *)
(* or the one the text shows, saturated with ERANGE at the bounds of a long *)
(* and never beyond them on the way there, and where the number ends; errno *)
(* is left alone otherwise.  For a 0x before no digit it is silent on where *)
(* the number ends.                                                         *)
StrtolExact ==
  number # Unset =>
    /\ number.acc \in LongMin .. LongMax
    /\ number.done =>
         IF before.base < 0 \/ before.base = 1 \/ before.base > 36
         THEN number.acc = 0 /\ number.endptr = 0 /\ errno = "EINVAL"
         ELSE LET x == Numbered(mem, before.base)
              IN  /\ number.acc = x.value
                  /\ number.endptr = x.endptr \/ x.bare
                  /\ errno = (IF x.range THEN "ERANGE" ELSE before.errno)

=============================================================================
