-------------------------------- MODULE Printf -----------------------------
(***************************************************************************)
(* snprintf(): printf_core() of src/nolibc/vfprintf.c, which goes twice    *)
(* through the format, once to learn the types of the arguments named by   *)
(* position and once to print, under vsnprintf() of src/nolibc/vsnprintf.c, *)
(* which keeps what fits into a buffer.                                    *)
(*                                                                         *)
(* A format is a sequence of items, each a run of characters ("%%" stands  *)
(* for "%") or a conversion:                                               *)
(*   pos          the argument it names, %2$d, or 0                        *)
(*   fl           its flags                                                *)
(*   w, p         width and precision: absent, a number, the next argument *)
(*                (an asterisk) or the nth one, as in *2$                 *)
(*   len, t       length modifier and conversion                           *)
(***************************************************************************)
EXTENDS FmtFp

CONSTANTS
  NlArgMax,       (* NL_ARGMAX: 9                                           *)
  IntBits,        (* of int, char and uintmax_t: 32, 8 and 64               *)
  CharBits,
  MaxBits,
  Unset,          (* what no statement has written                         *)
  Nul,            (* the character that ends a string                      *)
  Calls           (* the calls to check, [fmt, args, n, ...], in some sets   *)

IntMax == 2^(IntBits - 1) - 1

Text(chars) == [kind |-> "text", chars |-> chars]
Conversion(pos, fl, w, p, len, t) ==
  [kind |-> "conv", pos |-> pos, fl |-> fl, w |-> w, p |-> p, len |-> len, t |-> t]
Absent == [by |-> "absent", n |-> 0]
Number(n) == [by |-> "number", n |-> n]
Star == [by |-> "next", n |-> 0]
StarNth(n) == [by |-> "nth", n |-> n]

(***************************************************************************)
(* The table of states: the type of the argument of a conversion.          *)
(***************************************************************************)
Signed == [bare |-> "INT", hh |-> "CHAR", j |-> "IMAX"]
Unsigned == [bare |-> "UINT", hh |-> "UCHAR", j |-> "UMAX"]

states(len, t) ==
  CASE t = "d" -> Signed[len]
    [] t \in {"u", "o", "x"} -> Unsigned[len]
    [] t = "n" -> "PTR"
    [] len = "bare" /\ t = "c" -> "CHAR"
    [] len = "bare" /\ t = "s" -> "PTR"
    [] len = "bare" /\ t \in {"e", "f", "g"} -> "DBL"
    [] len = "bare" /\ t = "m" -> "NOARG"
    [] OTHER -> "none"

(* What pop_arg() makes of the argument v: arg.i is an uintmax_t.           *)
pop_arg(type, v) ==
  LET low == v % 2^CharBits
      wide(n) == n % 2^MaxBits
  IN  CASE type \in {"INT", "IMAX", "UMAX"} -> wide(v)
        [] type = "UINT" -> v % 2^IntBits
        [] type = "CHAR" -> wide(IF low < 2^(CharBits - 1) THEN low ELSE low - 2^CharBits)
        [] type = "UCHAR" -> low
        [] OTHER -> v

AsInt(x) == IF x < 2^(MaxBits - 1) THEN x ELSE x - 2^MaxBits

(* getint() of a number in the format.  Its overflow is undefined: the int  *)
(* wraps around.                                                            *)
getint(n) ==
  LET low == n % 2^IntBits
  IN  IF low <= IntMax THEN low ELSE low - 2^IntBits

(***************************************************************************)
(* The texts of the conversions.                                           *)
(***************************************************************************)
Chr(x) == IF x % 2^CharBits = 0 THEN Nul ELSE DigitChars[(x % 2^CharBits) + 1]

IntegerField(c, x, w, p, fl) ==
  LET neg == c.t = "d" /\ x > 2^(MaxBits - 1) - 1
      a == CASE c.t = "x" -> fmt_x(x)
             [] c.t = "o" -> fmt_o(x)
             [] OTHER -> fmt_u(IF neg THEN 2^MaxBits - x ELSE x)
      prefix == CASE c.t = "d" -> Sign(neg, fl)
                  [] c.t = "x" /\ x # 0 /\ "#" \in fl -> <<"0", "x">>
                  [] OTHER -> <<>>
      p1 == IF c.t = "o" /\ "#" \in fl THEN Most(p, Len(a) + 1) ELSE p
      p2 == IF x = 0 /\ p1 = 0 THEN 0 ELSE Most(p1, Len(a) + (IF x = 0 THEN 1 ELSE 0))
  IN  Laid(prefix, ZeroPadded(a, p2), w, IF p1 >= 0 THEN fl \ {"0"} ELSE fl)

strerror(e) == IF e = "EOVERFLOW" THEN <<"E", "O">> ELSE <<"O", "K">>
NullText == <<"(", "n", "u", "l", "l", ")">>

StringField(a, w, p, fl) ==
  LET n == IF p >= 0 /\ p < Len(a) THEN p ELSE Len(a)
  IN  Laid(<<>>, SubSeq(a, 1, n), w, fl \ {"0"})

(* The text of a conversion of the argument arg when errno is e.            *)
FieldOf(c, arg, w, p, fl0, e) ==
  LET fl == IF "-" \in fl0 THEN fl0 \ {"0"} ELSE fl0
  IN  CASE c.t \in {"d", "u", "o", "x"} -> IntegerField(c, arg, w, p, fl)
        [] c.t = "c" -> Laid(<<>>, <<Chr(arg)>>, w, fl \ {"0"})
        [] c.t = "s" -> StringField(IF arg = Unset THEN NullText ELSE arg, w, p, fl)
        [] c.t = "m" -> StringField(strerror(e), w, p, fl)
        [] OTHER -> fmt_fp(arg.x, arg.neg, w, p, fl, c.t, arg.junk)

(***************************************************************************)
(* The state of a call.                                                    *)
(***************************************************************************)
VARIABLES
  call,           (* what was asked for                                    *)
  pc,             (* where snprintf() is                                   *)
  i,              (* the next item of the format: s in the source          *)
  cnt, l,         (* characters printed, and those of the last item        *)
  l10n,           (* an argument was named by its position                 *)
  nl_type, nl_arg,
  ap,             (* the number of the next argument                       *)
  wpos, wend,     (* the rest of the buffer                                *)
  mem,            (* the characters of the buffer, at 0 and after it, and  *)
                  (* of b, at -1                                           *)
  stored,         (* what %n wrote                                         *)
  errno,
  ret             (* what snprintf() returned                              *)

formatVars == <<i, cnt, l, l10n, nl_type, nl_arg, ap>>
bufferVars == <<wpos, wend, mem>>
printfVars == <<call, pc, formatVars, bufferVars, stored, errno, ret>>

PrintfInit ==
  /\ \E k \in DOMAIN Calls : call \in Calls[k]
  /\ pc = "vsnprintf"
  /\ i = 1 /\ cnt = 0 /\ l = 0 /\ l10n = FALSE
  /\ nl_type = [k \in 0 .. NlArgMax |-> "none"]
  /\ nl_arg = [k \in 0 .. NlArgMax |-> Unset]
  /\ ap = 1
  /\ wpos = 0 /\ wend = 0 /\ mem = [a \in -1 .. IntMax |-> Unset]
  /\ stored = Unset
  /\ errno = "0" /\ ret = Unset

(***************************************************************************)
(* The steps.                                                              *)
(***************************************************************************)
Printing == pc = "pass2"
Item == call.fmt[i]
AtItem(kind) == pc \in {"pass1", "pass2"} /\ i <= Len(call.fmt) /\ Item.kind = kind
AtEnd == i > Len(call.fmt)

(* Update output count.                                                     *)
Overflows == cnt >= 0 /\ l > IntMax - cnt
Counted == CASE cnt < 0 -> cnt
             [] Overflows -> -1
             [] OTHER -> cnt + l
CountedErrno == IF Overflows THEN "EOVERFLOW" ELSE errno

(* sn_write(): what fits into the buffer.                                   *)
sn_write(text) ==
  LET k == Least(wend - wpos, Len(text))
  IN  /\ mem' = [a \in DOMAIN mem |-> IF a \in wpos .. wpos + k - 1 THEN text[a - wpos + 1]
                                      ELSE mem[a]]
      /\ wpos' = wpos + k
      /\ UNCHANGED wend

Out(text) == IF Printing THEN sn_write(text) ELSE UNCHANGED bufferVars

(* A mutant: the 0 always goes after the last character.                    *)
OverrunningTerminated == [mem EXCEPT ![wpos] = Nul]

(* The end of vsnprintf(): the terminating 0, over the last character if the *)
(* buffer is full.                                                          *)
Terminated == [mem EXCEPT ![wpos - (IF wpos = wend THEN 1 ELSE 0)] = Nul]

Finish(result) ==
  /\ pc' = "done" /\ ret' = result
  /\ mem' = Terminated
  /\ UNCHANGED <<wpos, wend>>

vsnprintf ==
  /\ pc = "vsnprintf"
  /\ IF call.n > IntMax
     THEN /\ pc' = "done" /\ errno' = "EOVERFLOW" /\ ret' = -1
          /\ UNCHANGED bufferVars
     ELSE /\ pc' = "pass1"
          /\ wpos' = (IF call.n = 0 THEN -1 ELSE 0) /\ wend' = call.n
          /\ UNCHANGED <<mem, errno, ret>>
  /\ UNCHANGED <<call, formatVars, stored>>

TextItem ==
  /\ AtItem("text")
  /\ cnt' = Counted /\ errno' = CountedErrno
  /\ Out(Item.chars)
  /\ l' = Len(Item.chars)
  /\ i' = i + 1
  /\ UNCHANGED <<call, pc, l10n, nl_type, nl_arg, ap, stored, ret>>

(* What a conversion reads before it is printed: its width and precision,   *)
(* maybe from arguments, and its own argument.  The first pass takes no     *)
(* argument: what it reads from nl_arg does not matter yet.                 *)
Read(c) ==
  LET Wide(x) == IF x = Unset THEN 0 ELSE AsInt(x)
      Value(spec, at) ==
        CASE spec.by = "next" -> IF Printing THEN call.args[at] ELSE 0
          [] spec.by = "nth" -> Wide(nl_arg[spec.n])
          [] OTHER -> getint(spec.n)
      taken(spec) == IF spec.by = "next" /\ Printing THEN 1 ELSE 0
      named == {spec \in {c.w, c.p} : spec.by = "nth"}
      byPos1 == l10n \/ c.pos # 0
      byPos2 == byPos1 \/ c.w.by = "nth"
      w == Value(c.w, ap)
      asked == c.w.by # "number"
      st == states(c.len, c.t)
      at == ap + taken(c.w) + taken(c.p)
  IN  [ok |-> /\ ~(c.w.by = "next" /\ byPos1)
              /\ ~(c.p.by = "next" /\ byPos2)
              /\ st # "none"
              /\ ~(st = "NOARG" /\ c.pos # 0),
       st |-> st,
       fl |-> IF asked /\ w < 0 THEN c.fl \cup {"-"} ELSE c.fl,
       w |-> IF asked /\ w < 0 THEN -w ELSE w,
       p |-> IF c.p.by = "absent" THEN -1 ELSE Value(c.p, ap + taken(c.w)),
       l10n |-> byPos2,
       at |-> at,
       own |-> st # "NOARG" /\ c.pos = 0,
       nl_type |-> [k \in 0 .. NlArgMax |->
                      CASE k = c.pos /\ k # 0 -> st
                        [] (k # c.pos \/ k = 0) /\ \E spec \in named : spec.n = k -> "INT"
                        [] OTHER -> nl_type[k]]]

(* getint() < 0 after an overflow: a compiler that knows isdigit() drops     *)
(* the test, and the negative width pads nothing; another keeps it.          *)
MayRefuseWidth(c) == c.w.by = "number" /\ getint(c.w.n) < 0

BadItem ==
  /\ AtItem("conv")
  /\ ~Read(Item).ok \/ MayRefuseWidth(Item)
  /\ errno' = CountedErrno
  /\ Finish(-1)
  /\ UNCHANGED <<call, formatVars, stored>>

(* A conversion in the first pass; one with an argument of no position ends *)
(* the pass, as return 0 does.                                              *)
FirstPassOf(read) ==
  /\ errno' = CountedErrno
  /\ nl_type' = read.nl_type
  /\ IF read.own
     THEN /\ pc' = "pass2" /\ i' = 1 /\ cnt' = 0 /\ l' = 0 /\ l10n' = FALSE
     ELSE /\ cnt' = Counted /\ l' = 0 /\ l10n' = read.l10n /\ i' = i + 1
          /\ UNCHANGED pc
  /\ UNCHANGED <<call, nl_arg, ap, bufferVars, stored, ret>>

FirstPassItem ==
  /\ AtItem("conv") /\ pc = "pass1" /\ Read(Item).ok
  /\ FirstPassOf(Read(Item))

(* The end of the first pass: the arguments that are named by position are  *)
(* taken, up to the first that is not; there must be none after it.         *)
Named == {k \in 1 .. NlArgMax : nl_type[k] # "none"}
Leading == {k \in Named : 1 .. k \subseteq Named}

Popped ==
  [k \in 0 .. NlArgMax |->
     IF k \in Leading THEN pop_arg(nl_type[k], call.args[k]) ELSE nl_arg[k]]

FirstPassEnd ==
  /\ pc = "pass1" /\ AtEnd
  /\ errno' = CountedErrno
  /\ IF l10n THEN nl_arg' = Popped /\ ap' = ap + Cardinality(Leading)
              ELSE UNCHANGED <<nl_arg, ap>>
  /\ IF l10n /\ Named # Leading
     THEN Finish(-1) /\ UNCHANGED <<i, cnt, l, l10n>>
     ELSE /\ pc' = "pass2" /\ i' = 1 /\ cnt' = 0 /\ l' = 0 /\ l10n' = FALSE
          /\ UNCHANGED <<bufferVars, ret>>
  /\ UNCHANGED <<call, nl_type, stored>>

(* %n stores the count in an int or an unsigned char.                       *)
StoreCount ==
  /\ stored' = (IF Item.len = "hh" THEN Counted % 2^CharBits ELSE Counted)
  /\ l' = 0
  /\ UNCHANGED bufferVars

Put(field) == sn_write(field) /\ l' = Len(field) /\ UNCHANGED stored

(* The argument of a conversion.                                            *)
Argument(read) ==
  CASE read.st = "NOARG" -> Unset
    [] Item.pos # 0 -> nl_arg[Item.pos]
    [] OTHER -> pop_arg(read.st, call.args[read.at])

SecondPassOf(read) ==
  /\ errno' = CountedErrno
  /\ cnt' = Counted
  /\ nl_type' = read.nl_type /\ l10n' = read.l10n
  /\ ap' = read.at + (IF read.own THEN 1 ELSE 0)
  /\ i' = i + 1
  /\ IF Item.t = "n" THEN StoreCount
     ELSE Put(FieldOf(Item, Argument(read), read.w, read.p, read.fl, CountedErrno))
  /\ UNCHANGED <<call, pc, nl_arg, ret>>

SecondPassItem ==
  /\ AtItem("conv") /\ Printing /\ Read(Item).ok
  /\ SecondPassOf(Read(Item))

SecondPassEnd ==
  /\ Printing /\ AtEnd
  /\ errno' = CountedErrno
  /\ Finish(Counted)
  /\ UNCHANGED <<call, formatVars, stored>>

=============================================================================
