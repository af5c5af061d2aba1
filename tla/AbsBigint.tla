----------------------------- MODULE AbsBigint -----------------------------
(***************************************************************************)
(* What the big integers of dtoa.c promise to strtod(): natural numbers of *)
(* any size behind handles, that no operation but their own changes.       *)
(***************************************************************************)
EXTENDS Integers

CONSTANTS
  Handles,     (* the handles there are                                     *)
  Constants,   (* the numbers that can be made from nothing                 *)
  Factors, Addends,   (* what a number is multiplied by, and what added     *)
  Powers, Shifts,     (* the exponents of 5 and of 2                        *)
  MaxValue            (* bound: operations only on numbers up to this one   *)

VARIABLES
  val,         (* val[h]: the number behind the handle h                    *)
  dsign        (* whether the last difference was negative                  *)

Without(f, gone) == [h \in DOMAIN f \ gone |-> f[h]]
Magnitude(d) == IF d < 0 THEN -d ELSE d

(* The number v comes behind a handle that was not in use.                  *)
Gains(f, v) == \E h \in Handles \ DOMAIN f :
  val' = [g \in DOMAIN f \cup {h} |-> IF g = h THEN v ELSE f[g]]

Make == \E v \in Constants : Gains(val, v) /\ UNCHANGED dsign

(* An operation on the number at h leaves its result at h or elsewhere.     *)
Becomes(h, v) == Gains(Without(val, {h}), v) /\ UNCHANGED dsign

MultAdd(h, m, a) == Becomes(h, val[h] * m + a)
Pow5Mult(h, k) == Becomes(h, val[h] * 5^k)
Lshift(h, k) == Becomes(h, val[h] * 2^k)
Rshift(h, k) == Becomes(h, val[h] \div 2^k)
Mult(g, h) == Gains(val, val[g] * val[h]) /\ UNCHANGED dsign
Diff(g, h) == Gains(val, Magnitude(val[g] - val[h])) /\ dsign' = (val[g] < val[h])
Free(h) == val' = Without(val, {h}) /\ UNCHANGED dsign

Init == val = [h \in {} |-> 0] /\ dsign = FALSE

Operands == {h \in DOMAIN val : val[h] \in 1 .. MaxValue}

Next ==
  \/ Make
  \/ \E h \in Operands : \/ \E m \in Factors, a \in Addends : MultAdd(h, m, a)
                         \/ \E k \in Powers : Pow5Mult(h, k)
                         \/ \E k \in Shifts : Lshift(h, k) \/ Rshift(h, k)
  \/ \E g, h \in Operands : Mult(g, h)
  \/ \E g, h \in DOMAIN val : Diff(g, h)
  \/ \E h \in DOMAIN val : Free(h)

Spec == Init /\ [][Next]_<<val, dsign>>
=============================================================================
