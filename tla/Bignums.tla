------------------------------ MODULE Bignums ------------------------------
(***************************************************************************)
(* A caller of the big integers of module Bigint: it makes numbers, works  *)
(* on those it holds and gives them back, in every order.  strtod(),       *)
(* bigcomp() and gethex() in dtoa.c are such callers.                      *)
(***************************************************************************)
EXTENDS Bigint

CONSTANTS
  Ints,        (* arguments of i2b()                                        *)
  Numerals,    (* digit strings for s2b()                                   *)
  Powers,      (* exponents of 5 for pow5mult()                             *)
  Shifts,      (* amounts for lshift() and rshift()                         *)
  MaxHeld,     (* bound: numbers held at once                               *)
  MaxOps,      (* bound: operations                                         *)
  MaxValue,    (* bound: operations only on numbers up to this one          *)
  MaxBigints   (* bound: Bigints there may ever be                          *)

ASSUME BignumsAssumption ==
  /\ Ints \subseteq 1 .. Base - 1 /\ 10 < Base
  /\ \A d \in Numerals : d \in Seq(Nat) /\ d # <<>> /\ d[1] # 0
  /\ Powers \subseteq Nat /\ Shifts \subseteq Nat

VARIABLES
  pool,        (* the Bigints and their lists                               *)
  held,        (* those the caller holds                                    *)
  dsign,       (* the sign of the last difference                           *)
  ops          (* operations so far                                         *)

vars == <<pool, held, dsign, ops>>

Value(b) ==
  LET sum[i \in 0 .. Wds(pool, b)] ==
        IF i = 0 THEN 0 ELSE sum[i-1] + pool.blk[b].x[i-1] * Base^(i-1)
  IN  sum[Wds(pool, b)]

Init == pool = EmptyPool /\ held = {} /\ dsign = FALSE /\ ops = 0

(* The result of an operation is held, the numbers in gone are not.         *)
Holds(result, gone) ==
  /\ pool' = result.pool
  /\ held' = (held \ gone) \cup {result.b}

Op == ops < MaxOps /\ ops' = ops + 1
Room == Cardinality(held) < MaxHeld

Make ==
  /\ Op /\ Room
  /\ \/ \E i \in Ints : Holds(I2b(pool, i), {})
     \/ \E d \in Numerals : Holds(S2b(pool, d, 1, d[1]), {})
  /\ UNCHANGED dsign

(* Operations that leave their result in the place of b, or elsewhere.      *)
Work(b) ==
  /\ Op /\ Value(b) \in 1 .. MaxValue
  /\ \/ \E a \in {0, 9} : Holds(MultAdd(pool, b, 10, a), {b})
     \/ \E k \in Powers : Holds(Pow5Mult(pool, b, k), {b})
     \/ \E k \in Shifts : Holds(Lshift(pool, b, k), {b})
     \/ \E k \in Shifts : Holds(Result(Rshift(pool, b, k), b), {b})
     \/ Holds(Increment(pool, b), {b})
  /\ UNCHANGED dsign

Multiply(a, b) ==
  /\ Op /\ Room /\ Value(a) \in 1 .. MaxValue /\ Value(b) \in 1 .. MaxValue
  /\ Holds(Mult(pool, a, b), {})
  /\ UNCHANGED dsign

(* strtod() takes the sign of a difference from it at once.                 *)
TakeSign(result) ==
  /\ dsign' = (result.pool.blk[result.b].sign = 1)
  /\ Holds([result EXCEPT !.pool.blk[result.b].sign = 0], {})

Difference(a, b) ==
  /\ Op /\ Room /\ Value(a) > 0 /\ Value(b) > 0
  /\ TakeSign(Diff(pool, a, b))

Free(b) ==
  /\ Op
  /\ pool' = Bfree(pool, b) /\ held' = held \ {b}
  /\ UNCHANGED dsign

Next ==
  \/ Make
  \/ \E b \in held : Work(b) \/ Free(b)
  \/ \E a, b \in held : Multiply(a, b) \/ Difference(a, b)

Spec == Init /\ [][Next]_vars

-----------------------------------------------------------------------------
(* Properties                                                               *)

Listed(k) == {pool.free[k][i] : i \in DOMAIN pool.free[k]}
Cached == {pool.p5s[i] : i \in DOMAIN pool.p5s}

(* Every Bigint is in exactly one place: held by the caller, on the free    *)
(* list of its own class, or a cached power of 5.  None is lost, none is    *)
(* handed out twice, none is written beyond its end, and those that Bfree() *)
(* gives to free() did come from malloc() (src/nolibc/dtoa.c:1603-1675).    *)
PoolExact ==
  /\ pool.ok
  /\ DOMAIN pool.blk = held \cup Cached \cup UNION {Listed(k) : k \in 0 .. Kmax}
  /\ held \cap Cached = {}
  /\ \A k \in 0 .. Kmax :
       /\ Cardinality(Listed(k)) = Len(pool.free[k])
       /\ \A b \in Listed(k) : pool.blk[b].k = k /\ b \notin held \cup Cached
  /\ Cardinality(Cached) = Len(pool.p5s)
  /\ \A b \in DOMAIN pool.blk : pool.blk[b].private => pool.blk[b].k <= Kmax

(* A number has no leading zero words, so that cmp() may compare numbers of *)
(* different lengths by their length alone, and any_on() and the tests for  *)
(* zero in strtod() agree with its value.  (rshift() may leave a zero of no *)
(* words at all, which its caller, gethex(), compares with nothing.)        *)
Canonical ==
  \A b \in held :
    /\ Wds(pool, b) > 1 => pool.blk[b].x[Wds(pool, b) - 1] # 0
    /\ \A k \in Shifts : AnyOn(pool, b, k) <=> Value(b) % 2^k # 0
    /\ \A c \in held : Wds(pool, b) > 0 /\ Wds(pool, c) > 0 =>
                       /\ Cmp(pool, b, c) < 0 <=> Value(b) < Value(c)
                       /\ Cmp(pool, b, c) = 0 <=> Value(b) = Value(c)

Decimal(digits) ==
  LET read[i \in 0 .. Len(digits)] == IF i = 0 THEN 0 ELSE 10 * read[i-1] + digits[i]
  IN  read[Len(digits)]

Numbers == INSTANCE AbsBigint WITH
  Handles <- 1 .. MaxBigints,
  Constants <- Ints \cup {Decimal(d) : d \in Numerals},
  Factors <- {1, 10}, Addends <- {0, 1, 9},
  val <- [b \in held |-> Value(b)]

(* Every operation leaves exactly the number it should, and every other     *)
(* number as it was: no carry or borrow is lost, no recycled word shows     *)
(* through, and no two numbers share a Bigint (src/nolibc/dtoa.c:1681-2191).*)
ImplementsNumbers == Numbers!Spec
=============================================================================
