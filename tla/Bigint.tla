------------------------------- MODULE Bigint ------------------------------
(***************************************************************************)
(* The big integers of src/nolibc/dtoa.c: the pool that Balloc() and       *)
(* Bfree() keep and the operations on words that strtod() is made of.      *)
(*                                                                         *)
(* p is a record with these fields:                                        *)
(*   p.blk[b]   the Bigint at b: its size class k, sign, wds and words x,  *)
(*              and whether it lies in private_mem                         *)
(*   p.free[k]  the Bigints on freelist[k], the first one first            *)
(*   p.used     the words of private_mem that have been handed out         *)
(*   p.p5s      the cached Bigints 5^(2^i), from i = P5Low on              *)
(*   p.ok       FALSE once a word was written beyond the end of a Bigint   *)
(* A recycled Bigint keeps its old words, as in the code.                  *)
(***************************************************************************)
EXTENDS Integers, Sequences, FiniteSets

CONSTANTS
  WordBits,     (* bits in a ULong: 32                                     *)
  Kmax,         (* the largest size class with a free list: 7              *)
  PoolWords,    (* the size of private_mem, in words                       *)
  P5Low,        (* bits of an exponent of 5 that p05 handles: 2            *)
  Junk          (* what memory holds that was never written                *)

ASSUME BigintAssumption ==
  /\ WordBits \in Nat \ {0} /\ Kmax \in Nat /\ PoolWords \in Nat /\ P5Low \in Nat
  /\ 5^(2^P5Low) < 2^WordBits
  /\ Junk \in 0 .. 2^WordBits - 1

Base == 2^WordBits

(* 1 << k: the words that a Bigint of class k has room for                  *)
Pow2[k \in Nat] == IF k = 0 THEN 1 ELSE 2 * Pow2[k - 1]

Result(p, b) == [pool |-> p, b |-> b]
Wds(p, b) == p.blk[b].wds
Words(p, b) == [i \in 0 .. Wds(p, b) - 1 |-> p.blk[b].x[i]]

-----------------------------------------------------------------------------
(* The pool                                                                 *)

EmptyPool ==
  [blk |-> <<>>, free |-> [k \in 0 .. Kmax |-> <<>>], used |-> 0, p5s |-> <<>>, ok |-> TRUE]

(* A Bigint's header counts as one word.                                    *)
Units(k) == 1 + Pow2[k]

Unused(p) == CHOOSE b \in 1 .. Cardinality(DOMAIN p.blk) + 1 : b \notin DOMAIN p.blk

(* A mutant: the largest Bigints come from private_mem as well.             *)
EagerFitsPrivate(p, k) == p.used + Units(k) <= PoolWords

FitsPrivate(p, k) == k <= Kmax /\ p.used + Units(k) <= PoolWords

Carve(p, k) ==
  LET private == FitsPrivate(p, k)
      fresh == [k |-> k, sign |-> 0, wds |-> 0, private |-> private,
                x |-> [i \in 0 .. Pow2[k] - 1 |-> Junk]]
      new == Unused(p)
  IN  Result([p EXCEPT !.blk = [b \in DOMAIN @ \cup {new} |-> IF b = new THEN fresh ELSE @[b]],
                       !.used = IF private THEN @ + Units(k) ELSE @], new)

Recycle(p, k) ==
  LET b == Head(p.free[k])
  IN  Result([p EXCEPT !.free[k] = Tail(@), !.blk[b].sign = 0, !.blk[b].wds = 0], b)

Balloc(p, k) ==
  IF k <= Kmax /\ p.free[k] # <<>> THEN Recycle(p, k) ELSE Carve(p, k)

Bfree(p, b) ==
  LET k == p.blk[b].k
  IN  IF k > Kmax THEN [p EXCEPT !.blk = [c \in DOMAIN @ \ {b} |-> @[c]]]
      ELSE [p EXCEPT !.free[k] = <<b>> \o @]

(* The word at place i alone.                                               *)
Word(i, word) == [j \in {i} |-> word]

(* The words f are stored in b, which then has n words.                     *)
Write(p, b, f, n) ==
  [p EXCEPT !.ok = @ /\ DOMAIN f \subseteq DOMAIN p.blk[b].x,
            !.blk[b].wds = n,
            !.blk[b].x = [i \in DOMAIN @ |-> IF i \in DOMAIN f THEN f[i] ELSE @[i]]]

(* A larger Bigint with the same number takes the place of b.               *)
Grow(p, b) ==
  LET got == Balloc(p, p.blk[b].k + 1)
      copy == Write([got.pool EXCEPT !.blk[got.b].sign = p.blk[b].sign],
                    got.b, Words(p, b), Wds(p, b))
  IN  Result(Bfree(copy, b), got.b)

PushWord(p, b, word) ==
  LET n == Wds(p, b)
      room == IF n >= Pow2[p.blk[b].k] THEN Grow(p, b) ELSE Result(p, b)
  IN  Result(Write(room.pool, room.b, Word(n, word), n + 1), room.b)

-----------------------------------------------------------------------------
(* Operations on one number                                                 *)

Store(got, f, n) == Result(Write(got.pool, got.b, f, n), got.b)

I2b(p, i) == Store(Balloc(p, 1), Word(0, i), 1)

(* multadd: b * m + a, in place if it fits                                  *)
MultAdd(p, b, m, a) ==
  LET x == Words(p, b)
      n == Wds(p, b)
      carry[i \in 0 .. n] == IF i = 0 THEN a ELSE (x[i-1] * m + carry[i-1]) \div Base
      low == [i \in DOMAIN x |-> (x[i] * m + carry[i]) % Base]
  IN  IF carry[n] = 0 THEN Result(Write(p, b, low, n), b)
      ELSE PushWord(Write(p, b, low, n), b, carry[n])

(* The size class of a number of nd digits, per digits to a word.           *)
ClassFor(words) == CHOOSE k \in 0 .. words : words <= Pow2[k] /\ (k = 0 \/ words > Pow2[k-1])

(* s2b: the first digits are passed as the word y9, the others are added    *)
(* one by one.                                                              *)
S2b(p, digits, per, y9) ==
  LET first == Store(Balloc(p, ClassFor((Len(digits) + per - 1) \div per)), Word(0, y9), 1)
      read[i \in 0 .. Len(digits)] == IF i <= per THEN first
                         ELSE MultAdd(read[i-1].pool, read[i-1].b, 10, digits[i])
  IN  read[Len(digits)]

(* increment: the words that are all ones become zero, the next one is      *)
(* counted up.                                                              *)
Increment(p, b) ==
  LET x == Words(p, b)
      full == {i \in DOMAIN x : \A j \in 0 .. i : x[j] = Base - 1}
      stop == Cardinality(full)
      f == [i \in full \cup ({stop} \cap DOMAIN x) |-> IF i = stop THEN x[i] + 1 ELSE 0]
  IN  IF stop < Wds(p, b) THEN Result(Write(p, b, f, Wds(p, b)), b)
      ELSE PushWord(Write(p, b, f, stop), b, 1)

(* The word i of the number in x, moved up by s < WordBits bits.            *)
Shifted(x, s, i) ==
  (IF i \in DOMAIN x THEN (x[i] * 2^s) % Base ELSE 0)
  + (IF i-1 \in DOMAIN x THEN x[i-1] \div 2^(WordBits - s) ELSE 0)

(* lshift: the class is doubled until one more word fits.                   *)
Lshift(p, b, k) ==
  LET n == k \div WordBits
      s == k % WordBits
      x == Words(p, b)
      n1 == n + Wds(p, b) + 1
      k1 == p.blk[b].k
      class == CHOOSE c \in k1 .. k1 + n1 : n1 <= Pow2[c] /\ (c = k1 \/ n1 > Pow2[c-1])
      f == [i \in 0 .. (IF s = 0 THEN n1 - 2 ELSE n1 - 1) |-> IF i < n THEN 0 ELSE Shifted(x, s, i - n)]
      done == Store(Balloc(p, class), f, IF s # 0 /\ f[n1 - 1] # 0 THEN n1 ELSE n1 - 1)
  IN  Result(Bfree(done.pool, b), done.b)

(* rshift: in place.                                                        *)
Rshift(p, b, k) ==
  LET n == k \div WordBits
      s == k % WordBits
      x == Words(p, b)
      word(i) == x[i] \div 2^s
                 + (IF i+1 \in DOMAIN x THEN (x[i+1] * 2^(WordBits - s)) % Base ELSE 0)
      f == [i \in 0 .. Wds(p, b) - n - 1 |-> word(i + n)]
      top == Wds(p, b) - n - 1
  IN  IF top < 0 \/ (top = 0 /\ f[0] = 0) THEN Write(p, b, Word(0, 0), 0)
      ELSE Write(p, b, f, IF s # 0 /\ f[top] = 0 THEN top ELSE top + 1)

(* any_on: is one of the low k bits set?                                    *)
AnyOn(p, b, k) ==
  LET n == IF k \div WordBits > Wds(p, b) THEN Wds(p, b) ELSE k \div WordBits
      x == Words(p, b)
  IN  \/ n < Wds(p, b) /\ x[n] % 2^(k % WordBits) # 0
      \/ \E i \in 0 .. n-1 : x[i] # 0

-----------------------------------------------------------------------------
(* Operations on two numbers                                                *)

(* cmp: the one with more words is larger.                                  *)
Cmp(p, a, b) ==
  LET differ == {i \in DOMAIN Words(p, a) : p.blk[a].x[i] # p.blk[b].x[i]}
      top == CHOOSE i \in differ : \A j \in differ : j <= i
  IN  IF Wds(p, a) # Wds(p, b) THEN Wds(p, a) - Wds(p, b)
      ELSE IF differ = {} THEN 0
      ELSE IF p.blk[a].x[top] < p.blk[b].x[top] THEN -1 ELSE 1

Top(f, least) == CHOOSE n \in least .. Cardinality(DOMAIN f) :
  (n = least \/ f[n-1] # 0) /\ \A i \in n .. Cardinality(DOMAIN f) - 1 : f[i] = 0

(* A mutant: the carry out of a row is lost.                                *)
LossyAddRow(xc, x, y, j) ==
  LET n == Cardinality(DOMAIN x)
      carry[i \in 0 .. n] ==
        IF i = 0 THEN 0 ELSE (x[i-1] * y + xc[j+i-1] + carry[i-1]) \div Base
  IN  [i \in DOMAIN xc |->
         IF i \in j .. j+n-1 THEN (x[i-j] * y + xc[i] + carry[i-j]) % Base ELSE xc[i]]

(* Row j of a product: y times the words x, added to xc from word j on.     *)
AddRow(xc, x, y, j) ==
  LET n == Cardinality(DOMAIN x)
      carry[i \in 0 .. n] ==
        IF i = 0 THEN 0 ELSE (x[i-1] * y + xc[j+i-1] + carry[i-1]) \div Base
  IN  IF y = 0 THEN xc
      ELSE [i \in DOMAIN xc |->
              IF i \in j .. j+n-1 THEN (x[i-j] * y + xc[i] + carry[i-j]) % Base
              ELSE IF i = j+n THEN carry[n] ELSE xc[i]]

Mult(p, a, b) ==
  LET long == IF Wds(p, a) < Wds(p, b) THEN b ELSE a
      short == IF long = a THEN b ELSE a
      wc == Wds(p, a) + Wds(p, b)
      k == p.blk[long].k
      row[j \in 0 .. Wds(p, short)] ==
        IF j = 0 THEN [i \in 0 .. wc-1 |-> 0]
        ELSE AddRow(row[j-1], Words(p, long), p.blk[short].x[j-1], j-1)
      f == row[Wds(p, short)]
  IN  Store(Balloc(p, IF wc > Pow2[k] THEN k+1 ELSE k), f, Top(f, 0))

(* pow5mult: b * 5^k; the squares of 5^(2^P5Low) stay in p5s.               *)
MultFree(r, p5) ==
  LET got == Mult(r.pool, r.b, p5) IN Result(Bfree(got.pool, r.b), got.b)

CacheSquare(p, j) ==
  LET got == IF j = 0 THEN I2b(p, 5^(2^P5Low)) ELSE Mult(p, p.p5s[j], p.p5s[j])
  IN  IF Len(p.p5s) > j THEN p ELSE [got.pool EXCEPT !.p5s = Append(@, got.b)]

OnBit(r, j, set) ==
  LET cached == Result(CacheSquare(r.pool, j), r.b)
  IN  IF set THEN MultFree(cached, cached.pool.p5s[j+1]) ELSE cached

Pow5Mult(p, b, k) ==
  LET low == k % Pow2[P5Low]
      first == IF low = 0 THEN Result(p, b) ELSE MultAdd(p, b, 5^low, 0)
      over(j) == k \div Pow2[P5Low + j]
      bit[j \in 0 .. k] == IF j = 0 THEN first ELSE OnBit(bit[j-1], j-1, over(j-1) % 2 = 1)
  IN  bit[CHOOSE j \in 0 .. k : over(j) = 0 /\ (j = 0 \/ over(j-1) # 0)]

(* diff: |a - b|, with the sign in the result                               *)
Zero(p) == Store(Balloc(p, 0), Word(0, 0), 1)

(* A mutant: the words that became zero are counted.                        *)
UntrimmedSubtract(p, a, b, sign) ==
  LET xa == Words(p, a)
      under(i) == IF i \in DOMAIN Words(p, b) THEN p.blk[b].x[i] ELSE 0
      borrow[i \in 0 .. Wds(p, a)] ==
        IF i = 0 THEN 0 ELSE IF xa[i-1] < under(i-1) + borrow[i-1] THEN 1 ELSE 0
      got == Balloc(p, p.blk[a].k)
  IN  Store(got, [i \in DOMAIN xa |-> (xa[i] - under(i) - borrow[i]) % Base], Wds(p, a))

Subtract(p, a, b, sign) ==
  LET xa == Words(p, a)
      under(i) == IF i \in DOMAIN Words(p, b) THEN p.blk[b].x[i] ELSE 0
      borrow[i \in 0 .. Wds(p, a)] ==
        IF i = 0 THEN 0 ELSE IF xa[i-1] < under(i-1) + borrow[i-1] THEN 1 ELSE 0
      f == [i \in DOMAIN xa |-> (xa[i] - under(i) - borrow[i]) % Base]
      got == Balloc(p, p.blk[a].k)
  IN  Store([got EXCEPT !.pool.blk[got.b].sign = sign], f, Top(f, 1))

Diff(p, a, b) ==
  IF Cmp(p, a, b) = 0 THEN Zero(p)
  ELSE IF Cmp(p, a, b) < 0 THEN Subtract(p, b, a, 1) ELSE Subtract(p, a, b, 0)

=============================================================================
