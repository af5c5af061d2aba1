--------------------------- MODULE BignumsProofs ---------------------------
(***************************************************************************)
(* Proofs about module Bignums, for all word lengths, size classes, sizes  *)
(* of the private memory and numbers: in whatever order the operations are *)
(* called, each Bigint is in one place, none is lost or handed out twice,  *)
(* and no operation writes beyond the end of one.                          *)
(*                                                                         *)
(* The inductive invariant PoolInv says so of the pool and the numbers the *)
(* caller holds (Owned).  Every operation is shown to take what it was     *)
(* given to such a pool again, with its result besides the operands        *)
(* (Given) or in the place of one (Held).                                  *)
(***************************************************************************)
EXTENDS Bignums, TLAPS, FiniteSetTheorems, SequenceTheorems, WellFoundedInduction

-----------------------------------------------------------------------------
(* Numbers and lists                                                       *)

(* Every nonempty set of natural numbers has a least element.              *)
LEMMA NatMinimum ==
  ASSUME NEW S, S \subseteq Nat, S # {}
  PROVE  \E x \in S : \A y \in S : x <= y
<1> DEFINE R == {ss \in Nat \X Nat : ss[1] < ss[2]}
<1>1. IsWellFoundedOn(R, Nat)
  BY NatLessThanWellFounded DEF OpToRel
<1>2. PICK x \in S : \A y \in S : ~(<<y, x>> \in R)
  <2> HIDE DEF R
  <2> QED  BY <1>1, WFMin, Zenon
<1>3. \A y \in S : ~(y < x)
  BY <1>2
<1> QED  BY <1>3

(* A set of numbers up to n that holds 0, and with each number but n the   *)
(* next one, holds them all.                                               *)
LEMMA UpTo ==
  ASSUME NEW n \in Nat, NEW S, 0 \in S, \A d \in 0 .. n : d \in S /\ d < n => d + 1 \in S
  PROVE  0 .. n \subseteq S
<1> SUFFICES ASSUME ~(0 .. n \subseteq S) PROVE FALSE
  OBVIOUS
<1>1. (0 .. n) \ S \subseteq Nat /\ (0 .. n) \ S # {}
  OBVIOUS
<1>2. PICK d \in (0 .. n) \ S : \A c \in (0 .. n) \ S : d <= c
  BY <1>1, NatMinimum
<1>3. d # 0 /\ d - 1 \in 0 .. n /\ d - 1 < n
  BY <1>2
<1>4. d - 1 \in S
  BY <1>2, <1>3
<1>5. (d - 1) + 1 \in S
  BY <1>3, <1>4
<1> QED  BY <1>2, <1>5

(* The doublings of 1, up to the n-th.                                     *)
Doubles(f, n) == f = [d \in 0 .. n |-> IF d = 0 THEN 1 ELSE 2 * f[d - 1]]

(* There is exactly one list of n doublings, and it begins with the shorter *)
(* ones.                                                                   *)
LEMMA DoublingsExist ==
  ASSUME NEW n \in Nat
  PROVE  \E f : Doubles(f, n)
<1> DEFINE S == {k \in 0 .. n : \E f : Doubles(f, k)}
<1>1. 0 \in S
  <2>1. PICK f : f = [d \in 0 .. 0 |-> 1]
    OBVIOUS
  <2>2. \A d \in 0 .. 0 : d = 0
    OBVIOUS
  <2>3. f = [d \in 0 .. 0 |-> IF d = 0 THEN 1 ELSE 2 * f[d - 1]]
    BY <2>1, <2>2, Zenon
  <2> QED  BY <2>3 DEF Doubles
<1>2. ASSUME NEW k \in 0 .. n, k \in S, k < n
      PROVE  k + 1 \in S
  <2>1. PICK f : f = [d \in 0 .. k |-> IF d = 0 THEN 1 ELSE 2 * f[d - 1]]
    BY <1>2 DEF Doubles
  <2>2. PICK g : g = [d \in 0 .. k + 1 |-> IF d = k + 1 THEN 2 * f[k] ELSE f[d]]
    OBVIOUS
  <2>3. \A d \in 0 .. k + 1 : g[d] = IF d = 0 THEN 1 ELSE 2 * g[d - 1]
    <3> SUFFICES ASSUME NEW d \in 0 .. k + 1 PROVE g[d] = IF d = 0 THEN 1 ELSE 2 * g[d - 1]
      OBVIOUS
    <3>1. CASE d = k + 1
      BY <2>2, <3>1
    <3>2. CASE d # k + 1
      <4>1. d \in 0 .. k /\ g[d] = f[d]
        BY <2>2, <3>2
      <4>2. d # 0 => d - 1 \in 0 .. k + 1 /\ d - 1 # k + 1
        BY <3>2
      <4>3. d # 0 => g[d - 1] = f[d - 1]
        BY <2>2, <4>2
      <4> QED  BY <2>1, <4>1, <4>3
    <3> QED  BY <3>1, <3>2
  <2>4. g = [d \in 0 .. k + 1 |-> g[d]]
    BY <2>2
  <2>5. g = [d \in 0 .. k + 1 |-> IF d = 0 THEN 1 ELSE 2 * g[d - 1]]
    BY <2>3, <2>4
  <2>6. k + 1 \in 0 .. n
    BY <1>2
  <2> QED  BY <2>5, <2>6 DEF Doubles
<1>3. 0 .. n \subseteq S
  <2> HIDE DEF S
  <2> QED  BY <1>1, <1>2, UpTo
<1> QED  BY <1>3

(* A shorter list of doublings begins a longer one.                        *)
LEMMA DoublingsAgree ==
  ASSUME NEW n \in Nat, NEW m \in Nat, n <= m, NEW f, Doubles(f, n), NEW g, Doubles(g, m)
  PROVE  \A d \in 0 .. n : f[d] = g[d]
<1> DEFINE S == {d \in 0 .. n : f[d] = g[d]}
<1>1. \A d \in 0 .. n : f[d] = IF d = 0 THEN 1 ELSE 2 * f[d - 1]
  BY DEF Doubles
<1>2. \A d \in 0 .. n : g[d] = IF d = 0 THEN 1 ELSE 2 * g[d - 1]
  BY DEF Doubles
<1>3. 0 \in S
  BY <1>1, <1>2
<1>4. ASSUME NEW d \in 0 .. n, d \in S, d < n
      PROVE  d + 1 \in S
  BY <1>1, <1>2, <1>4
<1>5. 0 .. n \subseteq S
  <2> HIDE DEF S
  <2> QED  BY <1>3, <1>4, UpTo
<1> QED  BY <1>5

(* Hence Pow2 is what its definition says.                                 *)
LEMMA Pow2Steps ==
  Pow2[0] = 1 /\ \A n \in Nat : Pow2[n + 1] = 2 * Pow2[n]
<1> DEFINE last(n) == (CHOOSE f : Doubles(f, n))[n]
           body(F) == [n \in Nat |-> IF n = 0 THEN 1 ELSE 2 * F[n - 1]]
<1>1. \A n \in Nat : last(n) = IF n = 0 THEN 1 ELSE 2 * last(n - 1)
  <2> SUFFICES ASSUME NEW n \in Nat PROVE last(n) = IF n = 0 THEN 1 ELSE 2 * last(n - 1)
    OBVIOUS
  <2>1. PICK f : f = CHOOSE h : Doubles(h, n)
    OBVIOUS
  <2>2. Doubles(f, n)
    BY <2>1, DoublingsExist, Zenon
  <2>3. last(n) = f[n]
    BY <2>1
  <2>4. f[n] = IF n = 0 THEN 1 ELSE 2 * f[n - 1]
    BY <2>2 DEF Doubles
  <2>5. CASE n # 0
    <3>1. PICK m \in Nat : m = n - 1
      BY <2>5
    <3>2. PICK g : g = CHOOSE h : Doubles(h, m)
      OBVIOUS
    <3>3. Doubles(g, m)
      BY <3>2, DoublingsExist, Zenon
    <3>4. last(n - 1) = g[m]
      BY <3>1, <3>2
    <3>5. g[m] = f[m]
      BY <2>2, <3>1, <3>3, DoublingsAgree
    <3> QED  BY <2>3, <2>4, <2>5, <3>1, <3>4, <3>5
  <2> QED  BY <2>3, <2>4, <2>5
<1>2. PICK F : F = [n \in Nat |-> last(n)]
  OBVIOUS
<1>3. \A n \in Nat : F[n] = IF n = 0 THEN 1 ELSE 2 * F[n - 1]
  <2> HIDE DEF last
  <2> QED  BY <1>1, <1>2
<1>4. F = body(F)
  <2>1. F = [n \in Nat |-> F[n]]
    BY <1>2
  <2> QED  BY <1>3, <2>1
<1>5. \E G : G = body(G)
  BY <1>4, Zenon
<1>6. Pow2 = CHOOSE G : G = body(G)
  BY Zenon DEF Pow2
<1>7. Pow2 = body(Pow2)
  <2> HIDE DEF body
  <2> QED  BY <1>5, <1>6, Zenon
<1>8. \A n \in Nat : Pow2[n] = IF n = 0 THEN 1 ELSE 2 * Pow2[n - 1]
  BY <1>7
<1> QED  BY <1>8

(* The powers of 2 are positive, and larger than their exponents.          *)
LEMMA Pow2Bounds ==
  ASSUME NEW n \in Nat
  PROVE  Pow2[n] \in Nat /\ n < Pow2[n]
<1> DEFINE S == {d \in 0 .. n : Pow2[d] \in Nat /\ d < Pow2[d]}
<1>1. 0 \in S
  BY Pow2Steps
<1>2. ASSUME NEW d \in 0 .. n, d \in S, d < n
      PROVE  d + 1 \in S
  <2>1. Pow2[d + 1] = 2 * Pow2[d]
    BY Pow2Steps
  <2> QED  BY <1>2, <2>1
<1>3. 0 .. n \subseteq S
  <2> HIDE DEF S
  <2> QED  BY <1>1, <1>2, UpTo
<1> QED  BY <1>3

(* The smallest class, from c1 on, with room for n words.                  *)
LEMMA ClassExists ==
  ASSUME NEW c1 \in Nat, NEW n \in Nat
  PROVE  \E c \in c1 .. c1 + n : n <= Pow2[c] /\ (c = c1 \/ n > Pow2[c - 1])
<1> DEFINE S == {c \in c1 .. c1 + n : n <= Pow2[c]}
<1>1. \A c \in c1 .. c1 + n : c \in Nat /\ Pow2[c] \in Nat /\ c < Pow2[c]
  BY Pow2Bounds
<1>2. c1 + n \in S
  <2>1. c1 + n < Pow2[c1 + n]
    BY <1>1
  <2> QED  BY <1>1, <2>1
<1>3. PICK c \in S : \A d \in S : c <= d
  <2>1. S \subseteq Nat /\ S # {}
    BY <1>2
  <2> HIDE DEF S
  <2> QED  BY <2>1, NatMinimum
<1>4. c # c1 => c - 1 \notin S /\ c - 1 \in c1 .. c1 + n
  BY <1>3
<1> QED  BY <1>1, <1>3, <1>4

(* The elements of a list; no element occurs twice.                        *)
Elements(q) == {q[i] : i \in DOMAIN q}
Once(q) == \A i, j \in DOMAIN q : q[i] = q[j] => i = j

(* What a list is, its elements and its length.                            *)
LEMMA ListFacts ==
  ASSUME NEW S, NEW q \in Seq(S)
  PROVE  /\ Len(q) \in Nat /\ DOMAIN q = 1 .. Len(q)
         /\ Elements(q) \subseteq S /\ \A i \in 1 .. Len(q) : q[i] \in S
         /\ q # <<>> => Len(q) # 0
<1>1. Len(q) \in Nat /\ q \in [1 .. Len(q) -> S] /\ DOMAIN q = 1 .. Len(q)
  BY LenProperties
<1>2. q # <<>> => Len(q) # 0
  BY EmptySeq
<1> QED  BY <1>1, <1>2 DEF Elements

(* A list is a list over every set that has its elements.                  *)
LEMMA ListOver ==
  ASSUME NEW S, NEW q \in Seq(S), NEW T, Elements(q) \subseteq T
  PROVE  q \in Seq(T)
<1>1. Len(q) \in Nat /\ q \in [1 .. Len(q) -> S]
  BY LenProperties
<1>2. \A i \in 1 .. Len(q) : q[i] \in T
  BY <1>1 DEF Elements
<1>3. q \in [1 .. Len(q) -> T]
  BY <1>1, <1>2
<1>4. PICK n \in Nat : n = Len(q)
  BY <1>1
<1>5. q \in [1 .. n -> T]
  BY <1>3, <1>4
<1> QED  BY <1>5, SeqDef

(* The list with an element more, at place k, is r.                        *)
LEMMA OneMore ==
  ASSUME NEW S, NEW q \in Seq(S), Once(q), NEW b, b \notin Elements(q),
         NEW r \in Seq(S \cup {b}), Len(r) = Len(q) + 1,
         NEW k \in 1 .. Len(r), r[k] = b,
         \A i \in 1 .. Len(r) : i # k => r[i] = q[IF i < k THEN i ELSE i - 1]
  PROVE  Once(r) /\ Elements(r) = Elements(q) \cup {b}
<1>1. PICK n \in Nat : n = Len(q) /\ DOMAIN q = 1 .. n
  BY ListFacts
<1>2. Len(r) = n + 1 /\ DOMAIN r = 1 .. n + 1
  BY <1>1, ListFacts
<1>3. \A i \in 1 .. n + 1 : i # k => (IF i < k THEN i ELSE i - 1) \in 1 .. n
  BY <1>2
<1>4. \A i \in 1 .. n + 1 : i # k => r[i] = q[IF i < k THEN i ELSE i - 1] /\ r[i] \in Elements(q)
  BY <1>1, <1>2, <1>3 DEF Elements
<1>5. Once(r)
  <2> SUFFICES ASSUME NEW i \in 1 .. n + 1, NEW j \in 1 .. n + 1, r[i] = r[j]
               PROVE  i = j
    BY <1>2 DEF Once
  <2>1. CASE i = k \/ j = k
    BY <1>4, <2>1
  <2>2. CASE i # k /\ j # k
    <3>1. (IF i < k THEN i ELSE i - 1) = (IF j < k THEN j ELSE j - 1)
      <4>1. q[IF i < k THEN i ELSE i - 1] = q[IF j < k THEN j ELSE j - 1]
        BY <1>4, <2>2
      <4> QED  BY <1>1, <1>3, <2>2, <4>1 DEF Once
    <3> QED  BY <1>2, <2>2, <3>1
  <2> QED  BY <2>1, <2>2
<1>6. Elements(r) \subseteq Elements(q) \cup {b}
  <2> SUFFICES ASSUME NEW i \in 1 .. n + 1
               PROVE  r[i] \in Elements(q) \cup {b}
    BY <1>2 DEF Elements
  <2> QED  BY <1>4
<1>7. b \in Elements(r)
  BY <1>2 DEF Elements
<1>8. ASSUME NEW x \in Elements(q) PROVE x \in Elements(r)
  <2>1. PICK j \in 1 .. n : x = q[j]
    BY <1>1 DEF Elements
  <2>2. PICK i \in 1 .. n + 1 : i # k /\ (IF i < k THEN i ELSE i - 1) = j
    <3>1. CASE j < k
      <4>1. j \in 1 .. n + 1 /\ j # k
        BY <3>1
      <4> QED  BY <3>1, <4>1
    <3>2. CASE j >= k
      <4>1. j + 1 \in 1 .. n + 1 /\ j + 1 # k /\ ~(j + 1 < k) /\ (j + 1) - 1 = j
        BY <1>2, <3>2
      <4> QED  BY <4>1
    <3> QED  BY <1>2, <3>1, <3>2
  <2>3. r[i] = x
    BY <1>4, <2>1, <2>2
  <2> QED  BY <1>2, <2>3 DEF Elements
<1> QED  BY <1>5, <1>6, <1>7, <1>8

(* A new element in front of a list, as Bfree() adds it,                   *)
LEMMA Prepended ==
  ASSUME NEW S, NEW q \in Seq(S), Once(q), NEW b \in S, b \notin Elements(q)
  PROVE  /\ <<b>> \o q \in Seq(S)
         /\ Once(<<b>> \o q) /\ Elements(<<b>> \o q) = Elements(q) \cup {b}
<1>1. PICK r : r = <<b>> \o q
  OBVIOUS
<1>2. <<b>> \in Seq(S) /\ Len(<<b>>) = 1 /\ <<b>>[1] = b
  OBVIOUS
<1>3. /\ r \in Seq(S) /\ Len(r) = 1 + Len(q)
      /\ \A i \in 1 .. 1 + Len(q) : r[i] = IF i <= 1 THEN <<b>>[i] ELSE q[i - 1]
  BY <1>1, <1>2, ConcatProperties
<1>4. Len(q) \in Nat
  BY ListFacts
<1>5. PICK n \in Nat : n = Len(q)
  BY <1>4
<1>6. Len(r) = n + 1 /\ r[1] = b /\ \A i \in 1 .. n + 1 : i # 1 => r[i] = q[IF i < 1 THEN i ELSE i - 1]
  BY <1>2, <1>3, <1>5
<1>7. r \in Seq(S \cup {b}) /\ 1 \in 1 .. Len(r)
  <2>1. S \cup {b} = S
    OBVIOUS
  <2> QED  BY <1>3, <1>6, <2>1
<1>8. Once(r) /\ Elements(r) = Elements(q) \cup {b}
  BY <1>5, <1>6, <1>7, OneMore
<1> QED  BY <1>1, <1>3, <1>8

(* and behind it, as pow5mult() adds to its chain of powers.               *)
LEMMA Appended ==
  ASSUME NEW S, NEW q \in Seq(S), Once(q), NEW b \in S, b \notin Elements(q)
  PROVE  /\ Append(q, b) \in Seq(S) /\ Len(Append(q, b)) = Len(q) + 1
         /\ Once(Append(q, b)) /\ Elements(Append(q, b)) = Elements(q) \cup {b}
<1>1. PICK r : r = Append(q, b)
  OBVIOUS
<1>2. PICK n \in Nat : n = Len(q) /\ DOMAIN q = 1 .. n
  BY ListFacts
<1>3. r \in Seq(S) /\ Len(r) = n + 1 /\ r[n + 1] = b /\ \A i \in 1 .. n : r[i] = q[i]
  BY <1>1, <1>2, AppendProperties
<1>4. \A i \in 1 .. n + 1 : i # n + 1 => i \in 1 .. n /\ i < n + 1
  OBVIOUS
<1>5. \A i \in 1 .. Len(r) : i # n + 1 => r[i] = q[IF i < n + 1 THEN i ELSE i - 1]
  BY <1>3, <1>4
<1>6. r \in Seq(S \cup {b}) /\ n + 1 \in 1 .. Len(r)
  <2>1. S \cup {b} = S
    OBVIOUS
  <2> QED  BY <1>3, <2>1
<1>7. Once(r) /\ Elements(r) = Elements(q) \cup {b}
  BY <1>2, <1>3, <1>5, <1>6, OneMore
<1> QED  BY <1>1, <1>2, <1>3, <1>7

(* The list without its first element, as Balloc() leaves it.              *)
LEMMA Beheaded ==
  ASSUME NEW S, NEW q \in Seq(S), Once(q), q # <<>>
  PROVE  /\ Tail(q) \in Seq(S) /\ Once(Tail(q)) /\ Head(q) \in Elements(q)
         /\ Elements(Tail(q)) = Elements(q) \ {Head(q)}
<1>1. PICK r : r = Tail(q)
  OBVIOUS
<1>2. PICK n \in Nat : n + 1 = Len(q) /\ DOMAIN q = 1 .. n + 1
  <2>1. Len(q) \in Nat /\ Len(q) # 0 /\ DOMAIN q = 1 .. Len(q)
    BY ListFacts
  <2>2. Len(q) - 1 \in Nat /\ (Len(q) - 1) + 1 = Len(q)
    BY <2>1
  <2> QED  BY <2>1, <2>2
<1>3. r \in Seq(S) /\ Len(r) = n /\ DOMAIN r = 1 .. n /\ \A i \in 1 .. n : r[i] = q[i + 1]
  <2>1. r \in Seq(S) /\ Len(r) = Len(q) - 1 /\ \A i \in 1 .. Len(r) : r[i] = q[i + 1]
    BY <1>1, HeadTailProperties
  <2>2. Len(r) = n
    BY <1>2, <2>1
  <2> QED  BY <2>1, <2>2, ListFacts
<1>4. Head(q) = q[1]
  OBVIOUS
<1>5. Once(r)
  <2> SUFFICES ASSUME NEW i \in 1 .. n, NEW j \in 1 .. n, r[i] = r[j] PROVE i = j
    BY <1>3 DEF Once
  <2>1. i + 1 \in 1 .. n + 1 /\ j + 1 \in 1 .. n + 1 /\ q[i + 1] = q[j + 1]
    BY <1>3
  <2>2. i + 1 = j + 1
    BY <1>2, <2>1 DEF Once
  <2> QED  BY <2>2
<1>6. Elements(r) = Elements(q) \ {q[1]}
  <2>1. ASSUME NEW i \in 1 .. n PROVE r[i] \in Elements(q) /\ r[i] # q[1]
    <3>1. i + 1 \in 1 .. n + 1 /\ i + 1 # 1 /\ 1 \in 1 .. n + 1
      OBVIOUS
    <3>2. q[i + 1] # q[1]
      BY <1>2, <3>1 DEF Once
    <3> QED  BY <1>2, <1>3, <3>1, <3>2 DEF Elements
  <2>2. ASSUME NEW x \in Elements(q), x # q[1] PROVE x \in Elements(r)
    <3>1. PICK j \in 1 .. n + 1 : x = q[j] /\ j # 1
      BY <1>2, <2>2 DEF Elements
    <3>2. j - 1 \in 1 .. n /\ (j - 1) + 1 = j
      BY <3>1
    <3>3. r[j - 1] = x
      BY <1>3, <3>1, <3>2
    <3> QED  BY <1>3, <3>2, <3>3 DEF Elements
  <2>3. Elements(r) \subseteq Elements(q) \ {q[1]}
    BY <1>3, <2>1 DEF Elements
  <2> QED  BY <2>2, <2>3
<1>7. q[1] \in Elements(q)
  <2>1. 1 \in 1 .. n + 1
    OBVIOUS
  <2> QED  BY <1>2, <2>1 DEF Elements
<1> QED  BY <1>1, <1>3, <1>4, <1>5, <1>6, <1>7

(* A list without repetition is as long as it has elements.                *)
LEMMA OnceCounts ==
  ASSUME NEW S, NEW q \in Seq(S), Once(q)
  PROVE  Cardinality(Elements(q)) = Len(q)
<1>1. PICK n \in Nat : n = Len(q) /\ DOMAIN q = 1 .. n /\ q \in [1 .. n -> S]
  BY ListFacts, LenProperties
<1>2. q \in [1 .. n -> Elements(q)]
  <2>1. q = [i \in 1 .. n |-> q[i]] /\ \A i \in 1 .. n : q[i] \in Elements(q)
    BY <1>1 DEF Elements
  <2> QED  BY <2>1
<1>3. q \in Bijection(1 .. n, Elements(q))
  BY <1>1, <1>2 DEF Bijection, Injection, Surjection, Once, Elements, IsInjective
<1>4. ExistsBijection(1 .. n, Elements(q))
  BY <1>3 DEF ExistsBijection
<1>5. IsFiniteSet(1 .. n) /\ Cardinality(1 .. n) = n
  BY FS_Interval
<1> QED  BY <1>1, <1>4, <1>5, FS_Bijection

-----------------------------------------------------------------------------
(* The invariant                                                           *)

(* A Bigint has a class, the words that belong to it, and uses no more.    *)
IsBigint(v) ==
  /\ v = [k |-> v.k, sign |-> v.sign, wds |-> v.wds, private |-> v.private, x |-> v.x]
  /\ v.k \in Nat /\ v.wds \in Nat /\ v.wds <= Pow2[v.k]
  /\ DOMAIN v.x = 0 .. Pow2[v.k] - 1
  /\ v.private \in BOOLEAN /\ (v.private => v.k <= Kmax)

IsPool(p) ==
  /\ p = [blk |-> p.blk, free |-> p.free, used |-> p.used, p5s |-> p.p5s, ok |-> p.ok]
  /\ IsFiniteSet(DOMAIN p.blk) /\ \A b \in DOMAIN p.blk : IsBigint(p.blk[b])
  /\ p.ok = TRUE

(* The free lists and the cached powers of 5 are lists of Bigints.         *)
Lists(blk, free, p5s) ==
  /\ free = [k \in 0 .. Kmax |-> free[k]]
  /\ \A k \in 0 .. Kmax :
       /\ free[k] \in Seq(DOMAIN blk) /\ Once(free[k])
       /\ \A b \in Elements(free[k]) : blk[b].k = k
  /\ p5s \in Seq(DOMAIN blk) /\ Once(p5s)

(* Every Bigint is in one of the free lists, cached or one of H.           *)
Apart(blk, free, p5s, H) ==
  /\ \A b \in DOMAIN blk : b \in H \cup Elements(p5s) \/ \E k \in 0 .. Kmax : b \in Elements(free[k])
  /\ H \subseteq DOMAIN blk /\ H \cap Elements(p5s) = {}
  /\ \A k \in 0 .. Kmax : Elements(free[k]) \cap (H \cup Elements(p5s)) = {}

(* Those in H are in use, all others free or cached.                       *)
Owned(p, H) == IsPool(p) /\ Lists(p.blk, p.free, p.p5s) /\ Apart(p.blk, p.free, p.p5s, H)

(* Memory is found for one more Bigint.                                    *)
LEMMA UnusedIs ==
  ASSUME NEW p, IsFiniteSet(DOMAIN p.blk)
  PROVE  Unused(p) \notin DOMAIN p.blk
<1> DEFINE D == DOMAIN p.blk
<1>1. PICK n \in Nat : n = Cardinality(D)
  BY FS_CardinalityType
<1>2. IsFiniteSet(1 .. n + 1) /\ Cardinality(1 .. n + 1) = n + 1
  BY FS_Interval
<1>3. \E b \in 1 .. n + 1 : b \notin D
  <2> SUFFICES ASSUME 1 .. n + 1 \subseteq D PROVE FALSE
    OBVIOUS
  <2>1. Cardinality(1 .. n + 1) <= Cardinality(D)
    BY FS_Subset
  <2> QED  BY <1>1, <1>2, <2>1
<1> QED  BY <1>1, <1>3 DEF Unused

(* What a Bigint may be overwritten with.                                  *)
LEMMA Rewritten ==
  ASSUME NEW p, NEW H, Owned(p, H), NEW b \in DOMAIN p.blk,
         NEW v, IsBigint(v), v.k = p.blk[b].k,
         NEW q, q = [p EXCEPT !.blk = [@ EXCEPT ![b] = v]]
  PROVE  /\ Owned(q, H) /\ q.p5s = p.p5s /\ q.blk[b] = v
         /\ DOMAIN q.blk = DOMAIN p.blk /\ \A c \in DOMAIN p.blk : c # b => q.blk[c] = p.blk[c]
<1>1. /\ IsPool(p) /\ Lists(p.blk, p.free, p.p5s) /\ Apart(p.blk, p.free, p.p5s, H)
  BY DEF Owned
<1>2. /\ q = [blk |-> q.blk, free |-> q.free, used |-> q.used, p5s |-> q.p5s, ok |-> q.ok]
      /\ q.blk = [p.blk EXCEPT ![b] = v] /\ q.free = p.free /\ q.p5s = p.p5s /\ q.ok = p.ok
  BY <1>1 DEF IsPool
<1>3. /\ DOMAIN q.blk = DOMAIN p.blk /\ q.blk[b] = v
      /\ \A c \in DOMAIN p.blk : c # b => q.blk[c] = p.blk[c]
  BY <1>2
<1>4. IsPool(q)
  <2>1. \A c \in DOMAIN q.blk : IsBigint(q.blk[c])
    BY <1>1, <1>3 DEF IsPool
  <2> QED  BY <1>1, <1>2, <1>3, <2>1 DEF IsPool
<1>5. Lists(q.blk, q.free, q.p5s)
  <2>1. \A c \in DOMAIN p.blk : q.blk[c].k = p.blk[c].k
    BY <1>3
  <2>2. \A k \in 0 .. Kmax : Elements(p.free[k]) \subseteq DOMAIN p.blk
    BY <1>1, ListFacts DEF Lists
  <2>3. \A k \in 0 .. Kmax : \A c \in Elements(p.free[k]) : q.blk[c].k = k
    BY <1>1, <2>1, <2>2 DEF Lists
  <2> QED  BY <1>1, <1>2, <1>3, <2>3 DEF Lists
<1>6. Apart(q.blk, q.free, q.p5s, H)
  BY <1>1, <1>2, <1>3 DEF Apart
<1> QED  BY <1>2, <1>3, <1>4, <1>5, <1>6 DEF Owned

(* A Bigint with other words, field by field,                              *)
LEMMA Overwritten ==
  ASSUME NEW u, IsBigint(u), NEW n, NEW x
  PROVE  [u EXCEPT !.wds = n, !.x = x]
           = [k |-> u.k, sign |-> u.sign, wds |-> n, private |-> u.private, x |-> x]
<1>1. u = [k |-> u.k, sign |-> u.sign, wds |-> u.wds, private |-> u.private, x |-> u.x]
  BY DEF IsBigint
<1>2. PICK v : v = [u EXCEPT !.wds = n, !.x = x]
  OBVIOUS
<1>4. v = [k |-> v.k, sign |-> v.sign, wds |-> v.wds, private |-> v.private, x |-> v.x]
  BY <1>1, <1>2
<1>5. v.k = u.k /\ v.sign = u.sign /\ v.wds = n /\ v.private = u.private /\ v.x = x
  BY <1>1, <1>2
<1> QED  BY <1>2, <1>4, <1>5

(* and one without sign and words.                                         *)
LEMMA Cleared ==
  ASSUME NEW u, IsBigint(u)
  PROVE  [u EXCEPT !.sign = 0, !.wds = 0]
           = [k |-> u.k, sign |-> 0, wds |-> 0, private |-> u.private, x |-> u.x]
<1>1. u = [k |-> u.k, sign |-> u.sign, wds |-> u.wds, private |-> u.private, x |-> u.x]
  BY DEF IsBigint
<1>2. PICK v : v = [u EXCEPT !.sign = 0, !.wds = 0]
  OBVIOUS
<1>4. v = [k |-> v.k, sign |-> v.sign, wds |-> v.wds, private |-> v.private, x |-> v.x]
  BY <1>1, <1>2
<1>5. v.k = u.k /\ v.sign = 0 /\ v.wds = 0 /\ v.private = u.private /\ v.x = u.x
  BY <1>1, <1>2
<1> QED  BY <1>2, <1>4, <1>5

(* What words may be stored in a Bigint.                                   *)
Fits(p, b, f, n) ==
  DOMAIN f \subseteq 0 .. Pow2[p.blk[b].k] - 1 /\ n \in Nat /\ n <= Pow2[p.blk[b].k]

(* Words that fit are stored in the Bigint, and nothing else changes.      *)
LEMMA WriteIs ==
  ASSUME NEW p, NEW H, Owned(p, H), NEW b \in DOMAIN p.blk, NEW f, NEW n, Fits(p, b, f, n),
         NEW q, q = Write(p, b, f, n)
  PROVE  /\ Owned(q, H) /\ q.p5s = p.p5s /\ q.blk[b].k = p.blk[b].k /\ q.blk[b].wds = n
         /\ DOMAIN q.blk = DOMAIN p.blk
<1>1. /\ p = [blk |-> p.blk, free |-> p.free, used |-> p.used, p5s |-> p.p5s, ok |-> p.ok]
      /\ IsBigint(p.blk[b]) /\ p.ok = TRUE
  BY DEF Owned, IsPool
<1>2. DOMAIN f \subseteq DOMAIN p.blk[b].x
  BY <1>1 DEF IsBigint, Fits
<1>3. PICK u : u = p.blk[b]
  OBVIOUS
<1>4. PICK x : x = [i \in DOMAIN u.x |-> IF i \in DOMAIN f THEN f[i] ELSE u.x[i]]
  OBVIOUS
<1>5. PICK v : v = [k |-> u.k, sign |-> u.sign, wds |-> n, private |-> u.private, x |-> x]
  OBVIOUS
<1>6. IsBigint(v) /\ v.k = p.blk[b].k /\ v.wds = n
  BY <1>1, <1>3, <1>4, <1>5 DEF IsBigint, Fits
<1>7. v = [u EXCEPT !.wds = n, !.x = x]
  <2>1. IsBigint(u)
    BY <1>1, <1>3
  <2> QED  BY <1>5, <2>1, Overwritten
<1>8. q = [p EXCEPT !.blk = [@ EXCEPT ![b] = v]]
  <2>1. q = [p EXCEPT !.ok = TRUE, !.blk = [@ EXCEPT ![b] = [u EXCEPT !.wds = n, !.x = x]]]
    BY <1>1, <1>2, <1>3, <1>4 DEF Write
  <2> QED  BY <1>1, <1>7, <2>1
<1> QED  BY <1>6, <1>8, Rewritten

(* The sign of a Bigint does not matter to the pool.                       *)
LEMMA SignIs ==
  ASSUME NEW p, NEW H, Owned(p, H), NEW b \in DOMAIN p.blk, NEW s,
         NEW q, q = [p EXCEPT !.blk[b].sign = s]
  PROVE  /\ Owned(q, H) /\ q.p5s = p.p5s /\ DOMAIN q.blk = DOMAIN p.blk
         /\ q.blk[b].k = p.blk[b].k /\ q.blk[b].wds = p.blk[b].wds
<1>1. IsBigint(p.blk[b])
  BY DEF Owned, IsPool
<1>2. PICK u : u = p.blk[b]
  OBVIOUS
<1>3. PICK v : v = [k |-> u.k, sign |-> s, wds |-> u.wds, private |-> u.private, x |-> u.x]
  OBVIOUS
<1>4. IsBigint(v) /\ v.k = u.k /\ v.wds = u.wds
  BY <1>1, <1>2, <1>3 DEF IsBigint
<1>5. v = [u EXCEPT !.sign = s]
  BY <1>1, <1>2, <1>3 DEF IsBigint
<1>6. q = [p EXCEPT !.blk = [@ EXCEPT ![b] = v]]
  BY <1>2, <1>5
<1> QED  BY <1>2, <1>4, <1>6, Rewritten

(* Bfree() puts a Bigint on the free list of its class, or gives it to     *)
(* free() if there is none.                                                *)
LEMMA BfreeIs ==
  ASSUME NEW p, NEW H, Owned(p, H), NEW b \in H, NEW q, q = Bfree(p, b)
  PROVE  /\ Owned(q, H \ {b}) /\ q.p5s = p.p5s
         /\ \A c \in H \ {b} : q.blk[c] = p.blk[c]
<1>1. /\ IsPool(p) /\ Lists(p.blk, p.free, p.p5s) /\ Apart(p.blk, p.free, p.p5s, H)
  BY DEF Owned
<1>2. PICK k \in Nat : k = p.blk[b].k
  BY <1>1 DEF IsPool, IsBigint, Apart
<1>3. \A c \in H : c \in DOMAIN p.blk
  BY <1>1 DEF Apart
<1>4. CASE k > Kmax
  <2>1. q = [p EXCEPT !.blk = [c \in DOMAIN @ \ {b} |-> @[c]]]
    BY <1>2, <1>4 DEF Bfree
  <2>2. /\ q = [blk |-> q.blk, free |-> q.free, used |-> q.used, p5s |-> q.p5s, ok |-> q.ok]
        /\ q.blk = [c \in DOMAIN p.blk \ {b} |-> p.blk[c]]
        /\ q.free = p.free /\ q.p5s = p.p5s /\ q.ok = p.ok
    BY <1>1, <2>1 DEF IsPool
  <2>3. /\ DOMAIN q.blk = DOMAIN p.blk \ {b}
        /\ \A c \in DOMAIN p.blk \ {b} : q.blk[c] = p.blk[c]
    BY <2>2
  <2>4. IsPool(q)
    <3>1. IsFiniteSet(DOMAIN q.blk)
      BY <1>1, <2>3, FS_RemoveElement DEF IsPool
    <3>2. \A c \in DOMAIN q.blk : IsBigint(q.blk[c])
      BY <1>1, <2>3 DEF IsPool
    <3> QED  BY <1>1, <2>2, <3>1, <3>2 DEF IsPool
  <2>5. b \notin Elements(p.p5s) /\ \A j \in 0 .. Kmax : b \notin Elements(p.free[j])
    BY <1>1 DEF Apart
  <2>6. Lists(q.blk, q.free, q.p5s)
    <3>1. ASSUME NEW j \in 0 .. Kmax
          PROVE  /\ p.free[j] \in Seq(DOMAIN q.blk) /\ Once(p.free[j])
                 /\ \A c \in Elements(p.free[j]) : q.blk[c].k = j
      <4>1. p.free[j] \in Seq(DOMAIN p.blk)
        BY <1>1 DEF Lists
      <4>2. Elements(p.free[j]) \subseteq DOMAIN q.blk
        BY <2>3, <2>5, <4>1, ListFacts
      <4>3. p.free[j] \in Seq(DOMAIN q.blk)
        BY <4>1, <4>2, ListOver
      <4> QED  BY <1>1, <2>3, <4>2, <4>3 DEF Lists
    <3>2. p.p5s \in Seq(DOMAIN q.blk) /\ Once(p.p5s)
      <4>1. p.p5s \in Seq(DOMAIN p.blk) /\ Once(p.p5s)
        BY <1>1 DEF Lists
      <4>2. Elements(p.p5s) \subseteq DOMAIN q.blk
        BY <2>3, <2>5, <4>1, ListFacts
      <4> QED  BY <4>1, <4>2, ListOver
    <3> QED  BY <1>1, <2>2, <3>1, <3>2 DEF Lists
  <2>7. Apart(q.blk, q.free, q.p5s, H \ {b})
    BY <1>1, <2>2, <2>3 DEF Apart
  <2> QED  BY <1>3, <2>2, <2>3, <2>4, <2>6, <2>7 DEF Owned
<1>5. CASE ~(k > Kmax)
  <2>1. q = [p EXCEPT !.free[k] = <<b>> \o @]
    BY <1>2, <1>5 DEF Bfree
  <2>2. k \in 0 .. Kmax
    BY <1>5, BigintAssumption
  <2>3. DOMAIN p.free = 0 .. Kmax
    BY <1>1 DEF Lists
  <2>4. /\ q = [blk |-> q.blk, free |-> q.free, used |-> q.used, p5s |-> q.p5s, ok |-> q.ok]
        /\ q.free = [p.free EXCEPT ![k] = <<b>> \o p.free[k]]
        /\ q.blk = p.blk /\ q.p5s = p.p5s /\ q.ok = p.ok
    BY <1>1, <2>1 DEF IsPool
  <2>5. /\ q.free[k] = <<b>> \o p.free[k] /\ \A j \in 0 .. Kmax : j # k => q.free[j] = p.free[j]
        /\ q.free = [j \in 0 .. Kmax |-> q.free[j]]
    BY <2>2, <2>3, <2>4
  <2>6. /\ p.free[k] \in Seq(DOMAIN p.blk) /\ Once(p.free[k]) /\ b \in DOMAIN p.blk
        /\ b \notin Elements(p.free[k])
    BY <1>1, <2>2 DEF Lists, Apart
  <2>7. /\ q.free[k] \in Seq(DOMAIN p.blk) /\ Once(q.free[k])
        /\ Elements(q.free[k]) = Elements(p.free[k]) \cup {b}
    <3>1. PICK D, s : D = DOMAIN p.blk /\ s = p.free[k]
      OBVIOUS
    <3>2. s \in Seq(D) /\ Once(s) /\ b \in D /\ b \notin Elements(s)
      BY <2>6, <3>1
    <3>3. <<b>> \o s \in Seq(D) /\ Once(<<b>> \o s) /\ Elements(<<b>> \o s) = Elements(s) \cup {b}
      BY <3>2, Prepended
    <3>4. q.free[k] = <<b>> \o s
      BY <2>5, <3>1
    <3> QED  BY <3>1, <3>3, <3>4, Zenon
  <2>8. IsPool(q)
    BY <1>1, <2>4 DEF IsPool
  <2>9. Lists(q.blk, q.free, q.p5s)
    <3>1. \A c \in Elements(q.free[k]) : p.blk[c].k = k
      BY <1>1, <1>2, <2>2, <2>7 DEF Lists
    <3>2. ASSUME NEW j \in 0 .. Kmax
          PROVE  /\ q.free[j] \in Seq(DOMAIN p.blk) /\ Once(q.free[j])
                 /\ \A c \in Elements(q.free[j]) : p.blk[c].k = j
      <4>1. CASE j = k
        BY <2>7, <3>1, <4>1
      <4>2. CASE j # k
        <5>1. q.free[j] = p.free[j]
          BY <2>5, <4>2
        <5> QED  BY <1>1, <5>1 DEF Lists
      <4> QED  BY <4>1, <4>2
    <3>3. p.p5s \in Seq(DOMAIN p.blk) /\ Once(p.p5s)
      BY <1>1 DEF Lists
    <3>4. q.blk = p.blk /\ q.p5s = p.p5s /\ q.free = [j \in 0 .. Kmax |-> q.free[j]]
      BY <2>4, <2>5
    <3> QED  BY <3>2, <3>3, <3>4 DEF Lists
  <2>10. Apart(q.blk, q.free, q.p5s, H \ {b})
    <3>1. \A j \in 0 .. Kmax : Elements(q.free[j]) \cap ((H \ {b}) \cup Elements(p.p5s)) = {}
      BY <1>1, <2>5, <2>7 DEF Apart
    <3>2. \A c \in DOMAIN p.blk : c \in (H \ {b}) \cup Elements(p.p5s) \/ \E j \in 0 .. Kmax : c \in Elements(q.free[j])
      BY <1>1, <2>2, <2>5, <2>7 DEF Apart
    <3> QED  BY <1>1, <2>4, <3>1, <3>2 DEF Apart
  <2> QED  BY <1>3, <2>4, <2>8, <2>9, <2>10 DEF Owned
<1> QED  BY <1>4, <1>5

(* An operation gave the Bigint r.b next to those in H.                    *)
Given(p, H, r) == Owned(r.pool, H \cup {r.b}) /\ r.b \notin H /\ r.pool.p5s = p.p5s

(* Balloc() takes a Bigint from the free list of the class,                *)
LEMMA RecycleIs ==
  ASSUME NEW p, NEW H, Owned(p, H), NEW k \in 0 .. Kmax, p.free[k] # <<>>,
         NEW r, r = Recycle(p, k)
  PROVE  Given(p, H, r) /\ r.pool.blk[r.b].k = k
<1>1. /\ IsPool(p) /\ Lists(p.blk, p.free, p.p5s) /\ Apart(p.blk, p.free, p.p5s, H)
  BY DEF Owned
<1>2. PICK b : b = Head(p.free[k])
  OBVIOUS
<1>3. /\ p.free[k] \in Seq(DOMAIN p.blk) /\ Once(p.free[k])
      /\ \A c \in Elements(p.free[k]) : p.blk[c].k = k
  BY <1>1 DEF Lists
<1>4. /\ Tail(p.free[k]) \in Seq(DOMAIN p.blk) /\ Once(Tail(p.free[k])) /\ b \in Elements(p.free[k])
      /\ Elements(Tail(p.free[k])) = Elements(p.free[k]) \ {b}
  BY <1>2, <1>3, Beheaded
<1>5. b \in DOMAIN p.blk /\ p.blk[b].k = k /\ b \notin H \cup Elements(p.p5s)
  BY <1>1, <1>3, <1>4, ListFacts DEF Apart
<1>6. PICK m : m = [p EXCEPT !.free[k] = Tail(@)]
  OBVIOUS
<1>7. /\ m = [blk |-> m.blk, free |-> m.free, used |-> m.used, p5s |-> m.p5s, ok |-> m.ok]
      /\ m.free = [p.free EXCEPT ![k] = Tail(p.free[k])]
      /\ m.blk = p.blk /\ m.p5s = p.p5s /\ m.ok = p.ok
  BY <1>1, <1>6 DEF IsPool
<1>8. /\ m.free[k] = Tail(p.free[k]) /\ \A j \in 0 .. Kmax : j # k => m.free[j] = p.free[j]
      /\ m.free = [j \in 0 .. Kmax |-> m.free[j]]
  <2>1. DOMAIN p.free = 0 .. Kmax
    BY <1>1 DEF Lists
  <2> QED  BY <1>7, <2>1
<1>9. Owned(m, H \cup {b})
  <2>1. IsPool(m)
    BY <1>1, <1>7 DEF IsPool
  <2>2. Lists(m.blk, m.free, m.p5s)
    BY <1>1, <1>3, <1>4, <1>7, <1>8 DEF Lists
  <2>3. Apart(m.blk, m.free, m.p5s, H \cup {b})
    <3>1. \A j \in 0 .. Kmax : j # k => b \notin Elements(p.free[j])
      BY <1>1, <1>3, <1>4, <1>5 DEF Lists
    <3>2. \A j \in 0 .. Kmax : Elements(m.free[j]) \cap ((H \cup {b}) \cup Elements(p.p5s)) = {}
      BY <1>1, <1>4, <1>8, <3>1 DEF Apart
    <3>3. \A c \in DOMAIN p.blk : c \in (H \cup {b}) \cup Elements(p.p5s) \/ \E j \in 0 .. Kmax : c \in Elements(m.free[j])
      BY <1>1, <1>4, <1>8 DEF Apart
    <3> QED  BY <1>1, <1>5, <1>7, <3>2, <3>3 DEF Apart
  <2> QED  BY <2>1, <2>2, <2>3 DEF Owned
<1>10. PICK u : u = p.blk[b]
  OBVIOUS
<1>11. PICK v : v = [k |-> u.k, sign |-> 0, wds |-> 0, private |-> u.private, x |-> u.x]
  OBVIOUS
<1>12. IsBigint(u) /\ Pow2[u.k] \in Nat
  BY <1>1, <1>5, <1>10, Pow2Bounds DEF IsPool, IsBigint
<1>13. IsBigint(v) /\ v.k = u.k /\ v = [u EXCEPT !.sign = 0, !.wds = 0]
  <2>1. v = [u EXCEPT !.sign = 0, !.wds = 0]
    BY <1>11, <1>12, Cleared
  <2>2. /\ v = [k |-> v.k, sign |-> v.sign, wds |-> v.wds, private |-> v.private, x |-> v.x]
        /\ v.k = u.k /\ v.wds = 0 /\ v.private = u.private /\ v.x = u.x
    BY <1>11
  <2>3. IsBigint(v)
    BY <1>12, <2>2 DEF IsBigint
  <2> QED  BY <2>1, <2>2, <2>3
<1>14. r = [pool |-> [m EXCEPT !.blk = [@ EXCEPT ![b] = v]], b |-> b]
  <2>1. r = [pool |-> [p EXCEPT !.free[k] = Tail(@), !.blk = [@ EXCEPT ![b] = [u EXCEPT !.sign = 0, !.wds = 0]]], b |-> b]
    BY <1>2, <1>10 DEF Recycle, Result
  <2> QED  BY <1>1, <1>6, <1>13, <2>1
<1>15. /\ Owned(r.pool, H \cup {b}) /\ r.pool.p5s = m.p5s /\ r.pool.blk[b] = v
  <2>1. PICK q : q = [m EXCEPT !.blk = [@ EXCEPT ![b] = v]]
    OBVIOUS
  <2>2. b \in DOMAIN m.blk /\ v.k = m.blk[b].k
    BY <1>5, <1>7, <1>10, <1>13
  <2>3. PICK J : J = H \cup {b}
    OBVIOUS
  <2>4. Owned(m, J) /\ IsBigint(v)
    BY <1>9, <1>13, <2>3
  <2>5. Owned(q, J) /\ q.p5s = m.p5s /\ q.blk[b] = v
    BY <2>1, <2>2, <2>4, Rewritten
  <2>6. r.pool = q
    BY <1>14, <2>1
  <2> QED  BY <2>3, <2>5, <2>6
<1>16. r.b = b /\ m.p5s = p.p5s /\ b \notin H /\ v.k = k
  BY <1>5, <1>7, <1>10, <1>13, <1>14
<1> QED  BY <1>15, <1>16 DEF Given

(* or makes one.                                                           *)
LEMMA CarveIs ==
  ASSUME NEW p, NEW H, Owned(p, H), NEW k \in Nat, NEW r, r = Carve(p, k)
  PROVE  Given(p, H, r) /\ r.pool.blk[r.b].k = k
<1>1. /\ IsPool(p) /\ Lists(p.blk, p.free, p.p5s) /\ Apart(p.blk, p.free, p.p5s, H)
  BY DEF Owned
<1>2. PICK b : b = Unused(p) /\ b \notin DOMAIN p.blk
  BY <1>1, UnusedIs DEF IsPool
<1>3. PICK x : x = [i \in 0 .. Pow2[k] - 1 |-> Junk]
  OBVIOUS
<1>4. PICK v : v = [k |-> k, sign |-> 0, wds |-> 0, private |-> FitsPrivate(p, k), x |-> x]
  OBVIOUS
<1>5. IsBigint(v) /\ v.k = k
  <2>1. FitsPrivate(p, k) \in BOOLEAN /\ (FitsPrivate(p, k) => k <= Kmax)
    BY DEF FitsPrivate
  <2>2. Pow2[k] \in Nat
    BY Pow2Bounds
  <2> QED  BY <1>3, <1>4, <2>1, <2>2 DEF IsBigint
<1>6. PICK q : q = r.pool
  OBVIOUS
<1>7. /\ r.b = b
      /\ q = [p EXCEPT !.blk = [c \in DOMAIN @ \cup {b} |-> IF c = b THEN v ELSE @[c]],
                       !.used = IF FitsPrivate(p, k) THEN @ + Units(k) ELSE @]
  BY <1>2, <1>3, <1>4, <1>6 DEF Carve, Result
<1>8. /\ q = [blk |-> q.blk, free |-> q.free, used |-> q.used, p5s |-> q.p5s, ok |-> q.ok]
      /\ q.blk = [c \in DOMAIN p.blk \cup {b} |-> IF c = b THEN v ELSE p.blk[c]]
      /\ q.free = p.free /\ q.p5s = p.p5s /\ q.ok = p.ok
  BY <1>1, <1>7 DEF IsPool
<1>9. /\ DOMAIN q.blk = DOMAIN p.blk \cup {b} /\ q.blk[b] = v
      /\ \A c \in DOMAIN p.blk : q.blk[c] = p.blk[c]
  BY <1>2, <1>8
<1>10. IsPool(q)
  <2>1. IsFiniteSet(DOMAIN q.blk)
    BY <1>1, <1>9, FS_AddElement DEF IsPool
  <2>2. \A c \in DOMAIN q.blk : IsBigint(q.blk[c])
    BY <1>1, <1>5, <1>9 DEF IsPool
  <2> QED  BY <1>1, <1>8, <2>1, <2>2 DEF IsPool
<1>11. /\ \A j \in 0 .. Kmax : Elements(p.free[j]) \subseteq DOMAIN p.blk
       /\ Elements(p.p5s) \subseteq DOMAIN p.blk
  BY <1>1, ListFacts DEF Lists
<1>12. Lists(q.blk, q.free, q.p5s)
  <2>1. ASSUME NEW j \in 0 .. Kmax PROVE p.free[j] \in Seq(DOMAIN q.blk)
    <3>1. Elements(p.free[j]) \subseteq DOMAIN q.blk /\ p.free[j] \in Seq(DOMAIN p.blk)
      BY <1>1, <1>9, <1>11 DEF Lists
    <3> QED  BY <3>1, ListOver
  <2>2. p.p5s \in Seq(DOMAIN q.blk)
    <3>1. Elements(p.p5s) \subseteq DOMAIN q.blk /\ p.p5s \in Seq(DOMAIN p.blk)
      BY <1>1, <1>9, <1>11 DEF Lists
    <3> QED  BY <3>1, ListOver
  <2>3. \A j \in 0 .. Kmax : \A c \in Elements(p.free[j]) : q.blk[c].k = j
    BY <1>1, <1>9, <1>11 DEF Lists
  <2> QED  BY <1>1, <1>8, <2>1, <2>2, <2>3 DEF Lists
<1>13. Apart(q.blk, q.free, q.p5s, H \cup {b})
  <2>1. b \notin Elements(p.p5s) /\ \A j \in 0 .. Kmax : b \notin Elements(p.free[j])
    BY <1>2, <1>11
  <2> QED  BY <1>1, <1>8, <1>9, <2>1 DEF Apart
<1>14. b \notin H
  BY <1>1, <1>2 DEF Apart
<1> QED  BY <1>5, <1>6, <1>7, <1>8, <1>9, <1>10, <1>12, <1>13, <1>14 DEF Given, Owned

(* Either way the Bigint is of the class, and nobody else has it.          *)
LEMMA BallocIs ==
  ASSUME NEW p, NEW H, Owned(p, H), NEW k \in Nat, NEW r, r = Balloc(p, k)
  PROVE  Given(p, H, r) /\ r.pool.blk[r.b].k = k
<1>1. CASE k <= Kmax /\ p.free[k] # <<>>
  <2>1. k \in 0 .. Kmax /\ r = Recycle(p, k)
    BY <1>1, BigintAssumption DEF Balloc
  <2> QED  BY <1>1, <2>1, RecycleIs
<1>2. CASE ~(k <= Kmax /\ p.free[k] # <<>>)
  <2>1. r = Carve(p, k)
    BY <1>2 DEF Balloc
  <2> QED  BY <2>1, CarveIs
<1> QED  BY <1>1, <1>2

-----------------------------------------------------------------------------
(* Operations on one number                                                *)

(* b is in use next to those in H.                                         *)
Held(p, H, b) == Owned(p, H \cup {b}) /\ b \notin H

(* A Bigint in use or cached has a class and no more words than that       *)
(* allows.                                                                 *)
LEMMA BigintFacts ==
  ASSUME NEW p, NEW H, Owned(p, H), NEW b, b \in H \cup Elements(p.p5s)
  PROVE  /\ b \in DOMAIN p.blk /\ p.blk[b].k \in Nat /\ Wds(p, b) \in Nat
         /\ Pow2[p.blk[b].k] \in Nat /\ Wds(p, b) <= Pow2[p.blk[b].k]
         /\ DOMAIN Words(p, b) = 0 .. Wds(p, b) - 1
<1>1. b \in DOMAIN p.blk
  BY ListFacts DEF Owned, Lists, Apart
<1>2. IsBigint(p.blk[b])
  BY <1>1 DEF Owned, IsPool
<1>3. p.blk[b].k \in Nat /\ Wds(p, b) \in Nat /\ Wds(p, b) <= Pow2[p.blk[b].k]
  BY <1>2 DEF IsBigint, Wds
<1>4. DOMAIN Words(p, b) = 0 .. Wds(p, b) - 1
  BY DEF Words
<1> QED  BY <1>1, <1>3, <1>4, Pow2Bounds

(* The same of one that an operation was given.                            *)
LEMMA HeldFacts ==
  ASSUME NEW p, NEW H, NEW b, Held(p, H, b)
  PROVE  /\ b \in DOMAIN p.blk /\ p.blk[b].k \in Nat /\ Wds(p, b) \in Nat
         /\ Pow2[p.blk[b].k] \in Nat /\ Wds(p, b) <= Pow2[p.blk[b].k]
         /\ DOMAIN Words(p, b) = 0 .. Wds(p, b) - 1
BY BigintFacts DEF Held

(* Writing to a Bigint in place, and to one that was just taken.           *)
LEMMA WriteInPlace ==
  ASSUME NEW p, NEW H, NEW b, Held(p, H, b), NEW f, NEW n, Fits(p, b, f, n),
         NEW q, q = Write(p, b, f, n)
  PROVE  Held(q, H, b) /\ q.p5s = p.p5s /\ q.blk[b].k = p.blk[b].k /\ Wds(q, b) = n
<1>1. b \in DOMAIN p.blk
  BY HeldFacts
<1> QED  BY <1>1, WriteIs DEF Held, Wds

(* A Bigint that was just taken is still all its own when it is written.   *)
LEMMA StoreIs ==
  ASSUME NEW p, NEW H, NEW got, Given(p, H, got), NEW f, NEW n, Fits(got.pool, got.b, f, n),
         NEW r, r = Store(got, f, n)
  PROVE  Given(p, H, r) /\ r.pool.blk[r.b].k = got.pool.blk[got.b].k /\ Wds(r.pool, r.b) = n
<1>1. Held(got.pool, H, got.b) /\ got.pool.p5s = p.p5s
  BY DEF Given, Held
<1>2. PICK q : q = Write(got.pool, got.b, f, n)
  OBVIOUS
<1>3. r.pool = q /\ r.b = got.b
  BY <1>2 DEF Store, Result
<1>4. Held(q, H, got.b) /\ q.p5s = p.p5s /\ q.blk[got.b].k = got.pool.blk[got.b].k /\ Wds(q, got.b) = n
  BY <1>1, <1>2, WriteInPlace
<1> QED  BY <1>3, <1>4 DEF Given, Held

(* A new Bigint with the words f.                                          *)
LEMMA NewIs ==
  ASSUME NEW p, NEW H, Owned(p, H), NEW k \in Nat, NEW f, DOMAIN f \subseteq 0 .. Pow2[k] - 1,
         NEW n \in Nat, n <= Pow2[k], NEW r, r = Store(Balloc(p, k), f, n)
  PROVE  Given(p, H, r) /\ r.pool.blk[r.b].k = k /\ Wds(r.pool, r.b) = n
<1>1. PICK got : got = Balloc(p, k)
  OBVIOUS
<1>2. Given(p, H, got) /\ got.pool.blk[got.b].k = k
  BY <1>1, BallocIs
<1>3. Fits(got.pool, got.b, f, n)
  BY <1>2 DEF Fits
<1> QED  BY <1>1, <1>2, <1>3, StoreIs

(* A Bigint of the next class takes the place of b.                        *)
LEMMA GrowIs ==
  ASSUME NEW p, NEW H, NEW b, Held(p, H, b), NEW r, r = Grow(p, b)
  PROVE  Given(p, H, r) /\ r.pool.blk[r.b].k = p.blk[b].k + 1
<1>1. PICK k \in Nat : k = p.blk[b].k
  BY HeldFacts
<1>2. PICK n \in Nat : n = Wds(p, b) /\ n <= Pow2[k] /\ DOMAIN Words(p, b) = 0 .. n - 1
  BY <1>1, HeldFacts
<1>3. PICK got : got = Balloc(p, k + 1)
  OBVIOUS
<1>4. Given(p, H \cup {b}, got) /\ got.pool.blk[got.b].k = k + 1
  BY <1>3, BallocIs DEF Held
<1>5. PICK m : m = [got.pool EXCEPT !.blk[got.b].sign = p.blk[b].sign]
  OBVIOUS
<1>6. got.b \in DOMAIN got.pool.blk
  BY <1>4 DEF Given, Owned, Apart
<1>7. Owned(m, (H \cup {b}) \cup {got.b}) /\ m.p5s = p.p5s /\ m.blk[got.b].k = k + 1 /\ got.b \in DOMAIN m.blk
  <2>1. PICK g, c, J, s : g = got.pool /\ c = got.b /\ J = (H \cup {b}) \cup {got.b} /\ s = p.blk[b].sign
    OBVIOUS
  <2>2. Owned(g, J) /\ c \in DOMAIN g.blk /\ g.p5s = p.p5s /\ g.blk[c].k = k + 1
    BY <1>4, <1>6, <2>1 DEF Given
  <2>3. m = [g EXCEPT !.blk[c].sign = s]
    BY <1>5, <2>1
  <2>4. Owned(m, J) /\ m.p5s = g.p5s /\ m.blk[c].k = g.blk[c].k
    <3>1. Owned(g, J) /\ c \in DOMAIN g.blk
      BY <2>2
    <3> QED  BY <2>3, <3>1, SignIs
  <2>5. c \in DOMAIN m.blk
    BY <2>1, <2>4 DEF Owned, Apart
  <2> QED  BY <2>1, <2>2, <2>4, <2>5
<1>8. Fits(m, got.b, Words(p, b), n)
  <2>1. Pow2[k] \in Nat /\ Pow2[k + 1] = 2 * Pow2[k]
    BY Pow2Bounds, Pow2Steps
  <2> QED  BY <1>2, <1>7, <2>1 DEF Fits
<1>9. PICK copy : copy = Write(m, got.b, Words(p, b), n)
  OBVIOUS
<1>10. Owned(copy, (H \cup {b}) \cup {got.b}) /\ copy.p5s = p.p5s /\ copy.blk[got.b].k = k + 1
  BY <1>7, <1>8, <1>9, WriteIs
<1>11. r.pool = Bfree(copy, b) /\ r.b = got.b
  BY <1>1, <1>2, <1>3, <1>5, <1>9 DEF Grow, Result
<1>12. got.b \notin H \cup {b} /\ b \notin H
  BY <1>4 DEF Given, Held
<1>13. ((H \cup {b}) \cup {got.b}) \ {b} = H \cup {got.b}
  BY <1>12
<1>14. /\ Owned(r.pool, ((H \cup {b}) \cup {got.b}) \ {b}) /\ r.pool.p5s = p.p5s
       /\ r.pool.blk[got.b] = copy.blk[got.b]
  <2>1. PICK q : q = Bfree(copy, b)
    OBVIOUS
  <2>2. /\ Owned(q, ((H \cup {b}) \cup {got.b}) \ {b}) /\ q.p5s = p.p5s
        /\ \A c \in ((H \cup {b}) \cup {got.b}) \ {b} : q.blk[c] = copy.blk[c]
    <3>1. PICK J : J = (H \cup {b}) \cup {got.b}
      OBVIOUS
    <3>2. Owned(copy, J) /\ b \in J
      BY <1>10, <3>1
    <3>3. Owned(q, J \ {b}) /\ q.p5s = copy.p5s /\ \A c \in J \ {b} : q.blk[c] = copy.blk[c]
      BY <2>1, <3>2, BfreeIs
    <3> QED  BY <1>10, <3>1, <3>3
  <2>3. got.b \in ((H \cup {b}) \cup {got.b}) \ {b}
    BY <1>12
  <2> QED  BY <1>11, <2>1, <2>2, <2>3
<1> QED  BY <1>1, <1>10, <1>11, <1>12, <1>13, <1>14 DEF Given

(* A word more, in place if there is room.                                 *)
LEMMA PushWordIs ==
  ASSUME NEW p, NEW H, NEW b, Held(p, H, b), NEW word, NEW r, r = PushWord(p, b, word)
  PROVE  Given(p, H, r)
<1>1. PICK k \in Nat : k = p.blk[b].k /\ Pow2[k] \in Nat /\ Pow2[k + 1] = 2 * Pow2[k] /\ Pow2[k] > 0
  <2>1. PICK k \in Nat : k = p.blk[b].k
    BY HeldFacts
  <2>2. Pow2[k] \in Nat /\ k < Pow2[k]
    BY Pow2Bounds
  <2>3. Pow2[k + 1] = 2 * Pow2[k] /\ Pow2[k] > 0
    BY <2>2, Pow2Steps
  <2> QED  BY <2>1, <2>2, <2>3
<1>2. PICK n \in Nat : n = Wds(p, b) /\ n <= Pow2[k]
  BY <1>1, HeldFacts
<1>3. PICK room : room = IF n >= Pow2[k] THEN Grow(p, b) ELSE Result(p, b)
  OBVIOUS
<1>4. Given(p, H, room) /\ n + 1 <= Pow2[room.pool.blk[room.b].k] /\ Pow2[room.pool.blk[room.b].k] \in Nat
  <2>1. CASE n >= Pow2[k]
    <3>1. Given(p, H, room) /\ room.pool.blk[room.b].k = k + 1
      BY <1>1, <1>3, <2>1, GrowIs
    <3> QED  BY <1>1, <1>2, <3>1
  <2>2. CASE ~(n >= Pow2[k])
    <3>1. room.pool = p /\ room.b = b
      BY <1>3, <2>2 DEF Result
    <3> QED  BY <1>1, <1>2, <2>2, <3>1 DEF Given, Held
  <2> QED  BY <2>1, <2>2
<1>5. r = Store(room, Word(n, word), n + 1)
  BY <1>1, <1>2, <1>3 DEF PushWord, Store
<1>6. Fits(room.pool, room.b, Word(n, word), n + 1)
  BY <1>4 DEF Fits, Word
<1> QED  BY <1>4, <1>5, <1>6, StoreIs

(* i2b() needs two words at most.                                          *)
LEMMA I2bIs ==
  ASSUME NEW p, NEW H, Owned(p, H), NEW i, NEW r, r = I2b(p, i)
  PROVE  Given(p, H, r)
<1>1. Pow2[1] = 2
  <2>1. Pow2[0 + 1] = 2 * Pow2[0]
    BY Pow2Steps
  <2> QED  BY <2>1, Pow2Steps
<1>2. DOMAIN Word(0, i) \subseteq 0 .. Pow2[1] - 1
  BY <1>1 DEF Word
<1> QED  BY <1>1, <1>2, NewIs DEF I2b

(* multadd() overwrites the words in use, and adds one for the carry.      *)
LEMMA MultAddIs ==
  ASSUME NEW p, NEW H, NEW b, Held(p, H, b), NEW m, NEW a, NEW r, r = MultAdd(p, b, m, a)
  PROVE  Given(p, H, r)
<1>1. PICK n \in Nat : /\ n = Wds(p, b) /\ n <= Pow2[p.blk[b].k] /\ Pow2[p.blk[b].k] \in Nat
                       /\ DOMAIN Words(p, b) = 0 .. n - 1
  BY HeldFacts
<1>2. PICK low, carry : /\ DOMAIN low = 0 .. n - 1
                        /\ r = IF carry = 0 THEN Result(Write(p, b, low, n), b)
                               ELSE PushWord(Write(p, b, low, n), b, carry)
  <2> DEFINE x == Words(p, b)
             carry[i \in 0 .. n] == IF i = 0 THEN a ELSE (x[i-1] * m + carry[i-1]) \div Base
             low == [i \in DOMAIN x |-> (x[i] * m + carry[i]) % Base]
  <2>1. r = IF carry[n] = 0 THEN Result(Write(p, b, low, n), b)
            ELSE PushWord(Write(p, b, low, n), b, carry[n])
    BY <1>1 DEF MultAdd
  <2>2. DOMAIN low = 0 .. n - 1
    BY <1>1
  <2> HIDE DEF low, carry
  <2> QED  BY <2>1, <2>2
<1>3. Fits(p, b, low, n)
  BY <1>1, <1>2 DEF Fits
<1>4. PICK q : q = Write(p, b, low, n)
  OBVIOUS
<1>5. Held(q, H, b) /\ q.p5s = p.p5s
  BY <1>3, <1>4, WriteInPlace
<1>6. CASE carry = 0
  BY <1>2, <1>4, <1>5, <1>6 DEF Given, Held, Result
<1>7. CASE carry # 0
  <2>1. r = PushWord(q, b, carry)
    BY <1>2, <1>4, <1>7
  <2>2. Given(q, H, r)
    BY <1>5, <2>1, PushWordIs
  <2> QED  BY <1>5, <2>2 DEF Given
<1> QED  BY <1>6, <1>7

(* s2b() adds the digits one by one.                                       *)
Reads(f, first, digits, n) ==
  f = [i \in 0 .. n |-> IF i <= 1 THEN first ELSE MultAdd(f[i-1].pool, f[i-1].b, 10, digits[i])]

(* There is such a sequence of numbers.                                    *)
LEMMA ReadingExists ==
  ASSUME NEW n \in Nat, NEW first, NEW digits
  PROVE  \E f : Reads(f, first, digits, n)
<1> DEFINE S == {k \in 0 .. n : \E f : Reads(f, first, digits, k)}
           next(f, i) == MultAdd(f[i-1].pool, f[i-1].b, 10, digits[i])
<1>1. 0 \in S
  <2>1. PICK f : f = [i \in 0 .. 0 |-> first]
    OBVIOUS
  <2>2. f = [i \in 0 .. 0 |-> IF i <= 1 THEN first ELSE next(f, i)]
    <3> HIDE DEF next
    <3> QED  BY <2>1
  <2> QED  BY <2>2 DEF Reads
<1>2. ASSUME NEW k \in 0 .. n, k \in S, k < n
      PROVE  k + 1 \in S
  <2>1. PICK f : f = [i \in 0 .. k |-> IF i <= 1 THEN first ELSE next(f, i)]
    BY <1>2 DEF Reads
  <2>2. PICK g : g = [i \in 0 .. k + 1 |-> IF i <= k THEN f[i] ELSE IF i <= 1 THEN first ELSE next(f, i)]
    OBVIOUS
  <2>3. \A i \in 0 .. k : g[i] = f[i]
    <3> HIDE DEF next
    <3> QED  BY <2>2
  <2>4. \A i \in 0 .. k + 1 : g[i] = IF i <= 1 THEN first ELSE next(g, i)
    <3> SUFFICES ASSUME NEW i \in 0 .. k + 1 PROVE g[i] = IF i <= 1 THEN first ELSE next(g, i)
      OBVIOUS
    <3>1. i > 1 => next(g, i) = next(f, i)
      <4>1. i > 1 => g[i - 1] = f[i - 1]
        BY <2>3
      <4> QED  BY <4>1
    <3>2. i <= k => f[i] = IF i <= 1 THEN first ELSE next(f, i)
      <4> HIDE DEF next
      <4> QED  BY <2>1
    <3> HIDE DEF next
    <3> QED  BY <2>2, <3>1, <3>2
  <2>5. g = [i \in 0 .. k + 1 |-> g[i]]
    <3> HIDE DEF next
    <3> QED  BY <2>2
  <2>6. g = [i \in 0 .. k + 1 |-> IF i <= 1 THEN first ELSE next(g, i)]
    <3> HIDE DEF next
    <3> QED  BY <2>4, <2>5
  <2>7. k + 1 \in 0 .. n
    BY <1>2
  <2> QED  BY <2>6, <2>7 DEF Reads
<1>3. 0 .. n \subseteq S
  <2> HIDE DEF S
  <2> QED  BY <1>1, <1>2, UpTo
<1> QED  BY <1>3

(* So s2b() gives one Bigint, however often the number outgrew it.         *)
LEMMA S2bIs ==
  ASSUME NEW p, NEW H, Owned(p, H), NEW digits, Len(digits) \in Nat \ {0}, NEW y9,
         NEW r, r = S2b(p, digits, 1, y9)
  PROVE  Given(p, H, r)
<1>1. PICK n \in Nat : n = Len(digits) /\ n # 0 /\ (n + 1 - 1) \div 1 = n
  OBVIOUS
<1>2. PICK first : first = Store(Balloc(p, ClassFor(n)), Word(0, y9), 1)
  OBVIOUS
<1>3. Given(p, H, first)
  <2>1. PICK c : c = ClassFor(n)
    OBVIOUS
  <2>2. \E k \in 0 .. n : n <= Pow2[k] /\ (k = 0 \/ n > Pow2[k - 1])
    <3>1. \E k \in 0 .. 0 + n : n <= Pow2[k] /\ (k = 0 \/ n > Pow2[k - 1])
      BY ClassExists
    <3>2. 0 + n = n
      OBVIOUS
    <3> QED  BY <3>1, <3>2
  <2>3. c \in 0 .. n /\ n <= Pow2[c]
    BY <2>1, <2>2 DEF ClassFor
  <2>4. c \in Nat /\ Pow2[c] \in Nat /\ 1 <= Pow2[c]
    BY <1>1, <2>3, Pow2Bounds
  <2>5. DOMAIN Word(0, y9) \subseteq 0 .. Pow2[c] - 1
    BY <2>4 DEF Word
  <2> QED  BY <1>2, <2>1, <2>4, <2>5, NewIs
<1>4. PICK read : Reads(read, first, digits, n) /\ r = read[n]
  <2> DEFINE body(f) == [i \in 0 .. n |-> IF i <= 1 THEN first
                                          ELSE MultAdd(f[i-1].pool, f[i-1].b, 10, digits[i])]
             read == CHOOSE f : f = body(f)
  <2>1. r = read[n]
    BY <1>1, <1>2 DEF S2b
  <2>2. \E f : f = body(f)
    <3>1. PICK f : Reads(f, first, digits, n)
      BY ReadingExists
    <3>2. f = body(f)
      BY <3>1 DEF Reads
    <3> QED  BY <3>2, Zenon
  <2>3. read = body(read)
    <3> HIDE DEF body
    <3> QED  BY <2>2
  <2>4. Reads(read, first, digits, n)
    BY <2>3 DEF Reads
  <2> HIDE DEF read
  <2> QED  BY <2>1, <2>4
<1>5. \A i \in 0 .. n : read[i] = IF i <= 1 THEN first ELSE MultAdd(read[i-1].pool, read[i-1].b, 10, digits[i])
  BY <1>4 DEF Reads
<1> DEFINE S == {i \in 0 .. n : Given(p, H, read[i])}
<1>6. 0 \in S
  BY <1>3, <1>5
<1>7. ASSUME NEW i \in 0 .. n, i \in S, i < n
      PROVE  i + 1 \in S
  <2>1. i + 1 \in 0 .. n /\ (i + 1) - 1 = i
    BY <1>7
  <2>2. CASE i + 1 <= 1
    BY <1>3, <1>5, <2>1, <2>2
  <2>3. CASE ~(i + 1 <= 1)
    <3>1. read[i + 1] = MultAdd(read[i].pool, read[i].b, 10, digits[i + 1])
      BY <1>5, <2>1, <2>3
    <3>2. Held(read[i].pool, H, read[i].b) /\ read[i].pool.p5s = p.p5s
      BY <1>7 DEF Given, Held
    <3>3. Given(read[i].pool, H, read[i + 1])
      BY <3>1, <3>2, MultAddIs
    <3> QED  BY <2>1, <3>2, <3>3 DEF Given
  <2> QED  BY <2>2, <2>3
<1>8. 0 .. n \subseteq S
  <2> HIDE DEF S
  <2> QED  BY <1>6, <1>7, UpTo
<1> QED  BY <1>4, <1>8

(* increment() writes the words up to the first that can count up, or all  *)
(* and one more.                                                           *)
LEMMA IncrementIs ==
  ASSUME NEW p, NEW H, NEW b, Held(p, H, b), NEW r, r = Increment(p, b)
  PROVE  Given(p, H, r)
<1>1. PICK n \in Nat : /\ n = Wds(p, b) /\ n <= Pow2[p.blk[b].k] /\ Pow2[p.blk[b].k] \in Nat
                       /\ DOMAIN Words(p, b) = 0 .. n - 1
  BY HeldFacts
<1>2. PICK x : x = Words(p, b) /\ DOMAIN x = 0 .. n - 1
  BY <1>1
<1>3. PICK full : full = {i \in DOMAIN x : \A j \in 0 .. i : x[j] = Base - 1}
  OBVIOUS
<1>4. full \subseteq 0 .. n - 1
  BY <1>2, <1>3
<1>5. PICK stop : stop = Cardinality(full)
  OBVIOUS
<1>6. stop \in Nat /\ stop <= n
  <2>1. IsFiniteSet(0 .. n - 1) /\ Cardinality(0 .. n - 1) = n
    BY FS_Interval
  <2> QED  BY <1>4, <1>5, <2>1, FS_Subset, FS_CardinalityType
<1>7. PICK f : f = [i \in full \cup ({stop} \cap DOMAIN x) |-> IF i = stop THEN x[i] + 1 ELSE 0]
  OBVIOUS
<1>8. DOMAIN f \subseteq 0 .. n - 1
  BY <1>2, <1>4, <1>7
<1>9. r = IF stop < n THEN Result(Write(p, b, f, n), b) ELSE PushWord(Write(p, b, f, stop), b, 1)
  BY <1>1, <1>2, <1>3, <1>5, <1>7 DEF Increment
<1>10. r = IF stop < n THEN Result(Write(p, b, f, n), b) ELSE PushWord(Write(p, b, f, n), b, 1)
  <2>1. stop < n \/ stop = n
    BY <1>6
  <2> QED  BY <1>9, <2>1
<1>11. PICK q : q = Write(p, b, f, n)
  OBVIOUS
<1>12. Fits(p, b, f, n)
  BY <1>1, <1>8 DEF Fits
<1>13. Held(q, H, b) /\ q.p5s = p.p5s
  BY <1>11, <1>12, WriteInPlace
<1>14. CASE stop < n
  BY <1>10, <1>11, <1>13, <1>14 DEF Given, Held, Result
<1>15. CASE ~(stop < n)
  <2>1. r = PushWord(q, b, 1)
    BY <1>10, <1>11, <1>15
  <2>2. Given(q, H, r)
    BY <1>13, <2>1, PushWordIs
  <2> QED  BY <1>13, <2>2 DEF Given
<1> QED  BY <1>14, <1>15

(* A new Bigint takes the place of b, which is given back.                 *)
LEMMA ReplacedIs ==
  ASSUME NEW p, NEW H, NEW b, b \notin H, NEW got, Given(p, H \cup {b}, got),
         NEW r, r = Result(Bfree(got.pool, b), got.b)
  PROVE  Given(p, H, r)
<1>1. got.b \notin H \cup {b} /\ ((H \cup {b}) \cup {got.b}) \ {b} = H \cup {got.b}
  BY DEF Given
<1>2. PICK q : q = Bfree(got.pool, b)
  OBVIOUS
<1>3. Owned(q, ((H \cup {b}) \cup {got.b}) \ {b}) /\ q.p5s = got.pool.p5s
  <2>1. PICK g, J : g = got.pool /\ J = (H \cup {b}) \cup {got.b}
    OBVIOUS
  <2>2. Owned(g, J) /\ b \in J
    BY <2>1 DEF Given
  <2>3. Owned(q, J \ {b}) /\ q.p5s = g.p5s
    BY <1>2, <2>1, <2>2, BfreeIs
  <2> QED  BY <2>1, <2>3
<1> QED  BY <1>1, <1>2, <1>3 DEF Given, Result

(* A count of whole words.                                                 *)
LEMMA Quotient ==
  ASSUME NEW a \in Nat, NEW w \in Nat \ {0}
  PROVE  a \div w \in Nat
OBVIOUS

(* lshift() takes a class with room for the words in front and one more.   *)
LEMMA LshiftIs ==
  ASSUME NEW p, NEW H, NEW b, Held(p, H, b), NEW k \in Nat, NEW r, r = Lshift(p, b, k)
  PROVE  Given(p, H, r)
<1>1. PICK w \in Nat : w = Wds(p, b)
  BY HeldFacts
<1>2. PICK k1 \in Nat : k1 = p.blk[b].k
  BY HeldFacts
<1>3. PICK n \in Nat : n = k \div WordBits
  BY Quotient, BigintAssumption
<1>4. PICK n1 \in Nat : n1 = n + w + 1
  BY <1>1, <1>3
<1>5. PICK class : class = CHOOSE c \in k1 .. k1 + n1 : n1 <= Pow2[c] /\ (c = k1 \/ n1 > Pow2[c - 1])
  OBVIOUS
<1>6. class \in Nat /\ n1 <= Pow2[class] /\ Pow2[class] \in Nat
  <2>1. class \in k1 .. k1 + n1 /\ n1 <= Pow2[class]
    BY <1>5, ClassExists
  <2> QED  BY <2>1, Pow2Bounds
<1>7. PICK f, m : /\ DOMAIN f \subseteq 0 .. n1 - 1 /\ m \in {n1, n1 - 1}
                  /\ r = Result(Bfree(Store(Balloc(p, class), f, m).pool, b), Store(Balloc(p, class), f, m).b)
  <2> DEFINE s == k % WordBits
             x == Words(p, b)
             f == [i \in 0 .. (IF s = 0 THEN n1 - 2 ELSE n1 - 1) |-> IF i < n THEN 0 ELSE Shifted(x, s, i - n)]
             m == IF s # 0 /\ f[n1 - 1] # 0 THEN n1 ELSE n1 - 1
  <2>1. r = Result(Bfree(Store(Balloc(p, class), f, m).pool, b), Store(Balloc(p, class), f, m).b)
    BY <1>1, <1>2, <1>3, <1>4, <1>5 DEF Lshift
  <2>2. DOMAIN f \subseteq 0 .. n1 - 1
    <3>1. DOMAIN f = 0 .. (IF s = 0 THEN n1 - 2 ELSE n1 - 1)
      OBVIOUS
    <3> HIDE DEF f, s
    <3> QED  BY <3>1
  <2>3. m \in {n1, n1 - 1}
    <3> HIDE DEF f, s
    <3> QED  OBVIOUS
  <2> HIDE DEF f, m
  <2> QED  BY <2>1, <2>2, <2>3
<1>8. PICK done : done = Store(Balloc(p, class), f, m)
  OBVIOUS
<1>9. Given(p, H \cup {b}, done)
  <2>1. DOMAIN f \subseteq 0 .. Pow2[class] - 1
    BY <1>6, <1>7
  <2>2. m \in Nat /\ m <= Pow2[class]
    BY <1>1, <1>3, <1>4, <1>6, <1>7
  <2> QED  BY <1>6, <1>8, <2>1, <2>2, NewIs DEF Held
<1> QED  BY <1>7, <1>8, <1>9, ReplacedIs DEF Held

(* rshift() works in place.                                                *)
LEMMA RshiftIs ==
  ASSUME NEW p, NEW H, NEW b, Held(p, H, b), NEW k \in Nat, NEW q, q = Rshift(p, b, k)
  PROVE  Held(q, H, b) /\ q.p5s = p.p5s
<1>1. PICK w \in Nat : w = Wds(p, b) /\ w <= Pow2[p.blk[b].k] /\ Pow2[p.blk[b].k] \in Nat \ {0}
  <2>1. Pow2[p.blk[b].k] # 0
    BY HeldFacts, Pow2Bounds
  <2> QED  BY <2>1, HeldFacts
<1>2. PICK n \in Nat : n = k \div WordBits
  BY Quotient, BigintAssumption
<1>3. PICK f, m : Fits(p, b, f, m) /\ q = Write(p, b, f, m)
  <2> DEFINE s == k % WordBits
             x == Words(p, b)
             word(i) == x[i] \div 2^s
                        + (IF i+1 \in DOMAIN x THEN (x[i+1] * 2^(WordBits - s)) % Base ELSE 0)
             f == [i \in 0 .. w - n - 1 |-> word(i + n)]
             top == w - n - 1
             m == IF s # 0 /\ f[top] = 0 THEN top ELSE top + 1
  <2>1. q = IF top < 0 \/ (top = 0 /\ f[0] = 0) THEN Write(p, b, Word(0, 0), 0) ELSE Write(p, b, f, m)
    BY <1>1, <1>2 DEF Rshift
  <2>2. Fits(p, b, Word(0, 0), 0)
    BY <1>1 DEF Fits, Word
  <2>3. top >= 0 => Fits(p, b, f, m)
    <3>1. DOMAIN f = 0 .. top
      OBVIOUS
    <3>2. m \in {top, top + 1}
      OBVIOUS
    <3>3. top \in Int /\ top <= w - 1
      OBVIOUS
    <3> HIDE DEF f, top, m
    <3> QED  BY <1>1, <3>1, <3>2, <3>3 DEF Fits
  <2>4. CASE top < 0 \/ (top = 0 /\ f[0] = 0)
    <3> HIDE DEF f, top, m
    <3> QED  BY <2>1, <2>2, <2>4
  <2>5. CASE ~(top < 0 \/ (top = 0 /\ f[0] = 0))
    <3>1. top >= 0
      BY <2>5
    <3> HIDE DEF f, top, m
    <3> QED  BY <2>1, <2>3, <2>5, <3>1
  <2> QED  BY <2>4, <2>5
<1> QED  BY <1>3, WriteInPlace

-----------------------------------------------------------------------------
(* Operations on two numbers                                               *)

(* Where the leading zeros of n words begin.                               *)
LEMMA TopIs ==
  ASSUME NEW n \in Nat, NEW least \in 0 .. n, NEW f, DOMAIN f = 0 .. n - 1
  PROVE  Top(f, least) \in least .. n
<1>1. Cardinality(DOMAIN f) = n
  BY FS_Interval
<1> DEFINE S == {j \in least .. n : \A i \in j .. n - 1 : f[i] = 0}
<1>2. n \in S
  OBVIOUS
<1>3. PICK m \in S : \A j \in S : m <= j
  <2>1. S \subseteq Nat
    OBVIOUS
  <2>2. S # {}
    BY <1>2, Zenon
  <2> HIDE DEF S
  <2> QED  BY <2>1, <2>2, NatMinimum
<1>4. m = least \/ f[m - 1] # 0
  <2> SUFFICES ASSUME m # least, f[m - 1] = 0 PROVE FALSE
    OBVIOUS
  <2>1. m - 1 \in least .. n /\ \A i \in m - 1 .. n - 1 : i = m - 1 \/ i \in m .. n - 1
    OBVIOUS
  <2>2. m - 1 \in S
    BY <2>1
  <2> QED  BY <1>3, <2>2
<1>5. \E j \in least .. n : (j = least \/ f[j - 1] # 0) /\ \A i \in j .. n - 1 : f[i] = 0
  BY <1>4
<1>6. Top(f, least) = CHOOSE j \in least .. n : (j = least \/ f[j - 1] # 0) /\ \A i \in j .. n - 1 : f[i] = 0
  BY <1>1 DEF Top
<1> QED  BY <1>5, <1>6

(* mult() adds one row for each word of the shorter number.                *)
Rows(f, x, y, wc, m) ==
  f = [j \in 0 .. m |-> IF j = 0 THEN [i \in 0 .. wc - 1 |-> 0] ELSE AddRow(f[j-1], x, y[j-1], j-1)]

(* There is such a sequence of rows.                                       *)
LEMMA RowsExist ==
  ASSUME NEW m \in Nat, NEW x, NEW y, NEW wc
  PROVE  \E f : Rows(f, x, y, wc, m)
<1> DEFINE S == {k \in 0 .. m : \E f : Rows(f, x, y, wc, k)}
           zero == [i \in 0 .. wc - 1 |-> 0]
           next(f, j) == AddRow(f[j-1], x, y[j-1], j-1)
<1>1. 0 \in S
  <2>1. PICK f : f = [j \in 0 .. 0 |-> zero]
    OBVIOUS
  <2>2. f = [j \in 0 .. 0 |-> IF j = 0 THEN zero ELSE next(f, j)]
    <3> HIDE DEF zero, next
    <3> QED  BY <2>1
  <2> QED  BY <2>2 DEF Rows
<1>2. ASSUME NEW k \in 0 .. m, k \in S, k < m
      PROVE  k + 1 \in S
  <2>1. PICK f : f = [j \in 0 .. k |-> IF j = 0 THEN zero ELSE next(f, j)]
    BY <1>2 DEF Rows
  <2>2. PICK g : g = [j \in 0 .. k + 1 |-> IF j <= k THEN f[j] ELSE next(f, j)]
    OBVIOUS
  <2>3. \A j \in 0 .. k : g[j] = f[j]
    <3> HIDE DEF next
    <3> QED  BY <2>2
  <2>4. \A j \in 0 .. k + 1 : g[j] = IF j = 0 THEN zero ELSE next(g, j)
    <3> SUFFICES ASSUME NEW j \in 0 .. k + 1 PROVE g[j] = IF j = 0 THEN zero ELSE next(g, j)
      OBVIOUS
    <3>1. j # 0 => next(g, j) = next(f, j)
      <4>1. j # 0 => g[j - 1] = f[j - 1]
        BY <2>3
      <4> QED  BY <4>1
    <3>2. j <= k => f[j] = IF j = 0 THEN zero ELSE next(f, j)
      <4> HIDE DEF zero, next
      <4> QED  BY <2>1
    <3> HIDE DEF zero, next
    <3> QED  BY <2>2, <3>1, <3>2
  <2>5. g = [j \in 0 .. k + 1 |-> g[j]]
    <3> HIDE DEF next
    <3> QED  BY <2>2
  <2>6. g = [j \in 0 .. k + 1 |-> IF j = 0 THEN zero ELSE next(g, j)]
    <3> HIDE DEF zero, next
    <3> QED  BY <2>4, <2>5
  <2>7. k + 1 \in 0 .. m
    BY <1>2
  <2> QED  BY <2>6, <2>7 DEF Rows
<1>3. 0 .. m \subseteq S
  <2> HIDE DEF S
  <2> QED  BY <1>1, <1>2, UpTo
<1> QED  BY <1>3

(* The product has as many words as its factors together.                  *)
LEMMA RowsAre ==
  ASSUME NEW m \in Nat, NEW x, NEW y, NEW wc, NEW f, Rows(f, x, y, wc, m)
  PROVE  DOMAIN f[m] = 0 .. wc - 1
<1>1. \A j \in 0 .. m : f[j] = IF j = 0 THEN [i \in 0 .. wc - 1 |-> 0] ELSE AddRow(f[j-1], x, y[j-1], j-1)
  BY DEF Rows
<1> DEFINE S == {j \in 0 .. m : DOMAIN f[j] = 0 .. wc - 1}
<1>2. 0 \in S
  BY <1>1
<1>3. ASSUME NEW j \in 0 .. m, j \in S, j < m
      PROVE  j + 1 \in S
  <2>1. j + 1 \in 0 .. m /\ j + 1 # 0 /\ (j + 1) - 1 = j
    BY <1>3
  <2>2. f[j + 1] = AddRow(f[j], x, y[j], j)
    BY <1>1, <2>1
  <2>3. DOMAIN AddRow(f[j], x, y[j], j) = DOMAIN f[j]
    BY Zenon DEF AddRow
  <2> QED  BY <1>3, <2>1, <2>2, <2>3
<1>4. 0 .. m \subseteq S
  <2> HIDE DEF S
  <2> QED  BY <1>2, <1>3, UpTo
<1> QED  BY <1>4

(* It fits in the class of the longer factor, or the next one.             *)
LEMMA MultIs ==
  ASSUME NEW p, NEW H, Owned(p, H), NEW a \in H \cup Elements(p.p5s), NEW b \in H \cup Elements(p.p5s),
         NEW r, r = Mult(p, a, b)
  PROVE  Given(p, H, r)
<1>1. PICK long : long = IF Wds(p, a) < Wds(p, b) THEN b ELSE a
  OBVIOUS
<1>2. PICK short : short = IF long = a THEN b ELSE a
  OBVIOUS
<1>3. Wds(p, a) \in Nat /\ Wds(p, b) \in Nat
  BY BigintFacts
<1>4. PICK wc \in Nat : wc = Wds(p, a) + Wds(p, b)
  BY <1>3
<1>5. long \in H \cup Elements(p.p5s) /\ short \in H \cup Elements(p.p5s)
  BY <1>1, <1>2
<1>6. PICK k \in Nat : k = p.blk[long].k /\ Pow2[k] \in Nat /\ Wds(p, long) <= Pow2[k]
  BY <1>5, BigintFacts
<1>7. PICK m \in Nat : m = Wds(p, short)
  BY <1>5, BigintFacts
<1>8. m <= Wds(p, long) /\ wc = m + Wds(p, long)
  BY <1>1, <1>2, <1>3, <1>4, <1>7
<1>9. PICK k2 : k2 = IF wc > Pow2[k] THEN k + 1 ELSE k
  OBVIOUS
<1>10. k2 \in Nat /\ Pow2[k2] \in Nat /\ wc <= Pow2[k2]
  <2>1. Pow2[k + 1] = 2 * Pow2[k]
    BY Pow2Steps
  <2>2. wc <= 2 * Pow2[k]
    BY <1>3, <1>5, <1>6, <1>7, <1>8, BigintFacts
  <2> QED  BY <1>6, <1>9, <2>1, <2>2
<1>11. PICK row : /\ Rows(row, Words(p, long), p.blk[short].x, wc, m)
                  /\ r = Store(Balloc(p, k2), row[m], Top(row[m], 0))
  <2> DEFINE body(f) == [j \in 0 .. m |-> IF j = 0 THEN [i \in 0 .. wc - 1 |-> 0]
                                          ELSE AddRow(f[j-1], Words(p, long), p.blk[short].x[j-1], j-1)]
             row == CHOOSE f : f = body(f)
  <2>1. r = Store(Balloc(p, k2), row[m], Top(row[m], 0))
    BY <1>1, <1>2, <1>4, <1>6, <1>7, <1>9, Zenon DEF Mult
  <2>2. \E f : f = body(f)
    <3>1. PICK x, y : x = Words(p, long) /\ y = p.blk[short].x
      OBVIOUS
    <3>2. PICK f : Rows(f, x, y, wc, m)
      BY RowsExist
    <3>3. Rows(f, Words(p, long), p.blk[short].x, wc, m)
      BY <3>1, <3>2
    <3>4. f = body(f)
      BY <3>3, Zenon DEF Rows
    <3> QED  BY <3>4, Zenon
  <2>3. row = body(row)
    <3> HIDE DEF body
    <3> QED  BY <2>2
  <2>4. Rows(row, Words(p, long), p.blk[short].x, wc, m)
    BY <2>3 DEF Rows
  <2> HIDE DEF row
  <2> QED  BY <2>1, <2>4
<1>12. PICK f : f = row[m]
  OBVIOUS
<1>13. DOMAIN f = 0 .. wc - 1
  BY <1>11, <1>12, RowsAre
<1>14. Top(f, 0) \in 0 .. wc
  BY <1>13, TopIs
<1>15. DOMAIN f \subseteq 0 .. Pow2[k2] - 1 /\ Top(f, 0) \in Nat /\ Top(f, 0) <= Pow2[k2]
  BY <1>10, <1>13, <1>14
<1> QED  BY <1>10, <1>11, <1>12, <1>15, NewIs

(* diff() stays within the class of the larger number.                     *)
LEMMA SubtractIs ==
  ASSUME NEW p, NEW H, Owned(p, H), NEW a \in H, NEW b, NEW sign, Wds(p, a) # 0,
         NEW r, r = Subtract(p, a, b, sign)
  PROVE  Given(p, H, r)
<1>1. PICK w \in Nat : w = Wds(p, a) /\ w # 0 /\ DOMAIN Words(p, a) = 0 .. w - 1
  BY BigintFacts
<1>2. PICK k \in Nat : k = p.blk[a].k /\ Pow2[k] \in Nat /\ w <= Pow2[k]
  BY <1>1, BigintFacts
<1>3. PICK got : got = Balloc(p, k)
  OBVIOUS
<1>4. Given(p, H, got) /\ got.pool.blk[got.b].k = k
  BY <1>3, BallocIs
<1>5. PICK f : /\ DOMAIN f = 0 .. w - 1
               /\ r = Store([got EXCEPT !.pool.blk[got.b].sign = sign], f, Top(f, 1))
  <2> DEFINE xa == Words(p, a)
             under(i) == IF i \in DOMAIN Words(p, b) THEN p.blk[b].x[i] ELSE 0
             borrow[i \in 0 .. Wds(p, a)] ==
               IF i = 0 THEN 0 ELSE IF xa[i-1] < under(i-1) + borrow[i-1] THEN 1 ELSE 0
             f == [i \in DOMAIN xa |-> (xa[i] - under(i) - borrow[i]) % Base]
  <2>1. r = Store([got EXCEPT !.pool.blk[got.b].sign = sign], f, Top(f, 1))
    BY <1>2, <1>3, Zenon DEF Subtract
  <2>2. DOMAIN f = 0 .. w - 1
    BY <1>1
  <2> HIDE DEF f
  <2> QED  BY <2>1, <2>2
<1>6. PICK m : m = [got.pool EXCEPT !.blk[got.b].sign = sign]
  OBVIOUS
<1>7. PICK g : g = [got EXCEPT !.pool.blk[got.b].sign = sign]
  OBVIOUS
<1>8. g.pool = m /\ g.b = got.b
  <2>1. got = [pool |-> got.pool, b |-> got.b]
    BY <1>3 DEF Balloc, Recycle, Carve, Result
  <2> QED  BY <1>6, <1>7, <2>1
<1>9. Given(p, H, g) /\ g.pool.blk[g.b].k = k
  <2>1. got.b \in DOMAIN got.pool.blk
    BY <1>4 DEF Given, Owned, Apart
  <2>2. Owned(m, H \cup {got.b}) /\ m.p5s = got.pool.p5s /\ m.blk[got.b].k = k
    <3>1. PICK o, c, J : o = got.pool /\ c = got.b /\ J = H \cup {got.b}
      OBVIOUS
    <3>2. Owned(o, J) /\ c \in DOMAIN o.blk /\ o.blk[c].k = k
      BY <1>4, <2>1, <3>1 DEF Given
    <3>3. m = [o EXCEPT !.blk[c].sign = sign]
      BY <1>6, <3>1
    <3>4. Owned(m, J) /\ m.p5s = o.p5s /\ m.blk[c].k = o.blk[c].k
      BY <3>2, <3>3, SignIs
    <3> QED  BY <3>1, <3>2, <3>4
  <2> QED  BY <1>4, <1>8, <2>2 DEF Given
<1>10. Top(f, 1) \in 1 .. w
  <2>1. 1 \in 0 .. w /\ DOMAIN f = 0 .. w - 1
    BY <1>1, <1>5
  <2> QED  BY <2>1, TopIs
<1>11. Fits(g.pool, g.b, f, Top(f, 1))
  BY <1>2, <1>5, <1>9, <1>10 DEF Fits
<1>12. r = Store(g, f, Top(f, 1))
  BY <1>5, <1>7
<1> QED  BY <1>9, <1>11, <1>12, StoreIs

(* Each of the three ways through diff() gives one Bigint.                 *)
LEMMA DiffIs ==
  ASSUME NEW p, NEW H, Owned(p, H), NEW a \in H, NEW b \in H, Wds(p, a) # 0, Wds(p, b) # 0,
         NEW r, r = Diff(p, a, b)
  PROVE  Given(p, H, r)
<1>1. CASE Cmp(p, a, b) = 0
  <2>1. r = Store(Balloc(p, 0), Word(0, 0), 1)
    BY <1>1 DEF Diff, Zero
  <2>2. Pow2[0] = 1
    BY Pow2Steps
  <2>3. DOMAIN Word(0, 0) \subseteq 0 .. Pow2[0] - 1
    BY <2>2 DEF Word
  <2> QED  BY <2>1, <2>2, <2>3, NewIs
<1>2. CASE Cmp(p, a, b) # 0 /\ Cmp(p, a, b) < 0
  <2>1. r = Subtract(p, b, a, 1)
    BY <1>2 DEF Diff
  <2> QED  BY <2>1, SubtractIs
<1>3. CASE Cmp(p, a, b) # 0 /\ ~(Cmp(p, a, b) < 0)
  <2>1. r = Subtract(p, a, b, 0)
    BY <1>3 DEF Diff
  <2> QED  BY <2>1, SubtractIs
<1> QED  BY <1>1, <1>2, <1>3

-----------------------------------------------------------------------------
(* pow5mult                                                                *)

(* A Bigint that is cached is no longer the caller's.                      *)
LEMMA CachedIs ==
  ASSUME NEW p, NEW H, NEW got, Given(p, H, got),
         NEW q, q = [got.pool EXCEPT !.p5s = Append(@, got.b)]
  PROVE  Owned(q, H) /\ Len(q.p5s) = Len(p.p5s) + 1
<1>1. PICK m : m = got.pool
  OBVIOUS
<1>2. PICK b : b = got.b /\ b \notin H
  BY DEF Given
<1>3. IsPool(m) /\ Lists(m.blk, m.free, m.p5s) /\ Apart(m.blk, m.free, m.p5s, H \cup {b}) /\ m.p5s = p.p5s
  BY <1>1, <1>2 DEF Given, Owned
<1>4. q = [m EXCEPT !.p5s = Append(@, b)]
  BY <1>1, <1>2
<1>5. /\ q = [blk |-> q.blk, free |-> q.free, used |-> q.used, p5s |-> q.p5s, ok |-> q.ok]
      /\ q.blk = m.blk /\ q.free = m.free /\ q.ok = m.ok /\ q.p5s = Append(m.p5s, b)
  BY <1>3, <1>4 DEF IsPool
<1>6. b \in DOMAIN m.blk /\ b \notin Elements(m.p5s) /\ m.p5s \in Seq(DOMAIN m.blk) /\ Once(m.p5s)
  BY <1>3 DEF Apart, Lists
<1>7. /\ q.p5s \in Seq(DOMAIN m.blk) /\ Len(q.p5s) = Len(m.p5s) + 1
      /\ Once(q.p5s) /\ Elements(q.p5s) = Elements(m.p5s) \cup {b}
  <2>1. PICK D, s : D = DOMAIN m.blk /\ s = m.p5s
    OBVIOUS
  <2>2. s \in Seq(D) /\ Once(s) /\ b \in D /\ b \notin Elements(s)
    BY <1>6, <2>1
  <2>3. /\ Append(s, b) \in Seq(D) /\ Len(Append(s, b)) = Len(s) + 1
        /\ Once(Append(s, b)) /\ Elements(Append(s, b)) = Elements(s) \cup {b}
    BY <2>2, Appended
  <2>4. q.p5s = Append(s, b)
    BY <1>5, <2>1
  <2> QED  BY <2>1, <2>3, <2>4, Zenon
<1>8. IsPool(q)
  BY <1>3, <1>5 DEF IsPool
<1>9. Lists(q.blk, q.free, q.p5s)
  <2>1. Lists(m.blk, m.free, q.p5s)
    BY <1>3, <1>7 DEF Lists
  <2> QED  BY <1>5, <2>1
<1>10. Apart(q.blk, q.free, q.p5s, H)
  <2>1. Apart(m.blk, m.free, m.p5s, H \cup {b}) /\ b \notin H
    BY <1>2, <1>3
  <2>2. Elements(q.p5s) = Elements(m.p5s) \cup {b}
    BY <1>7
  <2>3. Apart(m.blk, m.free, q.p5s, H)
    BY <2>1, <2>2 DEF Apart
  <2> QED  BY <1>5, <2>3
<1> QED  BY <1>3, <1>7, <1>8, <1>9, <1>10 DEF Owned

(* What the chain of powers has at each place is cached.                   *)
LEMMA CacheLength ==
  ASSUME NEW p, NEW H, Owned(p, H)
  PROVE  Len(p.p5s) \in Nat /\ \A j \in 1 .. Len(p.p5s) : p.p5s[j] \in Elements(p.p5s)
<1>1. Len(p.p5s) \in Nat /\ DOMAIN p.p5s = 1 .. Len(p.p5s)
  BY ListFacts DEF Owned, Lists
<1> QED  BY <1>1 DEF Elements

(* The cache grows by one square at a time.                                *)
LEMMA CacheSquareIs ==
  ASSUME NEW p, NEW H, Owned(p, H), NEW j \in Nat, j <= Len(p.p5s), NEW q, q = CacheSquare(p, j)
  PROVE  Owned(q, H) /\ Len(q.p5s) > j
<1>1. PICK n \in Nat : n = Len(p.p5s) /\ \A i \in 1 .. n : p.p5s[i] \in Elements(p.p5s)
  BY CacheLength
<1>2. CASE n > j
  BY <1>1, <1>2 DEF CacheSquare
<1>3. CASE ~(n > j)
  <2>1. n = j
    BY <1>1, <1>3
  <2>2. PICK got : got = IF j = 0 THEN I2b(p, 5^(2^P5Low)) ELSE Mult(p, p.p5s[j], p.p5s[j])
    OBVIOUS
  <2>3. Given(p, H, got)
    <3>1. CASE j = 0
      BY <2>2, <3>1, I2bIs
    <3>2. CASE j # 0
      <4>1. p.p5s[j] \in H \cup Elements(p.p5s)
        BY <1>1, <2>1, <3>2
      <4>2. got = Mult(p, p.p5s[j], p.p5s[j])
        BY <2>2, <3>2
      <4> QED  BY <4>1, <4>2, MultIs
    <3> QED  BY <3>1, <3>2
  <2>4. q = [got.pool EXCEPT !.p5s = Append(@, got.b)]
    BY <1>1, <1>3, <2>2 DEF CacheSquare
  <2>5. Owned(q, H) /\ Len(q.p5s) = n + 1
    BY <1>1, <2>3, <2>4, CachedIs
  <2> QED  BY <2>1, <2>5
<1> QED  BY <1>2, <1>3

(* A turn of the loop for bit j of the exponent.                           *)
LEMMA OnBitIs ==
  ASSUME NEW r, NEW H, Held(r.pool, H, r.b), NEW j \in Nat, j <= Len(r.pool.p5s), NEW set \in BOOLEAN,
         NEW o, o = OnBit(r, j, set)
  PROVE  Held(o.pool, H, o.b) /\ j + 1 <= Len(o.pool.p5s)
<1>1. PICK q : q = CacheSquare(r.pool, j)
  OBVIOUS
<1>2. Owned(q, H \cup {r.b}) /\ Len(q.p5s) > j /\ r.b \notin H
  BY <1>1, CacheSquareIs DEF Held
<1>3. j + 1 \in 1 .. Len(q.p5s) /\ j + 1 <= Len(q.p5s)
  BY <1>2, CacheLength
<1>4. q.p5s[j + 1] \in Elements(q.p5s)
  BY <1>2, <1>3, CacheLength
<1>5. CASE ~set
  <2>1. o = Result(q, r.b)
    BY <1>1, <1>5 DEF OnBit
  <2> QED  BY <1>2, <1>3, <2>1 DEF Held, Result
<1>6. CASE set
  <2>1. o = MultFree(Result(q, r.b), q.p5s[j + 1])
    BY <1>1, <1>6 DEF OnBit, Result
  <2>2. PICK got : got = Mult(q, r.b, q.p5s[j + 1])
    OBVIOUS
  <2>3. o = Result(Bfree(got.pool, r.b), got.b)
    BY <2>1, <2>2 DEF MultFree, Result
  <2>4. Given(q, H \cup {r.b}, got)
    BY <1>2, <1>4, <2>2, MultIs
  <2>5. Given(q, H, o)
    BY <1>2, <2>3, <2>4, ReplacedIs
  <2> QED  BY <1>3, <2>5 DEF Given, Held
<1> QED  BY <1>5, <1>6

(* What is left of the exponent k after j turns.                           *)
Over(k, j) == k \div Pow2[P5Low + j]
IsSet(k, j) == Over(k, j) % 2 = 1

Turns(f, first, k, n) ==
  f = [j \in 0 .. n |-> IF j = 0 THEN first ELSE OnBit(f[j-1], j-1, IsSet(k, j-1))]

(* There is such a sequence of turns.                                      *)
LEMMA TurnsExist ==
  ASSUME NEW n \in Nat, NEW first, NEW k
  PROVE  \E f : Turns(f, first, k, n)
<1> DEFINE S == {m \in 0 .. n : \E f : Turns(f, first, k, m)}
           next(f, j) == OnBit(f[j-1], j-1, IsSet(k, j-1))
<1>1. 0 \in S
  <2>1. PICK f : f = [j \in 0 .. 0 |-> first]
    OBVIOUS
  <2>2. f = [j \in 0 .. 0 |-> IF j = 0 THEN first ELSE next(f, j)]
    <3> HIDE DEF next
    <3> QED  BY <2>1
  <2> QED  BY <2>2 DEF Turns
<1>2. ASSUME NEW m \in 0 .. n, m \in S, m < n
      PROVE  m + 1 \in S
  <2>1. PICK f : f = [j \in 0 .. m |-> IF j = 0 THEN first ELSE next(f, j)]
    BY <1>2 DEF Turns
  <2>2. PICK g : g = [j \in 0 .. m + 1 |-> IF j <= m THEN f[j] ELSE next(f, j)]
    OBVIOUS
  <2>3. \A j \in 0 .. m : g[j] = f[j]
    <3> HIDE DEF next
    <3> QED  BY <2>2
  <2>4. \A j \in 0 .. m + 1 : g[j] = IF j = 0 THEN first ELSE next(g, j)
    <3> SUFFICES ASSUME NEW j \in 0 .. m + 1 PROVE g[j] = IF j = 0 THEN first ELSE next(g, j)
      OBVIOUS
    <3>1. j # 0 => next(g, j) = next(f, j)
      <4>1. j # 0 => g[j - 1] = f[j - 1]
        BY <2>3
      <4> QED  BY <4>1
    <3>2. j <= m => f[j] = IF j = 0 THEN first ELSE next(f, j)
      <4> HIDE DEF next
      <4> QED  BY <2>1
    <3> HIDE DEF next
    <3> QED  BY <2>2, <3>1, <3>2
  <2>5. g = [j \in 0 .. m + 1 |-> g[j]]
    <3> HIDE DEF next
    <3> QED  BY <2>2
  <2>6. g = [j \in 0 .. m + 1 |-> IF j = 0 THEN first ELSE next(g, j)]
    <3> HIDE DEF next
    <3> QED  BY <2>4, <2>5
  <2>7. m + 1 \in 0 .. n
    BY <1>2
  <2> QED  BY <2>6, <2>7 DEF Turns
<1>3. 0 .. n \subseteq S
  <2> HIDE DEF S
  <2> QED  BY <1>1, <1>2, UpTo
<1> QED  BY <1>3

(* Nothing is left of an exponent once it is divided by more than itself.  *)
LEMMA TooSmall ==
  ASSUME NEW a \in Nat, NEW w \in Nat, a < w
  PROVE  a \div w = 0
OBVIOUS

(* pow5mult() gives b back whenever it is multiplied, and keeps its squares. *)
LEMMA Pow5MultIs ==
  ASSUME NEW p, NEW H, NEW b, Held(p, H, b), NEW k \in Nat, NEW r, r = Pow5Mult(p, b, k)
  PROVE  Held(r.pool, H, r.b)
<1>1. PICK first : first = IF k % Pow2[P5Low] = 0 THEN Result(p, b) ELSE MultAdd(p, b, 5^(k % Pow2[P5Low]), 0)
  OBVIOUS
<1>2. Held(first.pool, H, first.b)
  <2>1. CASE k % Pow2[P5Low] = 0
    BY <1>1, <2>1 DEF Result
  <2>2. CASE k % Pow2[P5Low] # 0
    <3>1. Given(p, H, first)
      BY <1>1, <2>2, MultAddIs
    <3> QED  BY <3>1 DEF Given, Held
  <2> QED  BY <2>1, <2>2
<1>3. PICK n : n = CHOOSE j \in 0 .. k : Over(k, j) = 0 /\ (j = 0 \/ Over(k, j - 1) # 0)
  OBVIOUS
<1>4. n \in 0 .. k
  <2> DEFINE S == {j \in 0 .. k : Over(k, j) = 0}
  <2>1. k \in S
    <3>1. P5Low + k \in Nat /\ k <= P5Low + k
      BY BigintAssumption
    <3>2. Pow2[P5Low + k] \in Nat /\ k < Pow2[P5Low + k]
      BY <3>1, Pow2Bounds
    <3> QED  BY <3>2, TooSmall DEF Over
  <2>2. PICK m \in S : \A j \in S : m <= j
    <3>1. S \subseteq Nat /\ S # {}
      BY <2>1
    <3> HIDE DEF S
    <3> QED  BY <3>1, NatMinimum
  <2>3. m = 0 \/ Over(k, m - 1) # 0
    BY <2>2
  <2> QED  BY <1>3, <2>2, <2>3
<1>5. PICK bit : Turns(bit, first, k, k) /\ r = bit[n]
  <2> DEFINE body(f) == [j \in 0 .. k |-> IF j = 0 THEN first ELSE OnBit(f[j-1], j-1, IsSet(k, j-1))]
             bit == CHOOSE f : f = body(f)
  <2>1. r = bit[n]
    BY <1>1, <1>3, Zenon DEF Pow5Mult, IsSet, Over
  <2>2. \E f : f = body(f)
    <3>1. PICK f : Turns(f, first, k, k)
      BY TurnsExist
    <3>2. f = body(f)
      BY <3>1, Zenon DEF Turns
    <3> QED  BY <3>2, Zenon
  <2>3. bit = body(bit)
    <3> HIDE DEF body
    <3> QED  BY <2>2
  <2>4. Turns(bit, first, k, k)
    BY <2>3 DEF Turns
  <2> HIDE DEF bit
  <2> QED  BY <2>1, <2>4
<1>6. \A j \in 0 .. k : bit[j] = IF j = 0 THEN first ELSE OnBit(bit[j-1], j-1, IsSet(k, j-1))
  BY <1>5 DEF Turns
<1> DEFINE S == {j \in 0 .. k : Held(bit[j].pool, H, bit[j].b) /\ j <= Len(bit[j].pool.p5s)}
<1>7. 0 \in S
  <2>1. Len(first.pool.p5s) \in Nat
    BY <1>2, CacheLength DEF Held
  <2> QED  BY <1>2, <1>6, <2>1
<1>8. ASSUME NEW j \in 0 .. k, j \in S, j < k
      PROVE  j + 1 \in S
  <2>1. j + 1 \in 0 .. k /\ j + 1 # 0 /\ (j + 1) - 1 = j
    BY <1>8
  <2>2. bit[j + 1] = OnBit(bit[j], j, IsSet(k, j))
    BY <1>6, <2>1
  <2>3. IsSet(k, j) \in BOOLEAN
    BY DEF IsSet
  <2>4. Held(bit[j + 1].pool, H, bit[j + 1].b) /\ j + 1 <= Len(bit[j + 1].pool.p5s)
    <3>1. PICK t, o, set : t = bit[j] /\ o = bit[j + 1] /\ set = IsSet(k, j)
      OBVIOUS
    <3>2. Held(t.pool, H, t.b) /\ j <= Len(t.pool.p5s) /\ set \in BOOLEAN /\ o = OnBit(t, j, set) /\ j \in Nat
      BY <1>8, <2>2, <2>3, <3>1
    <3>3. Held(o.pool, H, o.b) /\ j + 1 <= Len(o.pool.p5s)
      BY <3>2, OnBitIs
    <3> QED  BY <3>1, <3>3
  <2> QED  BY <2>1, <2>4
<1>9. 0 .. k \subseteq S
  <2> HIDE DEF S
  <2> QED  BY <1>7, <1>8, UpTo
<1> QED  BY <1>4, <1>5, <1>9

-----------------------------------------------------------------------------
(* The caller                                                              *)

(* The Bigints the caller holds are in use, and no others.                 *)
PoolInv == Owned(pool, held)

(* At the start there are no Bigints.                                      *)
LEMMA EmptyPoolIs ==
  Owned(EmptyPool, {})
<1>1. PICK p : p = EmptyPool
  OBVIOUS
<1>2. /\ p = [blk |-> p.blk, free |-> p.free, used |-> p.used, p5s |-> p.p5s, ok |-> p.ok]
      /\ p.blk = <<>> /\ p.free = [k \in 0 .. Kmax |-> <<>>] /\ p.p5s = <<>> /\ p.ok = TRUE
  BY <1>1 DEF EmptyPool
<1>3. DOMAIN <<>> = {} /\ Elements(<<>>) = {} /\ Once(<<>>) /\ \A S : <<>> \in Seq(S)
  BY EmptySeq DEF Elements, Once
<1>4. IsPool(p)
  BY <1>2, <1>3, FS_EmptySet DEF IsPool
<1>5. Lists(p.blk, p.free, p.p5s)
  BY <1>2, <1>3 DEF Lists
<1>6. Apart(p.blk, p.free, p.p5s, {})
  BY <1>2, <1>3 DEF Apart
<1> QED  BY <1>1, <1>4, <1>5, <1>6 DEF Owned

(* The result of an operation is held besides what it was given, or        *)
(* instead of it.                                                          *)
LEMMA HoldsNew ==
  ASSUME PoolInv, NEW result, Given(pool, held, result), Holds(result, {})
  PROVE  PoolInv'
<1>1. held \cup {result.b} = (held \ {}) \cup {result.b}
  OBVIOUS
<1> QED  BY <1>1 DEF PoolInv, Given, Holds

(* The result is held instead of the operand.                              *)
LEMMA HoldsInstead ==
  ASSUME NEW b, NEW result, Held(result.pool, held \ {b}, result.b), Holds(result, {b})
  PROVE  PoolInv'
BY DEF PoolInv, Held, Holds

(* i2b() and s2b().                                                        *)
LEMMA MakeKeeps ==
  ASSUME PoolInv, Make
  PROVE  PoolInv'
<1>1. CASE \E i \in Ints : Holds(I2b(pool, i), {})
  <2>1. PICK i \in Ints : Holds(I2b(pool, i), {})
    BY <1>1
  <2>2. Given(pool, held, I2b(pool, i))
    BY I2bIs DEF PoolInv
  <2> QED  BY <2>1, <2>2, HoldsNew
<1>2. CASE \E d \in Numerals : Holds(S2b(pool, d, 1, d[1]), {})
  <2>1. PICK d \in Numerals : Holds(S2b(pool, d, 1, d[1]), {})
    BY <1>2
  <2>2. Len(d) \in Nat \ {0}
    <3>1. d \in Seq(Nat) /\ d # <<>>
      BY BignumsAssumption
    <3> QED  BY <3>1, ListFacts
  <2>3. Given(pool, held, S2b(pool, d, 1, d[1]))
    BY <2>2, S2bIs DEF PoolInv
  <2> QED  BY <2>1, <2>3, HoldsNew
<1> QED  BY <1>1, <1>2 DEF Make

(* The operations on one number.                                           *)
LEMMA WorkKeeps ==
  ASSUME PoolInv, NEW b \in held, Work(b)
  PROVE  PoolInv'
<1>1. Held(pool, held \ {b}, b)
  <2>1. (held \ {b}) \cup {b} = held
    OBVIOUS
  <2> QED  BY <2>1 DEF PoolInv, Held
<1>2. \A result : Given(pool, held \ {b}, result) => Held(result.pool, held \ {b}, result.b)
  BY DEF Given, Held
<1>3. CASE \E a \in {0, 9} : Holds(MultAdd(pool, b, 10, a), {b})
  <2>1. PICK a \in {0, 9} : Holds(MultAdd(pool, b, 10, a), {b})
    BY <1>3
  <2>2. Given(pool, held \ {b}, MultAdd(pool, b, 10, a))
    BY <1>1, MultAddIs
  <2> QED  BY <1>2, <2>1, <2>2, HoldsInstead
<1>4. CASE \E k \in Powers : Holds(Pow5Mult(pool, b, k), {b})
  <2>1. PICK k \in Powers : Holds(Pow5Mult(pool, b, k), {b})
    BY <1>4
  <2>2. k \in Nat
    BY BignumsAssumption
  <2>3. PICK result : result = Pow5Mult(pool, b, k)
    OBVIOUS
  <2>4. Held(result.pool, held \ {b}, result.b)
    BY <1>1, <2>2, <2>3, Pow5MultIs
  <2> QED  BY <2>1, <2>3, <2>4, HoldsInstead
<1>5. CASE \E k \in Shifts : Holds(Lshift(pool, b, k), {b})
  <2>1. PICK k \in Shifts : Holds(Lshift(pool, b, k), {b})
    BY <1>5
  <2>2. k \in Nat
    BY BignumsAssumption
  <2>3. Given(pool, held \ {b}, Lshift(pool, b, k))
    BY <1>1, <2>2, LshiftIs
  <2> QED  BY <1>2, <2>1, <2>3, HoldsInstead
<1>6. CASE \E k \in Shifts : Holds(Result(Rshift(pool, b, k), b), {b})
  <2>1. PICK k \in Shifts : Holds(Result(Rshift(pool, b, k), b), {b})
    BY <1>6
  <2>2. k \in Nat
    BY BignumsAssumption
  <2>3. PICK q : q = Rshift(pool, b, k)
    OBVIOUS
  <2>4. Held(q, held \ {b}, b)
    BY <1>1, <2>2, <2>3, RshiftIs
  <2>5. PICK result : result = Result(q, b)
    OBVIOUS
  <2>6. result.pool = q /\ result.b = b
    BY <2>5 DEF Result
  <2>7. Holds(result, {b})
    BY <2>1, <2>3, <2>5
  <2>8. Held(result.pool, held \ {b}, result.b)
    BY <2>4, <2>6
  <2> QED  BY <2>7, <2>8, HoldsInstead
<1>7. CASE Holds(Increment(pool, b), {b})
  <2>1. Given(pool, held \ {b}, Increment(pool, b))
    BY <1>1, IncrementIs
  <2> QED  BY <1>2, <1>7, <2>1, HoldsInstead
<1> QED  BY <1>3, <1>4, <1>5, <1>6, <1>7 DEF Work

(* mult().                                                                 *)
LEMMA MultiplyKeeps ==
  ASSUME PoolInv, NEW a \in held, NEW b \in held, Multiply(a, b)
  PROVE  PoolInv'
<1>1. Given(pool, held, Mult(pool, a, b))
  BY MultIs DEF PoolInv
<1> QED  BY <1>1, HoldsNew DEF Multiply

(* A number without words is zero.                                         *)
LEMMA NonzeroHasWords ==
  ASSUME NEW b, Value(b) > 0
  PROVE  Wds(pool, b) # 0
<1> SUFFICES ASSUME Wds(pool, b) = 0 PROVE FALSE
  OBVIOUS
<1> DEFINE body(f) == [i \in 0 .. 0 |-> IF i = 0 THEN 0 ELSE f[i-1] + pool.blk[b].x[i-1] * Base^(i-1)]
           sum == CHOOSE f : f = body(f)
<1>1. Value(b) = sum[0]
  BY Zenon DEF Value
<1>2. \E f : f = body(f)
  <2>1. PICK f : f = [i \in 0 .. 0 |-> 0]
    OBVIOUS
  <2>2. \A i \in 0 .. 0 : i = 0
    OBVIOUS
  <2>3. f = body(f)
    BY <2>1, <2>2, Zenon
  <2> QED  BY <2>3
<1>3. sum = body(sum)
  <2> HIDE DEF body
  <2> QED  BY <1>2
<1>4. sum[0] = 0
  <2> HIDE DEF sum
  <2> QED  BY <1>3
<1> QED  BY <1>1, <1>4

(* diff(), of numbers that are not zero and so have words to subtract.     *)
LEMMA DifferenceKeeps ==
  ASSUME PoolInv, NEW a \in held, NEW b \in held, Difference(a, b)
  PROVE  PoolInv'
<1>1. PICK d : d = Diff(pool, a, b)
  OBVIOUS
<1>2. Wds(pool, a) # 0 /\ Wds(pool, b) # 0
  BY NonzeroHasWords DEF Difference
<1>3. Given(pool, held, d)
  BY <1>1, <1>2, DiffIs DEF PoolInv
<1>4. PICK result : result = [d EXCEPT !.pool.blk[d.b].sign = 0] /\ Holds(result, {})
  BY <1>1 DEF Difference, TakeSign
<1>5. PICK q : q = [d.pool EXCEPT !.blk[d.b].sign = 0]
  OBVIOUS
<1>6. result.pool = q /\ result.b = d.b
  <2>1. d = [pool |-> d.pool, b |-> d.b]
    BY <1>1, Zenon DEF Diff, Zero, Subtract, Store, Result
  <2> QED  BY <1>4, <1>5, <2>1
<1>7. Owned(q, held \cup {d.b}) /\ q.p5s = d.pool.p5s
  <2>1. d.b \in DOMAIN d.pool.blk
    BY <1>3 DEF Given, Owned, Apart
  <2> QED  BY <1>3, <1>5, <2>1, SignIs DEF Given
<1>8. Given(pool, held, result)
  BY <1>3, <1>6, <1>7 DEF Given
<1> QED  BY <1>4, <1>8, HoldsNew

(* Bfree().                                                                *)
LEMMA FreeKeeps ==
  ASSUME PoolInv, NEW b \in held, Free(b)
  PROVE  PoolInv'
<1>1. PICK q : q = Bfree(pool, b)
  OBVIOUS
<1>2. Owned(q, held \ {b})
  BY <1>1, BfreeIs DEF PoolInv
<1> QED  BY <1>1, <1>2 DEF Free, PoolInv

(* Every operation on the Bigints finds and leaves each in one place.      *)
THEOREM PoolInvariance == Spec => []PoolInv
<1>1. Init => PoolInv
  BY EmptyPoolIs DEF Init, PoolInv
<1>2. PoolInv /\ [Next]_vars => PoolInv'
  <2> SUFFICES ASSUME PoolInv, [Next]_vars PROVE PoolInv'
    OBVIOUS
  <2>1. CASE Make
    BY <2>1, MakeKeeps
  <2>2. ASSUME NEW b \in held, Work(b) PROVE PoolInv'
    BY <2>2, WorkKeeps
  <2>3. ASSUME NEW b \in held, Free(b) PROVE PoolInv'
    BY <2>3, FreeKeeps
  <2>4. ASSUME NEW a \in held, NEW b \in held, Multiply(a, b) PROVE PoolInv'
    BY <2>4, MultiplyKeeps
  <2>5. ASSUME NEW a \in held, NEW b \in held, Difference(a, b) PROVE PoolInv'
    BY <2>5, DifferenceKeeps
  <2>6. CASE UNCHANGED vars
    BY <2>6 DEF PoolInv, vars
  <2> QED  BY <2>1, <2>2, <2>3, <2>4, <2>5, <2>6 DEF Next
<1> QED  BY <1>1, <1>2, PTL DEF Spec

(* No Bigint is lost, handed out twice or overrun, and free() gets none    *)
(* that did not come from malloc().                                        *)
THEOREM PoolStaysExact == Spec => []PoolExact
<1>1. ASSUME PoolInv PROVE PoolExact
  <2>1. /\ IsPool(pool) /\ Lists(pool.blk, pool.free, pool.p5s)
        /\ Apart(pool.blk, pool.free, pool.p5s, held)
    BY <1>1 DEF PoolInv, Owned
  <2>2. Cached = Elements(pool.p5s) /\ \A k : Listed(k) = Elements(pool.free[k])
    BY Zenon DEF Cached, Listed, Elements
  <2>3. pool.ok
    BY <2>1 DEF IsPool
  <2>4. DOMAIN pool.blk = held \cup Cached \cup UNION {Listed(k) : k \in 0 .. Kmax}
    <3>1. Cached \subseteq DOMAIN pool.blk /\ \A k \in 0 .. Kmax : Listed(k) \subseteq DOMAIN pool.blk
      BY <2>1, <2>2, ListFacts DEF Lists
    <3>2. UNION {Listed(k) : k \in 0 .. Kmax} \subseteq DOMAIN pool.blk
      BY <3>1
    <3>3. \A b \in DOMAIN pool.blk : b \in held \cup Cached \cup UNION {Listed(k) : k \in 0 .. Kmax}
      <4>1. \A b \in DOMAIN pool.blk : b \in held \cup Cached \/ \E k \in 0 .. Kmax : b \in Listed(k)
        BY <2>1, <2>2 DEF Apart
      <4> QED  BY <4>1
    <3>4. held \subseteq DOMAIN pool.blk
      BY <2>1 DEF Apart
    <3> QED  BY <3>1, <3>2, <3>3, <3>4
  <2>5. held \cap Cached = {}
    BY <2>1, <2>2 DEF Apart
  <2>6. ASSUME NEW k \in 0 .. Kmax
        PROVE  /\ Cardinality(Listed(k)) = Len(pool.free[k])
               /\ \A b \in Listed(k) : pool.blk[b].k = k /\ b \notin held \cup Cached
    <3>1. Cardinality(Elements(pool.free[k])) = Len(pool.free[k])
      BY <2>1, OnceCounts DEF Lists
    <3> QED  BY <2>1, <2>2, <3>1 DEF Lists, Apart
  <2>7. Cardinality(Cached) = Len(pool.p5s)
    BY <2>1, <2>2, OnceCounts DEF Lists
  <2>8. \A b \in DOMAIN pool.blk : pool.blk[b].private => pool.blk[b].k <= Kmax
    BY <2>1 DEF IsPool, IsBigint
  <2> QED  BY <2>3, <2>4, <2>5, <2>6, <2>7, <2>8 DEF PoolExact
<1> QED  BY <1>1, PoolInvariance, PTL

=============================================================================
