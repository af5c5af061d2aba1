----------------------------- MODULE BinsProofs -----------------------------
(***************************************************************************)
(* Proofs about module Bins, for all sizes of the address space and of the *)
(* chunks, all numbers of treebins and any number of chunks: the links of  *)
(* smallbins and treebins always spell one list per size, no runtime check *)
(* of the links fails, the tries stay ordered by the bits of the sizes,    *)
(* every chunk can be found from its bin, and the calls on the bins        *)
(* implement the calls on the lists of AbsBins, malloc()'s best fit too.   *)
(***************************************************************************)
EXTENDS Bins, TLAPS, FiniteSetTheorems, SequenceTheorems, WellFoundedInduction

-----------------------------------------------------------------------------
(* Induction and recursive functions                                       *)

(* Every nonempty set of natural numbers has a least element.              *)
LEMMA NatMinimum ==
  ASSUME NEW S, S \subseteq Nat, S # {}
  PROVE  \E x \in S : \A y \in S : x <= y
<1> DEFINE R == {ss \in Nat \X Nat : ss[1] < ss[2]}
<1>1. IsWellFoundedOn(R, Nat)
  BY NatLessThanWellFounded DEF OpToRel
<1>2. PICK x \in S : \A y \in S : ~(<<y, x>> \in R)
  <2> HIDE DEF R
  <2> QED  BY <1>1, WFMin, Zenon
<1>3. \A y \in S : ~(y < x)
  BY <1>2
<1> QED  BY <1>3

(* A set of numbers up to n that holds 0, and with each number but n the   *)
(* next one, holds them all.                                               *)
LEMMA UpTo ==
  ASSUME NEW n \in Nat, NEW S, 0 \in S, \A d \in 0 .. n : d \in S /\ d < n => d + 1 \in S
  PROVE  0 .. n \subseteq S
<1> SUFFICES ASSUME ~(0 .. n \subseteq S) PROVE FALSE
  OBVIOUS
<1>1. (0 .. n) \ S \subseteq Nat /\ (0 .. n) \ S # {}
  OBVIOUS
<1>2. PICK d \in (0 .. n) \ S : \A c \in (0 .. n) \ S : d <= c
  BY <1>1, NatMinimum
<1>3. d # 0 /\ d - 1 \in 0 .. n /\ d - 1 < n
  BY <1>2
<1>4. d - 1 \in S
  BY <1>2, <1>3
<1>5. (d - 1) + 1 \in S
  BY <1>3, <1>4
<1> QED  BY <1>2, <1>5

(* A function on 0 .. n that starts with v and goes on as step says.       *)
Iterates(f, step, v, n) == f = [d \in 0 .. n |-> IF d = 0 THEN v ELSE step[d][f[d - 1]]]

(* A recursive function on 0 .. n exists, however its steps are given.     *)
LEMMA IterationExists ==
  ASSUME NEW n \in Nat, NEW step, NEW v
  PROVE  \E f : Iterates(f, step, v, n)
<1> DEFINE S == {k \in 0 .. n : \E f : Iterates(f, step, v, k)}
<1>1. 0 \in S
  <2>1. PICK f : f = [d \in 0 .. 0 |-> v]
    OBVIOUS
  <2>2. \A d \in 0 .. 0 : d = 0 /\ f[d] = v
    BY <2>1
  <2>3. f = [d \in 0 .. 0 |-> IF d = 0 THEN v ELSE step[d][f[d - 1]]]
    BY <2>1, <2>2
  <2> QED  BY <2>3 DEF Iterates
<1>2. ASSUME NEW k \in 0 .. n, k \in S, k < n
      PROVE  k + 1 \in S
  <2>1. PICK f : Iterates(f, step, v, k)
    BY <1>2
  <2>2. PICK g : g = [d \in 0 .. k + 1 |-> IF d <= k THEN f[d] ELSE step[k + 1][f[k]]]
    OBVIOUS
  <2>3. \A d \in 0 .. k : f[d] = IF d = 0 THEN v ELSE step[d][f[d - 1]]
    BY <2>1 DEF Iterates
  <2>4. \A d \in 0 .. k : g[d] = f[d]
    BY <2>2
  <2>5. \A d \in 0 .. k + 1 : g[d] = IF d = 0 THEN v ELSE step[d][g[d - 1]]
    <3> TAKE d \in 0 .. k + 1
    <3>1. CASE d = 0
      BY <2>3, <2>4, <3>1
    <3>2. CASE d # 0 /\ d <= k
      <4>1. d - 1 \in 0 .. k /\ d \in 0 .. k
        BY <3>2
      <4> QED  BY <2>3, <2>4, <3>2, <4>1
    <3>3. CASE d = k + 1
      <4>1. g[d] = step[d][f[k]]
        BY <2>2, <3>3
      <4> QED  BY <2>4, <3>3, <4>1
    <3> QED  BY <3>1, <3>2, <3>3
  <2>6. g = [d \in 0 .. k + 1 |-> IF d = 0 THEN v ELSE step[d][g[d - 1]]]
    BY <2>2, <2>5
  <2>7. Iterates(g, step, v, k + 1) /\ k + 1 \in 0 .. n
    BY <1>2, <2>6 DEF Iterates
  <2> QED  BY <2>7
<1>3. n \in S
  <2> HIDE DEF S
  <2> QED  BY <1>1, <1>2, UpTo
<1> QED  BY <1>3

(* It stays in a set that step does not leave.                             *)
LEMMA IterationStays ==
  ASSUME NEW n \in Nat, NEW step, NEW V, NEW v \in V, NEW f, Iterates(f, step, v, n),
         \A d \in 1 .. n : \A u \in V : step[d][u] \in V
  PROVE  \A d \in 0 .. n : f[d] \in V
<1> DEFINE S == {d \in 0 .. n : f[d] \in V}
<1>1. \A d \in 0 .. n : f[d] = IF d = 0 THEN v ELSE step[d][f[d - 1]]
  BY DEF Iterates
<1>2. 0 \in S
  BY <1>1
<1>3. ASSUME NEW d \in 0 .. n, d \in S, d < n
      PROVE  d + 1 \in S
  <2>1. f[d + 1] = step[d + 1][f[d]]
    BY <1>1, <1>3
  <2> QED  BY <1>3, <2>1
<1>4. 0 .. n \subseteq S
  <2> HIDE DEF S
  <2> QED  BY <1>2, <1>3, UpTo
<1> QED  BY <1>4

-----------------------------------------------------------------------------
(* Bits of sizes                                                           *)

(* The function Bit is what its definition says.                           *)
LEMMA BitEquation ==
  Bit = [k \in 0 .. WordBits + 1 |-> IF k = 0 THEN 1 ELSE 2 * Bit[k - 1]]
<1> DEFINE step == [d \in 0 .. WordBits + 1 |-> [x \in Nat |-> 2 * x]]
<1>0. WordBits + 1 \in Nat
  BY TreeBinAssumption
<1>1. PICK f : Iterates(f, step, 1, WordBits + 1)
  <2> HIDE DEF step
  <2> QED  BY <1>0, IterationExists
<1>2. \A d \in 1 .. WordBits + 1 : \A x \in Nat : step[d][x] = 2 * x
  BY <1>0
<1>3. \A d \in 0 .. WordBits + 1 : f[d] \in Nat
  <2>1. \A d \in 1 .. WordBits + 1 : \A x \in Nat : step[d][x] \in Nat
    BY <1>2
  <2> HIDE DEF step
  <2> QED  BY <1>0, <1>1, <2>1, IterationStays
<1>4. \A d \in 0 .. WordBits + 1 : f[d] = IF d = 0 THEN 1 ELSE 2 * f[d - 1]
  <2> HIDE DEF step
  <2> TAKE d \in 0 .. WordBits + 1
  <2>1. f[d] = IF d = 0 THEN 1 ELSE step[d][f[d - 1]]
    BY <1>1 DEF Iterates
  <2>2. CASE d = 0
    BY <2>1, <2>2
  <2>3. CASE d # 0
    <3>1. d \in 1 .. WordBits + 1 /\ d - 1 \in 0 .. WordBits + 1
      BY <1>0, <2>3
    <3> QED  BY <1>2, <1>3, <2>1, <2>3, <3>1
  <2> QED  BY <2>2, <2>3
<1>5. f = [k \in 0 .. WordBits + 1 |-> IF k = 0 THEN 1 ELSE 2 * f[k - 1]]
  BY <1>1, <1>4 DEF Iterates
<1>6. \E g : g = [k \in 0 .. WordBits + 1 |-> IF k = 0 THEN 1 ELSE 2 * g[k - 1]]
  BY <1>5
<1> QED  BY <1>6, Zenon DEF Bit

(* The bits are the powers of two.                                         *)
LEMMA BitSteps ==
  /\ Bit[0] = 1
  /\ \A k \in 0 .. WordBits + 1 : Bit[k] \in Nat /\ Bit[k] > 0
  /\ \A k \in 0 .. WordBits : Bit[k + 1] = 2 * Bit[k]
<1>0. WordBits + 1 \in Nat
  BY TreeBinAssumption
<1>1. \A k \in 0 .. WordBits + 1 : Bit[k] = IF k = 0 THEN 1 ELSE 2 * Bit[k - 1]
  BY BitEquation
<1>2. Bit[0] = 1
  BY <1>0, <1>1
<1>3. \A k \in 0 .. WordBits : Bit[k + 1] = 2 * Bit[k]
  <2> TAKE k \in 0 .. WordBits
  <2>1. k + 1 \in 0 .. WordBits + 1 /\ k + 1 # 0 /\ (k + 1) - 1 = k
    BY TreeBinAssumption
  <2> QED  BY <1>1, <2>1
<1>4. 0 .. WordBits + 1 \subseteq {k \in 0 .. WordBits + 1 : Bit[k] \in Nat /\ Bit[k] > 0}
  <2> DEFINE S == {k \in 0 .. WordBits + 1 : Bit[k] \in Nat /\ Bit[k] > 0}
  <2>1. 0 \in S
    BY <1>0, <1>2
  <2>2. ASSUME NEW d \in 0 .. WordBits + 1, d \in S, d < WordBits + 1
        PROVE  d + 1 \in S
    <3>1. d \in 0 .. WordBits /\ d + 1 \in 0 .. WordBits + 1
      BY <1>0, <2>2, TreeBinAssumption
    <3> QED  BY <1>3, <2>2, <3>1
  <2>3. 0 .. WordBits + 1 \subseteq S
    <3> HIDE DEF S
    <3> QED  BY <1>0, <2>1, <2>2, UpTo
  <2> QED  BY <2>3
<1> QED  BY <1>2, <1>3, <1>4

(* The bits of s from bit k on.                                            *)
High(s, k) == s \div Bit[k]

(* What the quotient of a division is,                                     *)
LEMMA DivBounds ==
  ASSUME NEW x \in Nat, NEW g \in Nat, g > 0
  PROVE  (x \div g) \in Nat /\ (x \div g) * g <= x /\ x < (x \div g) * g + g
OBVIOUS

(* that it is the only such number,                                        *)
LEMMA DivUnique ==
  ASSUME NEW x \in Nat, NEW g \in Nat, g > 0, NEW q \in Nat, q * g <= x, x < q * g + g
  PROVE  x \div g = q
<1>1. PICK d \in Nat : d = x \div g /\ d * g <= x /\ x < d * g + g
  BY DivBounds
<1>2. ~(d < q)
  <2>1. SUFFICES ASSUME d < q PROVE FALSE
    OBVIOUS
  <2>2. PICK e \in Nat : q = d + 1 + e
    BY <2>1
  <2>3. q * g = d * g + g + e * g /\ e * g >= 0
    BY <2>2
  <2> QED  BY <1>1, <2>3
<1>3. ~(q < d)
  <2>1. SUFFICES ASSUME q < d PROVE FALSE
    OBVIOUS
  <2>2. PICK e \in Nat : d = q + 1 + e
    BY <2>1
  <2>3. d * g = q * g + g + e * g /\ e * g >= 0
    BY <2>2
  <2> QED  BY <1>1, <2>3
<1> QED  BY <1>1, <1>2, <1>3

(* and that it grows with what is divided.                                 *)
LEMMA DivMonotonic ==
  ASSUME NEW x \in Nat, NEW y \in Nat, x <= y, NEW g \in Nat, g > 0
  PROVE  x \div g <= y \div g
<1>1. PICK d \in Nat : d = x \div g /\ d * g <= x /\ x < d * g + g
  BY DivBounds
<1>2. PICK q \in Nat : q = y \div g /\ q * g <= y /\ y < q * g + g
  BY DivBounds
<1>3. ~(q < d)
  <2>1. SUFFICES ASSUME q < d PROVE FALSE
    OBVIOUS
  <2>2. PICK e \in Nat : d = q + 1 + e
    BY <2>1
  <2>3. d * g = q * g + g + e * g /\ e * g >= 0
    BY <2>2
  <2> QED  BY <1>1, <1>2, <2>3
<1> QED  BY <1>1, <1>2, <1>3

(* The high bits of a size: one step lower adds one bit, none is above     *)
(* WordBits.                                                               *)
LEMMA HighSteps ==
  ASSUME NEW s \in Nat
  PROVE  /\ \A k \in 0 .. WordBits + 1 : High(s, k) \in Nat
         /\ \A k \in 0 .. WordBits : High(s, k) = 2 * High(s, k + 1) + (High(s, k) % 2)
         /\ High(s, 0) = s
         /\ s < AddrSpace => High(s, WordBits) = 0
<1>0. WordBits \in Nat
  BY TreeBinAssumption
<1>1. \A k \in 0 .. WordBits + 1 : High(s, k) \in Nat
  BY BitSteps, DivBounds DEF High
<1>2. ASSUME NEW k \in 0 .. WordBits
      PROVE  High(s, k) = 2 * High(s, k + 1) + (High(s, k) % 2)
  <2>1. k \in 0 .. WordBits + 1 /\ k + 1 \in 0 .. WordBits + 1
    BY <1>0
  <2>2. PICK g \in Nat : g = Bit[k] /\ g > 0 /\ Bit[k + 1] = 2 * g
    BY <2>1, BitSteps
  <2>3. PICK q \in Nat : q = s \div g /\ q * g <= s /\ s < q * g + g
    BY <2>2, DivBounds
  <2>4. PICK h \in Nat, r \in 0 .. 1 : q = 2 * h + r /\ r = q % 2
    <3>1. q % 2 \in 0 .. 1 /\ q = 2 * (q \div 2) + (q % 2)
      OBVIOUS
    <3>2. q \div 2 \in Nat
      BY <2>3, DivBounds
    <3> QED  BY <3>1, <3>2
  <2>5. q * g = h * (2 * g) + r * g /\ r * g <= g /\ r * g >= 0
    <3>1. CASE r = 0
      BY <2>4, <3>1
    <3>2. CASE r = 1
      BY <2>4, <3>2
    <3> QED  BY <3>1, <3>2
  <2>6. h * (2 * g) <= s /\ s < h * (2 * g) + 2 * g
    <3>1. CASE r = 0
      <4>1. r * g = 0
        BY <2>2, <3>1
      <4> QED  BY <2>2, <2>3, <2>5, <4>1
    <3>2. CASE r = 1
      <4>1. r * g = g
        BY <2>2, <3>2
      <4> QED  BY <2>2, <2>3, <2>5, <4>1
    <3> QED  BY <3>1, <3>2
  <2>7. 2 * g \in Nat /\ 2 * g > 0
    BY <2>2
  <2>8. s \div (2 * g) = h
    <3>1. PICK g2 \in Nat : g2 = 2 * g
      BY <2>7
    <3>2. s \div g2 = h
      BY <2>6, <2>7, <3>1, DivUnique
    <3> QED  BY <3>1, <3>2
  <2>9. High(s, k) = q
    BY <2>2, <2>3 DEF High
  <2>10. High(s, k + 1) = h
    BY <2>2, <2>8 DEF High
  <2>11. q = 2 * h + (q % 2)
    BY <2>3, <2>4, Zenon
  <2> QED  BY <2>9, <2>10, <2>11
<1>3. High(s, 0) = s
  <2>1. s \div 1 = s
    OBVIOUS
  <2> QED  BY <2>1, BitSteps DEF High
<1>4. ASSUME s < AddrSpace
      PROVE  High(s, WordBits) = 0
  <2>1. PICK g \in Nat : g = Bit[WordBits] /\ g > 0
    BY <1>0, BitSteps
  <2>2. s \div g = 0
    BY <1>4, <2>1, DivUnique DEF AddrSpace
  <2> QED  BY <2>1, <2>2 DEF High
<1> QED  BY <1>1, <1>2, <1>3, <1>4

(* The high bits of a larger size are no smaller.                          *)
LEMMA HighMonotonic ==
  ASSUME NEW s \in Nat, NEW u \in Nat, s <= u, NEW k \in 0 .. WordBits + 1
  PROVE  High(s, k) <= High(u, k)
BY BitSteps, DivMonotonic DEF High

(* The product of two bits is a bit.                                       *)
LEMMA BitSum ==
  ASSUME NEW a \in Nat, NEW n \in Nat, a + n <= WordBits + 1
  PROVE  \A k \in 0 .. n : Bit[a + k] = Bit[a] * Bit[k]
<1> DEFINE S == {k \in 0 .. n : Bit[a + k] = Bit[a] * Bit[k]}
<1>0. WordBits \in Nat /\ Bit[a] \in Nat
  BY TreeBinAssumption, BitSteps
<1>1. 0 \in S
  <2>1. Bit[a + 0] = Bit[a] /\ Bit[a] * Bit[0] = Bit[a]
    BY <1>0, BitSteps
  <2> QED  BY <2>1
<1>2. ASSUME NEW d \in 0 .. n, d \in S, d < n
      PROVE  d + 1 \in S
  <2>1. d \in 0 .. WordBits /\ a + d \in 0 .. WordBits /\ (a + d) + 1 = a + (d + 1)
    BY <1>0, <1>2
  <2>2. Bit[a + (d + 1)] = 2 * Bit[a + d] /\ Bit[d + 1] = 2 * Bit[d]
    BY <2>1, BitSteps
  <2>3. PICK x \in Nat, y \in Nat : x = Bit[a] /\ y = Bit[d]
    BY <1>0, <2>1, BitSteps
  <2>4. 2 * (x * y) = x * (2 * y)
    BY <2>3
  <2>5. Bit[a + d] = x * y
    BY <1>2, <2>3
  <2>6. Bit[a + (d + 1)] = Bit[a] * Bit[d + 1]
    BY <2>2, <2>3, <2>4, <2>5
  <2> QED  BY <1>2, <2>6
<1>3. 0 .. n \subseteq S
  <2> HIDE DEF S
  <2> QED  BY <1>1, <1>2, UpTo
<1> QED  BY <1>3

(* A higher bit is no smaller.                                             *)
LEMMA BitMonotonic ==
  ASSUME NEW a \in Nat, NEW c \in Nat, a <= c, c <= WordBits + 1
  PROVE  Bit[a] <= Bit[c]
<1>1. PICK n \in Nat : c = a + n
  <2>1. c - a \in Nat /\ c = a + (c - a)
    OBVIOUS
  <2> QED  BY <2>1
<1>2. Bit[c] = Bit[a] * Bit[n]
  <2>1. \A k \in 0 .. n : Bit[a + k] = Bit[a] * Bit[k]
    BY <1>1, BitSum
  <2> QED  BY <1>1, <2>1
<1>3. PICK x \in Nat, y \in Nat : x = Bit[a] /\ y = Bit[n] /\ y > 0
  <2>1. a \in 0 .. WordBits + 1 /\ n \in 0 .. WordBits + 1
    BY <1>1, TreeBinAssumption
  <2> QED  BY <2>1, BitSteps
<1>4. x <= x * y
  <2>1. PICK z \in Nat : y = z + 1
    <3>1. y - 1 \in Nat /\ y = (y - 1) + 1
      BY <1>3
    <3> QED  BY <3>1
  <2>2. x * y = x * z + x /\ x * z >= 0
    BY <1>3, <2>1
  <2> QED  BY <1>3, <2>2
<1> QED  BY <1>2, <1>3, <1>4

-----------------------------------------------------------------------------
(* The bin of a size                                                       *)

LargeSizes == SmallLimit .. AddrSpace - 1

(* The bins above the last power of two that has bins of its own.          *)
IsRest(s) == s \div Bit[TreeShift] >= Bit[NTreeBins \div 2]

(* s is in the upper or lower half of the powers of two from 2^k.          *)
InHalf(s, k, h) ==
  /\ Bit[k] <= High(s, TreeShift) /\ High(s, TreeShift) < Bit[k + 1]
  /\ High(s, k + TreeShift - 1) = 2 + h
  /\ ComputeTreeIndex(s) = 2 * k + h

(* What the assumptions say of the constants, and of the large sizes.      *)
LEMMA SizeBounds ==
  /\ WordBits \in Nat /\ SmallLimit \in Nat /\ SmallLimit > 0 /\ AddrSpace \in Nat
  /\ NTreeBins \div 2 \in Nat /\ NTreeBins \in Nat
  /\ NTreeBins - 1 = 2 * (NTreeBins \div 2) \/ NTreeBins = 2 * (NTreeBins \div 2)
  /\ TreeShift \in Nat /\ TreeShift >= 2 /\ TreeShift + NTreeBins \div 2 <= WordBits
  /\ \A s \in LargeSizes : s \in Nat /\ s < AddrSpace /\ High(s, TreeShift) \in Nat
                           /\ High(s, TreeShift) > 0
  /\ \A s \in Nat : ~IsSmall(s) <=> s >= SmallLimit
<1>1. NTreeBins \in Nat /\ NTreeBins > 0 /\ TreeShift \in Nat /\ TreeShift >= 2
      /\ WordBits \in Nat /\ TreeShift + NTreeBins \div 2 <= WordBits
  BY TreeBinAssumption
<1>2. NTreeBins \div 2 \in Nat
  BY <1>1, DivBounds
<1>3. PICK n \in Nat : n = NTreeBins \div 2
  BY <1>2
<1>4. 2 * n <= NTreeBins /\ NTreeBins < 2 * n + 2
  BY <1>1, <1>3
<1>5. SmallLimit = Bit[TreeShift] /\ AddrSpace = Bit[WordBits]
  BY TreeBinAssumption DEF AddrSpace
<1>6. TreeShift \in 0 .. WordBits + 1 /\ WordBits \in 0 .. WordBits + 1
  BY <1>1, <1>2
<1>7. SmallLimit \in Nat /\ SmallLimit > 0 /\ AddrSpace \in Nat
  BY <1>5, <1>6, BitSteps
<1>8. ASSUME NEW s \in LargeSizes
      PROVE  s \in Nat /\ s < AddrSpace /\ High(s, TreeShift) \in Nat /\ High(s, TreeShift) > 0
  <2>1. s \in Nat /\ s < AddrSpace /\ SmallLimit <= s
    BY <1>7, <1>8 DEF LargeSizes
  <2>2. High(s, TreeShift) \in Nat
    BY <1>6, <2>1, HighSteps
  <2>3. 1 <= s \div SmallLimit
    <3>1. SmallLimit \div SmallLimit = 1
      BY <1>7, DivUnique
    <3> QED  BY <1>7, <2>1, <3>1, DivMonotonic
  <2> QED  BY <1>5, <2>1, <2>2, <2>3 DEF High
<1>9. ASSUME NEW s \in Nat
      PROVE  ~IsSmall(s) <=> s >= SmallLimit
  BY <1>7 DEF IsSmall, SmallIndex, SmallIndexes
<1>10. NTreeBins - 1 = 2 * (NTreeBins \div 2) \/ NTreeBins = 2 * (NTreeBins \div 2)
  BY <1>1, <1>3, <1>4
<1> QED  BY <1>1, <1>2, <1>7, <1>8, <1>9, <1>10

(* A large size belongs to the last treebin, or to one half of the sizes   *)
(* that share a highest bit.                                               *)
LEMMA IndexKinds ==
  ASSUME NEW s \in LargeSizes
  PROVE  \/ IsRest(s) /\ ComputeTreeIndex(s) = NTreeBins - 1
         \/ ~IsRest(s) /\ \E k \in 0 .. NTreeBins \div 2 - 1, h \in 0 .. 1 : InHalf(s, k, h)
<1>1. PICK x \in Nat : x = High(s, TreeShift) /\ x > 0
  BY SizeBounds
<1>2. x = s \div Bit[TreeShift]
  BY <1>1 DEF High
<1>20. s \div Bit[TreeShift] # 0
  BY <1>1, <1>2
<1>3. CASE IsRest(s)
  <2>1. ComputeTreeIndex(s) = NTreeBins - 1
    BY <1>3, <1>20, Zenon DEF ComputeTreeIndex, IsRest
  <2> QED  BY <1>3, <2>1
<1>4. CASE ~IsRest(s)
  <2>1. PICK n \in Nat : n = NTreeBins \div 2 /\ n + TreeShift <= WordBits
    BY SizeBounds
  <2>2. x < Bit[n]
    <3>1. Bit[n] \in Nat
      BY <2>1, SizeBounds, BitSteps
    <3> QED  BY <1>1, <1>2, <1>4, <2>1, <3>1 DEF IsRest
  <2>3. \E k \in 0 .. WordBits : Bit[k] <= x /\ x < Bit[k + 1]
    <3> DEFINE S == {k \in 0 .. n : x < Bit[k]}
    <3>1. n \in S /\ S \subseteq Nat
      BY <2>1, <2>2
    <3>2. PICK m \in S : \A y \in S : m <= y
      <4> HIDE DEF S
      <4> QED  BY <3>1, NatMinimum
    <3>3. m # 0
      BY <1>1, <3>2, BitSteps
    <3>4. m - 1 \in 0 .. n /\ m - 1 \notin S /\ (m - 1) + 1 = m
      BY <3>2, <3>3
    <3>5. m - 1 \in 0 .. WordBits /\ Bit[m - 1] \in Nat
      BY <2>1, <3>4, SizeBounds, BitSteps
    <3>6. Bit[m - 1] <= x /\ x < Bit[(m - 1) + 1]
      BY <1>1, <3>2, <3>4, <3>5
    <3> QED  BY <3>5, <3>6
  <2>4. PICK k \in 0 .. WordBits : k = Log2(x) /\ Bit[k] <= x /\ x < Bit[k + 1]
    BY <2>3, Zenon DEF Log2
  <2>5. k < n
    <3>1. SUFFICES ASSUME n <= k PROVE FALSE
      BY <2>1, <2>4
    <3>2. Bit[n] <= Bit[k] /\ Bit[n] \in Nat /\ Bit[k] \in Nat
      BY <2>1, <2>4, <3>1, SizeBounds, BitMonotonic, BitSteps
    <3> QED  BY <1>1, <2>2, <2>4, <3>2
  <2>6. PICK h \in 0 .. 1 : h = High(s, k + TreeShift - 1) % 2
    <3>1. k + TreeShift - 1 \in 0 .. WordBits + 1 /\ s \in Nat
      BY <2>1, <2>5, SizeBounds
    <3>2. High(s, k + TreeShift - 1) \in Nat
      BY <3>1, HighSteps
    <3>3. High(s, k + TreeShift - 1) % 2 \in 0 .. 1
      BY <3>2
    <3> QED  BY <3>3
  <2>7. ComputeTreeIndex(s) = 2 * k + h
    <3>1. ComputeTreeIndex(s) = HalfBin(s, Log2(x))
      BY <1>2, <1>4, <1>20, Zenon DEF ComputeTreeIndex, IsRest
    <3>2. HalfBin(s, k) = 2 * k + (High(s, k + TreeShift - 1) % 2)
      BY Zenon DEF HalfBin, High
    <3> QED  BY <2>4, <2>6, <3>1, <3>2
  <2>8. High(s, k + TreeShift) = 1
    <3>1. PICK p \in Nat : p = Bit[k] /\ p > 0 /\ Bit[k + 1] = 2 * p
      BY <2>4, BitSteps, SizeBounds
    <3>2. PICK q \in Nat : q = Bit[TreeShift] /\ q > 0
      BY SizeBounds, BitSteps
    <3>3. Bit[k + TreeShift] = p * q
      <4>1. TreeShift + k <= WordBits + 1 /\ k \in 0 .. k /\ TreeShift + k = k + TreeShift
        BY <2>1, <2>4, <2>5, SizeBounds
      <4>2. Bit[TreeShift + k] = Bit[TreeShift] * Bit[k]
        BY <2>4, <4>1, BitSum, SizeBounds
      <4> QED  BY <3>1, <3>2, <4>1, <4>2
    <3>4. s \in Nat /\ x * q <= s /\ s < x * q + q
      BY <1>2, <3>2, SizeBounds, DivBounds
    <3>5. p <= x /\ x < 2 * p
      BY <2>4, <3>1
    <3>6. PICK g \in Nat : g = p * q /\ g > 0
      BY <3>1, <3>2, <3>3, BitSteps, <2>1, <2>4, <2>5, SizeBounds
    <3>7. g <= s
      <4>1. PICK d \in Nat : x = p + d
        <5>1. x - p \in Nat /\ x = p + (x - p)
          BY <3>1, <3>5, <1>1
        <5> QED  BY <5>1
      <4>2. x * q = p * q + d * q /\ d * q >= 0
        BY <3>1, <3>2, <4>1
      <4> QED  BY <3>4, <3>6, <4>2, <3>2
    <3>8. s < 2 * g
      <4>1. PICK d \in Nat : 2 * p = x + 1 + d
        <5>1. 2 * p - x - 1 \in Nat /\ 2 * p = x + 1 + (2 * p - x - 1)
          BY <3>1, <3>5, <1>1
        <5> QED  BY <5>1
      <4>2. (2 * p) * q = x * q + q + d * q /\ d * q >= 0
        BY <1>1, <3>1, <3>2, <4>1
      <4>3. (2 * p) * q = 2 * (p * q)
        BY <3>1, <3>2
      <4> QED  BY <3>4, <3>6, <4>2, <4>3, <3>2
    <3>9. s \div g = 1
      BY <3>4, <3>6, <3>7, <3>8, DivUnique
    <3> QED  BY <3>3, <3>6, <3>9 DEF High
  <2>9. High(s, k + TreeShift - 1) = 2 + h
    <3>1. k + TreeShift - 1 \in 0 .. WordBits /\ (k + TreeShift - 1) + 1 = k + TreeShift /\ s \in Nat
      BY <2>1, <2>4, <2>5, SizeBounds
    <3>2. High(s, k + TreeShift - 1) = 2 * High(s, (k + TreeShift - 1) + 1) + (High(s, k + TreeShift - 1) % 2)
      BY <3>1, HighSteps
    <3> QED  BY <2>6, <2>8, <3>1, <3>2
  <2>10. k \in 0 .. NTreeBins \div 2 - 1
    BY <2>1, <2>4, <2>5
  <2>11. InHalf(s, k, h)
    BY <1>1, <2>4, <2>7, <2>9 DEF InHalf
  <2> QED  BY <1>4, <2>6, <2>10, <2>11
<1> QED  BY <1>3, <1>4

(* compute_tree_index gives the index of a treebin,                        *)
LEMMA IndexRange ==
  ASSUME NEW s \in LargeSizes
  PROVE  ComputeTreeIndex(s) \in TreeIndexes
<1>1. NTreeBins \in Nat /\ NTreeBins > 0
  BY TreeBinAssumption
<1>2. CASE IsRest(s) /\ ComputeTreeIndex(s) = NTreeBins - 1
  BY <1>1, <1>2 DEF TreeIndexes
<1>3. CASE \E k \in 0 .. NTreeBins \div 2 - 1, h \in 0 .. 1 : InHalf(s, k, h)
  <2>1. PICK k \in 0 .. NTreeBins \div 2 - 1, h \in 0 .. 1 : ComputeTreeIndex(s) = 2 * k + h
    BY <1>3 DEF InHalf
  <2>2. PICK n \in Nat : n = NTreeBins \div 2 /\ 2 * n <= NTreeBins
    BY SizeBounds
  <2> QED  BY <1>1, <2>1, <2>2 DEF TreeIndexes
<1> QED  BY <1>2, <1>3, IndexKinds

(* a larger one for no smaller size.                                       *)
LEMMA IndexMonotonic ==
  ASSUME NEW s \in LargeSizes, NEW u \in LargeSizes, s <= u
  PROVE  ComputeTreeIndex(s) <= ComputeTreeIndex(u)
<1>0. s \in Nat /\ u \in Nat /\ TreeShift \in 0 .. WordBits + 1
  BY SizeBounds
<1>1. CASE ComputeTreeIndex(u) = NTreeBins - 1
  <2>1. ComputeTreeIndex(s) \in 0 .. NTreeBins - 1
    BY IndexRange DEF TreeIndexes
  <2> QED  BY <1>1, <2>1, SizeBounds
<1>2. CASE ~IsRest(u) /\ \E k \in 0 .. NTreeBins \div 2 - 1, h \in 0 .. 1 : InHalf(u, k, h)
  <2>1. PICK k \in 0 .. NTreeBins \div 2 - 1, h \in 0 .. 1 : InHalf(u, k, h)
    BY <1>2
  <2>2. High(s, TreeShift) <= High(u, TreeShift)
    BY <1>0, HighMonotonic
  <2>3. ~IsRest(s)
    <3>1. High(s, TreeShift) \in Nat /\ High(u, TreeShift) \in Nat
      BY SizeBounds
    <3>2. NTreeBins \div 2 \in 0 .. WordBits + 1
      BY SizeBounds
    <3>3. Bit[NTreeBins \div 2] \in Nat
      BY <3>2, BitSteps
    <3> QED  BY <1>2, <2>2, <3>1, <3>3 DEF IsRest, High
  <2>4. PICK j \in 0 .. NTreeBins \div 2 - 1, g \in 0 .. 1 : InHalf(s, j, g)
    BY <2>3, IndexKinds
  <2>5. j \in Nat /\ k \in Nat /\ j <= WordBits /\ k <= WordBits
        /\ k + TreeShift - 1 \in 0 .. WordBits + 1
    BY <2>1, <2>4, SizeBounds
  <2>6. j <= k
    <3>1. SUFFICES ASSUME k + 1 <= j PROVE FALSE
      BY <2>5
    <3>2. Bit[k + 1] <= Bit[j]
      BY <2>5, <3>1, BitMonotonic, SizeBounds
    <3>3. Bit[j] <= High(s, TreeShift) /\ High(u, TreeShift) < Bit[k + 1]
      BY <2>1, <2>4 DEF InHalf
    <3>4. Bit[j] \in Nat /\ Bit[k + 1] \in Nat
      BY <2>5, BitSteps, SizeBounds
    <3>5. High(s, TreeShift) \in Nat /\ High(u, TreeShift) \in Nat
      BY SizeBounds
    <3> QED  BY <2>2, <3>2, <3>3, <3>4, <3>5
  <2>7. ComputeTreeIndex(s) = 2 * j + g /\ ComputeTreeIndex(u) = 2 * k + h
    BY <2>1, <2>4 DEF InHalf
  <2>8. CASE j < k
    BY <2>5, <2>7, <2>8
  <2>9. CASE j = k
    <3>1. High(s, k + TreeShift - 1) <= High(u, k + TreeShift - 1)
      BY <1>0, <2>5, HighMonotonic
    <3>2. g <= h
      BY <2>1, <2>4, <2>9, <3>1 DEF InHalf
    <3> QED  BY <2>5, <2>7, <2>9, <3>2
  <2> QED  BY <2>5, <2>6, <2>8, <2>9
<1> QED  BY <1>1, <1>2, IndexKinds

-----------------------------------------------------------------------------
(* Paths                                                                   *)

(* The bit that tells the subtrees of the root of bin i apart.             *)
Top(i) == IF i = NTreeBins - 1 THEN WordBits - 1 ELSE i \div 2 + TreeShift - 2

(* The highest bit that the sizes of a treebin do not share is a bit of a  *)
(* word.                                                                   *)
LEMMA TopBounds ==
  ASSUME NEW s \in LargeSizes
  PROVE  Top(ComputeTreeIndex(s)) \in 0 .. WordBits - 1
<1> DEFINE i == ComputeTreeIndex(s)
<1>1. CASE i = NTreeBins - 1
  BY <1>1, SizeBounds DEF Top
<1>2. CASE i # NTreeBins - 1 /\ \E k \in 0 .. NTreeBins \div 2 - 1, h \in 0 .. 1 : InHalf(s, k, h)
  <2>1. PICK k \in 0 .. NTreeBins \div 2 - 1, h \in 0 .. 1 : i = 2 * k + h
    BY <1>2 DEF InHalf
  <2>2. i \div 2 = k
    BY <2>1, SizeBounds
  <2>3. Top(i) = k + TreeShift - 2
    BY <1>2, <2>2 DEF Top
  <2> QED  BY <2>1, <2>3, SizeBounds
<1> QED  BY <1>1, <1>2, IndexKinds

(* The sizes of a bin have the bits above the top one in common.           *)
LEMMA SameHigh ==
  ASSUME NEW s \in LargeSizes, NEW u \in LargeSizes, ComputeTreeIndex(s) = ComputeTreeIndex(u)
  PROVE  High(s, Top(ComputeTreeIndex(s)) + 1) = High(u, Top(ComputeTreeIndex(s)) + 1)
<1> DEFINE i == ComputeTreeIndex(s)
<1>1. CASE i = NTreeBins - 1
  <2>1. Top(i) + 1 = WordBits
    BY <1>1, SizeBounds DEF Top
  <2>2. High(s, WordBits) = 0 /\ High(u, WordBits) = 0
    BY SizeBounds, HighSteps
  <2> QED  BY <2>1, <2>2
<1>2. CASE i # NTreeBins - 1
  <2>1. PICK k \in 0 .. NTreeBins \div 2 - 1, h \in 0 .. 1 : InHalf(s, k, h)
    BY <1>2, IndexKinds
  <2>2. PICK j \in 0 .. NTreeBins \div 2 - 1, g \in 0 .. 1 : InHalf(u, j, g)
    BY <1>2, IndexKinds
  <2>3. i = 2 * k + h /\ i = 2 * j + g
    BY <2>1, <2>2 DEF InHalf
  <2>4. k = j /\ h = g /\ i \div 2 = k
    BY <2>3, SizeBounds
  <2>5. Top(i) + 1 = k + TreeShift - 1
    BY <1>2, <2>4, SizeBounds DEF Top
  <2> QED  BY <2>1, <2>2, <2>4, <2>5 DEF InHalf
<1> QED  BY <1>1, <1>2

(* The bit of a size that chooses the child of a node at depth d.          *)
LEMMA PathBits ==
  ASSUME NEW s \in LargeSizes, NEW i, Top(i) \in 0 .. WordBits - 1, NEW d \in Nat
  PROVE  /\ PathBit(s, i, d) \in 0 .. 1
         /\ d <= Top(i) => PathBit(s, i, d) = High(s, Top(i) - d) % 2
         /\ d > Top(i) => PathBit(s, i, d) = 0
<1>1. PathBit(s, i, d) = IF Top(i) - d < 0 THEN 0 ELSE (s \div Bit[Top(i) - d]) % 2
  BY Zenon DEF PathBit, Top
<1>2. CASE d > Top(i)
  BY <1>1, <1>2
<1>3. CASE d <= Top(i)
  <2>1. Top(i) - d \in 0 .. WordBits + 1 /\ ~(Top(i) - d < 0)
    BY <1>3, SizeBounds
  <2>2. High(s, Top(i) - d) \in Nat
    BY <2>1, HighSteps, SizeBounds
  <2>3. PathBit(s, i, d) = High(s, Top(i) - d) % 2
    BY <1>1, <2>1, Zenon DEF High
  <2>4. High(s, Top(i) - d) % 2 \in 0 .. 1
    BY <2>2
  <2> QED  BY <1>3, <2>3, <2>4
<1> QED  BY <1>2, <1>3

(* Size s is large and its bin is bin i.                                   *)
InBin(s, i) == s \in LargeSizes /\ ComputeTreeIndex(s) = i

(* Sizes of one treebin.                                                   *)
LEMMA InBinFacts ==
  ASSUME NEW s, NEW u, NEW i, InBin(s, i), InBin(u, i)
  PROVE  /\ s \in LargeSizes /\ u \in LargeSizes /\ s \in Nat /\ u \in Nat
         /\ WordBits \in Nat /\ Top(i) \in 0 .. WordBits - 1 /\ i \in TreeIndexes
         /\ High(s, Top(i) + 1) = High(u, Top(i) + 1)
<1>1. s \in LargeSizes /\ u \in LargeSizes /\ ComputeTreeIndex(s) = i /\ ComputeTreeIndex(u) = i
  BY DEF InBin
<1>2. s \in Nat /\ u \in Nat /\ WordBits \in Nat
  BY <1>1, SizeBounds
<1>3. Top(ComputeTreeIndex(s)) \in 0 .. WordBits - 1 /\ ComputeTreeIndex(s) \in TreeIndexes
  BY <1>1, TopBounds, IndexRange
<1>4. High(s, Top(ComputeTreeIndex(s)) + 1) = High(u, Top(ComputeTreeIndex(s)) + 1)
  BY <1>1, SameHigh
<1> QED  BY <1>1, <1>2, <1>3, <1>4

(* s and u take the same d first turns in bin i.                           *)
Agree(s, u, i, d) == \A c \in 0 .. d - 1 : PathBit(s, i, c) = PathBit(u, i, c)

(* Sizes that chose the same children share their high bits.               *)
LEMMA AgreeHigh ==
  ASSUME NEW s, NEW u, NEW i, InBin(s, i), InBin(u, i),
         NEW d \in 0 .. Top(i) + 1, Agree(s, u, i, d)
  PROVE  High(s, Top(i) + 1 - d) = High(u, Top(i) + 1 - d)
<1>0. Top(i) \in 0 .. WordBits - 1 /\ WordBits \in Nat /\ s \in Nat /\ u \in Nat /\ d \in Nat
  BY InBinFacts
<1> DEFINE S == {c \in 0 .. d : High(s, Top(i) + 1 - c) = High(u, Top(i) + 1 - c)}
<1>1. 0 \in S
  <2>1. High(s, Top(i) + 1) = High(u, Top(i) + 1)
    BY InBinFacts
  <2>2. Top(i) + 1 - 0 = Top(i) + 1
    BY <1>0
  <2> QED  BY <1>0, <2>1, <2>2
<1>2. ASSUME NEW c \in 0 .. d, c \in S, c < d
      PROVE  c + 1 \in S
  <2>1. PICK k \in 0 .. WordBits : k = Top(i) - c /\ k + 1 = Top(i) + 1 - c /\ k = Top(i) + 1 - (c + 1)
    BY <1>0, <1>2
  <2>2. High(s, k) = 2 * High(s, k + 1) + (High(s, k) % 2)
    BY <1>0, <2>1, HighSteps
  <2>3. High(u, k) = 2 * High(u, k + 1) + (High(u, k) % 2)
    BY <1>0, <2>1, HighSteps
  <2>4. c \in Nat /\ c <= Top(i)
    BY <1>0, <1>2
  <2>5. PathBit(s, i, c) = High(s, k) % 2 /\ PathBit(u, i, c) = High(u, k) % 2
    BY <1>0, <2>1, <2>4, PathBits, InBinFacts
  <2>6. PathBit(s, i, c) = PathBit(u, i, c)
    BY <1>0, <1>2 DEF Agree
  <2>7. High(s, k + 1) = High(u, k + 1)
    BY <1>2, <2>1
  <2>8. High(s, k) = High(u, k)
    BY <2>2, <2>3, <2>5, <2>6, <2>7
  <2> QED  BY <1>0, <1>2, <2>1, <2>8
<1>3. 0 .. d \subseteq S
  <2> HIDE DEF S
  <2> QED  BY <1>0, <1>1, <1>2, UpTo
<1> QED  BY <1>0, <1>3

(* All bits tell all sizes of a bin apart.                                 *)
LEMMA AgreeEqual ==
  ASSUME NEW s, NEW u, NEW i, InBin(s, i), InBin(u, i), Agree(s, u, i, Top(i) + 1)
  PROVE  s = u
<1>0. Top(i) \in 0 .. WordBits - 1 /\ WordBits \in Nat /\ s \in Nat /\ u \in Nat
  BY InBinFacts
<1>1. Top(i) + 1 \in 0 .. Top(i) + 1 /\ Top(i) + 1 - (Top(i) + 1) = 0
  BY <1>0
<1>2. High(s, Top(i) + 1 - (Top(i) + 1)) = High(u, Top(i) + 1 - (Top(i) + 1))
  BY <1>1, AgreeHigh
<1> QED  BY <1>0, <1>1, <1>2, HighSteps

(* The sizes on the left of a node are less than those on its right.       *)
LEMMA AgreeLess ==
  ASSUME NEW s, NEW u, NEW i, InBin(s, i), InBin(u, i), NEW d \in Nat,
         Agree(s, u, i, d), PathBit(s, i, d) = 0, PathBit(u, i, d) # 0
  PROVE  s < u
<1>0. Top(i) \in 0 .. WordBits - 1 /\ WordBits \in Nat /\ s \in Nat /\ u \in Nat
  BY InBinFacts
<1>1. d <= Top(i) /\ PathBit(u, i, d) = 1
  BY <1>0, PathBits, InBinFacts
<1>2. PICK k \in 0 .. WordBits : k = Top(i) - d /\ k + 1 = Top(i) + 1 - d
  BY <1>0, <1>1
<1>3. High(s, k + 1) = High(u, k + 1)
  <2>1. d \in 0 .. Top(i) + 1
    BY <1>0, <1>1
  <2>2. High(s, Top(i) + 1 - d) = High(u, Top(i) + 1 - d)
    BY <2>1, AgreeHigh
  <2> QED  BY <1>2, <2>2
<1>4. High(s, k) % 2 = 0 /\ High(u, k) % 2 = 1
  BY <1>0, <1>1, <1>2, PathBits, InBinFacts
<1>5. High(s, k) = 2 * High(s, k + 1) + (High(s, k) % 2)
  BY <1>0, <1>2, HighSteps
<1>6. High(u, k) = 2 * High(u, k + 1) + (High(u, k) % 2)
  BY <1>0, <1>2, HighSteps
<1>7. k \in 0 .. WordBits + 1 /\ k + 1 \in 0 .. WordBits + 1
  BY <1>0, <1>2
<1>8. High(s, k) \in Nat /\ High(u, k) \in Nat /\ High(s, k + 1) \in Nat
  BY <1>0, <1>7, HighSteps
<1>9. High(s, k) < High(u, k)
  BY <1>3, <1>4, <1>5, <1>6, <1>8
<1>10. ~(u <= s)
  <2>1. u <= s => High(u, k) <= High(s, k)
    BY <1>0, <1>7, HighMonotonic
  <2> QED  BY <1>8, <1>9, <2>1
<1> QED  BY <1>0, <1>10

-----------------------------------------------------------------------------
(* The tries                                                               *)

BinOf(sz, t) == ComputeTreeIndex(sz[t])

(* u is w, or a node below it: their sizes take the same turns down to w.  *)
Under(dep, sz, w, u) ==
  BinOf(sz, w) = BinOf(sz, u) /\ dep[w] <= dep[u] /\ Agree(sz[w], sz[u], BinOf(sz, u), dep[w])

(* t hangs from the bin or from its parent, at the side of its bit.        *)
Hung(N, dep, sz, tb, ch, pa, t) ==
  IF dep[t] = 0 THEN tb[BinOf(sz, t)] = t /\ pa[t] = BinOf(sz, t)
  ELSE /\ pa[t] \in N /\ dep[t] = dep[pa[t]] + 1 /\ Under(dep, sz, pa[t], t)
       /\ ch[pa[t]][PathBit(sz[t], BinOf(sz, t), dep[pa[t]])] = t

ChildOf(N, dep, sz, pa, t, k, u) ==
  u \in N /\ pa[u] = t /\ dep[u] = dep[t] + 1 /\ PathBit(sz[u], BinOf(sz, t), dep[t]) = k

(* The nodes N, at the depths dep, make up the tries of the treebins.      *)
Trie(N, dep, sz, tb, ch, pa) ==
  /\ N \subseteq Chunks
  /\ \A t \in N : dep[t] \in Nat /\ sz[t] \in LargeSizes
  /\ \A t, u \in N : sz[t] = sz[u] => t = u
  /\ \A t, u \in N : dep[t] = dep[u] /\ Under(dep, sz, t, u) => t = u
  /\ \A i \in TreeIndexes : tb[i] # Nil => tb[i] \in N /\ dep[tb[i]] = 0 /\ BinOf(sz, tb[i]) = i
  /\ \A t \in N : Hung(N, dep, sz, tb, ch, pa, t)
  /\ \A t \in N, k \in 0 .. 1 : ch[t][k] # Nil => ChildOf(N, dep, sz, pa, t, k, ch[t][k])

(* Choosing the same children is an equivalence, and is decided bit by     *)
(* bit.                                                                    *)
LEMMA AgreeLaws ==
  ASSUME NEW r, NEW s, NEW u, NEW i, NEW d \in Nat
  PROVE  /\ Agree(s, s, i, d)
         /\ Agree(s, u, i, d) => Agree(u, s, i, d)
         /\ Agree(r, s, i, d) /\ Agree(s, u, i, d) => Agree(r, u, i, d)
         /\ \A c \in 0 .. d : Agree(s, u, i, d) => Agree(s, u, i, c)
         /\ Agree(s, u, i, d + 1) <=> Agree(s, u, i, d) /\ PathBit(s, i, d) = PathBit(u, i, d)
         /\ Agree(s, u, i, 0)
<1>1. \A c \in 0 .. d : Agree(s, u, i, d) => Agree(s, u, i, c)
  BY DEF Agree
<1>2. Agree(s, u, i, d + 1) <=> Agree(s, u, i, d) /\ PathBit(s, i, d) = PathBit(u, i, d)
  <2>1. 0 .. (d + 1) - 1 = 0 .. d /\ \A c \in 0 .. d : (c = d \/ c \in 0 .. d - 1)
        /\ 0 .. d - 1 \subseteq 0 .. d /\ d \in 0 .. d
    OBVIOUS
  <2> QED  BY <2>1 DEF Agree
<1>3. Agree(s, s, i, d) /\ Agree(s, u, i, 0)
  BY DEF Agree
<1>4. Agree(s, u, i, d) => Agree(u, s, i, d)
  BY DEF Agree
<1>5. Agree(r, s, i, d) /\ Agree(s, u, i, d) => Agree(r, u, i, d)
  BY DEF Agree
<1> QED  BY <1>1, <1>2, <1>3, <1>4, <1>5

(* What every node of a trie is.                                           *)
LEMMA TrieNode ==
  ASSUME NEW N, NEW dep, NEW sz, NEW tb, NEW ch, NEW pa, Trie(N, dep, sz, tb, ch, pa), NEW t \in N
  PROVE  /\ t \in Chunks /\ dep[t] \in Nat /\ sz[t] \in LargeSizes
         /\ InBin(sz[t], BinOf(sz, t)) /\ BinOf(sz, t) \in TreeIndexes
         /\ Under(dep, sz, t, t)
<1>1. t \in Chunks /\ dep[t] \in Nat /\ sz[t] \in LargeSizes
  BY DEF Trie
<1>2. InBin(sz[t], BinOf(sz, t))
  BY <1>1 DEF InBin, BinOf
<1>3. BinOf(sz, t) \in TreeIndexes
  BY <1>2, InBinFacts
<1>4. Agree(sz[t], sz[t], BinOf(sz, t), dep[t])
  BY <1>1, AgreeLaws
<1>5. Under(dep, sz, t, t)
  BY <1>1, <1>4 DEF Under
<1> QED  BY <1>1, <1>2, <1>3, <1>5

(* A node has an ancestor at every depth down to its own.                  *)
LEMMA Ancestor ==
  ASSUME NEW N, NEW dep, NEW sz, NEW tb, NEW ch, NEW pa, Trie(N, dep, sz, tb, ch, pa),
         NEW u \in N, NEW d \in 0 .. dep[u]
  PROVE  \E w \in N : dep[w] = d /\ Under(dep, sz, w, u)
<1> DEFINE n == dep[u] - d
           S == {k \in 0 .. n : \E w \in N : dep[w] = dep[u] - k /\ Under(dep, sz, w, u)}
<1>0. dep[u] \in Nat /\ d \in Nat /\ n \in Nat /\ dep[u] - n = d /\ n <= dep[u]
  BY TrieNode
<1>1. 0 \in S
  <2>1. dep[u] = dep[u] - 0 /\ Under(dep, sz, u, u)
    BY <1>0, TrieNode
  <2> QED  BY <1>0, <2>1
<1>2. ASSUME NEW k \in 0 .. n, k \in S, k < n
      PROVE  k + 1 \in S
  <2>1. PICK w \in N : dep[w] = dep[u] - k /\ Under(dep, sz, w, u)
    BY <1>2
  <2>2. dep[w] # 0
    BY <1>0, <1>2, <2>1
  <2>3. pa[w] \in N /\ dep[w] = dep[pa[w]] + 1 /\ Under(dep, sz, pa[w], w)
    BY <2>2 DEF Trie, Hung
  <2>4. PICK p \in N : p = pa[w] /\ dep[p] \in Nat /\ dep[w] \in Nat /\ dep[p] <= dep[w]
    BY <2>3, TrieNode
  <2>5. Agree(sz[p], sz[w], BinOf(sz, w), dep[p]) /\ BinOf(sz, p) = BinOf(sz, w)
    BY <2>3, <2>4 DEF Under
  <2>6. Agree(sz[w], sz[u], BinOf(sz, u), dep[w]) /\ BinOf(sz, w) = BinOf(sz, u) /\ dep[w] <= dep[u]
    BY <2>1 DEF Under
  <2>7. Agree(sz[w], sz[u], BinOf(sz, u), dep[p])
    <3>1. dep[p] \in 0 .. dep[w]
      BY <2>4
    <3> QED  BY <2>4, <2>6, <3>1, AgreeLaws
  <2>8. Agree(sz[p], sz[u], BinOf(sz, u), dep[p])
    BY <2>4, <2>5, <2>6, <2>7, AgreeLaws
  <2>10. dep[p] = dep[u] - (k + 1) /\ dep[p] <= dep[u]
    <3>1. dep[w] = dep[p] + 1 /\ dep[w] = dep[u] - k
      BY <2>1, <2>3, <2>4
    <3>2. k \in Nat
      BY <1>0, <1>2
    <3>3. dep[p] \in Nat /\ dep[u] \in Nat
      BY <1>0, <2>4
    <3>4. dep[p] + 1 = dep[u] - k
      BY <3>1
    <3> HIDE DEF n, S
    <3> QED  BY <3>2, <3>3, <3>4
  <2>11. BinOf(sz, p) = BinOf(sz, u)
    BY <2>5, <2>6
  <2>9. Under(dep, sz, p, u) /\ dep[p] = dep[u] - (k + 1)
    BY <2>8, <2>10, <2>11 DEF Under
  <2> QED  BY <1>0, <1>2, <2>9
<1>3. 0 .. n \subseteq S
  <2> HIDE DEF S, n
  <2> QED  BY <1>0, <1>1, <1>2, UpTo
<1>4. n \in 0 .. n
  BY <1>0
<1> QED  BY <1>0, <1>3, <1>4

(* From an ancestor one turn leads to the next.                            *)
LEMMA ChildToward ==
  ASSUME NEW N, NEW dep, NEW sz, NEW tb, NEW ch, NEW pa, Trie(N, dep, sz, tb, ch, pa),
         NEW w \in N, NEW u \in N, Under(dep, sz, w, u), w # u
  PROVE  /\ PathBit(sz[u], BinOf(sz, w), dep[w]) \in 0 .. 1
         /\ \E v \in N : /\ v = ch[w][PathBit(sz[u], BinOf(sz, w), dep[w])]
                         /\ dep[v] = dep[w] + 1 /\ Under(dep, sz, v, u)
<1>0. dep[u] \in Nat /\ dep[w] \in Nat /\ dep[w] <= dep[u] /\ BinOf(sz, w) = BinOf(sz, u)
      /\ Agree(sz[w], sz[u], BinOf(sz, u), dep[w])
  BY TrieNode DEF Under
<1>1. dep[w] # dep[u]
  BY DEF Trie
<1>2. dep[w] + 1 \in 0 .. dep[u]
  BY <1>0, <1>1
<1>3. PICK v \in N : dep[v] = dep[w] + 1 /\ Under(dep, sz, v, u)
  BY <1>2, Ancestor
<1>4. dep[v] # 0
  BY <1>0, <1>3
<1>5. PICK p \in N : p = pa[v] /\ dep[v] = dep[p] + 1 /\ Under(dep, sz, p, v)
                     /\ ch[p][PathBit(sz[v], BinOf(sz, v), dep[p])] = v
  BY <1>4 DEF Trie, Hung
<1>6. dep[p] \in Nat /\ dep[p] = dep[w]
  <2>1. dep[p] \in Nat
    BY <1>5, TrieNode
  <2> QED  BY <1>0, <1>3, <1>5, <2>1
<1>7. BinOf(sz, p) = BinOf(sz, v) /\ BinOf(sz, v) = BinOf(sz, u)
      /\ Agree(sz[p], sz[v], BinOf(sz, u), dep[w]) /\ Agree(sz[v], sz[u], BinOf(sz, u), dep[w] + 1)
  BY <1>3, <1>5, <1>6 DEF Under
<1>8. Agree(sz[v], sz[u], BinOf(sz, u), dep[w])
      /\ PathBit(sz[v], BinOf(sz, u), dep[w]) = PathBit(sz[u], BinOf(sz, u), dep[w])
  BY <1>0, <1>7, AgreeLaws
<1>9. Agree(sz[p], sz[u], BinOf(sz, u), dep[w])
  BY <1>0, <1>7, <1>8, AgreeLaws
<1>10. Agree(sz[u], sz[w], BinOf(sz, u), dep[w])
  BY <1>0, AgreeLaws
<1>11. Agree(sz[p], sz[w], BinOf(sz, u), dep[w])
  BY <1>0, <1>9, <1>10, AgreeLaws
<1>12. Under(dep, sz, p, w)
  BY <1>0, <1>6, <1>7, <1>11 DEF Under
<1>13. p = w
  BY <1>6, <1>12 DEF Trie
<1>14. PathBit(sz[u], BinOf(sz, w), dep[w]) \in 0 .. 1
  <2>1. InBin(sz[w], BinOf(sz, w)) /\ sz[u] \in LargeSizes
    BY TrieNode
  <2>2. Top(BinOf(sz, w)) \in 0 .. WordBits - 1
    BY <2>1, InBinFacts
  <2> QED  BY <1>0, <2>1, <2>2, PathBits
<1>15. v = ch[w][PathBit(sz[u], BinOf(sz, w), dep[w])]
  BY <1>0, <1>5, <1>6, <1>7, <1>8, <1>13
<1> QED  BY <1>3, <1>14, <1>15

(* No node is deeper than a word has bits, which is why the searches of    *)
(* the code end.                                                           *)
LEMMA DepthBound ==
  ASSUME NEW N, NEW dep, NEW sz, NEW tb, NEW ch, NEW pa, Trie(N, dep, sz, tb, ch, pa), NEW u \in N
  PROVE  dep[u] \in 0 .. WordBits
<1>1. dep[u] \in Nat /\ InBin(sz[u], BinOf(sz, u))
  BY TrieNode
<1>2. Top(BinOf(sz, u)) \in 0 .. WordBits - 1 /\ WordBits \in Nat
  BY <1>1, InBinFacts
<1>3. dep[u] <= Top(BinOf(sz, u)) + 1
  <2>1. SUFFICES ASSUME dep[u] > Top(BinOf(sz, u)) + 1 PROVE FALSE
    BY <1>1, <1>2
  <2>2. PICK w \in N : dep[w] = Top(BinOf(sz, u)) + 1 /\ Under(dep, sz, w, u)
    <3>1. Top(BinOf(sz, u)) + 1 \in 0 .. dep[u]
      BY <1>1, <1>2, <2>1
    <3> QED  BY <3>1, Ancestor
  <2>3. InBin(sz[w], BinOf(sz, w)) /\ BinOf(sz, w) = BinOf(sz, u)
        /\ Agree(sz[w], sz[u], BinOf(sz, u), Top(BinOf(sz, u)) + 1)
    BY <2>2, TrieNode DEF Under
  <2>4. InBin(sz[w], BinOf(sz, u))
    BY <2>3
  <2>5. sz[w] = sz[u]
    BY <1>1, <2>3, <2>4, AgreeEqual
  <2>6. w = u
    BY <2>5 DEF Trie
  <2> QED  BY <1>1, <1>2, <2>1, <2>2, <2>6
<1> QED  BY <1>1, <1>2, <1>3

(* What a new node x of size s at depth d, below p or in the bin, changes. *)
NodeAdded(N, dep, sz, tb, ch, pa, dep2, sz2, tb2, ch2, pa2, x, s, i, d, p) ==
  /\ dep2[x] = d /\ sz2[x] = s /\ pa2[x] = (IF d = 0 THEN i ELSE p)
  /\ \A k \in 0 .. 1 : ch2[x][k] = Nil
  /\ \A t \in N : dep2[t] = dep[t] /\ sz2[t] = sz[t] /\ pa2[t] = pa[t]
  /\ \A j \in TreeIndexes : tb2[j] = IF d = 0 /\ j = i THEN x ELSE tb[j]
  /\ \A t \in N, k \in 0 .. 1 :
       ch2[t][k] = IF d # 0 /\ t = p /\ k = PathBit(s, i, dep[p]) THEN x ELSE ch[t][k]

(* The place at depth d for size s in bin i, below p or in the bin, is     *)
(* free.                                                                   *)
PlaceFree(N, dep, sz, tb, ch, s, i, d, p) ==
  IF d = 0 THEN tb[i] = Nil
  ELSE /\ p \in N /\ d = dep[p] + 1 /\ BinOf(sz, p) = i /\ Agree(sz[p], s, i, dep[p])
       /\ ch[p][PathBit(s, i, dep[p])] = Nil

(* No node is where a place is free.                                       *)
LEMMA NoneThere ==
  ASSUME NEW N, NEW dep, NEW sz, NEW tb, NEW ch, NEW pa, Trie(N, dep, sz, tb, ch, pa),
         NEW s, NEW i, NEW d, NEW p, InBin(s, i), PlaceFree(N, dep, sz, tb, ch, s, i, d, p),
         NEW t \in N, dep[t] = d, BinOf(sz, t) = i, Agree(sz[t], s, i, d)
  PROVE  FALSE
<1>0. t \in Chunks /\ dep[t] \in Nat
  BY TrieNode
<1>1. CASE d = 0
  <2>1. tb[i] = t
    BY <1>1 DEF Trie, Hung
  <2> QED  BY <1>0, <1>1, <2>1, SmallBinAssumption DEF PlaceFree
<1>2. CASE d # 0
  <2>1. p \in N /\ d = dep[p] + 1 /\ BinOf(sz, p) = i /\ Agree(sz[p], s, i, dep[p])
        /\ ch[p][PathBit(s, i, dep[p])] = Nil
    BY <1>2 DEF PlaceFree
  <2>2. dep[p] \in Nat
    BY <2>1, TrieNode
  <2>3. PICK e \in Nat : e = dep[p]
    BY <2>2
  <2>4. Agree(sz[t], s, i, e + 1)
    BY <2>1, <2>3
  <2>5. Agree(sz[t], s, i, e) /\ PathBit(sz[t], i, e) = PathBit(s, i, e)
    BY <2>3, <2>4, AgreeLaws
  <2>6. Agree(s, sz[t], i, e)
    BY <2>3, <2>5, AgreeLaws
  <2>7. Agree(sz[p], sz[t], i, e)
    BY <2>1, <2>3, <2>6, AgreeLaws
  <2>8. Under(dep, sz, p, t) /\ p # t
    BY <1>0, <2>1, <2>2, <2>3, <2>7 DEF Under
  <2>9. PICK v \in N : v = ch[p][PathBit(sz[t], BinOf(sz, p), dep[p])]
    BY <2>1, <2>8, ChildToward
  <2>10. v = Nil
    BY <2>1, <2>3, <2>5, <2>9
  <2> QED  BY <2>9, <2>10, TrieNode, SmallBinAssumption
<1> QED  BY <1>1, <1>2

(* Whether one node is below another depends on their depths and sizes     *)
(* alone.                                                                  *)
LEMMA UnderSame ==
  ASSUME NEW dep, NEW sz, NEW dep2, NEW sz2, NEW w, NEW u,
         dep2[w] = dep[w], sz2[w] = sz[w], dep2[u] = dep[u], sz2[u] = sz[u]
  PROVE  Under(dep2, sz2, w, u) <=> Under(dep, sz, w, u)
BY DEF Under, BinOf

(* A trie with a node added at its place is a trie;                        *)
LEMMA TrieAdd ==
  ASSUME NEW N, NEW dep, NEW sz, NEW tb, NEW ch, NEW pa, Trie(N, dep, sz, tb, ch, pa),
         NEW dep2, NEW sz2, NEW tb2, NEW ch2, NEW pa2,
         NEW x \in Chunks, x \notin N, NEW s, NEW i, InBin(s, i), NEW d \in Nat, NEW p,
         \A t \in N : sz[t] # s,
         PlaceFree(N, dep, sz, tb, ch, s, i, d, p),
         NodeAdded(N, dep, sz, tb, ch, pa, dep2, sz2, tb2, ch2, pa2, x, s, i, d, p)
  PROVE  Trie(N \cup {x}, dep2, sz2, tb2, ch2, pa2)
<1> DEFINE M == N \cup {x}
<1>1. \A t \in N : /\ dep2[t] = dep[t] /\ sz2[t] = sz[t] /\ pa2[t] = pa[t]
                   /\ BinOf(sz2, t) = BinOf(sz, t) /\ t # x /\ t # Nil /\ t \in Chunks
  <2>1. \A t \in N : t \in Chunks /\ t # x
    BY TrieNode
  <2> QED  BY <2>1, SmallBinAssumption DEF NodeAdded, BinOf
<1>2. dep2[x] = d /\ sz2[x] = s /\ BinOf(sz2, x) = i /\ pa2[x] = (IF d = 0 THEN i ELSE p)
      /\ \A k \in 0 .. 1 : ch2[x][k] = Nil
  BY DEF NodeAdded, InBin, BinOf
<1>3. s \in LargeSizes /\ i \in TreeIndexes /\ x # Nil
  BY InBinFacts, SmallBinAssumption
<1>4. \A j \in TreeIndexes : tb2[j] = IF d = 0 /\ j = i THEN x ELSE tb[j]
  BY DEF NodeAdded
<1>5. \A t \in N, k \in 0 .. 1 :
       ch2[t][k] = IF d # 0 /\ t = p /\ k = PathBit(s, i, dep[p]) THEN x ELSE ch[t][k]
  BY DEF NodeAdded
<1>6. d = 0 => tb[i] = Nil
  BY DEF PlaceFree
<1>7. d # 0 => /\ p \in N /\ d = dep[p] + 1 /\ BinOf(sz, p) = i /\ Agree(sz[p], s, i, dep[p])
               /\ ch[p][PathBit(s, i, dep[p])] = Nil
  BY DEF PlaceFree
<1>8. \A t, u \in N : Under(dep2, sz2, t, u) <=> Under(dep, sz, t, u)
  BY <1>1, UnderSame
<1>9. M \subseteq Chunks
  BY <1>1
<1>10. \A t \in M : dep2[t] \in Nat /\ sz2[t] \in LargeSizes
  BY <1>1, <1>2, <1>3, TrieNode
<1>11. \A t, u \in M : sz2[t] = sz2[u] => t = u
  <2>1. \A t, u \in N : sz[t] = sz[u] => t = u
    BY DEF Trie
  <2> QED  BY <1>1, <1>2, <2>1
<1>12. ASSUME NEW t \in M, NEW u \in M, dep2[t] = dep2[u], Under(dep2, sz2, t, u)
       PROVE  t = u
  <2>1. CASE t \in N /\ u \in N
    BY <1>1, <1>8, <1>12, <2>1 DEF Trie
  <2>2. CASE t = x /\ u \in N
    <3>1. BinOf(sz, u) = i /\ dep[u] = d /\ Agree(s, sz[u], i, d)
      BY <1>1, <1>2, <1>12, <2>2 DEF Under
    <3>2. Agree(sz[u], s, i, d)
      BY <3>1, AgreeLaws
    <3> QED  BY <2>2, <3>1, <3>2, NoneThere
  <2>3. CASE t \in N /\ u = x
    <3>1. BinOf(sz, t) = i /\ dep[t] = d /\ Agree(sz[t], s, i, d)
      BY <1>1, <1>2, <1>12, <2>3 DEF Under
    <3> QED  BY <2>3, <3>1, NoneThere
  <2> QED  BY <2>1, <2>2, <2>3
<1>13. ASSUME NEW j \in TreeIndexes, tb2[j] # Nil
       PROVE  tb2[j] \in M /\ dep2[tb2[j]] = 0 /\ BinOf(sz2, tb2[j]) = j
  <2>1. CASE d = 0 /\ j = i
    BY <1>2, <1>4, <2>1
  <2>2. CASE ~(d = 0 /\ j = i)
    <3>1. tb2[j] = tb[j] /\ tb[j] \in N /\ dep[tb[j]] = 0 /\ BinOf(sz, tb[j]) = j
      BY <1>4, <1>13, <2>2 DEF Trie
    <3> QED  BY <1>1, <3>1
  <2> QED  BY <2>1, <2>2
<1>14. ASSUME NEW t \in M
       PROVE  Hung(M, dep2, sz2, tb2, ch2, pa2, t)
  <2>1. CASE t = x /\ d = 0
    BY <1>2, <1>3, <1>4, <2>1 DEF Hung
  <2>2. CASE t = x /\ d # 0
    <3>1. p \in N /\ d = dep[p] + 1 /\ BinOf(sz, p) = i /\ Agree(sz[p], s, i, dep[p])
      BY <1>7, <2>2
    <3>2. dep[p] \in Nat /\ dep2[p] = dep[p] /\ sz2[p] = sz[p] /\ BinOf(sz2, p) = i
      BY <1>1, <3>1, TrieNode
    <3>3. Under(dep2, sz2, p, x)
      BY <1>2, <3>1, <3>2 DEF Under
    <3>4. PathBit(s, i, dep[p]) \in 0 .. 1
      BY <1>3, <3>2, InBinFacts, PathBits
    <3>5. ch2[p][PathBit(s, i, dep[p])] = x
      BY <1>5, <2>2, <3>1, <3>4
    <3> QED  BY <1>2, <2>2, <3>1, <3>2, <3>3, <3>5 DEF Hung
  <2>3. CASE t \in N /\ dep[t] = 0
    <3>1. tb[BinOf(sz, t)] = t /\ pa[t] = BinOf(sz, t) /\ BinOf(sz, t) \in TreeIndexes
      <4>1. BinOf(sz, t) \in TreeIndexes
        BY <2>3, TrieNode
      <4>2. Hung(N, dep, sz, tb, ch, pa, t)
        BY <2>3 DEF Trie
      <4> QED  BY <2>3, <4>1, <4>2 DEF Hung
    <3>2. tb2[BinOf(sz, t)] = t
      BY <1>1, <1>4, <1>6, <2>3, <3>1
    <3> QED  BY <1>1, <2>3, <3>1, <3>2 DEF Hung
  <2>4. CASE t \in N /\ dep[t] # 0
    <3>1. PICK q \in N : /\ q = pa[t] /\ dep[t] = dep[q] + 1 /\ Under(dep, sz, q, t)
                         /\ ch[q][PathBit(sz[t], BinOf(sz, t), dep[q])] = t
      BY <2>4 DEF Trie, Hung
    <3>2. PathBit(sz[t], BinOf(sz, t), dep[q]) \in 0 .. 1
      <4>1. sz[t] \in LargeSizes /\ dep[q] \in Nat /\ InBin(sz[t], BinOf(sz, t))
        BY <2>4, TrieNode
      <4> QED  BY <4>1, InBinFacts, PathBits
    <3>3. ch2[q][PathBit(sz[t], BinOf(sz, t), dep[q])] = t
      BY <1>1, <1>5, <1>7, <2>4, <3>1, <3>2
    <3>4. Under(dep2, sz2, q, t)
      BY <1>8, <2>4, <3>1
    <3>5. pa2[t] = q /\ dep2[t] = dep2[q] + 1 /\ dep2[q] = dep[q] /\ dep2[t] # 0
          /\ sz2[t] = sz[t] /\ BinOf(sz2, t) = BinOf(sz, t)
      BY <1>1, <2>4, <3>1
    <3> QED  BY <3>1, <3>3, <3>4, <3>5 DEF Hung
  <2> QED  BY <2>1, <2>2, <2>3, <2>4
<1>15. ASSUME NEW t \in M, NEW k \in 0 .. 1, ch2[t][k] # Nil
       PROVE  ChildOf(M, dep2, sz2, pa2, t, k, ch2[t][k])
  <2>1. t \in N
    BY <1>2, <1>15
  <2>2. CASE d # 0 /\ t = p /\ k = PathBit(s, i, dep[p])
    <3>1. ch2[t][k] = x /\ d = dep[p] + 1 /\ BinOf(sz, p) = i
      BY <1>5, <1>7, <2>1, <2>2
    <3> QED  BY <1>1, <1>2, <2>1, <2>2, <3>1 DEF ChildOf
  <2>3. CASE ~(d # 0 /\ t = p /\ k = PathBit(s, i, dep[p]))
    <3>1. ch2[t][k] = ch[t][k] /\ ChildOf(N, dep, sz, pa, t, k, ch[t][k])
      BY <1>5, <1>15, <2>1, <2>3 DEF Trie
    <3> QED  BY <1>1, <2>1, <3>1 DEF ChildOf
  <2> QED  BY <2>2, <2>3
<1> HIDE DEF M
<1>16. Trie(M, dep2, sz2, tb2, ch2, pa2)
  BY <1>9, <1>10, <1>11, <1>12, <1>13, <1>14, <1>15 DEF Trie
<1> QED  BY <1>16 DEF M

(* What taking leaf x away changes.                                        *)
LeafTaken(N, dep, sz, tb, ch, pa, tb2, ch2, x) ==
  /\ \A k \in 0 .. 1 : ch[x][k] = Nil
  /\ \A j \in TreeIndexes : tb2[j] = IF tb[j] = x THEN Nil ELSE tb[j]
  /\ \A t \in N, k \in 0 .. 1 : ch2[t][k] = IF ch[t][k] = x THEN Nil ELSE ch[t][k]

(* so is one without a leaf,                                               *)
LEMMA TrieTake ==
  ASSUME NEW N, NEW dep, NEW sz, NEW tb, NEW ch, NEW pa, Trie(N, dep, sz, tb, ch, pa),
         NEW tb2, NEW ch2, NEW x \in N, LeafTaken(N, dep, sz, tb, ch, pa, tb2, ch2, x)
  PROVE  Trie(N \ {x}, dep, sz, tb2, ch2, pa)
<1> DEFINE M == N \ {x}
<1>1. \A t \in N : t \in Chunks /\ t # Nil /\ BinOf(sz, t) \in TreeIndexes
  BY TrieNode, SmallBinAssumption
<1>2. \A j \in TreeIndexes : tb2[j] = IF tb[j] = x THEN Nil ELSE tb[j]
  BY DEF LeafTaken
<1>3. \A t \in N, k \in 0 .. 1 : ch2[t][k] = IF ch[t][k] = x THEN Nil ELSE ch[t][k]
  BY DEF LeafTaken
<1>4. \A k \in 0 .. 1 : ch[x][k] = Nil
  BY DEF LeafTaken
<1>5. M \subseteq Chunks /\ (\A t \in M : dep[t] \in Nat /\ sz[t] \in LargeSizes)
      /\ (\A t, u \in M : sz[t] = sz[u] => t = u)
      /\ (\A t, u \in M : dep[t] = dep[u] /\ Under(dep, sz, t, u) => t = u)
  BY DEF Trie
<1>6. ASSUME NEW j \in TreeIndexes, tb2[j] # Nil
      PROVE  tb2[j] \in M /\ dep[tb2[j]] = 0 /\ BinOf(sz, tb2[j]) = j
  BY <1>2, <1>6 DEF Trie
<1>7. ASSUME NEW t \in M
      PROVE  Hung(M, dep, sz, tb2, ch2, pa, t)
  <2>0. Hung(N, dep, sz, tb, ch, pa, t) /\ t \in N /\ t # x
    BY <1>7 DEF Trie
  <2>1. CASE dep[t] = 0
    BY <1>1, <1>2, <2>0, <2>1 DEF Hung
  <2>2. CASE dep[t] # 0
    <3>1. PICK q \in N : /\ q = pa[t] /\ dep[t] = dep[q] + 1 /\ Under(dep, sz, q, t)
                         /\ ch[q][PathBit(sz[t], BinOf(sz, t), dep[q])] = t
      BY <2>0, <2>2 DEF Hung
    <3>2. PathBit(sz[t], BinOf(sz, t), dep[q]) \in 0 .. 1
      <4>1. sz[t] \in LargeSizes /\ dep[q] \in Nat /\ InBin(sz[t], BinOf(sz, t))
        BY <2>0, TrieNode
      <4> QED  BY <4>1, InBinFacts, PathBits
    <3>3. q # x
      BY <1>1, <1>4, <2>0, <3>1, <3>2
    <3>4. ch2[q][PathBit(sz[t], BinOf(sz, t), dep[q])] = t
      BY <1>3, <2>0, <3>1, <3>2
    <3> QED  BY <2>2, <3>1, <3>3, <3>4 DEF Hung
  <2> QED  BY <2>1, <2>2
<1>8. ASSUME NEW t \in M, NEW k \in 0 .. 1, ch2[t][k] # Nil
      PROVE  ChildOf(M, dep, sz, pa, t, k, ch2[t][k])
  <2>1. ch2[t][k] = ch[t][k] /\ ch[t][k] # x /\ ch[t][k] # Nil
    BY <1>3, <1>8
  <2>2. ChildOf(N, dep, sz, pa, t, k, ch[t][k])
    BY <2>1 DEF Trie
  <2> QED  BY <2>1, <2>2 DEF ChildOf
<1> HIDE DEF M
<1>9. Trie(M, dep, sz, tb2, ch2, pa)
  BY <1>5, <1>6, <1>7, <1>8 DEF Trie
<1> QED  BY <1>9 DEF M

(* What putting r where x is changes.                                      *)
NodeReplaced(N, dep, sz, tb, ch, pa, dep2, sz2, tb2, ch2, pa2, x, r) ==
  /\ dep2[r] = dep[x] /\ pa2[r] = pa[x]
  /\ \A k \in 0 .. 1 : ch2[r][k] = ch[x][k]
  /\ \A t \in N \ {x} : /\ dep2[t] = dep[t] /\ sz2[t] = sz[t]
                        /\ pa2[t] = IF pa[t] = x THEN r ELSE pa[t]
  /\ \A j \in TreeIndexes : tb2[j] = IF tb[j] = x THEN r ELSE tb[j]
  /\ \A t \in N \ {x}, k \in 0 .. 1 : ch2[t][k] = IF ch[t][k] = x THEN r ELSE ch[t][k]

(* and one in which a chunk that belongs there replaces a node.            *)
LEMMA TrieReplace ==
  ASSUME NEW N, NEW dep, NEW sz, NEW tb, NEW ch, NEW pa, Trie(N, dep, sz, tb, ch, pa),
         NEW dep2, NEW sz2, NEW tb2, NEW ch2, NEW pa2,
         NEW x \in N, NEW r \in Chunks, r \notin N,
         NodeReplaced(N, dep, sz, tb, ch, pa, dep2, sz2, tb2, ch2, pa2, x, r),
         sz2[r] \in LargeSizes, BinOf(sz2, r) = BinOf(sz, x),
         Agree(sz2[r], sz[x], BinOf(sz, x), dep[x]),
         \A t \in N \ {x} : sz[t] # sz2[r]
  PROVE  Trie((N \ {x}) \cup {r}, dep2, sz2, tb2, ch2, pa2)
<1> DEFINE M == (N \ {x}) \cup {r}
           i == BinOf(sz, x)
<1>1. \A t \in N \ {x} : /\ dep2[t] = dep[t] /\ sz2[t] = sz[t]
                         /\ BinOf(sz2, t) = BinOf(sz, t)
                         /\ pa2[t] = IF pa[t] = x THEN r ELSE pa[t]
  BY DEF NodeReplaced, BinOf
<1>2. dep2[r] = dep[x] /\ pa2[r] = pa[x] /\ dep[x] \in Nat /\ \A k \in 0 .. 1 : ch2[r][k] = ch[x][k]
  BY TrieNode DEF NodeReplaced
<1>3. \A t \in N : t \in Chunks /\ t # Nil /\ BinOf(sz, t) \in TreeIndexes /\ dep[t] \in Nat /\ t # r
  BY TrieNode, SmallBinAssumption
<1>4. \A j \in TreeIndexes : tb2[j] = IF tb[j] = x THEN r ELSE tb[j]
  BY DEF NodeReplaced
<1>5. \A t \in N \ {x}, k \in 0 .. 1 : ch2[t][k] = IF ch[t][k] = x THEN r ELSE ch[t][k]
  BY DEF NodeReplaced
<1>6. \A t, u \in N \ {x} : Under(dep2, sz2, t, u) <=> Under(dep, sz, t, u)
  BY <1>1, UnderSame
<1>7. \A t \in N \ {x} : Under(dep2, sz2, r, t) <=> Under(dep, sz, x, t)
  <2> TAKE t \in N \ {x}
  <2>1. Agree(sz[x], sz2[r], i, dep[x])
    BY <1>2, AgreeLaws
  <2>2. Agree(sz2[r], sz[t], i, dep[x]) <=> Agree(sz[x], sz[t], i, dep[x])
    BY <1>2, <2>1, AgreeLaws
  <2> QED  BY <1>1, <1>2, <2>2 DEF Under
<1>8. \A t \in N \ {x} : dep[t] <= dep[x] => (Under(dep2, sz2, t, r) <=> Under(dep, sz, t, x))
  <2> SUFFICES ASSUME NEW t \in N \ {x}, dep[t] <= dep[x]
               PROVE  Under(dep2, sz2, t, r) <=> Under(dep, sz, t, x)
    OBVIOUS
  <2>0. dep[t] \in Nat /\ dep[t] \in 0 .. dep[x]
    BY <1>2, <1>3
  <2>1. Agree(sz2[r], sz[x], i, dep[t])
    BY <1>2, <2>0, AgreeLaws
  <2>2. Agree(sz[x], sz2[r], i, dep[t])
    BY <2>0, <2>1, AgreeLaws
  <2>3. Agree(sz[t], sz2[r], i, dep[t]) <=> Agree(sz[t], sz[x], i, dep[t])
    BY <2>0, <2>1, <2>2, AgreeLaws
  <2> QED  BY <1>1, <1>2, <2>3 DEF Under
<1>9. M \subseteq Chunks /\ \A t \in M : dep2[t] \in Nat /\ sz2[t] \in LargeSizes
  BY <1>1, <1>2, <1>3, TrieNode
<1>10. \A t, u \in M : sz2[t] = sz2[u] => t = u
  <2>1. \A t, u \in N : sz[t] = sz[u] => t = u
    BY DEF Trie
  <2> QED  BY <1>1, <2>1
<1>11. ASSUME NEW t \in M, NEW u \in M, dep2[t] = dep2[u], Under(dep2, sz2, t, u)
       PROVE  t = u
  <2>0. \A v, w \in N : dep[v] = dep[w] /\ Under(dep, sz, v, w) => v = w
    BY DEF Trie
  <2>1. CASE t \in N \ {x} /\ u \in N \ {x}
    BY <1>1, <1>6, <1>11, <2>0, <2>1
  <2>2. CASE t = r /\ u \in N \ {x}
    BY <1>1, <1>2, <1>7, <1>11, <2>0, <2>2
  <2>3. CASE t \in N \ {x} /\ u = r
    BY <1>1, <1>2, <1>3, <1>8, <1>11, <2>0, <2>3
  <2> QED  BY <2>1, <2>2, <2>3
<1>12. ASSUME NEW j \in TreeIndexes, tb2[j] # Nil
       PROVE  tb2[j] \in M /\ dep2[tb2[j]] = 0 /\ BinOf(sz2, tb2[j]) = j
  <2>1. tb[j] # Nil
    BY <1>3, <1>4, <1>12
  <2>2. tb[j] \in N /\ dep[tb[j]] = 0 /\ BinOf(sz, tb[j]) = j
    BY <2>1 DEF Trie
  <2>3. CASE tb[j] = x
    BY <1>2, <1>4, <2>2, <2>3
  <2>4. CASE tb[j] # x
    BY <1>1, <1>4, <2>2, <2>4
  <2> QED  BY <2>3, <2>4
<1>13. ASSUME NEW t \in N, dep[t] # 0
       PROVE  \E q \in N : /\ q = pa[t] /\ dep[t] = dep[q] + 1 /\ Under(dep, sz, q, t) /\ q # t
                           /\ PathBit(sz[t], BinOf(sz, t), dep[q]) \in 0 .. 1
                           /\ ch[q][PathBit(sz[t], BinOf(sz, t), dep[q])] = t
  <2>1. PICK q \in N : /\ q = pa[t] /\ dep[t] = dep[q] + 1 /\ Under(dep, sz, q, t)
                       /\ ch[q][PathBit(sz[t], BinOf(sz, t), dep[q])] = t
    BY <1>13 DEF Trie, Hung
  <2>2. PathBit(sz[t], BinOf(sz, t), dep[q]) \in 0 .. 1
    <3>1. sz[t] \in LargeSizes /\ dep[q] \in Nat /\ InBin(sz[t], BinOf(sz, t))
      BY TrieNode
    <3> QED  BY <3>1, InBinFacts, PathBits
  <2>3. q # t
    BY <1>3, <2>1
  <2> QED  BY <2>1, <2>2, <2>3
<1>14. ASSUME NEW t \in N \ {x}
       PROVE  Hung(M, dep2, sz2, tb2, ch2, pa2, t)
  <2>0. Hung(N, dep, sz, tb, ch, pa, t)
    BY DEF Trie
  <2>1. CASE dep[t] = 0
    <3>1. tb[BinOf(sz, t)] = t /\ pa[t] = BinOf(sz, t) /\ pa[t] # x
      BY <1>3, <2>0, <2>1, BinsAssumption DEF Hung, TreeIndexes
    <3>2. tb2[BinOf(sz, t)] = t
      BY <1>3, <1>4, <3>1
    <3> QED  BY <1>1, <2>1, <3>1, <3>2 DEF Hung
  <2>2. CASE dep[t] # 0
    <3>1. PICK q \in N : /\ q = pa[t] /\ dep[t] = dep[q] + 1 /\ Under(dep, sz, q, t) /\ q # t
                         /\ PathBit(sz[t], BinOf(sz, t), dep[q]) \in 0 .. 1
                         /\ ch[q][PathBit(sz[t], BinOf(sz, t), dep[q])] = t
      BY <1>13, <2>2
    <3>2. CASE q = x
      <4>1. Under(dep2, sz2, r, t)
        BY <1>7, <3>1, <3>2
      <4>2. ch2[r][PathBit(sz[t], BinOf(sz, t), dep[q])] = t
        BY <1>2, <3>1, <3>2
      <4>3. pa2[t] = r /\ dep2[t] = dep2[r] + 1 /\ dep2[r] = dep[q] /\ dep2[t] # 0
            /\ sz2[t] = sz[t] /\ BinOf(sz2, t) = BinOf(sz, t)
        BY <1>1, <1>2, <2>2, <3>1, <3>2
      <4> QED  BY <4>1, <4>2, <4>3 DEF Hung
    <3>3. CASE q # x
      <4>1. Under(dep2, sz2, q, t)
        BY <1>6, <3>1, <3>3
      <4>2. ch2[q][PathBit(sz[t], BinOf(sz, t), dep[q])] = t
        BY <1>5, <3>1, <3>3
      <4>3. pa2[t] = q /\ dep2[t] = dep2[q] + 1 /\ dep2[q] = dep[q] /\ dep2[t] # 0
            /\ sz2[t] = sz[t] /\ BinOf(sz2, t) = BinOf(sz, t)
        BY <1>1, <2>2, <3>1, <3>3
      <4> QED  BY <3>1, <3>3, <4>1, <4>2, <4>3 DEF Hung
    <3> QED  BY <3>2, <3>3
  <2> QED  BY <2>1, <2>2
<1>15. Hung(M, dep2, sz2, tb2, ch2, pa2, r)
  <2>0. Hung(N, dep, sz, tb, ch, pa, x)
    BY DEF Trie
  <2>1. CASE dep[x] = 0
    <3>1. tb[i] = x /\ pa[x] = i
      BY <2>0, <2>1 DEF Hung
    <3>2. tb2[i] = r
      BY <1>3, <1>4, <3>1
    <3> QED  BY <1>2, <2>1, <3>1, <3>2 DEF Hung
  <2>2. CASE dep[x] # 0
    <3>1. PICK q \in N : /\ q = pa[x] /\ dep[x] = dep[q] + 1 /\ Under(dep, sz, q, x) /\ q # x
                         /\ PathBit(sz[x], BinOf(sz, x), dep[q]) \in 0 .. 1
                         /\ ch[q][PathBit(sz[x], BinOf(sz, x), dep[q])] = x
      BY <1>13, <2>2
    <3>2. dep[q] \in Nat /\ dep[q] <= dep[x] /\ Agree(sz2[r], sz[x], i, dep[q] + 1)
      BY <1>3, <3>1
    <3>3. PathBit(sz2[r], i, dep[q]) = PathBit(sz[x], i, dep[q])
      BY <3>2, AgreeLaws
    <3>4. Under(dep2, sz2, q, r)
      BY <1>8, <3>1, <3>2
    <3>5. ch2[q][PathBit(sz2[r], BinOf(sz2, r), dep[q])] = r
      BY <1>5, <3>1, <3>3
    <3>6. pa2[r] = q /\ dep2[r] = dep2[q] + 1 /\ dep2[q] = dep[q] /\ dep2[r] # 0
      BY <1>1, <1>2, <2>2, <3>1
    <3> QED  BY <3>1, <3>4, <3>5, <3>6 DEF Hung
  <2> QED  BY <2>1, <2>2
<1>16. ASSUME NEW t \in N \ {x}, NEW k \in 0 .. 1, ch2[t][k] # Nil
       PROVE  ChildOf(M, dep2, sz2, pa2, t, k, ch2[t][k])
  <2>1. ch[t][k] # Nil
    BY <1>3, <1>5, <1>16
  <2>2. PICK u \in N : /\ u = ch[t][k] /\ pa[u] = t /\ dep[u] = dep[t] + 1
                       /\ PathBit(sz[u], BinOf(sz, t), dep[t]) = k
    BY <2>1 DEF Trie, ChildOf
  <2>3. CASE u = x
    <3>1. ch2[t][k] = r /\ dep[t] \in Nat /\ dep[x] = dep[t] + 1
      BY <1>3, <1>5, <2>2, <2>3
    <3>2. PICK q \in N : q = t /\ Under(dep, sz, q, x)
      BY <1>13, <2>2, <2>3, <3>1
    <3>3. BinOf(sz, t) = i /\ Agree(sz2[r], sz[x], i, dep[t] + 1)
      BY <3>1, <3>2 DEF Under
    <3>4. PathBit(sz2[r], i, dep[t]) = PathBit(sz[x], i, dep[t])
      BY <3>1, <3>3, AgreeLaws
    <3>5. BinOf(sz2, t) = i /\ dep2[t] = dep[t] /\ PathBit(sz2[r], i, dep[t]) = k
          /\ pa2[r] = t /\ dep2[r] = dep2[t] + 1
      BY <1>1, <1>2, <2>2, <2>3, <3>1, <3>3, <3>4
    <3> QED  BY <3>1, <3>5 DEF ChildOf
  <2>4. CASE u # x
    <3>1. ch2[t][k] = u /\ pa2[u] = t /\ dep2[u] = dep2[t] + 1 /\ sz2[u] = sz[u]
          /\ BinOf(sz2, t) = BinOf(sz, t) /\ dep2[t] = dep[t]
      BY <1>1, <1>5, <2>2, <2>4
    <3> QED  BY <2>2, <2>4, <3>1 DEF ChildOf
  <2> QED  BY <2>3, <2>4
<1>17. ASSUME NEW k \in 0 .. 1, ch2[r][k] # Nil
       PROVE  ChildOf(M, dep2, sz2, pa2, r, k, ch2[r][k])
  <2>1. PICK u \in N : /\ u = ch[x][k] /\ pa[u] = x /\ dep[u] = dep[x] + 1
                       /\ PathBit(sz[u], BinOf(sz, x), dep[x]) = k
    BY <1>2, <1>17 DEF Trie, ChildOf
  <2>2. u # x
    BY <1>2, <2>1
  <2>3. ch2[r][k] = u /\ pa2[u] = r /\ dep2[u] = dep2[r] + 1 /\ sz2[u] = sz[u]
    BY <1>1, <1>2, <2>1, <2>2
  <2> QED  BY <1>2, <2>1, <2>2, <2>3 DEF ChildOf
<1>18. \A t \in M : Hung(M, dep2, sz2, tb2, ch2, pa2, t)
  BY <1>14, <1>15
<1>19. \A t \in M, k \in 0 .. 1 : ch2[t][k] # Nil => ChildOf(M, dep2, sz2, pa2, t, k, ch2[t][k])
  BY <1>16, <1>17
<1> HIDE DEF M
<1>20. Trie(M, dep2, sz2, tb2, ch2, pa2)
  BY <1>9, <1>10, <1>11, <1>12, <1>18, <1>19 DEF Trie
<1> QED  BY <1>20 DEF M

-----------------------------------------------------------------------------
(* The walks through a trie                                                *)

(* f goes on in V as step says.                                            *)
Walk(f, step, V, v, n) ==
  /\ f = [d \in 0 .. n |-> f[d]] /\ f[0] = v
  /\ \A d \in 0 .. n : f[d] \in V
  /\ \A d \in 1 .. n : f[d] = step[d][f[d - 1]]

(* A walk along links that stay in V exists.                               *)
LEMMA WalkExists ==
  ASSUME NEW n \in Nat, NEW V, NEW v \in V, NEW step, \A d \in 1 .. n : \A u \in V : step[d][u] \in V
  PROVE  \E f : Walk(f, step, V, v, n)
<1>1. PICK f : Iterates(f, step, v, n)
  BY IterationExists
<1>2. \A d \in 0 .. n : f[d] \in V
  BY <1>1, IterationStays
<1>3. f = [d \in 0 .. n |-> IF d = 0 THEN v ELSE step[d][f[d - 1]]]
  BY <1>1 DEF Iterates
<1>4. \A d \in 0 .. n : f[d] = IF d = 0 THEN v ELSE step[d][f[d - 1]]
  BY <1>3
<1>5. f[0] = v /\ \A d \in 1 .. n : f[d] = step[d][f[d - 1]]
  BY <1>4
<1>6. f = [d \in 0 .. n |-> f[d]]
  BY <1>3
<1> QED  BY <1>2, <1>5, <1>6 DEF Walk

(* The links of the tries lead to chunks.                                  *)
TreeLinks(c) ==
  /\ \A t \in Chunks, k \in 0 .. 1 : c.child[t][k] \in Chunks \cup {Nil}
  /\ \A i \in TreeIndexes : c.treebins[i] \in Chunks \cup {Nil}

(* One step of the way to size s.                                          *)
Onward(c, i, s, u, d) ==
  IF u = Nil \/ c.size[u] = s THEN u ELSE c.child[u][PathBit(s, i, d)]

(* The way of a size down its trie, step by step;                          *)
LEMMA WaySteps ==
  ASSUME NEW c, TreeLinks(c), NEW s, NEW i, InBin(s, i), NEW way, way = Way(c, i, s)
  PROVE  /\ DOMAIN way = 0 .. WordBits
         /\ way[0] = c.treebins[i]
         /\ \A d \in 0 .. WordBits : way[d] \in Chunks \cup {Nil}
         /\ \A d \in 1 .. WordBits : way[d] = Onward(c, i, s, way[d - 1], d - 1)
<1> DEFINE V == Chunks \cup {Nil}
           step == [d \in 1 .. WordBits |-> [u \in V |-> Onward(c, i, s, u, d - 1)]]
           body(w, d) == IF d = 0 THEN c.treebins[i]
                         ELSE IF w[d-1] = Nil \/ c.size[w[d-1]] = s THEN w[d-1]
                         ELSE c.child[w[d-1]][PathBit(s, i, d-1)]
<1>0. WordBits \in Nat /\ s \in LargeSizes /\ i \in TreeIndexes /\ Top(i) \in 0 .. WordBits - 1
  BY InBinFacts
<1>1. \A d \in 0 .. WordBits : PathBit(s, i, d) \in 0 .. 1
  BY <1>0, PathBits
<1>2. ASSUME NEW d \in 1 .. WordBits, NEW u \in V
      PROVE  step[d][u] \in V /\ step[d][u] = Onward(c, i, s, u, d - 1)
  <2>1. d - 1 \in 0 .. WordBits
    BY <1>0
  <2>2. Onward(c, i, s, u, d - 1) \in V
    BY <1>1, <2>1 DEF Onward, TreeLinks
  <2> QED  BY <2>2
<1>3. c.treebins[i] \in V
  BY <1>0 DEF TreeLinks
<1>40. PICK f : Walk(f, step, V, c.treebins[i], WordBits)
  <2>1. \A d \in 1 .. WordBits : \A u \in V : step[d][u] \in V
    BY <1>2
  <2> HIDE DEF V, step
  <2> QED  BY <1>0, <1>3, <2>1, WalkExists
<1>4. /\ f = [d \in 0 .. WordBits |-> f[d]] /\ f[0] = c.treebins[i]
      /\ \A d \in 0 .. WordBits : f[d] \in V
      /\ \A d \in 1 .. WordBits : f[d] = step[d][f[d - 1]]
  <2> HIDE DEF V, step
  <2> QED  BY <1>40 DEF Walk
<1>5. \A d \in 1 .. WordBits : f[d] = Onward(c, i, s, f[d - 1], d - 1)
  <2> HIDE DEF step
  <2> TAKE d \in 1 .. WordBits
  <2>1. d - 1 \in 0 .. WordBits
    BY <1>0
  <2> QED  BY <1>2, <1>4, <2>1
<1>6. \A d \in 0 .. WordBits : f[d] = body(f, d)
  <2> TAKE d \in 0 .. WordBits
  <2>1. CASE d = 0
    BY <1>4, <2>1
  <2>2. CASE d # 0
    <3>1. d \in 1 .. WordBits
      BY <1>0, <2>2
    <3> QED  BY <1>5, <2>2, <3>1 DEF Onward
  <2> QED  BY <2>1, <2>2
<1>7. f = [d \in 0 .. WordBits |-> body(f, d)]
  <2> HIDE DEF body
  <2> QED  BY <1>4, <1>6
<1>8. \E g : g = [d \in 0 .. WordBits |-> body(g, d)]
  BY <1>7
<1>9. way = [d \in 0 .. WordBits |-> body(way, d)]
  BY <1>8, Zenon DEF Way
<1>10. DOMAIN way = 0 .. WordBits /\ \A d \in 0 .. WordBits : way[d] = body(way, d)
  <2> HIDE DEF body
  <2> QED  BY <1>9
<1>11. way[0] = c.treebins[i]
  BY <1>0, <1>10
<1>12. \A d \in 1 .. WordBits : way[d] = Onward(c, i, s, way[d - 1], d - 1)
  BY <1>10 DEF Onward
<1>13. 0 .. WordBits \subseteq {d \in 0 .. WordBits : way[d] \in V}
  <2> DEFINE S == {d \in 0 .. WordBits : way[d] \in V}
  <2>1. 0 \in S
    BY <1>0, <1>3, <1>11
  <2>2. ASSUME NEW d \in 0 .. WordBits, d \in S, d < WordBits
        PROVE  d + 1 \in S
    <3>1. d + 1 \in 1 .. WordBits /\ (d + 1) - 1 = d /\ way[d] \in V
      BY <1>0, <2>2
    <3>2. way[d + 1] = Onward(c, i, s, way[d], d)
      BY <1>12, <3>1
    <3>3. way[d + 1] \in V
      BY <1>1, <3>1, <3>2 DEF Onward, TreeLinks
    <3> QED  BY <3>1, <3>3
  <2>3. 0 .. WordBits \subseteq S
    <3> HIDE DEF S
    <3> QED  BY <1>0, <2>1, <2>2, UpTo
  <2> QED  BY <2>3
<1> QED  BY <1>10, <1>11, <1>12, <1>13

(* One step down to a leaf.                                                *)
Deeper(c, u) == IF RightmostChild(c, u) = Nil THEN u ELSE RightmostChild(c, u)

(* the descent to the leaf that replaces a node;                           *)
LEMMA DescentSteps ==
  ASSUME NEW c, TreeLinks(c), NEW x \in Chunks, NEW down, down = Descent(c, x)
  PROVE  DOMAIN down = 0 .. WordBits /\ down[0] = x
         /\ \A d \in 1 .. WordBits : down[d] = Deeper(c, down[d - 1])
<1> DEFINE V == Chunks
           step == [d \in 1 .. WordBits |-> [u \in V |-> Deeper(c, u)]]
           body(w, d) == IF d = 0 THEN x
                         ELSE IF RightmostChild(c, w[d-1]) = Nil THEN w[d-1]
                         ELSE RightmostChild(c, w[d-1])
<1>0. WordBits \in Nat
  BY TreeBinAssumption
<1>1. \A u \in V : Deeper(c, u) \in V
  BY DEF Deeper, RightmostChild, TreeLinks
<1>2. \A d \in 1 .. WordBits : \A u \in V : step[d][u] = Deeper(c, u)
  OBVIOUS
<1>3. \A d \in 1 .. WordBits : \A u \in V : step[d][u] \in V
  BY <1>1, <1>2
<1>4. x \in V
  OBVIOUS
<1>5. PICK f : Walk(f, step, V, x, WordBits)
  <2> HIDE DEF V, step
  <2> QED  BY <1>0, <1>3, <1>4, WalkExists
<1>6. /\ f = [d \in 0 .. WordBits |-> f[d]] /\ f[0] = x
      /\ \A d \in 0 .. WordBits : f[d] \in V
      /\ \A d \in 1 .. WordBits : f[d] = step[d][f[d - 1]]
  <2> HIDE DEF V, step
  <2> QED  BY <1>5 DEF Walk
<1>7. \A d \in 1 .. WordBits : f[d] = Deeper(c, f[d - 1])
  <2> TAKE d \in 1 .. WordBits
  <2>1. d - 1 \in 0 .. WordBits
    BY <1>0
  <2>2. f[d - 1] \in V /\ f[d] = step[d][f[d - 1]]
    <3> HIDE DEF V, step
    <3> QED  BY <1>6, <2>1
  <2> HIDE DEF step, V
  <2> QED  BY <1>2, <2>2
<1>8. \A d \in 0 .. WordBits : f[d] = body(f, d)
  <2> TAKE d \in 0 .. WordBits
  <2>1. CASE d = 0
    BY <1>6, <2>1
  <2>2. CASE d # 0
    <3>1. d \in 1 .. WordBits
      BY <1>0, <2>2
    <3> QED  BY <1>7, <2>2, <3>1 DEF Deeper
  <2> QED  BY <2>1, <2>2
<1>9. f = [d \in 0 .. WordBits |-> body(f, d)]
  <2> HIDE DEF body
  <2> QED  BY <1>6, <1>8
<1>10. \E g : g = [d \in 0 .. WordBits |-> body(g, d)]
  BY <1>9
<1>11. down = [d \in 0 .. WordBits |-> body(down, d)]
  BY <1>10, Zenon DEF Descent
<1>12. DOMAIN down = 0 .. WordBits /\ \A d \in 0 .. WordBits : down[d] = body(down, d)
  <2> HIDE DEF body
  <2> QED  BY <1>11
<1>13. down[0] = x
  BY <1>0, <1>12
<1>14. \A d \in 1 .. WordBits : down[d] = Deeper(c, down[d - 1])
  BY <1>12 DEF Deeper
<1> QED  BY <1>12, <1>13, <1>14

(* One step down the left spine.                                           *)
Lefter(c, u) == IF u = Nil THEN Nil ELSE LeftmostChild(c, u)

(* the leftmost path of tmalloc_small;                                     *)
LEMMA LeftSpineSteps ==
  ASSUME NEW c, TreeLinks(c), NEW t \in Chunks \cup {Nil}
  PROVE  \E g : /\ LeftSpine(c, t) = {g[d] : d \in 0 .. WordBits} \ {Nil} /\ g[0] = t
                /\ \A d \in 1 .. WordBits : g[d] = Lefter(c, g[d - 1])
<1> DEFINE V == Chunks \cup {Nil}
           step == [d \in 1 .. WordBits |-> [u \in V |-> Lefter(c, u)]]
           body(w, d) == IF d = 0 THEN t
                         ELSE IF w[d-1] = Nil THEN Nil ELSE LeftmostChild(c, w[d-1])
<1>0. WordBits \in Nat
  BY TreeBinAssumption
<1>1. \A u \in V : Lefter(c, u) \in V
  BY DEF Lefter, LeftmostChild, TreeLinks
<1>2. \A d \in 1 .. WordBits : \A u \in V : step[d][u] = Lefter(c, u)
  OBVIOUS
<1>3. \A d \in 1 .. WordBits : \A u \in V : step[d][u] \in V
  BY <1>1, <1>2
<1>4. t \in V
  OBVIOUS
<1>5. PICK f : Walk(f, step, V, t, WordBits)
  <2> HIDE DEF V, step
  <2> QED  BY <1>0, <1>3, <1>4, WalkExists
<1>6. /\ f = [d \in 0 .. WordBits |-> f[d]] /\ f[0] = t
      /\ \A d \in 0 .. WordBits : f[d] \in V
      /\ \A d \in 1 .. WordBits : f[d] = step[d][f[d - 1]]
  <2> HIDE DEF V, step
  <2> QED  BY <1>5 DEF Walk
<1>7. \A d \in 1 .. WordBits : f[d] = Lefter(c, f[d - 1])
  <2> TAKE d \in 1 .. WordBits
  <2>1. d - 1 \in 0 .. WordBits
    BY <1>0
  <2>2. f[d - 1] \in V /\ f[d] = step[d][f[d - 1]]
    <3> HIDE DEF V, step
    <3> QED  BY <1>6, <2>1
  <2> HIDE DEF step, V
  <2> QED  BY <1>2, <2>2
<1>8. \A d \in 0 .. WordBits : f[d] = body(f, d)
  <2> TAKE d \in 0 .. WordBits
  <2>1. CASE d = 0
    BY <1>6, <2>1
  <2>2. CASE d # 0
    <3>1. d \in 1 .. WordBits
      BY <1>0, <2>2
    <3> QED  BY <1>7, <2>2, <3>1 DEF Lefter
  <2> QED  BY <2>1, <2>2
<1>9. f = [d \in 0 .. WordBits |-> body(f, d)]
  <2> HIDE DEF body
  <2> QED  BY <1>6, <1>8
<1> DEFINE g == CHOOSE h : h = [d \in 0 .. WordBits |-> body(h, d)]
<1>10. g = [d \in 0 .. WordBits |-> body(g, d)]
  BY <1>9, Zenon
<1>11. LeftSpine(c, t) = {g[d] : d \in 0 .. WordBits} \ {Nil}
  BY Zenon DEF LeftSpine
<1> HIDE DEF g
<1>12. \A d \in 0 .. WordBits : g[d] = body(g, d)
  <2> HIDE DEF body
  <2> QED  BY <1>10
<1>13. g[0] = t
  BY <1>0, <1>12
<1>14. \A d \in 1 .. WordBits : g[d] = Lefter(c, g[d - 1])
  BY <1>12 DEF Lefter
<1> QED  BY <1>11, <1>13, <1>14


(* all that is below a node;                                               *)
LEMMA BelowSteps ==
  ASSUME NEW c, TreeLinks(c), NEW t \in Chunks
  PROVE  \E g : /\ Below(c, t) = UNION {g[d] : d \in 0 .. WordBits} /\ g[0] = {t}
                /\ \A d \in 1 .. WordBits : g[d] = Children(c, g[d - 1])
<1> DEFINE V == SUBSET Chunks
           step == [d \in 1 .. WordBits |-> [u \in V |-> Children(c, u)]]
           body(w, d) == IF d = 0 THEN {t} ELSE Children(c, w[d-1])
<1>0. WordBits \in Nat
  BY TreeBinAssumption
<1>1. \A u \in V : Children(c, u) \in V
  BY DEF Children, TreeLinks
<1>2. \A d \in 1 .. WordBits : \A u \in V : step[d][u] = Children(c, u)
  OBVIOUS
<1>3. \A d \in 1 .. WordBits : \A u \in V : step[d][u] \in V
  BY <1>1, <1>2
<1>4. {t} \in V
  OBVIOUS
<1>5. PICK f : Walk(f, step, V, {t}, WordBits)
  <2> HIDE DEF V, step
  <2> QED  BY <1>0, <1>3, <1>4, WalkExists
<1>6. /\ f = [d \in 0 .. WordBits |-> f[d]] /\ f[0] = {t}
      /\ \A d \in 0 .. WordBits : f[d] \in V
      /\ \A d \in 1 .. WordBits : f[d] = step[d][f[d - 1]]
  <2> HIDE DEF V, step
  <2> QED  BY <1>5 DEF Walk
<1>7. \A d \in 1 .. WordBits : f[d] = Children(c, f[d - 1])
  <2> TAKE d \in 1 .. WordBits
  <2>1. d - 1 \in 0 .. WordBits
    BY <1>0
  <2>2. f[d - 1] \in V /\ f[d] = step[d][f[d - 1]]
    <3> HIDE DEF V, step
    <3> QED  BY <1>6, <2>1
  <2> HIDE DEF step, V
  <2> QED  BY <1>2, <2>2
<1>8. \A d \in 0 .. WordBits : f[d] = body(f, d)
  <2> TAKE d \in 0 .. WordBits
  <2>1. CASE d = 0
    BY <1>6, <2>1
  <2>2. CASE d # 0
    <3>1. d \in 1 .. WordBits
      BY <1>0, <2>2
    <3> QED  BY <1>7, <2>2, <3>1 
  <2> QED  BY <2>1, <2>2
<1>9. f = [d \in 0 .. WordBits |-> body(f, d)]
  <2> HIDE DEF body
  <2> QED  BY <1>6, <1>8
<1> DEFINE g == CHOOSE h : h = [d \in 0 .. WordBits |-> body(h, d)]
<1>10. g = [d \in 0 .. WordBits |-> body(g, d)]
  BY <1>9, Zenon
<1>11. Below(c, t) = UNION {g[d] : d \in 0 .. WordBits}
  BY Zenon DEF Below
<1> HIDE DEF g
<1>12. \A d \in 0 .. WordBits : g[d] = body(g, d)
  <2> HIDE DEF body
  <2> QED  BY <1>10
<1>13. g[0] = {t}
  BY <1>0, <1>12
<1>14. \A d \in 1 .. WordBits : g[d] = Children(c, g[d - 1])
  BY <1>12 
<1> QED  BY <1>11, <1>13, <1>14


(* and the chunks reached along a list.                                    *)
LEMMA AlongSteps ==
  ASSUME NEW link, NEW V, NEW n \in V, \A v \in V : link[v] \in V, NEW to, to = Along(link, n)
  PROVE  DOMAIN to = 0 .. Cardinality(Chunks) /\ to[0] = n
         /\ \A d \in 1 .. Cardinality(Chunks) : to[d] = link[to[d - 1]]
<1> DEFINE step == [d \in 1 .. Cardinality(Chunks) |-> [u \in V |-> link[u]]]
           body(w, d) == IF d = 0 THEN n ELSE link[w[d-1]]
<1>0. Cardinality(Chunks) \in Nat
  BY BinsAssumption, FS_CardinalityType
<1>1. \A u \in V : link[u] \in V
  OBVIOUS
<1>2. \A d \in 1 .. Cardinality(Chunks) : \A u \in V : step[d][u] = link[u]
  OBVIOUS
<1>3. \A d \in 1 .. Cardinality(Chunks) : \A u \in V : step[d][u] \in V
  BY <1>1, <1>2
<1>4. n \in V
  OBVIOUS
<1>5. PICK f : Walk(f, step, V, n, Cardinality(Chunks))
  <2> HIDE DEF step
  <2> QED  BY <1>0, <1>3, <1>4, WalkExists
<1>6. /\ f = [d \in 0 .. Cardinality(Chunks) |-> f[d]] /\ f[0] = n
      /\ \A d \in 0 .. Cardinality(Chunks) : f[d] \in V
      /\ \A d \in 1 .. Cardinality(Chunks) : f[d] = step[d][f[d - 1]]
  <2> HIDE DEF step
  <2> QED  BY <1>5 DEF Walk
<1>7. \A d \in 1 .. Cardinality(Chunks) : f[d] = link[f[d - 1]]
  <2> TAKE d \in 1 .. Cardinality(Chunks)
  <2>1. d - 1 \in 0 .. Cardinality(Chunks)
    BY <1>0
  <2>2. f[d - 1] \in V /\ f[d] = step[d][f[d - 1]]
    <3> HIDE DEF step
    <3> QED  BY <1>6, <2>1
  <2> HIDE DEF step
  <2> QED  BY <1>2, <2>2
<1>8. \A d \in 0 .. Cardinality(Chunks) : f[d] = body(f, d)
  <2> TAKE d \in 0 .. Cardinality(Chunks)
  <2>1. CASE d = 0
    BY <1>6, <2>1
  <2>2. CASE d # 0
    <3>1. d \in 1 .. Cardinality(Chunks)
      BY <1>0, <2>2
    <3> QED  BY <1>7, <2>2, <3>1 
  <2> QED  BY <2>1, <2>2
<1>9. f = [d \in 0 .. Cardinality(Chunks) |-> body(f, d)]
  <2> HIDE DEF body
  <2> QED  BY <1>6, <1>8
<1>10. \E g : g = [d \in 0 .. Cardinality(Chunks) |-> body(g, d)]
  BY <1>9
<1>11. to = [d \in 0 .. Cardinality(Chunks) |-> body(to, d)]
  BY <1>10, Zenon DEF Along
<1>12. DOMAIN to = 0 .. Cardinality(Chunks) /\ \A d \in 0 .. Cardinality(Chunks) : to[d] = body(to, d)
  <2> HIDE DEF body
  <2> QED  BY <1>11
<1>13. to[0] = n
  BY <1>0, <1>12
<1>14. \A d \in 1 .. Cardinality(Chunks) : to[d] = link[to[d - 1]]
  BY <1>12 
<1> QED  BY <1>12, <1>13, <1>14

(* The trees of c are tries of the nodes N at the depths dep.              *)
TrieOf(c, N, dep) == Trie(N, dep, c.size, c.treebins, c.child, c.parent) /\ TreeLinks(c)

(* t is the node at depth d on the way to size s in bin i.                 *)
OnTheWay(c, N, dep, t, d, s, i) ==
  t \in N /\ dep[t] = d /\ BinOf(c.size, t) = i /\ Agree(c.size[t], s, i, d)

(* A child hangs below its parent.                                         *)
LEMMA ChildUnder ==
  ASSUME NEW c, NEW N, NEW dep, TrieOf(c, N, dep), NEW t \in N, NEW k \in 0 .. 1, c.child[t][k] # Nil
  PROVE  /\ c.child[t][k] \in N /\ dep[c.child[t][k]] = dep[t] + 1
         /\ BinOf(c.size, c.child[t][k]) = BinOf(c.size, t)
         /\ Agree(c.size[t], c.size[c.child[t][k]], BinOf(c.size, t), dep[t])
         /\ PathBit(c.size[c.child[t][k]], BinOf(c.size, t), dep[t]) = k
         /\ Under(dep, c.size, t, c.child[t][k])
<1>1. PICK u \in N : /\ u = c.child[t][k] /\ c.parent[u] = t /\ dep[u] = dep[t] + 1
                     /\ PathBit(c.size[u], BinOf(c.size, t), dep[t]) = k
  BY DEF TrieOf, Trie, ChildOf
<1>2. dep[u] # 0 /\ dep[t] \in Nat
  <2>1. dep[t] \in Nat
    BY TrieNode DEF TrieOf
  <2> QED  BY <1>1, <2>1
<1>3. Hung(N, dep, c.size, c.treebins, c.child, c.parent, u)
  BY DEF TrieOf, Trie
<1>4. Under(dep, c.size, t, u)
  BY <1>1, <1>2, <1>3 DEF Hung
<1> QED  BY <1>1, <1>4 DEF Under

(* A node on the way of a size has the next one as its child.              *)
LEMMA WayStep ==
  ASSUME NEW c, NEW N, NEW dep, TrieOf(c, N, dep), NEW s, NEW i, InBin(s, i),
         NEW t, NEW d \in Nat, OnTheWay(c, N, dep, t, d, s, i), c.child[t][PathBit(s, i, d)] # Nil
  PROVE  OnTheWay(c, N, dep, c.child[t][PathBit(s, i, d)], d + 1, s, i)
<1>1. t \in N /\ dep[t] = d /\ BinOf(c.size, t) = i /\ Agree(c.size[t], s, i, d)
  BY DEF OnTheWay
<1>2. PICK k \in 0 .. 1 : k = PathBit(s, i, d)
  BY InBinFacts, PathBits
<1>3. PICK u : u = c.child[t][k]
  OBVIOUS
<1>4. u \in N /\ dep[u] = d + 1 /\ BinOf(c.size, u) = i /\ Agree(c.size[t], c.size[u], i, d)
      /\ PathBit(c.size[u], i, d) = k
  BY <1>1, <1>2, <1>3, ChildUnder
<1>5. Agree(c.size[u], c.size[t], i, d)
  BY <1>4, AgreeLaws
<1>6. Agree(c.size[u], s, i, d)
  BY <1>1, <1>5, AgreeLaws
<1>7. Agree(c.size[u], s, i, d + 1)
  BY <1>2, <1>4, <1>6, AgreeLaws
<1> QED  BY <1>2, <1>3, <1>4, <1>7 DEF OnTheWay

(* The way ended at depth e.                                               *)
Ended(c, way, s, e) ==
  /\ e \in 0 .. WordBits /\ (way[e] = Nil \/ c.size[way[e]] = s)
  /\ \A d \in 0 .. e - 1 : way[d] # Nil /\ c.size[way[d]] # s

(* Before it ends the way goes from node to node.                          *)
LEMMA WayNodes ==
  ASSUME NEW c, NEW N, NEW dep, TrieOf(c, N, dep), NEW s, NEW i, InBin(s, i),
         NEW way, way = Way(c, i, s), NEW n \in 0 .. WordBits,
         \A d \in 0 .. n - 1 : way[d] # Nil /\ c.size[way[d]] # s
  PROVE  /\ \A d \in 0 .. n : way[d] # Nil => OnTheWay(c, N, dep, way[d], d, s, i)
         /\ \A d \in 0 .. n - 1 : way[d + 1] = c.child[way[d]][PathBit(s, i, d)]
<1>0. WordBits \in Nat /\ n \in Nat /\ i \in TreeIndexes
  BY InBinFacts
<1>1. way[0] = c.treebins[i] /\ \A d \in 1 .. WordBits : way[d] = Onward(c, i, s, way[d - 1], d - 1)
  BY WaySteps DEF TrieOf
<1>2. ASSUME NEW d \in 0 .. n - 1
      PROVE  way[d + 1] = c.child[way[d]][PathBit(s, i, d)]
  <2>1. d + 1 \in 1 .. WordBits /\ (d + 1) - 1 = d
    BY <1>0, <1>2
  <2>2. way[d + 1] = Onward(c, i, s, way[d], d)
    BY <1>1, <2>1
  <2> QED  BY <2>2 DEF Onward
<1> DEFINE S == {d \in 0 .. n : way[d] # Nil => OnTheWay(c, N, dep, way[d], d, s, i)}
<1>3. 0 \in S
  <2>1. SUFFICES ASSUME way[0] # Nil PROVE OnTheWay(c, N, dep, way[0], 0, s, i)
    BY <1>0
  <2>2. way[0] \in N /\ dep[way[0]] = 0 /\ BinOf(c.size, way[0]) = i
    BY <1>0, <1>1, <2>1 DEF TrieOf, Trie
  <2> QED  BY <2>2, AgreeLaws DEF OnTheWay
<1>4. ASSUME NEW d \in 0 .. n, d \in S, d < n
      PROVE  d + 1 \in S
  <2>1. d \in 0 .. n - 1 /\ d \in Nat /\ d + 1 \in 0 .. n
    BY <1>0, <1>4
  <2>2. way[d + 1] = c.child[way[d]][PathBit(s, i, d)]
    BY <1>2, <2>1
  <2>3. OnTheWay(c, N, dep, way[d], d, s, i)
    BY <1>4, <2>1
  <2>4. way[d + 1] # Nil => OnTheWay(c, N, dep, way[d + 1], d + 1, s, i)
    BY <2>1, <2>2, <2>3, WayStep
  <2> QED  BY <2>1, <2>4
<1>5. 0 .. n \subseteq S
  <2> HIDE DEF S
  <2> QED  BY <1>0, <1>3, <1>4, UpTo
<1> QED  BY <1>2, <1>5

(* The way ends, at the node of the size or at a missing child.            *)
LEMMA WayEnds ==
  ASSUME NEW c, NEW N, NEW dep, TrieOf(c, N, dep), NEW s, NEW i, InBin(s, i),
         NEW way, way = Way(c, i, s)
  PROVE  Ended(c, way, s, WayEnd(c, way, s))
<1>0. WordBits \in Nat /\ Top(i) \in 0 .. WordBits - 1 /\ s \in LargeSizes
  BY InBinFacts
<1>1. DOMAIN way = 0 .. WordBits
  BY WaySteps DEF TrieOf
<1>2. \E d \in 0 .. WordBits : way[d] = Nil \/ c.size[way[d]] = s
  <2>1. SUFFICES ASSUME \A d \in 0 .. WordBits : way[d] # Nil /\ c.size[way[d]] # s
                 PROVE  FALSE
    OBVIOUS
  <2>2. PICK d \in 0 .. WordBits : d = Top(i) + 1
    BY <1>0
  <2>3. \A f \in 0 .. d - 1 : way[f] # Nil /\ c.size[way[f]] # s
    BY <1>0, <2>1
  <2>4. d \in 0 .. d /\ \A f \in 0 .. d : way[f] # Nil => OnTheWay(c, N, dep, way[f], f, s, i)
    BY <1>0, <2>3, WayNodes
  <2>5. OnTheWay(c, N, dep, way[d], d, s, i)
    BY <2>1, <2>4
  <2>6. InBin(c.size[way[d]], i) /\ Agree(c.size[way[d]], s, i, Top(i) + 1)
    BY <2>2, <2>5, TrieNode DEF OnTheWay, TrieOf
  <2>7. c.size[way[d]] = s
    BY <2>6, AgreeEqual
  <2> QED  BY <2>1, <2>7
<1>3. PICK e \in 0 .. WordBits : Ended(c, way, s, e)
  <2> DEFINE S == {d \in 0 .. WordBits : way[d] = Nil \/ c.size[way[d]] = s}
  <2>1. S \subseteq Nat /\ S # {}
    BY <1>0, <1>2
  <2>2. PICK e \in S : \A d \in S : e <= d
    <3> HIDE DEF S
    <3> QED  BY <2>1, NatMinimum
  <2>3. \A d \in 0 .. e - 1 : d \in 0 .. WordBits /\ d \notin S
    BY <1>0, <2>2
  <2>4. \A d \in 0 .. e - 1 : way[d] # Nil /\ c.size[way[d]] # s
    BY <2>3
  <2>5. Ended(c, way, s, e)
    BY <2>2, <2>4 DEF Ended
  <2> QED  BY <2>2, <2>5
<1>4. \E d \in DOMAIN way : /\ way[d] = Nil \/ c.size[way[d]] = s
                            /\ \A f \in 0 .. d-1 : way[f] # Nil /\ c.size[way[f]] # s
  BY <1>1, <1>3 DEF Ended
<1>5. /\ WayEnd(c, way, s) \in DOMAIN way
      /\ way[WayEnd(c, way, s)] = Nil \/ c.size[way[WayEnd(c, way, s)]] = s
      /\ \A f \in 0 .. WayEnd(c, way, s) - 1 : way[f] # Nil /\ c.size[way[f]] # s
  BY <1>4, Zenon DEF WayEnd
<1> QED  BY <1>1, <1>5 DEF Ended

(* A node below a node of the way that is not yet the end is below the     *)
(* next one, if its bit is that of the size.                               *)
LEMMA WayToward ==
  ASSUME NEW c, NEW N, NEW dep, TrieOf(c, N, dep), NEW s, NEW i, InBin(s, i),
         NEW t, NEW d \in Nat, OnTheWay(c, N, dep, t, d, s, i),
         NEW u \in N, u # t, Under(dep, c.size, t, u)
  PROVE  /\ PathBit(c.size[u], i, d) \in 0 .. 1
         /\ \E v \in N : v = c.child[t][PathBit(c.size[u], i, d)] /\ Under(dep, c.size, v, u)
         /\ Agree(c.size[u], s, i, d)
<1>1. t \in N /\ dep[t] = d /\ BinOf(c.size, t) = i /\ Agree(c.size[t], s, i, d)
  BY DEF OnTheWay
<1>2. Trie(N, dep, c.size, c.treebins, c.child, c.parent)
  BY DEF TrieOf
<1>3. PathBit(c.size[u], BinOf(c.size, t), dep[t]) \in 0 .. 1
      /\ \E v \in N : /\ v = c.child[t][PathBit(c.size[u], BinOf(c.size, t), dep[t])]
                      /\ dep[v] = dep[t] + 1 /\ Under(dep, c.size, v, u)
  BY <1>1, <1>2, ChildToward
<1>4. Agree(c.size[t], c.size[u], i, d)
  BY <1>1 DEF Under
<1>5. Agree(c.size[u], c.size[t], i, d)
  BY <1>4, AgreeLaws
<1>6. Agree(c.size[u], s, i, d)
  BY <1>1, <1>5, AgreeLaws
<1> QED  BY <1>1, <1>3, <1>6

(* Every node of a bin is below its root.                                  *)
LEMMA UnderRoot ==
  ASSUME NEW c, NEW N, NEW dep, TrieOf(c, N, dep), NEW u \in N
  PROVE  /\ c.treebins[BinOf(c.size, u)] # Nil
         /\ Under(dep, c.size, c.treebins[BinOf(c.size, u)], u)
<1>1. Trie(N, dep, c.size, c.treebins, c.child, c.parent)
  BY DEF TrieOf
<1>2. dep[u] \in Nat /\ 0 \in 0 .. dep[u]
  BY <1>1, TrieNode
<1>3. PICK w \in N : dep[w] = 0 /\ Under(dep, c.size, w, u)
  BY <1>1, <1>2, Ancestor
<1>4. c.treebins[BinOf(c.size, w)] = w /\ w # Nil
  BY <1>1, <1>3, TrieNode, SmallBinAssumption DEF Trie, Hung
<1> QED  BY <1>3, <1>4 DEF Under

(* The way to the size of a node ends at the node.                         *)
LEMMA WayFinds ==
  ASSUME NEW c, NEW N, NEW dep, TrieOf(c, N, dep), NEW s, NEW i, InBin(s, i),
         NEW way, way = Way(c, i, s), NEW e, Ended(c, way, s, e),
         NEW v \in N, c.size[v] = s
  PROVE  way[e] = v
<1>0. WordBits \in Nat /\ e \in Nat /\ e \in 0 .. WordBits
  BY InBinFacts DEF Ended
<1>1. /\ \A d \in 0 .. e : way[d] # Nil => OnTheWay(c, N, dep, way[d], d, s, i)
      /\ \A d \in 0 .. e - 1 : way[d + 1] = c.child[way[d]][PathBit(s, i, d)]
  BY <1>0, WayNodes DEF Ended
<1>2. BinOf(c.size, v) = i
  BY DEF InBin, BinOf
<1> DEFINE S == {d \in 0 .. e : way[d] # Nil /\ Under(dep, c.size, way[d], v)}
<1>3. 0 \in S
  <2>1. way[0] = c.treebins[i]
    BY WaySteps DEF TrieOf
  <2> QED  BY <1>0, <1>2, <2>1, UnderRoot
<1>4. ASSUME NEW d \in 0 .. e, d \in S, d < e
      PROVE  d + 1 \in S
  <2>1. d \in 0 .. e - 1 /\ d \in Nat /\ d + 1 \in 0 .. e
    BY <1>0, <1>4
  <2>2. OnTheWay(c, N, dep, way[d], d, s, i) /\ c.size[way[d]] # s
    BY <1>1, <1>4, <2>1 DEF Ended
  <2>3. PICK u \in N : u = c.child[way[d]][PathBit(s, i, d)] /\ Under(dep, c.size, u, v)
    BY <1>4, <2>1, <2>2, WayToward
  <2>4. way[d + 1] = u /\ u # Nil
    BY <1>1, <2>1, <2>3, TrieNode, SmallBinAssumption DEF TrieOf
  <2> QED  BY <2>1, <2>3, <2>4
<1>5. 0 .. e \subseteq S
  <2> HIDE DEF S
  <2> QED  BY <1>0, <1>3, <1>4, UpTo
<1>6. e \in 0 .. e
  BY <1>0
<1>7. way[e] # Nil /\ c.size[way[e]] = s
  BY <1>5, <1>6 DEF Ended
<1>8. way[e] \in N
  BY <1>1, <1>6, <1>7 DEF OnTheWay
<1> QED  BY <1>7, <1>8 DEF TrieOf, Trie

(* Below what is below a node is below the node.                           *)
LEMMA UnderTransitive ==
  ASSUME NEW N, NEW dep, NEW sz, NEW tb, NEW ch, NEW pa, Trie(N, dep, sz, tb, ch, pa),
         NEW t \in N, NEW u \in N, NEW w \in N, Under(dep, sz, t, u), Under(dep, sz, u, w)
  PROVE  Under(dep, sz, t, w)
<1>1. dep[t] \in Nat /\ dep[u] \in Nat /\ dep[w] \in Nat /\ dep[t] <= dep[u] /\ dep[u] <= dep[w]
      /\ BinOf(sz, t) = BinOf(sz, u) /\ BinOf(sz, u) = BinOf(sz, w)
      /\ Agree(sz[t], sz[u], BinOf(sz, u), dep[t]) /\ Agree(sz[u], sz[w], BinOf(sz, w), dep[u])
  BY TrieNode DEF Under
<1>2. dep[t] \in 0 .. dep[u] /\ dep[t] <= dep[w]
  BY <1>1
<1>3. Agree(sz[u], sz[w], BinOf(sz, w), dep[t])
  BY <1>1, <1>2, AgreeLaws
<1>4. Agree(sz[t], sz[w], BinOf(sz, w), dep[t])
  BY <1>1, <1>3, AgreeLaws
<1> QED  BY <1>1, <1>2, <1>4 DEF Under

(* The sizes below the two children of a node.                             *)
LEMMA LeftLess ==
  ASSUME NEW c, NEW N, NEW dep, TrieOf(c, N, dep), NEW t \in N, NEW l \in N, NEW r \in N,
         Under(dep, c.size, t, l), Under(dep, c.size, t, r),
         PathBit(c.size[l], BinOf(c.size, t), dep[t]) = 0,
         PathBit(c.size[r], BinOf(c.size, t), dep[t]) # 0
  PROVE  c.size[l] < c.size[r]
<1>1. BinOf(c.size, l) = BinOf(c.size, t) /\ BinOf(c.size, r) = BinOf(c.size, t)
      /\ Agree(c.size[t], c.size[l], BinOf(c.size, t), dep[t])
      /\ Agree(c.size[t], c.size[r], BinOf(c.size, t), dep[t])
  BY DEF Under
<1>2. dep[t] \in Nat /\ InBin(c.size[l], BinOf(c.size, t)) /\ InBin(c.size[r], BinOf(c.size, t))
  BY <1>1, TrieNode DEF TrieOf
<1>3. Agree(c.size[l], c.size[t], BinOf(c.size, t), dep[t])
  BY <1>1, <1>2, AgreeLaws
<1>4. Agree(c.size[l], c.size[r], BinOf(c.size, t), dep[t])
  BY <1>1, <1>2, <1>3, AgreeLaws
<1> QED  BY <1>2, <1>4, AgreeLess

(* The left spine of t leads to nodes below t, one of which is as small as *)
(* any node below t.                                                       *)
LEMMA SpineIsBelow ==
  ASSUME NEW c, NEW N, NEW dep, TrieOf(c, N, dep), NEW t \in N
  PROVE  /\ LeftSpine(c, t) \subseteq {u \in N : Under(dep, c.size, t, u)}
         /\ t \in LeftSpine(c, t)
         /\ \A u \in N : Under(dep, c.size, t, u) =>
              \E w \in LeftSpine(c, t) : c.size[w] <= c.size[u]
<1>0. Trie(N, dep, c.size, c.treebins, c.child, c.parent) /\ TreeLinks(c) /\ WordBits \in Nat
      /\ t \in Chunks /\ t # Nil /\ Nil \notin N /\ dep[t] \in Nat /\ Under(dep, c.size, t, t)
  BY TrieNode, TreeBinAssumption, SmallBinAssumption DEF TrieOf
<1>1. PICK g : /\ LeftSpine(c, t) = {g[d] : d \in 0 .. WordBits} \ {Nil} /\ g[0] = t
               /\ \A d \in 1 .. WordBits : g[d] = Lefter(c, g[d - 1])
  BY <1>0, LeftSpineSteps
<1>2. ASSUME NEW q \in N, Lefter(c, q) # Nil
      PROVE  \E k \in 0 .. 1 : Lefter(c, q) = c.child[q][k] /\ (k = 1 => c.child[q][0] = Nil)
  BY <1>0, <1>2 DEF Lefter, LeftmostChild
<1> DEFINE S == {d \in 0 .. WordBits :
                   g[d] # Nil => g[d] \in N /\ Under(dep, c.size, t, g[d]) /\ dep[g[d]] = dep[t] + d}
<1>3. 0 \in S
  BY <1>0, <1>1
<1>4. ASSUME NEW d \in 0 .. WordBits, d \in S, d < WordBits
      PROVE  d + 1 \in S
  <2>1. d + 1 \in 1 .. WordBits /\ (d + 1) - 1 = d /\ d \in Nat
    BY <1>0, <1>4
  <2>2. g[d + 1] = Lefter(c, g[d])
    BY <1>1, <2>1
  <2>3. SUFFICES ASSUME g[d + 1] # Nil
                 PROVE  g[d + 1] \in N /\ Under(dep, c.size, t, g[d + 1]) /\ dep[g[d + 1]] = dep[t] + (d + 1)
    BY <2>1
  <2>4. g[d] # Nil
    BY <2>2, <2>3 DEF Lefter
  <2>5. g[d] \in N /\ Under(dep, c.size, t, g[d]) /\ dep[g[d]] = dep[t] + d
    BY <1>4, <2>4
  <2>6. PICK k \in 0 .. 1 : g[d + 1] = c.child[g[d]][k]
    BY <1>2, <2>2, <2>3, <2>5
  <2>7. g[d + 1] \in N /\ dep[g[d + 1]] = dep[g[d]] + 1 /\ Under(dep, c.size, g[d], g[d + 1])
    BY <2>3, <2>5, <2>6, ChildUnder
  <2>8. Under(dep, c.size, t, g[d + 1])
    BY <1>0, <2>5, <2>7, UnderTransitive
  <2>9. dep[g[d + 1]] = dep[t] + (d + 1)
    BY <1>0, <2>1, <2>5, <2>7
  <2> QED  BY <2>7, <2>8, <2>9
<1>5. 0 .. WordBits \subseteq S
  <2> HIDE DEF S
  <2> QED  BY <1>0, <1>3, <1>4, UpTo
<1>6. LeftSpine(c, t) \subseteq {u \in N : Under(dep, c.size, t, u)}
  <2>1. SUFFICES ASSUME NEW w \in LeftSpine(c, t) PROVE w \in N /\ Under(dep, c.size, t, w)
    OBVIOUS
  <2>2. PICK d \in 0 .. WordBits : w = g[d] /\ w # Nil
    BY <1>1
  <2> QED  BY <1>5, <2>2
<1>7. t \in LeftSpine(c, t)
  <2>1. 0 \in 0 .. WordBits
    BY <1>0
  <2> QED  BY <1>0, <1>1, <2>1
<1>8. ASSUME NEW u \in N, Under(dep, c.size, t, u)
      PROVE  \E w \in LeftSpine(c, t) : c.size[w] <= c.size[u]
  <2>1. SUFFICES ASSUME \A w \in LeftSpine(c, t) : ~(c.size[w] <= c.size[u]) PROVE FALSE
    OBVIOUS
  <2>2. \A d \in 0 .. WordBits : g[d] # Nil => ~(c.size[g[d]] <= c.size[u])
    <3>1. \A d \in 0 .. WordBits : g[d] # Nil => g[d] \in LeftSpine(c, t)
      BY <1>1
    <3> QED  BY <2>1, <3>1
  <2>3. \A w \in N : c.size[w] \in Nat
    BY <1>0, TrieNode, SizeBounds
  <2> DEFINE R == {d \in 0 .. WordBits : g[d] # Nil /\ Under(dep, c.size, g[d], u)}
  <2>4. 0 \in R
    BY <1>0, <1>1, <1>8
  <2>5. ASSUME NEW d \in 0 .. WordBits, d \in R, d < WordBits
        PROVE  d + 1 \in R
    <3>1. d + 1 \in 1 .. WordBits /\ (d + 1) - 1 = d /\ d + 1 \in 0 .. WordBits
      BY <1>0, <2>5
    <3>2. g[d + 1] = Lefter(c, g[d])
      BY <1>1, <3>1
    <3>3. PICK q \in N : q = g[d] /\ Under(dep, c.size, q, u) /\ q # Nil /\ q # u
      <4>1. g[d] \in N /\ g[d] # Nil /\ Under(dep, c.size, g[d], u)
        BY <1>5, <2>5
      <4>2. g[d] # u
        BY <2>2, <2>3, <2>5
      <4> QED  BY <4>1, <4>2
    <3>4. PICK k \in 0 .. 1, v \in N :
            k = PathBit(c.size[u], BinOf(c.size, q), dep[q]) /\ v = c.child[q][k] /\ Under(dep, c.size, v, u)
      BY <1>0, <3>3, ChildToward
    <3>5. v # Nil
      BY <1>0
    <3>6. CASE k = 0 \/ c.child[q][0] = Nil
      <4>1. LeftmostChild(c, q) = v
        BY <3>4, <3>5, <3>6 DEF LeftmostChild
      <4>2. g[d + 1] = v
        BY <3>2, <3>3, <4>1 DEF Lefter
      <4> QED  BY <3>1, <3>4, <3>5, <4>2
    <3>7. CASE k = 1 /\ c.child[q][0] # Nil
      <4>1. PICK l \in N : l = c.child[q][0] /\ PathBit(c.size[l], BinOf(c.size, q), dep[q]) = 0
                           /\ Under(dep, c.size, q, l)
        BY <3>7, ChildUnder
      <4>2. g[d + 1] = l /\ l # Nil
        BY <1>0, <3>2, <3>3, <3>7, <4>1 DEF Lefter, LeftmostChild
      <4>3. c.size[l] < c.size[u]
        <5>1. PathBit(c.size[u], BinOf(c.size, q), dep[q]) # 0
          BY <3>4, <3>7
        <5>2. Under(dep, c.size, q, u) /\ Under(dep, c.size, q, l)
          BY <3>3, <4>1
        <5>3. PathBit(c.size[l], BinOf(c.size, q), dep[q]) = 0
          BY <4>1
        <5> QED  BY <5>1, <5>2, <5>3, LeftLess
      <4> QED  BY <2>2, <2>3, <3>1, <4>2, <4>3
    <3> QED  BY <3>6, <3>7
  <2>6. 0 .. WordBits \subseteq R
    <3> HIDE DEF R
    <3> QED  BY <1>0, <2>4, <2>5, UpTo
  <2>7. WordBits \in 0 .. WordBits
    BY <1>0
  <2>8. PICK q \in N : q = g[WordBits] /\ dep[q] = dep[t] + WordBits /\ Under(dep, c.size, q, u) /\ q # u
    <3>1. g[WordBits] # Nil /\ Under(dep, c.size, g[WordBits], u)
      BY <2>6, <2>7
    <3>2. g[WordBits] \in N /\ dep[g[WordBits]] = dep[t] + WordBits
      BY <1>5, <2>7, <3>1
    <3>3. g[WordBits] # u
      BY <2>2, <2>3, <2>7, <3>1
    <3> QED  BY <3>1, <3>2, <3>3
  <2>9. PICK v \in N : dep[v] = dep[q] + 1
    BY <1>0, <2>8, ChildToward
  <2>10. dep[v] \in 0 .. WordBits
    BY <1>0, DepthBound
  <2> QED  BY <1>0, <2>8, <2>9, <2>10
<1> QED  BY <1>6, <1>7, <1>8

(* The descent from x ends at a leaf below x.                              *)
LEMMA DescentEnds ==
  ASSUME NEW c, NEW N, NEW dep, TrieOf(c, N, dep), NEW x \in N, NEW leaf, leaf = Descent(c, x)[WordBits]
  PROVE  leaf \in N /\ Under(dep, c.size, x, leaf) /\ \A k \in 0 .. 1 : c.child[leaf][k] = Nil
<1>0. Trie(N, dep, c.size, c.treebins, c.child, c.parent) /\ TreeLinks(c) /\ WordBits \in Nat
      /\ x \in Chunks /\ Nil \notin N /\ dep[x] \in Nat /\ Under(dep, c.size, x, x)
  BY TrieNode, TreeBinAssumption, SmallBinAssumption DEF TrieOf
<1>1. PICK g : /\ g = Descent(c, x) /\ g[0] = x
               /\ \A d \in 1 .. WordBits : g[d] = Deeper(c, g[d - 1])
  BY <1>0, DescentSteps
<1> DEFINE S == {d \in 0 .. WordBits :
                   /\ g[d] \in N /\ Under(dep, c.size, x, g[d])
                   /\ RightmostChild(c, g[d]) = Nil \/ dep[g[d]] = dep[x] + d}
<1>2. 0 \in S
  BY <1>0, <1>1
<1>3. ASSUME NEW d \in 0 .. WordBits, d \in S, d < WordBits
      PROVE  d + 1 \in S
  <2>1. d + 1 \in 1 .. WordBits /\ (d + 1) - 1 = d /\ d + 1 \in 0 .. WordBits /\ d \in Nat
    BY <1>0, <1>3
  <2>2. g[d + 1] = Deeper(c, g[d])
    BY <1>1, <2>1
  <2>3. PICK q \in N : q = g[d] /\ Under(dep, c.size, x, q)
    BY <1>3
  <2>4. CASE RightmostChild(c, q) = Nil
    BY <2>1, <2>2, <2>3, <2>4 DEF Deeper
  <2>5. CASE RightmostChild(c, q) # Nil
    <3>1. dep[q] = dep[x] + d
      BY <1>3, <2>3, <2>5
    <3>2. PICK k \in 0 .. 1 : g[d + 1] = c.child[q][k] /\ c.child[q][k] # Nil
      BY <2>2, <2>3, <2>5 DEF Deeper, RightmostChild
    <3>3. g[d + 1] \in N /\ dep[g[d + 1]] = dep[q] + 1 /\ Under(dep, c.size, q, g[d + 1])
      BY <3>2, ChildUnder
    <3>4. Under(dep, c.size, x, g[d + 1])
      BY <1>0, <2>3, <3>3, UnderTransitive
    <3>5. dep[g[d + 1]] = dep[x] + (d + 1)
      BY <1>0, <2>1, <3>1, <3>3
    <3> QED  BY <2>1, <3>3, <3>4, <3>5
  <2> QED  BY <2>4, <2>5
<1>4. 0 .. WordBits \subseteq S
  <2> HIDE DEF S
  <2> QED  BY <1>0, <1>2, <1>3, UpTo
<1>5. leaf \in N /\ Under(dep, c.size, x, leaf)
      /\ (RightmostChild(c, leaf) = Nil \/ dep[leaf] = dep[x] + WordBits)
  <2>1. WordBits \in 0 .. WordBits
    BY <1>0
  <2> QED  BY <1>1, <1>4, <2>1
<1>6. ASSUME NEW k \in 0 .. 1, c.child[leaf][k] # Nil
      PROVE  FALSE
  <2>1. RightmostChild(c, leaf) # Nil
    BY <1>6 DEF RightmostChild
  <2>2. dep[leaf] = dep[x] + WordBits
    BY <1>5, <2>1
  <2>3. PICK v \in N : dep[v] = dep[leaf] + 1
    BY <1>5, <1>6, ChildUnder
  <2>4. dep[v] \in 0 .. WordBits
    BY <1>0, DepthBound
  <2> QED  BY <1>0, <2>2, <2>3, <2>4
<1> QED  BY <1>5, <1>6

(* What is below a node in the links is below it in the trie.              *)
LEMMA BelowIsUnder ==
  ASSUME NEW c, NEW N, NEW dep, TrieOf(c, N, dep), NEW t \in N, NEW u \in Below(c, t)
  PROVE  u \in N /\ Under(dep, c.size, t, u)
<1>0. Trie(N, dep, c.size, c.treebins, c.child, c.parent) /\ TreeLinks(c) /\ WordBits \in Nat
      /\ t \in Chunks /\ Under(dep, c.size, t, t)
  BY TrieNode, TreeBinAssumption DEF TrieOf
<1>1. PICK g : /\ Below(c, t) = UNION {g[d] : d \in 0 .. WordBits} /\ g[0] = {t}
               /\ \A d \in 1 .. WordBits : g[d] = Children(c, g[d - 1])
  BY <1>0, BelowSteps
<1> DEFINE S == {d \in 0 .. WordBits : \A w \in g[d] : w \in N /\ Under(dep, c.size, t, w)}
<1>2. 0 \in S
  BY <1>0, <1>1
<1>3. ASSUME NEW d \in 0 .. WordBits, d \in S, d < WordBits
      PROVE  d + 1 \in S
  <2>1. d + 1 \in 1 .. WordBits /\ (d + 1) - 1 = d /\ d + 1 \in 0 .. WordBits
    BY <1>0, <1>3
  <2>2. g[d + 1] = Children(c, g[d])
    BY <1>1, <2>1
  <2>3. ASSUME NEW w \in g[d + 1]
        PROVE  w \in N /\ Under(dep, c.size, t, w)
    <3>1. PICK q \in g[d], k \in 0 .. 1 : w = c.child[q][k] /\ w # Nil
      BY <2>2, <2>3 DEF Children
    <3>2. q \in N /\ Under(dep, c.size, t, q)
      BY <1>3
    <3>3. w \in N /\ Under(dep, c.size, q, w)
      BY <3>1, <3>2, ChildUnder
    <3> QED  BY <1>0, <3>2, <3>3, UnderTransitive
  <2> QED  BY <2>1, <2>3
<1>4. 0 .. WordBits \subseteq S
  <2> HIDE DEF S
  <2> QED  BY <1>0, <1>2, <1>3, UpTo
<1>5. PICK d \in 0 .. WordBits : u \in g[d]
  BY <1>1
<1> QED  BY <1>4, <1>5

-----------------------------------------------------------------------------
(* The search for the best fit                                             *)

(* A word of a number that fits, and of one that wraps around once.        *)
LEMMA WordOf ==
  ASSUME NEW x \in Int
  PROVE  /\ 0 <= x /\ x < AddrSpace => Word(x) = x
         /\ x < 0 /\ -AddrSpace <= x => Word(x) = x + AddrSpace
<1>1. PICK m \in Nat : m = AddrSpace /\ m > 0
  BY SizeBounds, BitSteps DEF AddrSpace
<1>2. ASSUME 0 <= x, x < m
      PROVE  x % m = x
  BY <1>1, <1>2
<1>3. ASSUME x < 0, -m <= x
      PROVE  x % m = x + m
  <2>1. PICK y \in Nat : y = x + m /\ y < m
    BY <1>1, <1>3
  <2>2. x = (-1) * m + y
    BY <1>1, <2>1
  <2>3. x % m = y
    BY <1>1, <2>1, <2>2
  <2> QED  BY <2>1, <2>3
<1> QED  BY <1>1, <1>2, <1>3 DEF Word

(* nb is a size that malloc can be asked for.                              *)
IsRequest(nb) == nb \in Nat /\ 0 < nb /\ nb < AddrSpace

(* The unsigned remainder of a chunk tells whether the chunk is large      *)
(* enough.                                                                 *)
LEMMA RemIs ==
  ASSUME NEW c, NEW t, c.size[t] \in LargeSizes, NEW nb, IsRequest(nb)
  PROVE  /\ c.size[t] >= nb => Rem(c, t, nb) = c.size[t] - nb
         /\ Rem(c, t, nb) < Word(-nb) <=> c.size[t] >= nb
<1>1. PICK s \in Nat : s = c.size[t] /\ s < AddrSpace
  BY SizeBounds
<1>2. PICK m \in Nat : m = AddrSpace
  BY SizeBounds
<1>3. nb \in Nat /\ 0 < nb /\ nb < m
  BY <1>2 DEF IsRequest
<1>4. Word(-nb) = m - nb
  <2>1. -nb \in Int /\ -nb < 0 /\ -m <= -nb
    BY <1>3
  <2>2. Word(-nb) = -nb + m
    BY <1>2, <2>1, WordOf
  <2> QED  BY <1>3, <2>2
<1>5. CASE s >= nb
  <2>1. s - nb \in Int /\ 0 <= s - nb /\ s - nb < m
    BY <1>1, <1>2, <1>3, <1>5
  <2>2. Word(s - nb) = s - nb
    BY <1>2, <2>1, WordOf
  <2> QED  BY <1>1, <1>2, <1>3, <1>4, <1>5, <2>2 DEF Rem
<1>6. CASE s < nb
  <2>1. s - nb \in Int /\ s - nb < 0 /\ -m <= s - nb
    BY <1>1, <1>2, <1>3, <1>6
  <2>2. Word(s - nb) = s - nb + m
    BY <1>2, <2>1, WordOf
  <2> QED  BY <1>1, <1>2, <1>3, <1>4, <1>6, <2>2 DEF Rem
<1> QED  BY <1>1, <1>3, <1>5, <1>6

(* The chunks that the searches consider are those that are large enough,  *)
LEMMA FittingIs ==
  ASSUME NEW c, NEW T, \A t \in T : c.size[t] \in LargeSizes, NEW nb, IsRequest(nb)
  PROVE  Fitting(c, T, nb) = {t \in T : c.size[t] >= nb}
<1>1. \A t \in T : Rem(c, t, nb) < Word(-nb) <=> c.size[t] >= nb
  BY RemIs
<1> QED  BY <1>1 DEF Fitting

(* and the one they keep is the smallest of them.                          *)
LEMMA SmallestIs ==
  ASSUME NEW c, NEW T, \A t \in T : c.size[t] \in LargeSizes, NEW nb, IsRequest(nb),
         \A t \in T : c.size[t] >= nb
  PROVE  /\ T = {} => Smallest(c, T, nb) = Nil
         /\ T # {} => /\ Smallest(c, T, nb) \in T
                      /\ \A u \in T : c.size[Smallest(c, T, nb)] <= c.size[u]
<1>1. T = {} => Smallest(c, T, nb) = Nil
  BY DEF Smallest
<1>2. ASSUME T # {}
      PROVE  /\ Smallest(c, T, nb) \in T
             /\ \A u \in T : c.size[Smallest(c, T, nb)] <= c.size[u]
  <2>1. \A t \in T : c.size[t] \in Nat /\ Rem(c, t, nb) = c.size[t] - nb /\ nb \in Nat
    BY RemIs, SizeBounds DEF IsRequest
  <2>2. \E t \in T : \A u \in T : Rem(c, t, nb) <= Rem(c, u, nb)
    <3> DEFINE S == {c.size[t] : t \in T}
    <3>1. S \subseteq Nat /\ S # {}
      BY <1>2, <2>1
    <3>2. PICK m \in S : \A y \in S : m <= y
      <4> HIDE DEF S
      <4> QED  BY <3>1, NatMinimum
    <3>3. PICK t \in T : m = c.size[t]
      BY <3>2
    <3>4. \A u \in T : c.size[t] <= c.size[u]
      BY <3>2, <3>3
    <3> QED  BY <2>1, <3>4
  <2>3. Smallest(c, T, nb) \in T /\ \A u \in T : Rem(c, Smallest(c, T, nb), nb) <= Rem(c, u, nb)
    BY <1>2, <2>2, Zenon DEF Smallest
  <2>4. \A u \in T : c.size[Smallest(c, T, nb)] <= c.size[u]
    <3> TAKE u \in T
    <3>1. c.size[Smallest(c, T, nb)] - nb <= c.size[u] - nb
      BY <2>1, <2>3
    <3> QED  BY <2>1, <2>3, <3>1
  <2> QED  BY <2>3, <2>4
<1> QED  BY <1>1, <1>2

(* v is the least node for nb, or there is none.                           *)
LeastFit(c, N, nb, v) ==
  IF \E u \in N : c.size[u] >= nb
  THEN v \in N /\ c.size[v] >= nb /\ \A u \in N : c.size[u] >= nb => c.size[v] <= c.size[u]
  ELSE v = Nil

(* A set of nodes that holds, for every node that fits, one that is no     *)
(* larger.                                                                 *)
LEMMA EnoughToSearch ==
  ASSUME NEW c, NEW N, NEW dep, TrieOf(c, N, dep), NEW nb, IsRequest(nb),
         NEW T, T \subseteq {t \in N : c.size[t] >= nb},
         \A u \in N : c.size[u] >= nb => \E w \in T : c.size[w] <= c.size[u]
  PROVE  LeastFit(c, N, nb, Smallest(c, T, nb))
<1>1. \A t \in N : c.size[t] \in LargeSizes /\ c.size[t] \in Nat
  BY TrieNode, SizeBounds DEF TrieOf
<1>2. \A t \in T : c.size[t] \in LargeSizes /\ c.size[t] >= nb /\ t \in N
  BY <1>1
<1>3. CASE T = {}
  <2>1. Smallest(c, T, nb) = Nil
    BY <1>3 DEF Smallest
  <2> QED  BY <1>3, <2>1 DEF LeastFit
<1>4. CASE T # {}
  <2>1. Smallest(c, T, nb) \in T /\ \A u \in T : c.size[Smallest(c, T, nb)] <= c.size[u]
    BY <1>2, <1>4, SmallestIs
  <2>2. PICK v \in T : v = Smallest(c, T, nb) /\ \A u \in T : c.size[v] <= c.size[u]
    BY <2>1
  <2>3. v \in N /\ c.size[v] >= nb
    BY <1>2
  <2>4. ASSUME NEW u \in N, c.size[u] >= nb
        PROVE  c.size[v] <= c.size[u]
    <3>1. PICK w \in T : c.size[w] <= c.size[u]
      BY <2>4
    <3>2. c.size[v] <= c.size[w] /\ c.size[v] \in Nat /\ c.size[w] \in Nat /\ c.size[u] \in Nat
      BY <1>1, <1>2, <2>2
    <3> QED  BY <3>1, <3>2
  <2> QED  BY <2>2, <2>3, <2>4 DEF LeastFit
<1> QED  BY <1>3, <1>4

(* Sizes of a lower bin are less.                                          *)
LEMMA LowerBin ==
  ASSUME NEW s, NEW u, NEW i, NEW j, InBin(s, i), InBin(u, j), i < j
  PROVE  s < u
<1>1. s \in LargeSizes /\ u \in LargeSizes /\ ComputeTreeIndex(s) = i /\ ComputeTreeIndex(u) = j
      /\ s \in Nat /\ u \in Nat /\ i \in Int /\ j \in Int
  BY InBinFacts DEF InBin, TreeIndexes
<1>2. ~(u <= s)
  <2>1. u <= s => j <= i
    BY <1>1, IndexMonotonic
  <2> QED  BY <1>1, <2>1
<1> QED  BY <1>1, <1>2

(* There is nothing to search below a null link.                           *)
LEMMA SpineOfNil ==
  ASSUME NEW c, TreeLinks(c)
  PROVE  LeftSpine(c, Nil) = {}
<1>0. WordBits \in Nat
  BY TreeBinAssumption
<1>1. PICK g : /\ LeftSpine(c, Nil) = {g[d] : d \in 0 .. WordBits} \ {Nil} /\ g[0] = Nil
               /\ \A d \in 1 .. WordBits : g[d] = Lefter(c, g[d - 1])
  BY LeftSpineSteps
<1> DEFINE S == {d \in 0 .. WordBits : g[d] = Nil}
<1>2. 0 \in S
  BY <1>0, <1>1
<1>3. ASSUME NEW d \in 0 .. WordBits, d \in S, d < WordBits
      PROVE  d + 1 \in S
  <2>1. d + 1 \in 1 .. WordBits /\ (d + 1) - 1 = d /\ d + 1 \in 0 .. WordBits /\ g[d] = Nil
    BY <1>0, <1>3
  <2>2. g[d + 1] = Lefter(c, g[d])
    BY <1>1, <2>1
  <2> QED  BY <2>1, <2>2 DEF Lefter
<1>4. 0 .. WordBits \subseteq S
  <2> HIDE DEF S
  <2> QED  BY <1>0, <1>2, <1>3, UpTo
<1>5. \A d \in 0 .. WordBits : g[d] = Nil
  BY <1>4
<1> QED  BY <1>1, <1>5

(* The depths at which the way left a right subtree aside.                 *)
Rights(c, way, e) == {d \in 0 .. e-1 : c.child[way[d]][1] \notin {Nil, way[d+1]}}

(* The last right subtree that the way left aside, if it left any.         *)
LEMMA UntakenIs ==
  ASSUME NEW c, NEW way, NEW e \in Nat
  PROVE  /\ Rights(c, way, e) = {} => Untaken(c, way, e) = Nil
         /\ Rights(c, way, e) # {} =>
              \E d \in Rights(c, way, e) : /\ Untaken(c, way, e) = c.child[way[d]][1]
                                           /\ \A f \in Rights(c, way, e) : f <= d
<1> DEFINE R == Rights(c, way, e)
<1>0. R = {d \in 0 .. e-1 : c.child[way[d]][1] \notin {Nil, way[d+1]}}
  BY DEF Rights
<1>1. Untaken(c, way, e) = IF R = {} THEN Nil
                           ELSE c.child[way[CHOOSE d \in R : \A f \in R : f <= d]][1]
  BY Zenon DEF Untaken, Rights
<1> HIDE DEF R
<1>2. ASSUME R # {}
      PROVE  \E d \in R : \A f \in R : f <= d
  <2> DEFINE S == {e - d : d \in R}
  <2>1. S \subseteq Nat /\ S # {}
    BY <1>0, <1>2
  <2>2. PICK m \in S : \A y \in S : m <= y
    <3> HIDE DEF S
    <3> QED  BY <2>1, NatMinimum
  <2>3. PICK d \in R : m = e - d
    BY <2>2
  <2>4. ASSUME NEW f \in R
        PROVE  f <= d
    <3>1. e - d <= e - f
      BY <2>2, <2>3
    <3>2. f \in Int /\ d \in Int
      BY <1>0
    <3> QED  BY <3>1, <3>2
  <2> QED  BY <2>4
<1>3. ASSUME R # {}
      PROVE  \E d \in R : Untaken(c, way, e) = c.child[way[d]][1] /\ \A f \in R : f <= d
  <2>1. PICK d : d = CHOOSE g \in R : \A f \in R : f <= g
    OBVIOUS
  <2>2. d \in R /\ \A f \in R : f <= d
    BY <1>2, <1>3, <2>1, Zenon
  <2>3. Untaken(c, way, e) = c.child[way[d]][1]
    BY <1>1, <1>3, <2>1, Zenon
  <2> QED  BY <2>2, <2>3
<1>4. R = {} => Untaken(c, way, e) = Nil
  BY <1>1
<1> QED  BY <1>3, <1>4 DEF R

(* Where a node that is larger than nb and not met on the way left it.     *)
LEMMA Diverges ==
  ASSUME NEW c, NEW N, NEW dep, TrieOf(c, N, dep), NEW nb, NEW i, InBin(nb, i),
         NEW way, way = Way(c, i, nb), NEW e, Ended(c, way, nb, e), way[e] = Nil,
         NEW u \in N, BinOf(c.size, u) = i, c.size[u] >= nb, \A d \in 0 .. e : u # way[d]
  PROVE  \E d \in Rights(c, way, e) :
           /\ PathBit(nb, i, d) = 0 /\ PathBit(c.size[u], i, d) = 1 /\ Agree(nb, c.size[u], i, d)
           /\ Under(dep, c.size, c.child[way[d]][1], u)
<1>0. WordBits \in Nat /\ e \in Nat /\ e \in 0 .. WordBits /\ nb \in Nat
  BY InBinFacts DEF Ended
<1>1. /\ \A d \in 0 .. e : way[d] # Nil => OnTheWay(c, N, dep, way[d], d, nb, i)
      /\ \A d \in 0 .. e - 1 : way[d + 1] = c.child[way[d]][PathBit(nb, i, d)]
  BY <1>0, WayNodes DEF Ended
<1>2. InBin(c.size[u], i) /\ c.size[u] \in Nat /\ Nil \notin N
  <2>1. InBin(c.size[u], i)
    BY TrieNode DEF TrieOf
  <2>2. Nil \notin N
    BY TrieNode, SmallBinAssumption DEF TrieOf
  <2> QED  BY <2>1, <2>2, InBinFacts
<1> DEFINE S == {d \in 0 .. e : way[d] # Nil /\ Under(dep, c.size, way[d], u)}
<1>3. 0 \in S
  <2>1. way[0] = c.treebins[i]
    BY WaySteps DEF TrieOf
  <2> QED  BY <1>0, <2>1, UnderRoot
<1>4. PICK d \in 0 .. e : d \in S /\ d < e /\ d + 1 \notin S
  <2>1. SUFFICES ASSUME \A d \in 0 .. e : d \in S /\ d < e => d + 1 \in S
                 PROVE  FALSE
    OBVIOUS
  <2>2. 0 .. e \subseteq S
    <3> HIDE DEF S
    <3> QED  BY <1>0, <1>3, <2>1, UpTo
  <2>3. e \in 0 .. e
    BY <1>0
  <2> QED  BY <2>2, <2>3
<1>5. d \in Nat /\ d \in 0 .. e - 1 /\ d + 1 \in 0 .. e
  BY <1>0, <1>4
<1>6. way[d] # u /\ way[d] # Nil /\ Under(dep, c.size, way[d], u)
  BY <1>4
<1>7. OnTheWay(c, N, dep, way[d], d, nb, i)
  BY <1>1, <1>4
<1>8. PathBit(c.size[u], i, d) \in 0 .. 1 /\ Agree(c.size[u], nb, i, d)
      /\ \E v \in N : v = c.child[way[d]][PathBit(c.size[u], i, d)] /\ Under(dep, c.size, v, u)
  BY <1>5, <1>6, <1>7, WayToward
<1>9. PICK v \in N : v = c.child[way[d]][PathBit(c.size[u], i, d)] /\ Under(dep, c.size, v, u)
  BY <1>8
<1>10. PathBit(nb, i, d) \in 0 .. 1
  BY <1>5, InBinFacts, PathBits
<1>11. PathBit(nb, i, d) # PathBit(c.size[u], i, d)
  <2>1. SUFFICES ASSUME PathBit(nb, i, d) = PathBit(c.size[u], i, d) PROVE FALSE
    OBVIOUS
  <2>2. way[d + 1] = v
    BY <1>1, <1>5, <1>9, <2>1
  <2> QED  BY <1>2, <1>4, <1>5, <1>9, <2>2
<1>12. PathBit(c.size[u], i, d) # 0
  <2>1. SUFFICES ASSUME PathBit(c.size[u], i, d) = 0 PROVE FALSE
    OBVIOUS
  <2>2. PathBit(nb, i, d) # 0
    BY <1>11, <2>1
  <2>3. c.size[u] < nb
    BY <1>2, <1>5, <1>8, <2>1, <2>2, AgreeLess
  <2> QED  BY <1>0, <1>2, <2>3
<1>13. PathBit(c.size[u], i, d) = 1 /\ PathBit(nb, i, d) = 0
  BY <1>8, <1>10, <1>11, <1>12
<1>14. v = c.child[way[d]][1] /\ way[d + 1] = c.child[way[d]][0] /\ v # Nil
  BY <1>1, <1>2, <1>5, <1>9, <1>13
<1>15. way[d + 1] # v
  <2>1. SUFFICES ASSUME way[d + 1] = v PROVE FALSE
    OBVIOUS
  <2>2. way[d] \in N /\ c.child[way[d]][0] = v /\ c.child[way[d]][1] = v
    BY <1>7, <1>14, <2>1 DEF OnTheWay
  <2>3. PathBit(c.size[v], BinOf(c.size, way[d]), dep[way[d]]) = 0
    BY <1>14, <2>2, ChildUnder
  <2>4. PathBit(c.size[v], BinOf(c.size, way[d]), dep[way[d]]) = 1
    BY <1>14, <2>2, ChildUnder
  <2> QED  BY <2>3, <2>4
<1>16. d \in Rights(c, way, e)
  BY <1>5, <1>14, <1>15 DEF Rights
<1>17. Agree(nb, c.size[u], i, d)
  BY <1>5, <1>8, AgreeLaws
<1> QED  BY <1>9, <1>13, <1>14, <1>16, <1>17

(* What is below the right subtree left aside at depth d is larger than nb *)
(* and takes its turns up to there.                                        *)
LEMMA RightsAreLarger ==
  ASSUME NEW c, NEW N, NEW dep, TrieOf(c, N, dep), NEW nb, NEW i, InBin(nb, i),
         NEW way, way = Way(c, i, nb), NEW e, Ended(c, way, nb, e), NEW d \in Rights(c, way, e)
  PROVE  /\ c.child[way[d]][1] \in N
         /\ \A w \in N : Under(dep, c.size, c.child[way[d]][1], w) =>
              InBin(c.size[w], i) /\ Agree(c.size[w], nb, i, d) /\ nb < c.size[w]
<1>0. WordBits \in Nat /\ e \in Nat /\ e \in 0 .. WordBits /\ nb \in Nat
  BY InBinFacts DEF Ended
<1>1. /\ \A f \in 0 .. e : way[f] # Nil => OnTheWay(c, N, dep, way[f], f, nb, i)
      /\ \A f \in 0 .. e - 1 : way[f + 1] = c.child[way[f]][PathBit(nb, i, f)]
  BY <1>0, WayNodes DEF Ended
<1>2. d \in 0 .. e - 1 /\ d \in 0 .. e /\ d \in Nat /\ way[d] # Nil
      /\ c.child[way[d]][1] # Nil /\ way[d + 1] # c.child[way[d]][1]
  BY <1>0 DEF Rights, Ended
<1>3. PICK p \in N : p = way[d] /\ dep[p] = d /\ BinOf(c.size, p) = i /\ Agree(c.size[p], nb, i, d)
  BY <1>1, <1>2 DEF OnTheWay
<1>4. PICK t \in N : /\ t = c.child[p][1] /\ dep[t] = d + 1 /\ BinOf(c.size, t) = i
                     /\ PathBit(c.size[t], i, d) = 1 /\ Under(dep, c.size, p, t)
  <2>1. c.child[p][1] # Nil /\ 1 \in 0 .. 1
    BY <1>2, <1>3
  <2> QED  BY <1>3, <2>1, ChildUnder
<1>5. PathBit(nb, i, d) = 0
  <2>1. PathBit(nb, i, d) \in 0 .. 1
    BY <1>2, InBinFacts, PathBits
  <2>2. PathBit(nb, i, d) # 1
    BY <1>1, <1>2
  <2> QED  BY <2>1, <2>2
<1>6. ASSUME NEW w \in N, Under(dep, c.size, t, w)
      PROVE  InBin(c.size[w], i) /\ Agree(c.size[w], nb, i, d) /\ nb < c.size[w]
  <2>1. BinOf(c.size, w) = i /\ Agree(c.size[t], c.size[w], i, d + 1)
    BY <1>4, <1>6 DEF Under
  <2>2. InBin(c.size[w], i)
    BY <2>1, TrieNode DEF TrieOf
  <2>3. Agree(c.size[t], c.size[w], i, d) /\ PathBit(c.size[w], i, d) # 0
    <3>1. PathBit(c.size[t], i, d) = PathBit(c.size[w], i, d) /\ Agree(c.size[t], c.size[w], i, d)
      BY <1>2, <2>1, AgreeLaws
    <3> QED  BY <1>4, <3>1
  <2>4. Agree(c.size[p], c.size[t], i, d)
    BY <1>3, <1>4 DEF Under
  <2>5. Agree(c.size[p], c.size[w], i, d)
    BY <1>2, <2>3, <2>4, AgreeLaws
  <2>6. Agree(c.size[w], c.size[p], i, d)
    BY <1>2, <2>5, AgreeLaws
  <2>7. Agree(c.size[w], nb, i, d)
    BY <1>2, <1>3, <2>6, AgreeLaws
  <2>8. Agree(nb, c.size[w], i, d)
    BY <1>2, <2>7, AgreeLaws
  <2>9. nb < c.size[w]
    BY <1>2, <1>5, <2>2, <2>3, <2>8, AgreeLess
  <2> QED  BY <2>2, <2>7, <2>9
<1> QED  BY <1>3, <1>4, <1>6

(* least_bit of a bitmap is its least index.                               *)
LEMMA LeastBitIs ==
  ASSUME NEW S, S \subseteq Nat, S # {}
  PROVE  LeastBit(S) \in S /\ \A j \in S : LeastBit(S) <= j
BY NatMinimum, Zenon DEF LeastBit

(* The treemap marks the treebins that are not empty.                      *)
Marked(c) == c.treemap = {i \in TreeIndexes : c.treebins[i] # Nil}

(* r is the root of the first bin above i, and its left spine holds the    *)
(* smallest node of the bins above i.                                      *)
FirstAbove(c, N, i, r) ==
  /\ r \in N /\ i < BinOf(c.size, r)
  /\ \A u \in N : BinOf(c.size, u) > i => \E w \in LeftSpine(c, r) : c.size[w] <= c.size[u]

(* The root of the first treebin above i, which the bitmap shows.          *)
LEMMA FirstBin ==
  ASSUME NEW c, NEW N, NEW dep, TrieOf(c, N, dep), Marked(c),
         NEW i \in Int, NEW S, S = {j \in c.treemap : j > i}, S # {},
         NEW r, r = c.treebins[LeastBit(S)]
  PROVE  FirstAbove(c, N, i, r)
<1>0. TreeIndexes \subseteq Nat
  BY DEF TreeIndexes
<1>1. PICK j \in S : j = LeastBit(S) /\ \A k \in S : j <= k
  BY <1>0, LeastBitIs DEF Marked
<1>2. r = c.treebins[j] /\ r # Nil /\ j \in TreeIndexes /\ j > i
  BY <1>1 DEF Marked
<1>3. r \in N /\ BinOf(c.size, r) = j
  BY <1>2 DEF TrieOf, Trie
<1>4. ASSUME NEW u \in N, BinOf(c.size, u) > i
      PROVE  \E w \in LeftSpine(c, r) : c.size[w] <= c.size[u]
  <2>1. BinOf(c.size, u) \in TreeIndexes /\ InBin(c.size[u], BinOf(c.size, u)) /\ c.size[u] \in Nat
        /\ InBin(c.size[r], j) /\ c.size[r] \in Nat
    BY <1>3, TrieNode, InBinFacts DEF TrieOf
  <2>2. c.treebins[BinOf(c.size, u)] # Nil /\ Under(dep, c.size, c.treebins[BinOf(c.size, u)], u)
    BY UnderRoot
  <2>3. BinOf(c.size, u) \in S
    BY <1>4, <2>1, <2>2 DEF Marked
  <2>4. CASE BinOf(c.size, u) = j
    BY <1>2, <1>3, <2>2, <2>4, SpineIsBelow
  <2>5. CASE BinOf(c.size, u) # j
    <3>1. j < BinOf(c.size, u)
      <4>1. j \in Nat /\ BinOf(c.size, u) \in Nat /\ j <= BinOf(c.size, u)
        BY <1>0, <1>1, <1>2, <2>1, <2>3
      <4> QED  BY <2>5, <4>1
    <3>2. c.size[r] < c.size[u]
      BY <2>1, <3>1, LowerBin
    <3>3. r \in LeftSpine(c, r)
      BY <1>3, SpineIsBelow
    <3>4. c.size[r] <= c.size[u]
      BY <2>1, <3>2
    <3> QED  BY <3>3, <3>4
  <2> QED  BY <2>4, <2>5
<1> QED  BY <1>2, <1>3, <1>4 DEF FirstAbove

(* tmalloc_large's search, from any end of the way, finds a least chunk    *)
(* that fits.                                                              *)
LEMMA SearchFinds ==
  ASSUME NEW c, NEW N, NEW dep, TrieOf(c, N, dep), Marked(c), NEW nb, NEW i, InBin(nb, i),
         NEW way, way = Way(c, i, nb), NEW e, Ended(c, way, nb, e)
  PROVE  LeastFit(c, N, nb, Search(c, nb, i, way, e))
<1> DEFINE M == {way[d] : d \in 0 .. e} \ {Nil}
           met == Fitting(c, M, nb)
           t == IF way[e] # Nil THEN way[e]
                ELSE IF Untaken(c, way, e) # Nil THEN Untaken(c, way, e)
                ELSE IF met = {} THEN NextRoot(c, i) ELSE Nil
           spine == Fitting(c, LeftSpine(c, t), nb)
           T == met \cup spine
<1>0. WordBits \in Nat /\ e \in Nat /\ e \in 0 .. WordBits /\ e \in 0 .. e /\ nb \in Nat /\ i \in TreeIndexes
      /\ IsRequest(nb) /\ i \in Nat
  <2>1. nb \in LargeSizes /\ i \in TreeIndexes /\ nb \in Nat
    BY InBinFacts
  <2>2. IsRequest(nb) /\ i \in Nat
    BY <2>1, SizeBounds DEF IsRequest, LargeSizes, TreeIndexes
  <2> QED  BY <2>1, <2>2, SizeBounds DEF Ended
<1>1. /\ \A d \in 0 .. e : way[d] # Nil => OnTheWay(c, N, dep, way[d], d, nb, i)
      /\ \A d \in 0 .. e - 1 : way[d + 1] = c.child[way[d]][PathBit(nb, i, d)]
  <2>1. \A d \in 0 .. e - 1 : way[d] # Nil /\ c.size[way[d]] # nb
    BY DEF Ended
  <2> HIDE DEF M, met, t, spine, T
  <2> QED  BY <1>0, <2>1, WayNodes
<1>2. \A w \in N : c.size[w] \in LargeSizes /\ c.size[w] \in Nat /\ w # Nil /\ Under(dep, c.size, w, w)
                   /\ InBin(c.size[w], BinOf(c.size, w))
  BY TrieNode, SizeBounds, SmallBinAssumption DEF TrieOf
<1>3. Search(c, nb, i, way, e) = Smallest(c, T, nb)
  BY Zenon DEF Search
<1>4. M \subseteq N /\ \A w \in M : BinOf(c.size, w) = i
  BY <1>1 DEF OnTheWay
<1>5. met = {w \in M : c.size[w] >= nb}
  <2>1. \A w \in M : c.size[w] \in LargeSizes
    BY <1>2, <1>4
  <2> HIDE DEF M
  <2> QED  BY <1>0, <2>1, FittingIs
<1>6. way[e] # Nil => way[e] \in met /\ c.size[way[e]] = nb
  <2>1. way[e] # Nil => way[e] \in M /\ c.size[way[e]] = nb
    BY <1>0 DEF Ended
  <2>2. \A w \in M : c.size[w] = nb => w \in met
    BY <1>0, <1>5
  <2> QED  BY <2>1, <2>2
<1> DEFINE R == Rights(c, way, e)
<1>7. R = {} => Untaken(c, way, e) = Nil
  BY <1>0, UntakenIs
<1>8. R # {} => \E d \in R : Untaken(c, way, e) = c.child[way[d]][1] /\ \A f \in R : f <= d
  BY <1>0, UntakenIs
<1>9. Untaken(c, way, e) # Nil => Untaken(c, way, e) \in N /\ nb < c.size[Untaken(c, way, e)]
                                  /\ BinOf(c.size, Untaken(c, way, e)) = i
  <2>1. SUFFICES ASSUME Untaken(c, way, e) # Nil
                 PROVE  Untaken(c, way, e) \in N /\ nb < c.size[Untaken(c, way, e)]
                        /\ BinOf(c.size, Untaken(c, way, e)) = i
    OBVIOUS
  <2>2. PICK d \in R : Untaken(c, way, e) = c.child[way[d]][1]
    BY <1>7, <1>8, <2>1
  <2>3. c.child[way[d]][1] \in N
    BY <2>2, RightsAreLarger
  <2>4. InBin(c.size[c.child[way[d]][1]], i) /\ nb < c.size[c.child[way[d]][1]]
    BY <1>2, <2>2, <2>3, RightsAreLarger
  <2> QED  BY <2>2, <2>3, <2>4 DEF InBin, BinOf
<1> DEFINE L == {j \in c.treemap : j > i}
<1>10. NextRoot(c, i) = IF L = {} THEN Nil ELSE c.treebins[LeastBit(L)]
  BY Zenon DEF NextRoot
<1>11. NextRoot(c, i) # Nil => NextRoot(c, i) \in N /\ i < BinOf(c.size, NextRoot(c, i))
  <2>1. SUFFICES ASSUME L # {} PROVE NextRoot(c, i) \in N /\ i < BinOf(c.size, NextRoot(c, i))
    BY <1>10
  <2>2. NextRoot(c, i) = c.treebins[LeastBit(L)]
    BY <1>10, <2>1
  <2>3. FirstAbove(c, N, i, NextRoot(c, i))
    <3>1. i \in Int
      BY <1>0
    <3> HIDE DEF M, met, t, spine, T
    <3> QED  BY <2>1, <2>2, <3>1, FirstBin
  <2> QED  BY <2>3 DEF FirstAbove
<1>12. t \in N \cup {Nil}
  <2>1. way[e] # Nil => way[e] \in N
    BY <1>4, <1>6, <1>5
  <2> QED  BY <2>1, <1>9, <1>11
<1> HIDE DEF met, M, L, R
<1>13. LeftSpine(c, t) \subseteq N /\ (t # Nil => t \in LeftSpine(c, t))
  <2>1. CASE t = Nil
    <3>1. LeftSpine(c, Nil) = {}
      BY SpineOfNil DEF TrieOf
    <3> HIDE DEF t
    <3> QED  BY <2>1, <3>1
  <2>2. CASE t # Nil
    <3> HIDE DEF t
    <3> QED  BY <1>12, <2>2, SpineIsBelow
  <2> HIDE DEF t
  <2> QED  BY <2>1, <2>2
<1>14. spine = {w \in LeftSpine(c, t) : c.size[w] >= nb}
  <2> HIDE DEF t
  <2>1. \A w \in LeftSpine(c, t) : c.size[w] \in LargeSizes
    BY <1>2, <1>13
  <2> QED  BY <1>0, <2>1, FittingIs
<1>15. T \subseteq {w \in N : c.size[w] >= nb}
  <2> HIDE DEF t, spine
  <2> QED  BY <1>4, <1>5, <1>13, <1>14
<1>16. t = Untaken(c, way, e) /\ t # Nil => t \in T
  <2>1. SUFFICES ASSUME t = Untaken(c, way, e), t # Nil PROVE t \in T
    OBVIOUS
  <2> HIDE DEF t
  <2>2. nb < c.size[t] /\ c.size[t] \in Nat
    BY <1>2, <1>9, <2>1
  <2>3. c.size[t] >= nb
    BY <1>0, <2>2
  <2> HIDE DEF spine
  <2> QED  BY <1>13, <1>14, <2>1, <2>3
<1>17. ASSUME NEW u \in N, c.size[u] >= nb
       PROVE  \E w \in T : c.size[w] <= c.size[u]
  <2>1. CASE way[e] # Nil
    <3> HIDE DEF t, spine
    <3> QED  BY <1>6, <1>17, <2>1
  <2>2. CASE way[e] = Nil /\ BinOf(c.size, u) = i /\ u \in M
    <3>1. u \in met
      BY <1>5, <1>17, <2>2
    <3>2. c.size[u] <= c.size[u]
      BY <1>2
    <3> HIDE DEF t, spine
    <3> QED  BY <3>1, <3>2
  <2>3. CASE way[e] = Nil /\ BinOf(c.size, u) = i /\ u \notin M
    <3>1. \A d \in 0 .. e : u # way[d]
      BY <1>2, <2>3 DEF M
    <3>2. PICK d \in R : /\ PathBit(nb, i, d) = 0 /\ PathBit(c.size[u], i, d) = 1
                         /\ Agree(nb, c.size[u], i, d)
                         /\ Under(dep, c.size, c.child[way[d]][1], u)
      BY <1>17, <2>3, <3>1, Diverges DEF R
    <3>3. PICK f \in R : Untaken(c, way, e) = c.child[way[f]][1] /\ d <= f
      BY <1>8, <3>2
    <3>4. c.child[way[f]][1] \in N /\ Untaken(c, way, e) # Nil
      BY <1>2, <3>3, RightsAreLarger DEF R
    <3>5. t = Untaken(c, way, e) /\ t \in N /\ t \in T
      BY <1>16, <2>3, <3>3, <3>4
    <3>6. d \in Nat /\ f \in Nat
      BY <1>0 DEF R, Rights
    <3>7. CASE d = f
      <4>1. Under(dep, c.size, t, u)
        BY <3>2, <3>3, <3>5, <3>7
      <4>2. PICK w \in LeftSpine(c, t) : c.size[w] <= c.size[u] /\ w \in N /\ Under(dep, c.size, t, w)
        <5> HIDE DEF t
        <5> QED  BY <3>5, <4>1, SpineIsBelow
      <4>3. nb < c.size[w]
        <5>1. Under(dep, c.size, c.child[way[f]][1], w)
          BY <3>3, <3>5, <4>2
        <5> QED  BY <4>2, <5>1, RightsAreLarger DEF R
      <4>4. c.size[w] >= nb
        BY <1>0, <1>2, <4>2, <4>3
      <4> HIDE DEF t, spine
      <4> QED  BY <1>14, <4>2, <4>4
    <3>8. CASE d < f
      <4>1. Under(dep, c.size, c.child[way[f]][1], c.child[way[f]][1])
        BY <1>2, <3>4
      <4>2. InBin(c.size[t], i) /\ Agree(c.size[t], nb, i, f)
        <5>1. InBin(c.size[c.child[way[f]][1]], i) /\ Agree(c.size[c.child[way[f]][1]], nb, i, f)
          BY <3>4, <4>1, RightsAreLarger DEF R
        <5>2. t = c.child[way[f]][1]
          BY <3>3, <3>5
        <5> HIDE DEF t
        <5> QED  BY <5>1, <5>2
      <4> HIDE DEF t
      <4>3. d \in 0 .. f - 1 /\ d \in 0 .. f
        BY <3>6, <3>8
      <4>4. PathBit(c.size[t], i, d) = 0 /\ Agree(c.size[t], nb, i, d)
        <5>1. PathBit(c.size[t], i, d) = PathBit(nb, i, d)
          BY <4>2, <4>3 DEF Agree
        <5>2. Agree(c.size[t], nb, i, d)
          BY <3>6, <4>2, <4>3, AgreeLaws
        <5> QED  BY <3>2, <5>1, <5>2
      <4>5. Agree(c.size[t], c.size[u], i, d)
        BY <3>2, <3>6, <4>4, AgreeLaws
      <4>6. InBin(c.size[u], i) /\ PathBit(c.size[u], i, d) # 0
        BY <1>2, <2>3, <3>2
      <4>7. c.size[t] < c.size[u]
        BY <3>6, <4>2, <4>4, <4>5, <4>6, AgreeLess
      <4>8. c.size[t] <= c.size[u]
        BY <1>2, <3>5, <4>7
      <4> HIDE DEF spine
      <4> QED  BY <3>5, <4>8
    <3> QED  BY <3>3, <3>6, <3>7, <3>8
  <2>4. CASE way[e] = Nil /\ BinOf(c.size, u) # i
    <3>1. BinOf(c.size, u) \in TreeIndexes /\ InBin(c.size[u], BinOf(c.size, u)) /\ c.size[u] \in Nat
      BY <1>2, InBinFacts
    <3>2. i < BinOf(c.size, u)
      <4>1. BinOf(c.size, u) \in Nat
        BY <3>1 DEF TreeIndexes
      <4>2. ~(BinOf(c.size, u) < i)
        <5>1. BinOf(c.size, u) < i => c.size[u] < nb
          BY <3>1, LowerBin
        <5> QED  BY <1>0, <1>17, <3>1, <5>1
      <4> QED  BY <1>0, <2>4, <4>1, <4>2
    <3>3. \A w \in N : BinOf(c.size, w) = i => c.size[w] <= c.size[u]
      <4>1. SUFFICES ASSUME NEW w \in N, BinOf(c.size, w) = i PROVE c.size[w] <= c.size[u]
        OBVIOUS
      <4>2. c.size[w] < c.size[u]
        BY <1>2, <3>1, <3>2, <4>1, LowerBin
      <4> QED  BY <1>2, <3>1, <4>2
    <3>4. CASE met # {}
      <4>1. PICK w \in met : w \in M
        BY <1>5, <3>4
      <4>2. c.size[w] <= c.size[u]
        BY <1>4, <3>3, <4>1
      <4> HIDE DEF t, spine
      <4> QED  BY <4>1, <4>2
    <3>5. CASE met = {} /\ Untaken(c, way, e) # Nil
      <4>1. t = Untaken(c, way, e) /\ t \in N /\ BinOf(c.size, t) = i
        BY <1>9, <2>4, <3>5
      <4>2. t \in T
        BY <1>16, <3>5, <4>1
      <4> HIDE DEF t, spine
      <4> QED  BY <3>3, <4>1, <4>2
    <3>6. CASE met = {} /\ Untaken(c, way, e) = Nil
      <4>1. t = NextRoot(c, i)
        BY <2>4, <3>6
      <4>2. BinOf(c.size, u) \in L
        BY <3>1, <3>2, UnderRoot DEF L, Marked
      <4>3. t = c.treebins[LeastBit(L)]
        BY <1>10, <4>1, <4>2
      <4> HIDE DEF t
      <4>9. L = {j \in c.treemap : j > i} /\ L # {}
        BY <4>2 DEF L
      <4>5. /\ t \in N /\ i < BinOf(c.size, t)
            /\ \A v \in N : BinOf(c.size, v) > i => \E w \in LeftSpine(c, t) : c.size[w] <= c.size[v]
        <5>1. i \in Int
          BY <1>0
        <5>2. FirstAbove(c, N, i, t)
          BY <4>3, <4>9, <5>1, FirstBin
        <5> QED  BY <5>2 DEF FirstAbove
      <4>4. PICK w \in LeftSpine(c, t) : c.size[w] <= c.size[u]
        <5>1. BinOf(c.size, u) > i
          BY <1>0, <3>1, <3>2 DEF TreeIndexes
        <5> QED  BY <4>5, <5>1
      <4>6. w \in N /\ BinOf(c.size, w) = BinOf(c.size, t)
        BY <4>4, <4>5, SpineIsBelow DEF Under
      <4>7. nb < c.size[w]
        BY <1>2, <4>5, <4>6, LowerBin
      <4>8. c.size[w] >= nb
        BY <1>0, <1>2, <4>6, <4>7
      <4> HIDE DEF spine
      <4> QED  BY <1>14, <4>4, <4>8
    <3> QED  BY <3>4, <3>5, <3>6
  <2> QED  BY <2>1, <2>2, <2>3, <2>4
<1> HIDE DEF t, spine, T
<1>18. LeastFit(c, N, nb, Smallest(c, T, nb))
  BY <1>0, <1>15, <1>17, EnoughToSearch
<1> QED  BY <1>3, <1>18

(* malloc of a large size uses the best fit of the trees.                  *)
LEMMA LargeChoice ==
  ASSUME NEW c, NEW N, NEW dep, TrieOf(c, N, dep), Marked(c), NEW nb \in LargeSizes
  PROVE  LeastFit(c, N, nb, TmallocLargeChoice(c, nb))
<1>1. PICK i : i = ComputeTreeIndex(nb) /\ InBin(nb, i)
  BY DEF InBin
<1>2. PICK way : way = Way(c, i, nb)
  OBVIOUS
<1>3. PICK e : e = WayEnd(c, way, nb)
  OBVIOUS
<1>4. Ended(c, way, nb, e)
  BY <1>1, <1>2, <1>3, WayEnds
<1>5. LeastFit(c, N, nb, Search(c, nb, i, way, e))
  BY <1>1, <1>2, <1>4, SearchFinds
<1>6. TmallocLargeChoice(c, nb) = Search(c, nb, i, way, e)
  BY <1>1, <1>2, <1>3, Zenon DEF TmallocLargeChoice
<1> QED  BY <1>5, <1>6

(* And of a small size the smallest chunk of the trees.                    *)
LEMMA SmallChoice ==
  ASSUME NEW c, NEW N, NEW dep, TrieOf(c, N, dep), Marked(c), c.treemap # {},
         NEW nb, IsRequest(nb), nb < SmallLimit
  PROVE  /\ LeastFit(c, N, nb, TmallocSmallChoice(c, nb))
         /\ TmallocSmallChoice(c, nb) \in N
<1>1. PICK S : S = {j \in c.treemap : j > -1}
  OBVIOUS
<1>2. S = c.treemap
  BY <1>1 DEF Marked, TreeIndexes
<1>3. PICK r : r = c.treebins[LeastBit(S)]
  OBVIOUS
<1>4. /\ r \in N
      /\ \A u \in N : BinOf(c.size, u) > -1 => \E w \in LeftSpine(c, r) : c.size[w] <= c.size[u]
  <2>1. FirstAbove(c, N, -1, r)
    BY <1>1, <1>2, <1>3, FirstBin
  <2> QED  BY <2>1 DEF FirstAbove
<1>5. LeftSpine(c, r) \subseteq N /\ r \in LeftSpine(c, r)
  BY <1>4, SpineIsBelow
<1>6. \A w \in N : c.size[w] \in LargeSizes /\ c.size[w] >= nb /\ BinOf(c.size, w) > -1
  <2> TAKE w \in N
  <2>1. c.size[w] \in LargeSizes /\ BinOf(c.size, w) \in TreeIndexes
    BY TrieNode DEF TrieOf
  <2> QED  BY <2>1, SizeBounds DEF IsRequest, LargeSizes, TreeIndexes
<1>7. LeastFit(c, N, nb, Smallest(c, LeftSpine(c, r), nb))
  <2>1. LeftSpine(c, r) \subseteq {t \in N : c.size[t] >= nb}
    BY <1>5, <1>6
  <2>2. \A u \in N : c.size[u] >= nb => \E w \in LeftSpine(c, r) : c.size[w] <= c.size[u]
    BY <1>4, <1>6
  <2> QED  BY <2>1, <2>2, EnoughToSearch
<1>8. TmallocSmallChoice(c, nb) = Smallest(c, LeftSpine(c, r), nb)
  BY <1>2, <1>3, Zenon DEF TmallocSmallChoice
<1>9. Smallest(c, LeftSpine(c, r), nb) \in N
  BY <1>4, <1>6, <1>7 DEF LeastFit
<1> QED  BY <1>7, <1>8, <1>9

-----------------------------------------------------------------------------
(* The rings                                                               *)

(* The list q with p at its front, at its back, or without its k-th place. *)
Fronted(q, p) == [j \in 1 .. Len(q) + 1 |-> IF j = 1 THEN p ELSE q[j - 1]]
Backed(q, p) == [j \in 1 .. Len(q) + 1 |-> IF j = Len(q) + 1 THEN p ELSE q[j]]
Without(q, k) == [j \in 1 .. Len(q) - 1 |-> IF j < k THEN q[j] ELSE q[j + 1]]

Elements(q) == {q[j] : j \in 1 .. Len(q)}
Once(q) == \A j, k \in 1 .. Len(q) : q[j] = q[k] => j = k

(* A function on 1 .. n is a list of length n.                             *)
LEMMA ListIs ==
  ASSUME NEW S, NEW n \in Nat, NEW f, f = [j \in 1 .. n |-> f[j]], \A j \in 1 .. n : f[j] \in S
  PROVE  f \in Seq(S) /\ Len(f) = n
<1>1. f \in [1 .. n -> S]
  OBVIOUS
<1>2. f \in Seq(S)
  BY <1>1, SeqDef
<1>3. DOMAIN f = 1 .. n /\ DOMAIN f = 1 .. Len(f) /\ Len(f) \in Nat
  BY <1>1, <1>2, LenProperties
<1> QED  BY <1>2, <1>3

(* A list with p in front,                                                 *)
LEMMA FrontedIs ==
  ASSUME NEW S, NEW q \in Seq(S), NEW p \in S, p \notin Elements(q), Once(q),
         NEW r, r = Fronted(q, p)
  PROVE  /\ r \in Seq(S) /\ Len(r) = Len(q) + 1 /\ r[1] = p
         /\ \A j \in 1 .. Len(q) : r[j + 1] = q[j]
         /\ Once(r) /\ Elements(r) = Elements(q) \cup {p} /\ r # <<>>
<1>0. Len(q) \in Nat /\ \A j \in 1 .. Len(q) : q[j] \in S
  BY LenProperties, ElementOfSeq
<1>1. PICK n \in Nat : n = Len(q)
  BY <1>0
<1>2. r = [j \in 1 .. n + 1 |-> IF j = 1 THEN p ELSE q[j - 1]]
  BY <1>1 DEF Fronted
<1>3. \A j \in 1 .. n + 1 : r[j] = IF j = 1 THEN p ELSE q[j - 1]
  BY <1>2
<1>4. \A j \in 1 .. n + 1 : r[j] \in S
  BY <1>0, <1>1, <1>3
<1>5. r = [j \in 1 .. n + 1 |-> r[j]]
  BY <1>2
<1>6. r \in Seq(S) /\ Len(r) = n + 1
  <2>1. PICK k \in Nat : k = n + 1
    OBVIOUS
  <2>2. r = [j \in 1 .. k |-> r[j]] /\ \A j \in 1 .. k : r[j] \in S
    BY <1>4, <1>5, <2>1
  <2>3. r \in Seq(S) /\ Len(r) = k
    BY <2>2, ListIs
  <2> QED  BY <2>1, <2>3
<1>7. r[1] = p /\ \A j \in 1 .. n : r[j + 1] = q[j]
  BY <1>3
<1>8. Once(r)
  <2> SUFFICES ASSUME NEW j \in 1 .. n + 1, NEW k \in 1 .. n + 1, r[j] = r[k]
               PROVE  j = k
    BY <1>6 DEF Once
  <2>1. \A m \in 1 .. n + 1 : m = 1 \/ (m - 1 \in 1 .. n /\ r[m] = q[m - 1] /\ r[m] # p)
    <3>1. \A m \in 1 .. n : q[m] # p
      BY <1>1 DEF Elements
    <3> QED  BY <1>3, <3>1
  <2>2. \A m \in 1 .. n, l \in 1 .. n : q[m] = q[l] => m = l
    BY <1>1 DEF Once
  <2>3. CASE j = 1 \/ k = 1
    BY <1>7, <2>1, <2>3
  <2>4. CASE j # 1 /\ k # 1
    <3>1. j - 1 = k - 1
      BY <2>1, <2>2, <2>4
    <3> QED  BY <3>1
  <2> QED  BY <2>3, <2>4
<1>9. Elements(r) = Elements(q) \cup {p}
  <2>1. Elements(r) \subseteq Elements(q) \cup {p}
    <3> SUFFICES ASSUME NEW j \in 1 .. n + 1, r[j] # p
                 PROVE  r[j] \in Elements(q)
      BY <1>6 DEF Elements
    <3>1. j - 1 \in 1 .. n /\ r[j] = q[j - 1]
      BY <1>3
    <3> QED  BY <1>1, <3>1 DEF Elements
  <2>2. p \in Elements(r)
    <3>1. 1 \in 1 .. n + 1
      OBVIOUS
    <3> QED  BY <1>6, <1>7, <3>1 DEF Elements
  <2>3. ASSUME NEW x \in Elements(q) PROVE x \in Elements(r)
    <3>1. PICK j \in 1 .. n : x = q[j]
      BY <1>1 DEF Elements
    <3>2. j + 1 \in 1 .. n + 1 /\ r[j + 1] = x
      BY <1>7, <3>1
    <3> QED  BY <1>6, <3>2 DEF Elements
  <2> QED  BY <2>1, <2>2, <2>3
<1>10. r # <<>>
  BY <1>6, EmptySeq
<1> QED  BY <1>1, <1>6, <1>7, <1>8, <1>9, <1>10

(* with p behind,                                                          *)
LEMMA BackedIs ==
  ASSUME NEW S, NEW q \in Seq(S), NEW p \in S, p \notin Elements(q), Once(q),
         NEW r, r = Backed(q, p)
  PROVE  /\ r \in Seq(S) /\ Len(r) = Len(q) + 1 /\ r[Len(q) + 1] = p
         /\ \A j \in 1 .. Len(q) : r[j] = q[j]
         /\ Once(r) /\ Elements(r) = Elements(q) \cup {p} /\ r # <<>>
<1>0. Len(q) \in Nat /\ \A j \in 1 .. Len(q) : q[j] \in S
  BY LenProperties, ElementOfSeq
<1>1. PICK n \in Nat : n = Len(q)
  BY <1>0
<1>2. r = [j \in 1 .. n + 1 |-> IF j = n + 1 THEN p ELSE q[j]]
  BY <1>1 DEF Backed
<1>3. \A j \in 1 .. n + 1 : r[j] = IF j = n + 1 THEN p ELSE q[j]
  BY <1>2
<1>4. \A j \in 1 .. n + 1 : r[j] \in S
  BY <1>0, <1>1, <1>3
<1>5. r = [j \in 1 .. n + 1 |-> r[j]]
  BY <1>2
<1>6. r \in Seq(S) /\ Len(r) = n + 1
  <2>1. PICK k \in Nat : k = n + 1
    OBVIOUS
  <2>2. r = [j \in 1 .. k |-> r[j]] /\ \A j \in 1 .. k : r[j] \in S
    BY <1>4, <1>5, <2>1
  <2>3. r \in Seq(S) /\ Len(r) = k
    BY <2>2, ListIs
  <2> QED  BY <2>1, <2>3
<1>7. r[n + 1] = p /\ \A j \in 1 .. n : r[j] = q[j]
  BY <1>3
<1>8. Once(r)
  <2> SUFFICES ASSUME NEW j \in 1 .. n + 1, NEW k \in 1 .. n + 1, r[j] = r[k]
               PROVE  j = k
    BY <1>6 DEF Once
  <2>1. \A m \in 1 .. n + 1 : m = n + 1 \/ (m \in 1 .. n /\ r[m] = q[m] /\ r[m] # p)
    <3>1. \A m \in 1 .. n : q[m] # p
      BY <1>1 DEF Elements
    <3> QED  BY <1>3, <3>1
  <2>2. \A m \in 1 .. n, l \in 1 .. n : q[m] = q[l] => m = l
    BY <1>1 DEF Once
  <2> QED  BY <1>7, <2>1, <2>2
<1>9. Elements(r) = Elements(q) \cup {p}
  <2>1. Elements(r) \subseteq Elements(q) \cup {p}
    <3> SUFFICES ASSUME NEW j \in 1 .. n + 1, r[j] # p
                 PROVE  r[j] \in Elements(q)
      BY <1>6 DEF Elements
    <3>1. j \in 1 .. n /\ r[j] = q[j]
      BY <1>3
    <3> QED  BY <1>1, <3>1 DEF Elements
  <2>2. p \in Elements(r)
    <3>1. n + 1 \in 1 .. n + 1
      OBVIOUS
    <3> QED  BY <1>6, <1>7, <3>1 DEF Elements
  <2>3. ASSUME NEW x \in Elements(q) PROVE x \in Elements(r)
    <3>1. PICK j \in 1 .. n : x = q[j]
      BY <1>1 DEF Elements
    <3>2. j \in 1 .. n + 1 /\ r[j] = x
      BY <1>7, <3>1
    <3> QED  BY <1>6, <3>2 DEF Elements
  <2> QED  BY <2>1, <2>2, <2>3
<1>10. r # <<>>
  BY <1>6, EmptySeq
<1> QED  BY <1>1, <1>6, <1>7, <1>8, <1>9, <1>10

(* r is q with the places after k moved down by one.                       *)
Skips(r, q, k) ==
  /\ Len(r) = Len(q) - 1
  /\ \A j \in 1 .. Len(q) - 1 : r[j] = IF j < k THEN q[j] ELSE q[j + 1]

(* and without its place k.                                                *)
LEMMA WithoutIs ==
  ASSUME NEW S, NEW q \in Seq(S), NEW k \in 1 .. Len(q), Once(q), NEW r, r = Without(q, k)
  PROVE  /\ r \in Seq(S) /\ Skips(r, q, k)
         /\ Once(r) /\ Elements(r) = Elements(q) \ {q[k]}
<1>0. Len(q) \in Nat /\ \A j \in 1 .. Len(q) : q[j] \in S
  BY LenProperties, ElementOfSeq
<1>1. PICK n \in Nat : n = Len(q) - 1 /\ n + 1 = Len(q) /\ k \in 1 .. n + 1
  <2>1. Len(q) - 1 \in Nat /\ (Len(q) - 1) + 1 = Len(q)
    BY <1>0
  <2> QED  BY <2>1
<1>2. r = [j \in 1 .. n |-> IF j < k THEN q[j] ELSE q[j + 1]]
  BY <1>1 DEF Without
<1>3. \A j \in 1 .. n : r[j] = IF j < k THEN q[j] ELSE q[j + 1]
  BY <1>2
<1>4. \A j \in 1 .. n : r[j] \in S
  BY <1>0, <1>1, <1>3
<1>5. r = [j \in 1 .. n |-> r[j]]
  BY <1>2
<1>6. r \in Seq(S) /\ Len(r) = n
  BY <1>4, <1>5, ListIs
<1>7. \A j, m \in 1 .. n + 1 : q[j] = q[m] => j = m
  BY <1>1 DEF Once
<1>8. Once(r)
  <2> SUFFICES ASSUME NEW j \in 1 .. n, NEW m \in 1 .. n, r[j] = r[m]
               PROVE  j = m
    BY <1>6 DEF Once
  <2>1. \A l \in 1 .. n : \E h \in 1 .. n + 1 : r[l] = q[h] /\ h = IF l < k THEN l ELSE l + 1
    BY <1>3
  <2>2. PICK h \in 1 .. n + 1, g \in 1 .. n + 1 :
           /\ r[j] = q[h] /\ h = IF j < k THEN j ELSE j + 1
           /\ r[m] = q[g] /\ g = IF m < k THEN m ELSE m + 1
    BY <2>1
  <2>3. h = g
    BY <1>7, <2>2
  <2> QED  BY <2>2, <2>3
<1>9. Elements(r) = Elements(q) \ {q[k]}
  <2>1. Elements(r) \subseteq Elements(q) \ {q[k]}
    <3> SUFFICES ASSUME NEW j \in 1 .. n
                 PROVE  r[j] \in Elements(q) /\ r[j] # q[k]
      BY <1>6 DEF Elements
    <3>1. PICK h \in 1 .. n + 1 : r[j] = q[h] /\ h # k
      BY <1>3
    <3>2. q[h] # q[k]
      BY <1>1, <1>7, <3>1
    <3> QED  BY <1>1, <3>1, <3>2 DEF Elements
  <2>2. ASSUME NEW x \in Elements(q), x # q[k] PROVE x \in Elements(r)
    <3>1. PICK j \in 1 .. n + 1 : x = q[j] /\ j # k
      BY <1>1, <2>2 DEF Elements
    <3>2. CASE j < k
      <4>1. j \in 1 .. n /\ r[j] = x
        BY <1>1, <1>3, <3>1, <3>2
      <4> QED  BY <1>6, <4>1 DEF Elements
    <3>3. CASE j > k
      <4>1. j - 1 \in 1 .. n /\ ~(j - 1 < k) /\ (j - 1) + 1 = j
        BY <1>1, <3>1, <3>3
      <4>2. r[j - 1] = x
        BY <1>3, <3>1, <4>1
      <4> QED  BY <1>6, <4>1, <4>2 DEF Elements
    <3> QED  BY <1>1, <3>1, <3>2, <3>3
  <2> QED  BY <2>1, <2>2
<1>10. Skips(r, q, k)
  <2>1. Len(q) - 1 = n
    BY <1>1
  <2> QED  BY <1>3, <1>6, <2>1 DEF Skips
<1> QED  BY <1>6, <1>8, <1>9, <1>10

(* The small chunks q are linked in a ring with the header i of their bin; *)
(* the large chunks q in a ring of their own, along bk.                    *)
SmallRing(fd, bk, i, q) ==
  /\ fd[i] = q[1] /\ bk[q[1]] = i /\ fd[q[Len(q)]] = i
  /\ \A k \in 1 .. Len(q) - 1 : fd[q[k]] = q[k + 1] /\ bk[q[k + 1]] = q[k]

LargeRing(fd, bk, q) ==
  /\ bk[q[Len(q)]] = q[1] /\ fd[q[1]] = q[Len(q)]
  /\ \A k \in 1 .. Len(q) - 1 : bk[q[k]] = q[k + 1] /\ fd[q[k + 1]] = q[k]

Linked == SmallIndexes \cup Chunks

(* What linking p behind the header i, or behind the last of a ring whose  *)
(* first is t, changes.                                                    *)
LinkedFirst(fd, bk, fd2, bk2, i, f, p) ==
  /\ fd2[i] = p /\ fd2[p] = f /\ bk2[f] = p /\ bk2[p] = i
  /\ \A y \in Linked : /\ y \notin {i, p} => fd2[y] = fd[y]
                       /\ y \notin {f, p} => bk2[y] = bk[y]

LinkedLast(fd, bk, fd2, bk2, t, p) ==
  /\ fd2[t] = p /\ bk2[fd[t]] = p /\ fd2[p] = fd[t] /\ bk2[p] = t
  /\ \A y \in Linked : /\ y \notin {t, p} => fd2[y] = fd[y]
                       /\ y \notin {fd[t], p} => bk2[y] = bk[y]

(* What linking the neighbours f and k of p to each other changes.         *)
Bridged(fd, bk, fd2, bk2, f, k, p) ==
  /\ bk2[f] = k /\ fd2[k] = f
  /\ \A y \in Linked : /\ y \notin {k, p} => fd2[y] = fd[y]
                       /\ y \notin {f, p} => bk2[y] = bk[y]

(* The places of a list of chunks are chunks, different from each other    *)
(* and from the headers.                                                   *)
LEMMA ListPlaces ==
  ASSUME NEW q \in Seq(Chunks), Once(q)
  PROVE  /\ Len(q) \in Nat /\ (q # <<>> <=> Len(q) > 0)
         /\ \A k \in 1 .. Len(q) : q[k] \in Chunks /\ q[k] \in Linked /\ q[k] \notin Int /\ q[k] # Nil
         /\ \A k, j \in 1 .. Len(q) : q[k] = q[j] => k = j
<1>1. Len(q) \in Nat /\ \A k \in 1 .. Len(q) : q[k] \in Chunks
  BY LenProperties, ElementOfSeq
<1>2. q # <<>> <=> Len(q) > 0
  BY <1>1, EmptySeq
<1>3. \A k, j \in 1 .. Len(q) : q[k] = q[j] => k = j
  BY DEF Once
<1> QED  BY <1>1, <1>2, <1>3, BinsAssumption, SmallBinAssumption DEF Linked

(* A chunk linked behind the header is at the front of the small list.     *)
LEMMA SmallRingGrows ==
  ASSUME NEW fd, NEW bk, NEW fd2, NEW bk2, NEW i \in SmallIndexes, NEW q \in Seq(Chunks), Once(q),
         NEW p \in Chunks, p \notin Elements(q), q # <<>> => SmallRing(fd, bk, i, q),
         LinkedFirst(fd, bk, fd2, bk2, i, IF q = <<>> THEN i ELSE q[1], p),
         NEW r, r = Fronted(q, p)
  PROVE  SmallRing(fd2, bk2, i, r)
<1>1. PICK n \in Nat : n = Len(q) /\ (q = <<>> <=> n = 0)
  BY ListPlaces
<1>2. Len(r) = n + 1 /\ r[1] = p /\ \A j \in 1 .. n : r[j + 1] = q[j]
  BY <1>1, FrontedIs
<1>3. \A k \in 1 .. n : q[k] \in Linked /\ q[k] # p /\ q[k] # i
  BY <1>1, ListPlaces DEF Elements, SmallIndexes
<1>4. \A k, j \in 1 .. n : q[k] = q[j] => k = j
  BY <1>1, ListPlaces
<1>5. i # p
  BY BinsAssumption DEF SmallIndexes
<1>6. CASE n = 0
  <2>1. LinkedFirst(fd, bk, fd2, bk2, i, i, p)
    BY <1>1, <1>6
  <2>2. fd2[i] = p /\ fd2[p] = i /\ bk2[p] = i
    BY <2>1 DEF LinkedFirst
  <2>3. Len(r) = 1 /\ \A k \in 1 .. Len(r) - 1 : FALSE
    BY <1>2, <1>6
  <2>4. fd2[i] = r[1] /\ bk2[r[1]] = i /\ fd2[r[Len(r)]] = i
    BY <1>2, <2>2, <2>3
  <2> QED  BY <2>3, <2>4 DEF SmallRing
<1>7. CASE n # 0
  <2>1. LinkedFirst(fd, bk, fd2, bk2, i, q[1], p) /\ SmallRing(fd, bk, i, q)
    BY <1>1, <1>7
  <2>2. fd2[i] = p /\ fd2[p] = q[1] /\ bk2[q[1]] = p /\ bk2[p] = i
    BY <2>1 DEF LinkedFirst
  <2>3. \A k \in 1 .. n : fd2[q[k]] = fd[q[k]] /\ (k # 1 => bk2[q[k]] = bk[q[k]])
    <3>1. \A k \in 1 .. n : k # 1 => q[k] # q[1]
      BY <1>4, <1>7
    <3> QED  BY <1>3, <2>1, <3>1 DEF LinkedFirst
  <2>4. fd[q[n]] = i /\ \A k \in 1 .. n - 1 : fd[q[k]] = q[k + 1] /\ bk[q[k + 1]] = q[k]
    BY <1>1, <2>1 DEF SmallRing
  <2>5. fd2[r[n + 1]] = i
    <3>1. n \in 1 .. n
      BY <1>7
    <3> QED  BY <1>2, <2>3, <2>4, <3>1
  <2>6. ASSUME NEW k \in 1 .. (n + 1) - 1
        PROVE  fd2[r[k]] = r[k + 1] /\ bk2[r[k + 1]] = r[k]
    <3>0. k \in 1 .. n
      OBVIOUS
    <3>1. CASE k = 1
      BY <1>2, <2>2, <3>0, <3>1
    <3>2. CASE k # 1
      <4>1. PICK j \in 1 .. n - 1 : k = j + 1 /\ j \in 1 .. n /\ k \in 1 .. n
        <5>1. k - 1 \in 1 .. n - 1 /\ k = (k - 1) + 1 /\ k - 1 \in 1 .. n
          BY <3>0, <3>2
        <5> QED  BY <3>0, <5>1
      <4>2. r[k] = q[j] /\ r[k + 1] = q[k]
        BY <1>2, <4>1
      <4>3. fd2[q[j]] = fd[q[j]] /\ bk2[q[k]] = bk[q[k]]
        BY <2>3, <3>2, <4>1
      <4>4. fd[q[j]] = q[k] /\ bk[q[k]] = q[j]
        BY <2>4, <4>1
      <4> QED  BY <4>2, <4>3, <4>4
    <3> QED  BY <3>1, <3>2
  <2>7. \A k \in 1 .. Len(r) - 1 : fd2[r[k]] = r[k + 1] /\ bk2[r[k + 1]] = r[k]
    BY <1>2, <2>6
  <2>8. fd2[i] = r[1] /\ bk2[r[1]] = i /\ fd2[r[Len(r)]] = i
    BY <1>2, <2>2, <2>5
  <2> QED  BY <2>7, <2>8 DEF SmallRing
<1> QED  BY <1>6, <1>7

(* A chunk linked behind the last is at the back of the large list.        *)
LEMMA LargeRingGrows ==
  ASSUME NEW fd, NEW bk, NEW fd2, NEW bk2, NEW q \in Seq(Chunks), Once(q), q # <<>>,
         NEW p \in Chunks, p \notin Elements(q), LargeRing(fd, bk, q),
         LinkedLast(fd, bk, fd2, bk2, q[1], p), NEW r, r = Backed(q, p)
  PROVE  LargeRing(fd2, bk2, r)
<1>1. PICK n \in Nat : n = Len(q) /\ n > 0
  BY ListPlaces
<1>2. Len(r) = n + 1 /\ r[n + 1] = p /\ \A j \in 1 .. n : r[j] = q[j]
  BY <1>1, BackedIs
<1>3. \A k \in 1 .. n : q[k] \in Linked /\ q[k] # p
  BY <1>1, ListPlaces DEF Elements
<1>4. \A k, j \in 1 .. n : q[k] = q[j] => k = j
  BY <1>1, ListPlaces
<1>5. bk[q[n]] = q[1] /\ fd[q[1]] = q[n]
      /\ \A k \in 1 .. n - 1 : bk[q[k]] = q[k + 1] /\ fd[q[k + 1]] = q[k]
  BY <1>1 DEF LargeRing
<1>6. fd2[q[1]] = p /\ bk2[q[n]] = p /\ fd2[p] = q[n] /\ bk2[p] = q[1]
  BY <1>5 DEF LinkedLast
<1>7. 1 \in 1 .. n /\ n \in 1 .. n
  BY <1>1
<1>8. \A k \in 1 .. n : (k # 1 => fd2[q[k]] = fd[q[k]]) /\ (k # n => bk2[q[k]] = bk[q[k]])
  <2>1. \A k \in 1 .. n : (k # 1 => q[k] # q[1]) /\ (k # n => q[k] # q[n])
    BY <1>4, <1>7
  <2> QED  BY <1>3, <1>5, <2>1 DEF LinkedLast
<1>9. ASSUME NEW k \in 1 .. (n + 1) - 1
      PROVE  bk2[r[k]] = r[k + 1] /\ fd2[r[k + 1]] = r[k]
  <2>0. k \in 1 .. n
    OBVIOUS
  <2>1. CASE k = n
    BY <1>2, <1>6, <2>0, <2>1
  <2>2. CASE k # n
    <3>1. k \in 1 .. n - 1 /\ k + 1 \in 1 .. n /\ k + 1 # 1
      BY <2>0, <2>2
    <3>2. r[k] = q[k] /\ r[k + 1] = q[k + 1]
      BY <1>2, <2>0, <3>1
    <3>3. bk[q[k]] = q[k + 1] /\ fd[q[k + 1]] = q[k]
      BY <1>5, <3>1
    <3>4. bk2[q[k]] = bk[q[k]] /\ fd2[q[k + 1]] = fd[q[k + 1]]
      BY <1>8, <2>0, <2>2, <3>1
    <3> QED  BY <3>2, <3>3, <3>4
  <2> QED  BY <2>1, <2>2
<1>10. \A k \in 1 .. Len(r) - 1 : bk2[r[k]] = r[k + 1] /\ fd2[r[k + 1]] = r[k]
  BY <1>2, <1>9
<1>11. bk2[r[Len(r)]] = r[1] /\ fd2[r[1]] = r[Len(r)]
  BY <1>2, <1>6, <1>7
<1> QED  BY <1>10, <1>11 DEF LargeRing

(* The neighbours of the chunk at place k, and what the checks of          *)
(* unlink_chunk find.                                                      *)
SmallNear(fd, bk, i, q, k) ==
  /\ fd[q[k]] = IF k = Len(q) THEN i ELSE q[k + 1]
  /\ bk[q[k]] = IF k = 1 THEN i ELSE q[k - 1]
  /\ fd[bk[q[k]]] = q[k] /\ (fd[q[k]] # i => bk[fd[q[k]]] = q[k])
  /\ fd[q[k]] # q[k] /\ bk[q[k]] # q[k]
  /\ fd[q[k]] = bk[q[k]] <=> Len(q) = 1
  /\ fd[i] = q[1]

LargeNear(fd, bk, q, k) ==
  /\ bk[q[k]] = IF k = Len(q) THEN q[1] ELSE q[k + 1]
  /\ fd[q[k]] = IF k = 1 THEN q[Len(q)] ELSE q[k - 1]
  /\ fd[bk[q[k]]] = q[k] /\ bk[fd[q[k]]] = q[k]
  /\ bk[q[k]] = q[k] <=> Len(q) = 1

(* The neighbours of a chunk in the ring of a smallbin,                    *)
LEMMA SmallNeighbours ==
  ASSUME NEW fd, NEW bk, NEW i \in SmallIndexes, NEW q \in Seq(Chunks), Once(q),
         SmallRing(fd, bk, i, q), NEW k \in 1 .. Len(q)
  PROVE  SmallNear(fd, bk, i, q, k)
<1>1. PICK n \in Nat : n = Len(q)
  BY ListPlaces
<1>2. fd[i] = q[1] /\ bk[q[1]] = i /\ fd[q[n]] = i
      /\ \A j \in 1 .. n - 1 : fd[q[j]] = q[j + 1] /\ bk[q[j + 1]] = q[j]
  BY <1>1 DEF SmallRing
<1>3. /\ \A j \in 1 .. n : q[j] # i
      /\ \A j, m \in 1 .. n : q[j] = q[m] => j = m
  BY <1>1, ListPlaces DEF SmallIndexes
<1>4. fd[q[k]] = IF k = n THEN i ELSE q[k + 1]
  BY <1>1, <1>2
<1>5. bk[q[k]] = IF k = 1 THEN i ELSE q[k - 1]
  <2>1. CASE k = 1
    BY <1>2, <2>1
  <2>2. CASE k # 1
    <3>1. PICK j \in 1 .. n - 1 : j = k - 1 /\ k = j + 1
      BY <1>1, <2>2
    <3> QED  BY <1>2, <2>2, <3>1
  <2> QED  BY <2>1, <2>2
<1>6. fd[bk[q[k]]] = q[k]
  <2>1. CASE k = 1
    BY <1>2, <2>1
  <2>2. CASE k # 1
    <3>1. PICK j \in 1 .. n - 1 : j = k - 1 /\ k = j + 1
      BY <1>1, <2>2
    <3> QED  BY <1>2, <3>1
  <2> QED  BY <2>1, <2>2
<1>7. fd[q[k]] # i => bk[fd[q[k]]] = q[k]
  BY <1>1, <1>2
<1>8. fd[q[k]] # q[k] /\ bk[q[k]] # q[k]
  <2>1. k # n => k + 1 \in 1 .. n /\ k + 1 # k
    BY <1>1
  <2>2. k # 1 => k - 1 \in 1 .. n /\ k - 1 # k
    BY <1>1
  <2> QED  BY <1>1, <1>3, <1>4, <1>5, <2>1, <2>2
<1>9. fd[q[k]] = bk[q[k]] <=> n = 1
  <2>1. ASSUME n = 1 PROVE fd[q[k]] = bk[q[k]]
    BY <1>1, <1>4, <1>5, <2>1
  <2>2. ASSUME n # 1 PROVE fd[q[k]] # bk[q[k]]
    <3>1. CASE k = n
      <4>1. k # 1 /\ k - 1 \in 1 .. n
        BY <1>1, <2>2, <3>1
      <4> QED  BY <1>3, <1>4, <1>5, <3>1, <4>1
    <3>2. CASE k # n
      <4>1. k + 1 \in 1 .. n /\ (k # 1 => k - 1 \in 1 .. n /\ k - 1 # k + 1)
        BY <1>1, <3>2
      <4> QED  BY <1>3, <1>4, <1>5, <3>2, <4>1
    <3> QED  BY <3>1, <3>2
  <2> QED  BY <2>1, <2>2
<1> QED  BY <1>1, <1>2, <1>4, <1>5, <1>6, <1>7, <1>8, <1>9 DEF SmallNear

(* and in the ring of a large size.                                        *)
LEMMA LargeNeighbours ==
  ASSUME NEW fd, NEW bk, NEW q \in Seq(Chunks), Once(q),
         LargeRing(fd, bk, q), NEW k \in 1 .. Len(q)
  PROVE  LargeNear(fd, bk, q, k)
<1>1. PICK n \in Nat : n = Len(q)
  BY ListPlaces
<1>2. bk[q[n]] = q[1] /\ fd[q[1]] = q[n]
      /\ \A j \in 1 .. n - 1 : bk[q[j]] = q[j + 1] /\ fd[q[j + 1]] = q[j]
  BY <1>1 DEF LargeRing
<1>3. \A j, m \in 1 .. n : q[j] = q[m] => j = m
  BY <1>1, ListPlaces
<1>4. bk[q[k]] = IF k = n THEN q[1] ELSE q[k + 1]
  BY <1>1, <1>2
<1>5. fd[q[k]] = IF k = 1 THEN q[n] ELSE q[k - 1]
  <2>1. CASE k = 1
    BY <1>2, <2>1
  <2>2. CASE k # 1
    <3>1. PICK j \in 1 .. n - 1 : j = k - 1 /\ k = j + 1
      BY <1>1, <2>2
    <3> QED  BY <1>2, <2>2, <3>1
  <2> QED  BY <2>1, <2>2
<1>6. bk[fd[q[k]]] = q[k]
  <2>1. CASE k = 1
    BY <1>2, <2>1
  <2>2. CASE k # 1
    <3>1. PICK j \in 1 .. n - 1 : j = k - 1 /\ k = j + 1
      BY <1>1, <2>2
    <3>2. fd[q[j + 1]] = q[j] /\ bk[q[j]] = q[j + 1]
      BY <1>2
    <3> QED  BY <3>1, <3>2
  <2> QED  BY <2>1, <2>2
<1>7. fd[bk[q[k]]] = q[k]
  BY <1>1, <1>2
<1>8. bk[q[k]] = q[k] <=> n = 1
  <2>1. k # n => k + 1 \in 1 .. n /\ k + 1 # k
    BY <1>1
  <2>2. 1 \in 1 .. n /\ n \in 1 .. n
    BY <1>1
  <2> QED  BY <1>1, <1>3, <1>4, <2>1, <2>2
<1> QED  BY <1>1, <1>4, <1>5, <1>6, <1>7, <1>8 DEF LargeNear

(* What is left of a small list is linked in a ring.                       *)
LEMMA SmallRingShrinks ==
  ASSUME NEW fd, NEW bk, NEW fd2, NEW bk2, NEW i \in SmallIndexes, NEW q \in Seq(Chunks), Once(q),
         SmallRing(fd, bk, i, q), NEW k \in 1 .. Len(q), Len(q) # 1,
         Bridged(fd, bk, fd2, bk2, fd[q[k]], bk[q[k]], q[k]), NEW r, r = Without(q, k)
  PROVE  SmallRing(fd2, bk2, i, r)
<1>0. PICK p : p = q[k] /\ Bridged(fd, bk, fd2, bk2, fd[p], bk[p], p)
  OBVIOUS
<1>1. PICK n \in Nat : n + 1 = Len(q) /\ n > 0 /\ k \in 1 .. n + 1
  <2>1. PICK m \in Nat : m = Len(q)
    BY ListPlaces
  <2>2. k \in 1 .. m /\ m # 1
    BY <2>1
  <2>3. m - 1 \in Nat /\ (m - 1) + 1 = m /\ m - 1 > 0
    BY <2>2
  <2> QED  BY <2>1, <2>2, <2>3
<1>2. Len(r) = n /\ \A j \in 1 .. n : r[j] = IF j < k THEN q[j] ELSE q[j + 1]
  <2>1. Skips(r, q, k)
    BY WithoutIs
  <2>2. Len(q) - 1 = n
    BY <1>1
  <2> QED  BY <2>1, <2>2 DEF Skips
<1>3. /\ \A j \in 1 .. n + 1 : q[j] \in Linked /\ q[j] # i
      /\ \A j, m \in 1 .. n + 1 : q[j] = q[m] => j = m
  <2>1. /\ \A j \in 1 .. Len(q) : q[j] \in Linked /\ q[j] \notin Int
        /\ \A j, m \in 1 .. Len(q) : q[j] = q[m] => j = m
    BY ListPlaces, Zenon
  <2>2. i \in Int
    BY DEF SmallIndexes
  <2> QED  BY <1>1, <2>1, <2>2
<1>4. /\ fd[p] = IF k = n + 1 THEN i ELSE q[k + 1]
      /\ bk[p] = IF k = 1 THEN i ELSE q[k - 1]
      /\ bk2[fd[p]] = bk[p] /\ fd2[bk[p]] = fd[p]
  <2>1. SmallNear(fd, bk, i, q, k)
    BY SmallNeighbours
  <2>2. bk2[fd[p]] = bk[p] /\ fd2[bk[p]] = fd[p]
    BY <1>0 DEF Bridged
  <2> QED  BY <1>0, <1>1, <2>1, <2>2 DEF SmallNear
<1>5. fd[i] = q[1] /\ bk[q[1]] = i /\ fd[q[n + 1]] = i
      /\ \A j \in 1 .. n : fd[q[j]] = q[j + 1] /\ bk[q[j + 1]] = q[j]
  <2>1. Len(q) - 1 = n
    BY <1>1
  <2> QED  BY <1>1, <2>1 DEF SmallRing
<1>6. \A y \in Linked : /\ y # bk[p] /\ y # p => fd2[y] = fd[y]
                        /\ y # fd[p] /\ y # p => bk2[y] = bk[y]
  BY <1>0 DEF Bridged
<1>7. i \in Linked /\ i # p
  BY <1>0, <1>1, <1>3 DEF Linked
<1>8. fd2[i] = r[1] /\ bk2[r[1]] = i
  <2>1. CASE k = 1
    <3>1. r[1] = q[2] /\ fd[p] = q[2] /\ bk[p] = i
      BY <1>1, <1>2, <1>4, <2>1
    <3> QED  BY <1>4, <3>1
  <2>2. CASE k # 1
    <3>1. r[1] = q[1] /\ bk[p] # i /\ q[1] # p /\ fd[p] # q[1] /\ q[1] \in Linked
      <4>1. 1 \in 1 .. n + 1 /\ k - 1 \in 1 .. n + 1 /\ (k # n + 1 => k + 1 \in 1 .. n + 1 /\ k + 1 # 1)
        BY <1>1, <2>2
      <4> QED  BY <1>0, <1>1, <1>2, <1>3, <1>4, <2>2, <4>1
    <3> QED  BY <1>5, <1>6, <1>7, <3>1
  <2> QED  BY <2>1, <2>2
<1>9. fd2[r[n]] = i
  <2>1. CASE k = n + 1
    <3>1. r[n] = q[n] /\ bk[p] = q[n] /\ fd[p] = i
      BY <1>1, <1>2, <1>4, <2>1
    <3> QED  BY <1>4, <3>1
  <2>2. CASE k # n + 1
    <3>1. r[n] = q[n + 1] /\ q[n + 1] # bk[p] /\ q[n + 1] # p /\ q[n + 1] \in Linked
      <4>1. n + 1 \in 1 .. n + 1 /\ (k # 1 => k - 1 \in 1 .. n + 1 /\ k - 1 # n + 1)
            /\ n \in 1 .. n /\ ~(n < k)
        BY <1>1, <2>2
      <4> QED  BY <1>0, <1>2, <1>3, <1>4, <2>2, <4>1
    <3> QED  BY <1>5, <1>6, <3>1
  <2> QED  BY <2>1, <2>2
<1>10. ASSUME NEW j \in 1 .. n - 1
       PROVE  fd2[r[j]] = r[j + 1] /\ bk2[r[j + 1]] = r[j]
  <2>0. j \in 1 .. n /\ j + 1 \in 1 .. n /\ j \in 1 .. n + 1 /\ j + 2 \in 1 .. n + 1 /\ j + 1 \in 1 .. n + 1
        /\ (j + 1) + 1 = j + 2
    BY <1>1
  <2>1. CASE j + 1 < k
    <3>1. r[j] = q[j] /\ r[j + 1] = q[j + 1]
      BY <1>2, <2>0, <2>1
    <3>2. q[j] # p /\ q[j] # bk[p] /\ q[j + 1] # p /\ q[j + 1] # fd[p]
      <4>1. j # k /\ j + 1 # k /\ (k # 1 => k - 1 \in 1 .. n + 1 /\ j # k - 1)
            /\ (k # n + 1 => k + 1 \in 1 .. n + 1 /\ j + 1 # k + 1)
        BY <1>1, <2>1
      <4> QED  BY <1>0, <1>1, <1>3, <1>4, <2>0, <4>1
    <3>3. fd[q[j]] = q[j + 1] /\ bk[q[j + 1]] = q[j] /\ q[j] \in Linked /\ q[j + 1] \in Linked
      BY <1>3, <1>5, <2>0
    <3>4. fd2[q[j]] = fd[q[j]] /\ bk2[q[j + 1]] = bk[q[j + 1]]
      BY <1>6, <3>2, <3>3
    <3> QED  BY <3>1, <3>3, <3>4
  <2>2. CASE j + 1 = k
    <3>1. r[j] = q[j] /\ r[j + 1] = q[j + 2] /\ bk[p] = q[j] /\ fd[p] = q[j + 2]
      <4>1. j < k /\ ~(j + 1 < k) /\ k # 1 /\ k # n + 1 /\ k - 1 = j /\ k + 1 = j + 2
        BY <1>1, <2>2
      <4> QED  BY <1>2, <1>4, <2>0, <4>1
    <3> QED  BY <1>4, <3>1
  <2>3. CASE k < j + 1
    <3>1. r[j] = q[j + 1] /\ r[j + 1] = q[j + 2]
      BY <1>2, <2>0, <2>3
    <3>2. q[j + 1] # p /\ q[j + 1] # bk[p] /\ q[j + 2] # p /\ q[j + 2] # fd[p]
      <4>1. j + 1 # k /\ j + 2 # k /\ (k # 1 => k - 1 \in 1 .. n + 1 /\ j + 1 # k - 1)
            /\ (k # n + 1 => k + 1 \in 1 .. n + 1 /\ j + 2 # k + 1)
        BY <1>1, <2>3
      <4> QED  BY <1>0, <1>1, <1>3, <1>4, <2>0, <4>1
    <3>3. fd[q[j + 1]] = q[j + 2] /\ bk[q[j + 2]] = q[j + 1]
      BY <1>5, <2>0
    <3> QED  BY <1>3, <1>6, <2>0, <3>1, <3>2, <3>3
  <2> QED  BY <1>1, <2>1, <2>2, <2>3
<1>11. \A j \in 1 .. Len(r) - 1 : fd2[r[j]] = r[j + 1] /\ bk2[r[j + 1]] = r[j]
  BY <1>2, <1>10
<1>12. fd2[i] = r[1] /\ bk2[r[1]] = i /\ fd2[r[Len(r)]] = i
  BY <1>2, <1>8, <1>9
<1> QED  BY <1>11, <1>12 DEF SmallRing

(* What is left of a large list is linked in a ring.                       *)
LEMMA LargeRingShrinks ==
  ASSUME NEW fd, NEW bk, NEW fd2, NEW bk2, NEW q \in Seq(Chunks), Once(q),
         LargeRing(fd, bk, q), NEW k \in 1 .. Len(q), Len(q) # 1,
         Bridged(fd, bk, fd2, bk2, fd[q[k]], bk[q[k]], q[k]), NEW r, r = Without(q, k)
  PROVE  LargeRing(fd2, bk2, r)
<1>0. PICK p : p = q[k] /\ Bridged(fd, bk, fd2, bk2, fd[p], bk[p], p)
  OBVIOUS
<1>1. PICK n \in Nat : n + 1 = Len(q) /\ n > 0 /\ k \in 1 .. n + 1
  <2>1. PICK m \in Nat : m = Len(q)
    BY ListPlaces
  <2>2. k \in 1 .. m /\ m # 1
    BY <2>1
  <2>3. m - 1 \in Nat /\ (m - 1) + 1 = m /\ m - 1 > 0
    BY <2>2
  <2> QED  BY <2>1, <2>2, <2>3
<1>2. Len(r) = n /\ \A j \in 1 .. n : r[j] = IF j < k THEN q[j] ELSE q[j + 1]
  <2>1. Skips(r, q, k)
    BY WithoutIs
  <2>2. Len(q) - 1 = n
    BY <1>1
  <2> QED  BY <2>1, <2>2 DEF Skips
<1>3. /\ \A j \in 1 .. n + 1 : q[j] \in Linked
      /\ \A j, m \in 1 .. n + 1 : q[j] = q[m] => j = m
  BY <1>1, ListPlaces
<1>4. /\ bk[p] = IF k = n + 1 THEN q[1] ELSE q[k + 1]
      /\ fd[p] = IF k = 1 THEN q[n + 1] ELSE q[k - 1]
      /\ bk2[fd[p]] = bk[p] /\ fd2[bk[p]] = fd[p]
  <2>1. LargeNear(fd, bk, q, k)
    BY LargeNeighbours
  <2>2. bk2[fd[p]] = bk[p] /\ fd2[bk[p]] = fd[p]
    BY <1>0 DEF Bridged
  <2> QED  BY <1>0, <1>1, <2>1, <2>2 DEF LargeNear
<1>5. bk[q[n + 1]] = q[1] /\ fd[q[1]] = q[n + 1]
      /\ \A j \in 1 .. n : bk[q[j]] = q[j + 1] /\ fd[q[j + 1]] = q[j]
  <2>1. Len(q) - 1 = n
    BY <1>1
  <2> QED  BY <1>1, <2>1 DEF LargeRing
<1>6. \A y \in Linked : /\ y # bk[p] /\ y # p => fd2[y] = fd[y]
                        /\ y # fd[p] /\ y # p => bk2[y] = bk[y]
  BY <1>0 DEF Bridged
<1>8. bk2[r[n]] = r[1] /\ fd2[r[1]] = r[n]
  <2>1. CASE k = 1
    <3>1. r[1] = q[2] /\ r[n] = q[n + 1] /\ bk[p] = q[2] /\ fd[p] = q[n + 1]
      BY <1>1, <1>2, <1>4, <2>1
    <3> QED  BY <1>4, <3>1
  <2>2. CASE k = n + 1
    <3>1. r[1] = q[1] /\ r[n] = q[n] /\ bk[p] = q[1] /\ fd[p] = q[n]
      BY <1>1, <1>2, <1>4, <2>2
    <3> QED  BY <1>4, <3>1
  <2>3. CASE k # 1 /\ k # n + 1
    <3>0. 1 \in 1 .. n + 1 /\ n + 1 \in 1 .. n + 1 /\ k - 1 \in 1 .. n + 1 /\ k + 1 \in 1 .. n + 1
          /\ k - 1 # n + 1 /\ k + 1 # 1 /\ 1 < k /\ ~(n < k) /\ 1 \in 1 .. n /\ n \in 1 .. n
      BY <1>1, <2>3
    <3>1. r[1] = q[1] /\ r[n] = q[n + 1] /\ bk[p] = q[k + 1] /\ fd[p] = q[k - 1]
      BY <1>2, <1>4, <2>3, <3>0
    <3>2. q[1] # p /\ q[n + 1] # p /\ q[1] # bk[p] /\ q[n + 1] # fd[p]
      BY <1>0, <1>1, <1>3, <2>3, <3>0, <3>1
    <3> QED  BY <1>3, <1>5, <1>6, <3>0, <3>1, <3>2
  <2> QED  BY <2>1, <2>2, <2>3
<1>10. ASSUME NEW j \in 1 .. n - 1
       PROVE  bk2[r[j]] = r[j + 1] /\ fd2[r[j + 1]] = r[j]
  <2>0. j \in 1 .. n /\ j + 1 \in 1 .. n /\ j \in 1 .. n + 1 /\ j + 2 \in 1 .. n + 1 /\ j + 1 \in 1 .. n + 1
        /\ (j + 1) + 1 = j + 2 /\ 1 \in 1 .. n + 1 /\ n + 1 \in 1 .. n + 1
    BY <1>1
  <2>1. CASE j + 1 < k
    <3>1. r[j] = q[j] /\ r[j + 1] = q[j + 1]
      BY <1>2, <2>0, <2>1
    <3>2. q[j] # p /\ q[j] # fd[p] /\ q[j + 1] # p /\ q[j + 1] # bk[p]
      <4>1. j # k /\ j + 1 # k /\ k # 1 /\ k - 1 \in 1 .. n + 1 /\ j # k - 1
            /\ (k # n + 1 => k + 1 \in 1 .. n + 1 /\ j + 1 # k + 1) /\ j + 1 # 1
        BY <1>1, <2>1
      <4> QED  BY <1>0, <1>1, <1>3, <1>4, <2>0, <4>1
    <3> QED  BY <1>3, <1>5, <1>6, <2>0, <3>1, <3>2
  <2>2. CASE j + 1 = k
    <3>1. r[j] = q[j] /\ r[j + 1] = q[j + 2] /\ fd[p] = q[j] /\ bk[p] = q[j + 2]
      <4>1. j < k /\ ~(j + 1 < k) /\ k # 1 /\ k # n + 1 /\ k - 1 = j /\ k + 1 = j + 2
        BY <1>1, <2>2
      <4> QED  BY <1>2, <1>4, <2>0, <4>1
    <3> QED  BY <1>4, <3>1
  <2>3. CASE k < j + 1
    <3>1. r[j] = q[j + 1] /\ r[j + 1] = q[j + 2]
      BY <1>2, <2>0, <2>3
    <3>2. q[j + 1] # p /\ q[j + 1] # fd[p] /\ q[j + 2] # p /\ q[j + 2] # bk[p]
      <4>1. j + 1 # k /\ j + 2 # k /\ k # n + 1 /\ (k # 1 => k - 1 \in 1 .. n + 1 /\ j + 1 # k - 1)
            /\ k + 1 \in 1 .. n + 1 /\ j + 2 # k + 1 /\ j + 1 # n + 1
        BY <1>1, <2>3
      <4> QED  BY <1>0, <1>1, <1>3, <1>4, <2>0, <4>1
    <3>3. bk[q[j + 1]] = q[j + 2] /\ fd[q[j + 2]] = q[j + 1]
      BY <1>5, <2>0
    <3> QED  BY <1>3, <1>6, <2>0, <3>1, <3>2, <3>3
  <2> QED  BY <1>1, <2>1, <2>2, <2>3
<1>11. \A j \in 1 .. Len(r) - 1 : bk2[r[j]] = r[j + 1] /\ fd2[r[j + 1]] = r[j]
  BY <1>2, <1>10
<1>12. bk2[r[Len(r)]] = r[1] /\ fd2[r[1]] = r[Len(r)]
  BY <1>2, <1>8
<1> QED  BY <1>11, <1>12 DEF LargeRing

-----------------------------------------------------------------------------
(* The invariant                                                           *)

(* The values of the bins: TypeOK, and no check has failed.                *)
State ==
  [fd : [Linked -> Nodes], bk : [Linked -> Nodes], size : [Chunks -> {0} \cup ChunkSizes],
   smallmap : SUBSET {SmallIndex(s) : s \in MinChunk .. SmallLimit - 1},
   treemap : SUBSET TreeIndexes, treebins : [TreeIndexes -> Chunks \cup {Nil}],
   child : [Chunks -> [0 .. 1 -> Chunks \cup {Nil}]], parent : [Chunks -> Nodes],
   index : [Chunks -> TreeIndexes], ok : {TRUE}]

Ring(fd, bk, s, q) ==
  IF IsSmall(s) THEN SmallRing(fd, bk, SmallIndex(s), q) ELSE LargeRing(fd, bk, q)

(* L[s] lists the chunks of size s, as the links do.                       *)
ListsOK(c, L) ==
  /\ L \in [ChunkSizes -> Seq(Chunks)]
  /\ \A s \in ChunkSizes : Elements(L[s]) = {p \in Chunks : c.size[p] = s} /\ Once(L[s])
  /\ \A s \in ChunkSizes : L[s] # <<>> => Ring(c.fd, c.bk, s, L[s])

(* The first of each list of a large size is a node of a trie.             *)
Heads(L) == {L[s][1] : s \in {z \in ChunkSizes : ~IsSmall(z) /\ L[z] # <<>>}}

MarkedSmall(c, L) ==
  c.smallmap = {SmallIndex(s) : s \in {z \in ChunkSizes : IsSmall(z) /\ L[z] # <<>>}}

(* Chunks that are no nodes have no links of the trie.                     *)
Bare(c, N) == \A p \in Chunks : p \notin N => c.parent[p] = Nil /\ \A k \in 0 .. 1 : c.child[p][k] = Nil

Indexed(c) == \A p \in Chunks : c.size[p] \in LargeSizes => c.index[p] = ComputeTreeIndex(c.size[p])

Inv(c, L, dep) ==
  /\ c \in State /\ ListsOK(c, L) /\ MarkedSmall(c, L)
  /\ TrieOf(c, Heads(L), dep) /\ Marked(c) /\ Bare(c, Heads(L)) /\ Indexed(c)

(* The lists with r for size s.                                            *)
With(L, s, r) == [z \in ChunkSizes |-> IF z = s THEN r ELSE L[z]]

(* What the sizes of chunks are.                                           *)
LEMMA SizesAre ==
  \A s \in ChunkSizes : /\ s \in Nat /\ s # 0 /\ s >= MinChunk /\ s < AddrSpace
                        /\ (IsSmall(s) <=> s < SmallLimit)
                        /\ (~IsSmall(s) <=> s \in LargeSizes)
                        /\ (IsSmall(s) => SmallIndex(s) \in SmallIndexes)
<1>1. \A s \in ChunkSizes : s \in Nat /\ s # 0 /\ s >= MinChunk /\ s < AddrSpace
  BY SizeBounds, BinsAssumption, SmallBinAssumption
<1>2. \A s \in ChunkSizes : ~IsSmall(s) <=> s >= SmallLimit
  BY <1>1, SizeBounds
<1>3. SmallLimit \in Nat /\ AddrSpace \in Nat
  BY SizeBounds
<1> QED  BY <1>1, <1>2, <1>3 DEF LargeSizes, IsSmall

(* A smallbin of which no link changed spells the same list,               *)
LEMMA HeaderSame ==
  ASSUME NEW fd, NEW bk, NEW fd2, NEW bk2, NEW i, NEW q \in Seq(Chunks), Once(q), q # <<>>, SmallRing(fd, bk, i, q),
         fd2[i] = fd[i], \A y \in Elements(q) : fd2[y] = fd[y] /\ bk2[y] = bk[y]
  PROVE  SmallRing(fd2, bk2, i, q)
<1>1. PICK n \in Nat : n = Len(q) /\ n > 0
  BY ListPlaces
<1>2. \A k \in 1 .. n : fd2[q[k]] = fd[q[k]] /\ bk2[q[k]] = bk[q[k]]
  BY <1>1 DEF Elements
<1>3. fd[i] = q[1] /\ bk[q[1]] = i /\ fd[q[n]] = i
      /\ \A k \in 1 .. n - 1 : fd[q[k]] = q[k + 1] /\ bk[q[k + 1]] = q[k]
  BY <1>1 DEF SmallRing
<1>4. 1 \in 1 .. n /\ n \in 1 .. n /\ \A k \in 1 .. n - 1 : k \in 1 .. n /\ k + 1 \in 1 .. n
  BY <1>1
<1>5. fd2[i] = q[1] /\ bk2[q[1]] = i /\ fd2[q[n]] = i
      /\ \A k \in 1 .. n - 1 : fd2[q[k]] = q[k + 1] /\ bk2[q[k + 1]] = q[k]
  BY <1>2, <1>3, <1>4
<1> QED  BY <1>1, <1>5 DEF SmallRing

(* and so does a ring.                                                     *)
LEMMA NodeSame ==
  ASSUME NEW fd, NEW bk, NEW fd2, NEW bk2, NEW q \in Seq(Chunks), Once(q), q # <<>>, LargeRing(fd, bk, q),
         \A y \in Elements(q) : fd2[y] = fd[y] /\ bk2[y] = bk[y]
  PROVE  LargeRing(fd2, bk2, q)
<1>1. PICK n \in Nat : n = Len(q) /\ n > 0
  BY ListPlaces
<1>2. \A k \in 1 .. n : fd2[q[k]] = fd[q[k]] /\ bk2[q[k]] = bk[q[k]]
  BY <1>1 DEF Elements
<1>3. bk[q[n]] = q[1] /\ fd[q[1]] = q[n]
      /\ \A k \in 1 .. n - 1 : bk[q[k]] = q[k + 1] /\ fd[q[k + 1]] = q[k]
  BY <1>1 DEF LargeRing
<1>4. 1 \in 1 .. n /\ n \in 1 .. n /\ \A k \in 1 .. n - 1 : k \in 1 .. n /\ k + 1 \in 1 .. n
  BY <1>1
<1>5. bk2[q[n]] = q[1] /\ fd2[q[1]] = q[n]
      /\ \A k \in 1 .. n - 1 : bk2[q[k]] = q[k + 1] /\ fd2[q[k + 1]] = q[k]
  BY <1>2, <1>3, <1>4
<1> QED  BY <1>1, <1>5 DEF LargeRing

(* Only chunk p, of size s or none, the header of its bin and the chunks   *)
(* of that size changed.                                                   *)
OthersSame(c, c2, p, s) ==
  /\ c.size[p] \in {0, s} /\ c2.size[p] \in {0, s}
  /\ \A y \in Chunks : y # p => c2.size[y] = c.size[y]
  /\ \A y \in Linked : y # p /\ y # SmallIndex(s) /\ (y \in Chunks => c.size[y] # s)
       => c2.fd[y] = c.fd[y] /\ c2.bk[y] = c.bk[y]

(* The other lists are still linked when that of size s has become r.      *)
LEMMA ListsStep ==
  ASSUME NEW c, NEW c2, NEW L, ListsOK(c, L), NEW s \in ChunkSizes, NEW p \in Chunks,
         OthersSame(c, c2, p, s), NEW r \in Seq(Chunks), Once(r),
         Elements(r) = {y \in Chunks : c2.size[y] = s},
         r # <<>> => Ring(c2.fd, c2.bk, s, r)
  PROVE  ListsOK(c2, With(L, s, r))
<1> DEFINE M == With(L, s, r)
<1>1. L \in [ChunkSizes -> Seq(Chunks)]
  BY DEF ListsOK
<1>2. M \in [ChunkSizes -> Seq(Chunks)] /\ \A z \in ChunkSizes : M[z] = IF z = s THEN r ELSE L[z]
  BY <1>1 DEF With
<1> HIDE DEF M
<1>3. ASSUME NEW z \in ChunkSizes
      PROVE  /\ Elements(M[z]) = {y \in Chunks : c2.size[y] = z} /\ Once(M[z])
             /\ M[z] # <<>> => Ring(c2.fd, c2.bk, z, M[z])
  <2>1. CASE z = s
    BY <1>2, <2>1
  <2>2. CASE z # s
    <3>1. M[z] = L[z] /\ L[z] \in Seq(Chunks)
      BY <1>1, <1>2, <2>2
    <3>2. z # 0 /\ z \in Nat /\ s \in Nat
      BY SizesAre
    <3>3. {y \in Chunks : c2.size[y] = z} = {y \in Chunks : c.size[y] = z}
      BY <2>2, <3>2 DEF OthersSame
    <3>4. Elements(L[z]) = {y \in Chunks : c.size[y] = z} /\ Once(L[z])
          /\ (L[z] # <<>> => Ring(c.fd, c.bk, z, L[z]))
      BY DEF ListsOK
    <3>5. \A y \in Elements(L[z]) : y \in Chunks /\ c.size[y] = z /\ y # p /\ y # SmallIndex(s)
      <4>1. SmallIndex(s) \in Int /\ SmallIndex(s) \notin Chunks
        BY <3>2, BinsAssumption DEF SmallIndex
      <4>2. c.size[p] # z
        BY <2>2, <3>2 DEF OthersSame
      <4> QED  BY <3>4, <4>1, <4>2
    <3>6. \A y \in Elements(L[z]) : c2.fd[y] = c.fd[y] /\ c2.bk[y] = c.bk[y]
      BY <2>2, <3>5 DEF OthersSame, Linked
    <3>7. ASSUME L[z] # <<>>
          PROVE  Ring(c2.fd, c2.bk, z, L[z])
      <4>1. CASE IsSmall(z)
        <5>1. SmallIndex(z) \in Linked /\ SmallIndex(z) # p /\ SmallIndex(z) # SmallIndex(s)
              /\ SmallIndex(z) \notin Chunks
          BY <2>2, <3>2, <4>1, BinsAssumption DEF IsSmall, Linked, SmallIndex
        <5>2. c2.fd[SmallIndex(z)] = c.fd[SmallIndex(z)]
          BY <5>1 DEF OthersSame
        <5>3. SmallRing(c.fd, c.bk, SmallIndex(z), L[z])
          BY <3>4, <3>7, <4>1 DEF Ring
        <5>4. SmallRing(c2.fd, c2.bk, SmallIndex(z), L[z])
          BY <3>1, <3>4, <3>6, <3>7, <5>2, <5>3, HeaderSame
        <5> QED  BY <4>1, <5>4 DEF Ring
      <4>2. CASE ~IsSmall(z)
        <5>1. LargeRing(c.fd, c.bk, L[z])
          BY <3>4, <3>7, <4>2 DEF Ring
        <5>2. LargeRing(c2.fd, c2.bk, L[z])
          BY <3>1, <3>4, <3>6, <3>7, <5>1, NodeSame
        <5> QED  BY <4>2, <5>2 DEF Ring
      <4> QED  BY <4>1, <4>2
    <3> QED  BY <3>1, <3>3, <3>4, <3>7
  <2> QED  BY <2>1, <2>2
<1>4. ListsOK(c2, M)
  BY <1>2, <1>3 DEF ListsOK
<1> QED  BY <1>4 DEF M

(* A trie is one of its nodes' sizes, depths and links only.               *)
LEMMA TrieSame ==
  ASSUME NEW N, NEW dep, NEW sz, NEW tb, NEW ch, NEW pa, Trie(N, dep, sz, tb, ch, pa),
         NEW sz2, NEW ch2, NEW pa2, NEW tb2,
         \A t \in N : sz2[t] = sz[t] /\ pa2[t] = pa[t] /\ \A k \in 0 .. 1 : ch2[t][k] = ch[t][k],
         \A i \in TreeIndexes : tb2[i] = tb[i]
  PROVE  Trie(N, dep, sz2, tb2, ch2, pa2)
<1>1. \A t \in N : /\ sz2[t] = sz[t] /\ pa2[t] = pa[t] /\ BinOf(sz2, t) = BinOf(sz, t)
                   /\ t \in Chunks /\ dep[t] \in Nat /\ sz[t] \in LargeSizes
                   /\ BinOf(sz, t) \in TreeIndexes /\ InBin(sz[t], BinOf(sz, t))
  BY TrieNode DEF BinOf
<1>2. \A t, u \in N : Under(dep, sz2, t, u) <=> Under(dep, sz, t, u)
  BY UnderSame
<1>3. N \subseteq Chunks /\ (\A t \in N : dep[t] \in Nat /\ sz2[t] \in LargeSizes)
      /\ (\A t, u \in N : sz2[t] = sz2[u] => t = u)
      /\ (\A t, u \in N : dep[t] = dep[u] /\ Under(dep, sz2, t, u) => t = u)
  BY <1>1, <1>2 DEF Trie
<1>4. \A i \in TreeIndexes : tb2[i] # Nil => tb2[i] \in N /\ dep[tb2[i]] = 0 /\ BinOf(sz2, tb2[i]) = i
  BY <1>1 DEF Trie
<1>5. ASSUME NEW t \in N
      PROVE  Hung(N, dep, sz2, tb2, ch2, pa2, t)
  <2>1. Hung(N, dep, sz, tb, ch, pa, t)
    BY DEF Trie
  <2>2. CASE dep[t] = 0
    BY <1>1, <2>1, <2>2 DEF Hung
  <2>3. CASE dep[t] # 0
    <3>1. PICK q \in N : /\ q = pa[t] /\ dep[t] = dep[q] + 1 /\ Under(dep, sz, q, t)
                         /\ ch[q][PathBit(sz[t], BinOf(sz, t), dep[q])] = t
      BY <2>1, <2>3 DEF Hung
    <3>2. PathBit(sz[t], BinOf(sz, t), dep[q]) \in 0 .. 1
      <4>1. Top(BinOf(sz, t)) \in 0 .. WordBits - 1
        BY <1>1, InBinFacts
      <4> QED  BY <1>1, <4>1, PathBits
    <3>3. ch2[q][PathBit(sz2[t], BinOf(sz2, t), dep[q])] = t
      BY <1>1, <3>1, <3>2
    <3> QED  BY <1>1, <1>2, <2>3, <3>1, <3>3 DEF Hung
  <2> QED  BY <2>2, <2>3
<1>6. ASSUME NEW t \in N, NEW k \in 0 .. 1, ch2[t][k] # Nil
      PROVE  ChildOf(N, dep, sz2, pa2, t, k, ch2[t][k])
  <2>1. PICK u : u = ch[t][k] /\ u = ch2[t][k]
    OBVIOUS
  <2>2. ChildOf(N, dep, sz, pa, t, k, u)
    BY <1>6, <2>1 DEF Trie
  <2> QED  BY <1>1, <2>1, <2>2 DEF ChildOf
<1> QED  BY <1>3, <1>4, <1>5, <1>6 DEF Trie

-----------------------------------------------------------------------------
(* A chunk is inserted in a smallbin.                                      *)

(* What does not concern the tries stays as it is.                         *)
TreesSame(c, c2) ==
  /\ c2.treemap = c.treemap /\ c2.treebins = c.treebins
  /\ c2.child = c.child /\ c2.parent = c.parent /\ c2.index = c.index

SmallInserted(c, c2, p, s, i, f) ==
  /\ c2 \in State /\ TreesSame(c, c2)
  /\ c2.smallmap = c.smallmap \cup {i}
  /\ c2.size[p] = s /\ \A y \in Chunks : y # p => c2.size[y] = c.size[y]
  /\ LinkedFirst(c.fd, c.bk, c2.fd, c2.bk, i, f, p)

(* What insert_small_chunk changes.                                        *)
LEMMA InsertSmallIs ==
  ASSUME NEW c \in State, NEW p \in Chunks, NEW s \in ChunkSizes, IsSmall(s), NEW i, i = SmallIndex(s),
         NEW f \in Linked, f = (IF i \in c.smallmap THEN c.fd[i] ELSE i), f # p, f # i => f \in Chunks
  PROVE  SmallInserted(c, InsertSmallChunk(c, p, s), p, s, i, f)
<1>1. PICK d : d = [c EXCEPT !.size[p] = s, !.smallmap = @ \cup {i},
                             !.fd[i] = p, !.bk[f] = p, !.fd[p] = f, !.bk[p] = i]
  OBVIOUS
<1>2. s >= MinChunk /\ i \in SmallIndexes /\ i \in Linked /\ p \in Linked /\ i # p /\ i \in Nodes /\ p \in Nodes /\ f \in Nodes
      /\ i \in {SmallIndex(z) : z \in MinChunk .. SmallLimit - 1}
  <2>1. s >= MinChunk /\ i \in SmallIndexes /\ s \in MinChunk .. SmallLimit - 1
    BY SizesAre, SmallBinAssumption
  <2>2. i \in Linked /\ p \in Linked /\ i # p
    BY <2>1, BinsAssumption DEF Linked, SmallIndexes
  <2> QED  BY <2>1, <2>2 DEF Nodes, Linked
<1>3. InsertSmallChunk(c, p, s) = d
  <2>1. Check(c, s >= MinChunk) = c
    BY <1>2, Zenon DEF Check
  <2> QED  BY <1>1, <2>1 DEF InsertSmallChunk
<1>4. d \in State
  <2>1. d = [c EXCEPT !.size = [@ EXCEPT ![p] = s], !.smallmap = @ \cup {i},
                      !.fd = [[@ EXCEPT ![i] = p] EXCEPT ![p] = f],
                      !.bk = [[@ EXCEPT ![f] = p] EXCEPT ![p] = i]]
    BY <1>1 DEF State
  <2>2. [c.size EXCEPT ![p] = s] \in [Chunks -> {0} \cup ChunkSizes]
    BY DEF State
  <2>3. c.smallmap \cup {i} \in SUBSET {SmallIndex(z) : z \in MinChunk .. SmallLimit - 1}
    BY <1>2 DEF State
  <2>4. /\ [[c.fd EXCEPT ![i] = p] EXCEPT ![p] = f] \in [Linked -> Nodes]
        /\ [[c.bk EXCEPT ![f] = p] EXCEPT ![p] = i] \in [Linked -> Nodes]
    BY <1>2 DEF State
  <2> QED  BY <2>1, <2>2, <2>3, <2>4 DEF State
<1>5. TreesSame(c, d)
  BY <1>1 DEF State, TreesSame
<1>6. /\ d.fd = [[c.fd EXCEPT ![i] = p] EXCEPT ![p] = f]
      /\ d.bk = [[c.bk EXCEPT ![f] = p] EXCEPT ![p] = i]
      /\ d.smallmap = c.smallmap \cup {i} /\ d.size = [c.size EXCEPT ![p] = s]
  BY <1>1 DEF State
<1>7. c.fd \in [Linked -> Nodes] /\ c.bk \in [Linked -> Nodes] /\ c.size \in [Chunks -> {0} \cup ChunkSizes]
  BY DEF State
<1>8. d.size[p] = s /\ \A y \in Chunks : y # p => d.size[y] = c.size[y]
  BY <1>6, <1>7
<1>9. LinkedFirst(c.fd, c.bk, d.fd, d.bk, i, f, p)
  BY <1>2, <1>6, <1>7 DEF LinkedFirst
<1> QED  BY <1>3, <1>4, <1>5, <1>6, <1>8, <1>9 DEF SmallInserted

(* The nodes of the tries are the first chunks of the large lists.         *)
LEMMA HeadsAre ==
  ASSUME NEW c, NEW L, ListsOK(c, L)
  PROVE  /\ \A p \in Heads(L) : p \in Chunks /\ c.size[p] \in ChunkSizes /\ ~IsSmall(c.size[p]) /\ c.size[p] \in LargeSizes
                                /\ L[c.size[p]] # <<>> /\ L[c.size[p]][1] = p
         /\ \A z \in ChunkSizes : ~IsSmall(z) /\ L[z] # <<>> => L[z][1] \in Heads(L) /\ c.size[L[z][1]] = z
<1>1. ASSUME NEW z \in ChunkSizes, L[z] # <<>>
      PROVE  L[z][1] \in Chunks /\ c.size[L[z][1]] = z
  <2>1. L[z] \in Seq(Chunks) /\ Once(L[z]) /\ Elements(L[z]) = {p \in Chunks : c.size[p] = z}
    BY DEF ListsOK
  <2>2. Len(L[z]) \in Nat /\ Len(L[z]) > 0
    BY <1>1, <2>1, ListPlaces
  <2>3. L[z][1] \in Elements(L[z])
    BY <2>2 DEF Elements
  <2> QED  BY <2>1, <2>3
<1> QED  BY <1>1, SizesAre DEF Heads

(* The heads, when the list of a small size changes.                       *)
LEMMA HeadsSmall ==
  ASSUME NEW L, NEW s \in ChunkSizes, IsSmall(s), NEW r
  PROVE  Heads(With(L, s, r)) = Heads(L)
<1>1. \A z \in ChunkSizes : With(L, s, r)[z] = IF z = s THEN r ELSE L[z]
  BY DEF With
<1> QED  BY <1>1 DEF Heads

(* insert_small_chunk puts the chunk in front of the list of its size.     *)
LEMMA InsertSmallKeeps ==
  ASSUME NEW c, NEW L, NEW dep, Inv(c, L, dep), NEW p \in Chunks, c.size[p] = 0,
         NEW s \in ChunkSizes, IsSmall(s)
  PROVE  Inv(InsertSmallChunk(c, p, s), With(L, s, Fronted(L[s], p)), dep)
<1>1. PICK d : d = InsertSmallChunk(c, p, s)
  OBVIOUS
<1>2. PICK i : i = SmallIndex(s) /\ i \in SmallIndexes /\ i \notin Chunks
  BY SizesAre, BinsAssumption DEF SmallIndexes
<1>3. PICK q \in Seq(Chunks) : q = L[s] /\ Once(q) /\ Elements(q) = {y \in Chunks : c.size[y] = s}
  BY DEF Inv, ListsOK
<1>4. PICK r : r = Fronted(q, p)
  OBVIOUS
<1>5. c \in State /\ ListsOK(c, L) /\ MarkedSmall(c, L) /\ Marked(c) /\ Indexed(c) /\ Bare(c, Heads(L))
      /\ TrieOf(c, Heads(L), dep)
  BY DEF Inv
<1>6. p \notin Elements(q) /\ s # 0
  BY <1>3, SizesAre
<1>7. r \in Seq(Chunks) /\ Once(r) /\ Elements(r) = Elements(q) \cup {p} /\ r # <<>>
  BY <1>3, <1>4, <1>6, FrontedIs
<1>8. i \in c.smallmap <=> q # <<>>
  BY <1>2, <1>3, <1>5, SizesAre DEF MarkedSmall, SmallIndex
<1>9. q # <<>> => SmallRing(c.fd, c.bk, i, q)
  BY <1>2, <1>3, <1>5 DEF ListsOK, Ring
<1>10. PICK f : f = IF q = <<>> THEN i ELSE q[1]
  OBVIOUS
<1>11. f \in Linked /\ f # p /\ (f # i => f \in Chunks) /\ f = (IF i \in c.smallmap THEN c.fd[i] ELSE i)
  <2>1. CASE q = <<>>
    BY <1>2, <1>8, <1>10, <2>1 DEF Linked
  <2>2. CASE q # <<>>
    <3>1. f = q[1] /\ c.fd[i] = q[1]
      BY <1>9, <1>10, <2>2 DEF SmallRing
    <3>2. Len(q) \in Nat /\ Len(q) > 0
      BY <1>3, <2>2, ListPlaces
    <3>3. q[1] \in Elements(q)
      BY <3>2 DEF Elements
    <3> QED  BY <1>3, <1>6, <1>8, <2>2, <3>1, <3>3 DEF Linked
  <2> QED  BY <2>1, <2>2
<1>12. SmallInserted(c, d, p, s, i, f)
  BY <1>1, <1>2, <1>5, <1>11, InsertSmallIs
<1>13. SmallRing(d.fd, d.bk, i, r)
  <2>1. LinkedFirst(c.fd, c.bk, d.fd, d.bk, i, IF q = <<>> THEN i ELSE q[1], p)
    BY <1>10, <1>12 DEF SmallInserted
  <2> QED  BY <1>2, <1>3, <1>4, <1>6, <1>9, <2>1, SmallRingGrows
<1>14. ListsOK(d, With(L, s, r))
  <2>1. OthersSame(c, d, p, s)
    <3>1. \A y \in Linked : y # p /\ y # i /\ (y \in Chunks => c.size[y] # s) => y # f
      <4>1. f = i \/ f \in Elements(q)
        <5>1. CASE q = <<>>
          BY <1>10, <5>1
        <5>2. CASE q # <<>>
          <6>1. Len(q) \in Nat /\ Len(q) > 0
            BY <1>3, <5>2, ListPlaces
          <6> QED  BY <1>10, <5>2, <6>1 DEF Elements
        <5> QED  BY <5>1, <5>2
      <4> QED  BY <1>3, <4>1
    <3> QED  BY <1>2, <1>12, <3>1 DEF OthersSame, SmallInserted, LinkedFirst
  <2>2. Elements(r) = {y \in Chunks : d.size[y] = s}
    BY <1>3, <1>7, <1>12 DEF SmallInserted
  <2>3. Ring(d.fd, d.bk, s, r)
    BY <1>2, <1>13 DEF Ring
  <2> QED  BY <1>5, <1>7, <2>1, <2>2, <2>3, ListsStep
<1>15. MarkedSmall(d, With(L, s, r))
  <2>1. \A z \in ChunkSizes : With(L, s, r)[z] = IF z = s THEN r ELSE L[z]
    BY DEF With
  <2>2. d.smallmap = c.smallmap \cup {i}
    BY <1>12 DEF SmallInserted
  <2> QED  BY <1>2, <1>5, <1>7, <2>1, <2>2 DEF MarkedSmall
<1>16. Heads(With(L, s, r)) = Heads(L)
  BY HeadsSmall
<1>17. TreesSame(c, d) /\ d.size[p] = s /\ \A y \in Chunks : y # p => d.size[y] = c.size[y]
  BY <1>12 DEF SmallInserted
<1>18. TrieOf(d, Heads(L), dep)
  <2>1. \A t \in Heads(L) : t # p /\ t \in Chunks
    BY <1>5, HeadsAre, SizesAre
  <2>2. Trie(Heads(L), dep, c.size, c.treebins, c.child, c.parent) /\ TreeLinks(c)
    BY <1>5 DEF TrieOf
  <2>3. \A t \in Heads(L) : d.size[t] = c.size[t]
    BY <1>17, <2>1
  <2>4. Trie(Heads(L), dep, d.size, c.treebins, c.child, c.parent)
    BY <2>2, <2>3, TrieSame
  <2> QED  BY <1>17, <2>2, <2>4 DEF TrieOf, TreesSame, TreeLinks
<1>19. Marked(d) /\ Bare(d, Heads(L))
  BY <1>5, <1>17 DEF Marked, Bare, TreesSame
<1>20. Indexed(d)
  <2>1. d.size[p] \notin LargeSizes
    BY <1>17, SizesAre
  <2> QED  BY <1>5, <1>17, <2>1 DEF Indexed, TreesSame
<1>21. d \in State
  BY <1>12 DEF SmallInserted
<1>22. Inv(d, With(L, s, r), dep)
  BY <1>14, <1>15, <1>16, <1>18, <1>19, <1>20, <1>21 DEF Inv
<1> QED  BY <1>1, <1>3, <1>4, <1>22

-----------------------------------------------------------------------------
(* A chunk is inserted in a treebin.                                       *)

(* Assignments to fields that keep the bins' types.                        *)
LEMMA StateFields ==
  ASSUME NEW e \in State, NEW fd2 \in [Linked -> Nodes], NEW bk2 \in [Linked -> Nodes],
         NEW parent2 \in [Chunks -> Nodes], NEW bins2 \in [TreeIndexes -> Chunks \cup {Nil}],
         NEW map2 \in SUBSET TreeIndexes
  PROVE  [e EXCEPT !.fd = fd2, !.bk = bk2, !.parent = parent2, !.treebins = bins2, !.treemap = map2] \in State
BY DEF State

(* The first of the list of one large size changes.                        *)
LEMMA HeadsLarge ==
  ASSUME NEW c, NEW L, ListsOK(c, L), NEW s \in ChunkSizes, ~IsSmall(s), NEW r
  PROVE  Heads(With(L, s, r)) = {h \in Heads(L) : c.size[h] # s} \cup (IF r = <<>> THEN {} ELSE {r[1]})
<1> DEFINE M == With(L, s, r)
           H == {h \in Heads(L) : c.size[h] # s}
           F == IF r = <<>> THEN {} ELSE {r[1]}
<1>1. \A z \in ChunkSizes : M[z] = IF z = s THEN r ELSE L[z]
  BY DEF With
<1> HIDE DEF M
<1>2. ASSUME NEW h \in Heads(M) PROVE h \in H \cup F
  <2>1. PICK z \in ChunkSizes : ~IsSmall(z) /\ M[z] # <<>> /\ h = M[z][1]
    BY <1>2 DEF Heads
  <2>2. CASE z = s
    BY <1>1, <2>1, <2>2
  <2>3. CASE z # s
    BY <1>1, <2>1, <2>3, HeadsAre
  <2> QED  BY <2>2, <2>3
<1>3. ASSUME NEW h \in H PROVE h \in Heads(M)
  <2>1. c.size[h] \in ChunkSizes /\ ~IsSmall(c.size[h]) /\ L[c.size[h]] # <<>> /\ L[c.size[h]][1] = h /\ c.size[h] # s
    BY <1>3, HeadsAre
  <2>2. M[c.size[h]] = L[c.size[h]]
    BY <1>1, <2>1
  <2> QED  BY <2>1, <2>2 DEF Heads
<1>4. ASSUME NEW h \in F PROVE h \in Heads(M)
  <2>1. r # <<>> /\ h = r[1] /\ M[s] = r
    BY <1>1, <1>4
  <2> QED  BY <2>1 DEF Heads
<1>5. Heads(M) = H \cup F
  BY <1>2, <1>3, <1>4
<1> QED  BY <1>5 DEF M

(* The fields of x, of size s in bin i, are filled in.                     *)
Prepared(c, x, s, i) ==
  [c EXCEPT !.size[x] = s, !.index[x] = i, !.parent[x] = Nil, !.child[x] = [k \in 0 .. 1 |-> Nil]]

Filed(c, d, x, s, i) ==
  /\ d \in State /\ d.smallmap = c.smallmap
  /\ d.size[x] = s /\ \A y \in Chunks : y # x => d.size[y] = c.size[y]
  /\ d.index[x] = i /\ \A y \in Chunks : y # x => d.index[y] = c.index[y]
  /\ \A k \in 0 .. 1 : d.child[x][k] = Nil

(* What insert_large_chunk sets before it looks for the place,             *)
LEMMA PreparedIs ==
  ASSUME NEW c \in State, NEW x \in Chunks, NEW s \in ChunkSizes, NEW i \in TreeIndexes,
         NEW e, e = Prepared(c, x, s, i)
  PROVE  /\ Filed(c, e, x, s, i)
         /\ e.fd = c.fd /\ e.bk = c.bk /\ e.treebins = c.treebins /\ e.treemap = c.treemap
         /\ e.parent = [c.parent EXCEPT ![x] = Nil]
         /\ e.child = [c.child EXCEPT ![x] = [k \in 0 .. 1 |-> Nil]]
<1>1. /\ e.fd = c.fd /\ e.bk = c.bk /\ e.treebins = c.treebins /\ e.treemap = c.treemap
      /\ e.smallmap = c.smallmap /\ e.size = [c.size EXCEPT ![x] = s] /\ e.index = [c.index EXCEPT ![x] = i]
      /\ e.parent = [c.parent EXCEPT ![x] = Nil]
      /\ e.child = [c.child EXCEPT ![x] = [k \in 0 .. 1 |-> Nil]]
  BY DEF Prepared, State
<1>2. e \in State
  <2>1. Nil \in Nodes /\ [k \in 0 .. 1 |-> Nil] \in [0 .. 1 -> Chunks \cup {Nil}]
    BY DEF Nodes
  <2>2. /\ [c.size EXCEPT ![x] = s] \in [Chunks -> {0} \cup ChunkSizes]
        /\ [c.index EXCEPT ![x] = i] \in [Chunks -> TreeIndexes]
        /\ [c.parent EXCEPT ![x] = Nil] \in [Chunks -> Nodes]
        /\ [c.child EXCEPT ![x] = [k \in 0 .. 1 |-> Nil]] \in [Chunks -> [0 .. 1 -> Chunks \cup {Nil}]]
    BY <2>1 DEF State
  <2>3. e = [c EXCEPT !.size = [@ EXCEPT ![x] = s], !.index = [@ EXCEPT ![x] = i],
                      !.parent = [@ EXCEPT ![x] = Nil], !.child = [@ EXCEPT ![x] = [k \in 0 .. 1 |-> Nil]]]
    BY DEF Prepared, State
  <2> QED  BY <2>2, <2>3 DEF State
<1>3. /\ e.size[x] = s /\ \A y \in Chunks : y # x => e.size[y] = c.size[y]
      /\ e.index[x] = i /\ \A y \in Chunks : y # x => e.index[y] = c.index[y]
      /\ \A k \in 0 .. 1 : e.child[x][k] = Nil
  <2>1. c.size \in [Chunks -> {0} \cup ChunkSizes] /\ c.index \in [Chunks -> TreeIndexes]
        /\ c.child \in [Chunks -> [0 .. 1 -> Chunks \cup {Nil}]]
    BY DEF State
  <2>2. e.child[x] = [k \in 0 .. 1 |-> Nil]
    BY <1>1, <2>1
  <2> QED  BY <1>1, <2>1, <2>2
<1> QED  BY <1>1, <1>2, <1>3 DEF Filed

(* x hangs from par: the links of its ring and its parent.                 *)
Hangs(c, d, x, par) ==
  /\ d.fd[x] = x /\ d.bk[x] = x /\ \A y \in Linked : y # x => d.fd[y] = c.fd[y] /\ d.bk[y] = c.bk[y]
  /\ d.parent[x] = par /\ \A y \in Chunks : y # x => d.parent[y] = c.parent[y]

AsRoot(c, d, x, i) ==
  /\ d.treebins[i] = x /\ \A j \in TreeIndexes : j # i => d.treebins[j] = c.treebins[j]
  /\ d.treemap = c.treemap \cup {i}
  /\ \A y \in Chunks : y # x => d.child[y] = c.child[y]

(* when the treebin is empty,                                              *)
LEMMA RootIs ==
  ASSUME NEW c \in State, NEW x \in Chunks, NEW s \in ChunkSizes, NEW i \in TreeIndexes,
         NEW e, e = Prepared(c, x, s, i),
         NEW d, d = AddNode([e EXCEPT !.treebins[i] = x, !.treemap = @ \cup {i}], x, i)
  PROVE  Filed(c, d, x, s, i) /\ Hangs(c, d, x, i) /\ AsRoot(c, d, x, i)
<1>1. /\ Filed(c, e, x, s, i)
      /\ e.fd = c.fd /\ e.bk = c.bk /\ e.treebins = c.treebins /\ e.treemap = c.treemap
      /\ e.parent = [c.parent EXCEPT ![x] = Nil]
      /\ e.child = [c.child EXCEPT ![x] = [k \in 0 .. 1 |-> Nil]]
  BY PreparedIs
<1>2. e \in State
  BY <1>1 DEF Filed
<1>3. /\ d.smallmap = e.smallmap /\ d.size = e.size /\ d.index = e.index /\ d.child = e.child
      /\ d.fd = [e.fd EXCEPT ![x] = x] /\ d.bk = [e.bk EXCEPT ![x] = x] /\ d.parent = [e.parent EXCEPT ![x] = i]
      /\ d.treebins = [e.treebins EXCEPT ![i] = x] /\ d.treemap = e.treemap \cup {i}
  BY <1>2 DEF AddNode, State
<1>4. i \in Nodes /\ x \in Nodes /\ x \in Linked
  BY DEF Nodes, Linked
<1>5. d \in State
  <2>1. PICK fd2 \in [Linked -> Nodes], bk2 \in [Linked -> Nodes], parent2 \in [Chunks -> Nodes] :
          /\ fd2 = [e.fd EXCEPT ![x] = x] /\ bk2 = [e.bk EXCEPT ![x] = x]
          /\ parent2 = [e.parent EXCEPT ![x] = i]
    BY <1>2, <1>4 DEF State
  <2>2. PICK bins2 \in [TreeIndexes -> Chunks \cup {Nil}], map2 \in SUBSET TreeIndexes :
          bins2 = [e.treebins EXCEPT ![i] = x] /\ map2 = e.treemap \cup {i}
    BY <1>2 DEF State
  <2>3. d = [e EXCEPT !.fd = fd2, !.bk = bk2, !.parent = parent2, !.treebins = bins2, !.treemap = map2]
    BY <1>2, <2>1, <2>2 DEF AddNode, State
  <2>4. [e EXCEPT !.fd = fd2, !.bk = bk2, !.parent = parent2, !.treebins = bins2, !.treemap = map2] \in State
    BY <1>2, StateFields
  <2> QED  BY <2>3, <2>4
<1>6. c.fd \in [Linked -> Nodes] /\ c.bk \in [Linked -> Nodes] /\ c.parent \in [Chunks -> Nodes]
      /\ c.treebins \in [TreeIndexes -> Chunks \cup {Nil}]
      /\ c.child \in [Chunks -> [0 .. 1 -> Chunks \cup {Nil}]]
  BY DEF State
<1>7. Filed(c, d, x, s, i)
  <2>1. /\ e.smallmap = c.smallmap
        /\ e.size[x] = s /\ \A y \in Chunks : y # x => e.size[y] = c.size[y]
        /\ e.index[x] = i /\ \A y \in Chunks : y # x => e.index[y] = c.index[y]
        /\ \A k \in 0 .. 1 : e.child[x][k] = Nil
    BY <1>1 DEF Filed
  <2> QED  BY <1>3, <1>5, <2>1 DEF Filed
<1>8. Hangs(c, d, x, i)
  BY <1>1, <1>3, <1>4, <1>6 DEF Hangs
<1>9. AsRoot(c, d, x, i)
  BY <1>1, <1>3, <1>6 DEF AsRoot
<1> QED  BY <1>7, <1>8, <1>9

AsLeaf(c, d, x, p, k) ==
  /\ d.treebins = c.treebins /\ d.treemap = c.treemap
  /\ \A y \in Chunks, j \in 0 .. 1 : y # x => d.child[y][j] = IF y = p /\ j = k THEN x ELSE c.child[y][j]

(* when the place is below a node,                                         *)
LEMMA LeafIs ==
  ASSUME NEW c \in State, NEW x \in Chunks, NEW s \in ChunkSizes, NEW i \in TreeIndexes,
         NEW e, e = Prepared(c, x, s, i), NEW p \in Chunks, p # x, NEW k \in 0 .. 1,
         NEW d, d = [AddNode(e, x, p) EXCEPT !.child[p][k] = x]
  PROVE  Filed(c, d, x, s, i) /\ Hangs(c, d, x, p) /\ AsLeaf(c, d, x, p, k)
<1>1. /\ Filed(c, e, x, s, i)
      /\ e.fd = c.fd /\ e.bk = c.bk /\ e.treebins = c.treebins /\ e.treemap = c.treemap
      /\ e.parent = [c.parent EXCEPT ![x] = Nil]
      /\ e.child = [c.child EXCEPT ![x] = [j \in 0 .. 1 |-> Nil]]
  BY PreparedIs
<1>2. e \in State
  BY <1>1 DEF Filed
<1>3. /\ d.smallmap = e.smallmap /\ d.size = e.size /\ d.index = e.index
      /\ d.child = [e.child EXCEPT ![p] = [@ EXCEPT ![k] = x]]
      /\ d.fd = [e.fd EXCEPT ![x] = x] /\ d.bk = [e.bk EXCEPT ![x] = x] /\ d.parent = [e.parent EXCEPT ![x] = p]
      /\ d.treebins = e.treebins /\ d.treemap = e.treemap
  BY <1>2 DEF AddNode, State
<1>4. p \in Nodes /\ x \in Nodes /\ x \in Linked
  BY DEF Nodes, Linked
<1>5. d \in State
  <2>1. /\ [e.fd EXCEPT ![x] = x] \in [Linked -> Nodes] /\ [e.bk EXCEPT ![x] = x] \in [Linked -> Nodes]
        /\ [e.parent EXCEPT ![x] = p] \in [Chunks -> Nodes]
        /\ [e.child EXCEPT ![p] = [@ EXCEPT ![k] = x]] \in [Chunks -> [0 .. 1 -> Chunks \cup {Nil}]]
    BY <1>2, <1>4 DEF State
  <2>2. PICK g : g = [e EXCEPT !.fd = [@ EXCEPT ![x] = x], !.bk = [@ EXCEPT ![x] = x], !.parent = [@ EXCEPT ![x] = p]]
    OBVIOUS
  <2>3. AddNode(e, x, p) = g
    BY <1>2, <2>2 DEF AddNode, State
  <2>4. g \in State /\ g.child = e.child
    BY <1>2, <2>1, <2>2 DEF State
  <2>5. d = [g EXCEPT !.child[p][k] = x]
    BY <2>3
  <2>6. g.child \in [Chunks -> [0 .. 1 -> Chunks \cup {Nil}]]
    BY <2>4 DEF State
  <2>7. [g EXCEPT !.child[p][k] = x] \in State
    BY <2>4, <2>6 DEF State
  <2> QED  BY <2>5, <2>7
<1>6. c.fd \in [Linked -> Nodes] /\ c.bk \in [Linked -> Nodes] /\ c.parent \in [Chunks -> Nodes]
      /\ c.child \in [Chunks -> [0 .. 1 -> Chunks \cup {Nil}]] /\ e.child \in [Chunks -> [0 .. 1 -> Chunks \cup {Nil}]]
  BY <1>2 DEF State
<1>7. d.child[x] = e.child[x]
  BY <1>3, <1>6
<1>8. Filed(c, d, x, s, i)
  BY <1>1, <1>3, <1>5, <1>7 DEF Filed
<1>9. Hangs(c, d, x, p)
  BY <1>1, <1>3, <1>4, <1>6 DEF Hangs
<1>10. AsLeaf(c, d, x, p, k)
  <2>1. ASSUME NEW y \in Chunks, NEW j \in 0 .. 1, y # x
        PROVE  d.child[y][j] = IF y = p /\ j = k THEN x ELSE c.child[y][j]
    <3>1. e.child[y] = c.child[y] /\ c.child[y] \in [0 .. 1 -> Chunks \cup {Nil}]
      BY <1>1, <1>6, <2>1
    <3>2. CASE y = p
      <4>1. d.child[p] = [c.child[p] EXCEPT ![k] = x]
        BY <1>3, <1>6, <3>1, <3>2
      <4> QED  BY <3>1, <3>2, <4>1
    <3>3. CASE y # p
      BY <1>3, <1>6, <3>1, <3>3
    <3> QED  BY <3>2, <3>3
  <2> QED  BY <1>1, <1>3, <2>1 DEF AsLeaf
<1> QED  BY <1>8, <1>9, <1>10

InRing(c, d, x, t) ==
  /\ LinkedLast(c.fd, c.bk, d.fd, d.bk, t, x)
  /\ d.treebins = c.treebins /\ d.treemap = c.treemap
  /\ d.parent[x] = Nil /\ \A y \in Chunks : y # x => d.parent[y] = c.parent[y] /\ d.child[y] = c.child[y]

(* and when a node has the size of the chunk.                              *)
LEMMA InRingIs ==
  ASSUME NEW c \in State, NEW x \in Chunks, NEW s \in ChunkSizes, NEW i \in TreeIndexes,
         NEW e, e = Prepared(c, x, s, i), NEW t \in Chunks, t # x, c.fd[t] \in Chunks, c.fd[t] # x,
         NEW d, d = AddToRing(e, x, t)
  PROVE  Filed(c, d, x, s, i) /\ InRing(c, d, x, t)
<1>1. /\ Filed(c, e, x, s, i)
      /\ e.fd = c.fd /\ e.bk = c.bk /\ e.treebins = c.treebins /\ e.treemap = c.treemap
      /\ e.parent = [c.parent EXCEPT ![x] = Nil]
      /\ e.child = [c.child EXCEPT ![x] = [j \in 0 .. 1 |-> Nil]]
  BY PreparedIs
<1>2. e \in State
  BY <1>1 DEF Filed
<1>3. PICK f \in Chunks : f = c.fd[t] /\ f = e.fd[t] /\ f # x
  BY <1>1
<1>4. /\ d.smallmap = e.smallmap /\ d.size = e.size /\ d.index = e.index /\ d.child = e.child
      /\ d.fd = [[e.fd EXCEPT ![t] = x] EXCEPT ![x] = f] /\ d.bk = [[e.bk EXCEPT ![f] = x] EXCEPT ![x] = t]
      /\ d.parent = e.parent /\ d.treebins = e.treebins /\ d.treemap = e.treemap
  BY <1>2, <1>3 DEF AddToRing, State
<1>5. f \in Nodes /\ t \in Nodes /\ x \in Nodes /\ x \in Linked /\ t \in Linked /\ f \in Linked
  BY DEF Nodes, Linked
<1>6. d \in State
  <2>1. /\ [[e.fd EXCEPT ![t] = x] EXCEPT ![x] = f] \in [Linked -> Nodes]
        /\ [[e.bk EXCEPT ![f] = x] EXCEPT ![x] = t] \in [Linked -> Nodes]
    BY <1>2, <1>5 DEF State
  <2>2. d = [e EXCEPT !.fd = [[@ EXCEPT ![t] = x] EXCEPT ![x] = f], !.bk = [[@ EXCEPT ![f] = x] EXCEPT ![x] = t]]
    BY <1>2, <1>3 DEF AddToRing, State
  <2> QED  BY <1>2, <2>1, <2>2 DEF State
<1>7. c.fd \in [Linked -> Nodes] /\ c.bk \in [Linked -> Nodes] /\ c.parent \in [Chunks -> Nodes]
      /\ c.child \in [Chunks -> [0 .. 1 -> Chunks \cup {Nil}]]
  BY DEF State
<1>8. Filed(c, d, x, s, i)
  BY <1>1, <1>4, <1>6 DEF Filed
<1>9. LinkedLast(c.fd, c.bk, d.fd, d.bk, t, x)
  BY <1>1, <1>3, <1>4, <1>5, <1>7 DEF LinkedLast
<1>10. d.parent[x] = Nil /\ \A y \in Chunks : y # x => d.parent[y] = c.parent[y] /\ d.child[y] = c.child[y]
  BY <1>1, <1>4, <1>7
<1> QED  BY <1>1, <1>4, <1>8, <1>9, <1>10 DEF InRing

(* x hangs at depth e from the bin or from p, and the bins are marked.     *)
Placed(c, d, x, s, i, e, p, dep) ==
  /\ \A j \in TreeIndexes : d.treebins[j] = IF e = 0 /\ j = i THEN x ELSE c.treebins[j]
  /\ \A y \in Chunks, k \in 0 .. 1 :
       y # x => d.child[y][k] = IF e # 0 /\ y = p /\ k = PathBit(s, i, dep[p]) THEN x ELSE c.child[y][k]
  /\ Hangs(c, d, x, IF e = 0 THEN i ELSE p)
  /\ Marked(d)

WithDepth(dep, x, e) == [t \in Chunks |-> IF t = x THEN e ELSE dep[t]]

(* The list of a single chunk.                                             *)
LEMMA BackedFirst ==
  ASSUME NEW x \in Chunks, NEW r, r = Backed(<<>>, x)
  PROVE  r \in Seq(Chunks) /\ Once(r) /\ Elements(r) = {x} /\ r # <<>> /\ Len(r) = 1 /\ r[1] = x
<1>1. Len(<<>>) = 0
  OBVIOUS
<1>2. r = [j \in 1 .. 1 |-> IF j = 1 THEN x ELSE <<>>[j]]
  BY <1>1 DEF Backed
<1>3. r[1] = x /\ r = [j \in 1 .. 1 |-> r[j]] /\ \A j \in 1 .. 1 : r[j] \in Chunks
  BY <1>2
<1>4. r \in Seq(Chunks) /\ Len(r) = 1
  <2>1. PICK n \in Nat : n = 1
    OBVIOUS
  <2>2. r = [j \in 1 .. n |-> r[j]] /\ \A j \in 1 .. n : r[j] \in Chunks
    BY <1>3, <2>1
  <2>3. r \in Seq(Chunks) /\ Len(r) = n
    BY <2>2, ListIs
  <2> QED  BY <2>1, <2>3
<1>5. Once(r) /\ Elements(r) = {x}
  BY <1>3, <1>4 DEF Once, Elements
<1>6. r # <<>>
  BY <1>4, EmptySeq
<1> QED  BY <1>3, <1>4, <1>5, <1>6

(* The first chunk of a size becomes a node of the trie.                   *)
LEMMA NodeInsertKeeps ==
  ASSUME NEW c, NEW L, NEW dep, Inv(c, L, dep), NEW x \in Chunks, c.size[x] = 0,
         NEW s \in ChunkSizes, ~IsSmall(s), NEW i, InBin(s, i), L[s] = <<>>,
         NEW d, Filed(c, d, x, s, i), NEW e \in Nat, NEW p,
         PlaceFree(Heads(L), dep, c.size, c.treebins, c.child, s, i, e, p),
         Placed(c, d, x, s, i, e, p, dep)
  PROVE  Inv(d, With(L, s, Backed(L[s], x)), WithDepth(dep, x, e))
<1>1. PICK N : N = Heads(L)
  OBVIOUS
<1>2. c \in State /\ ListsOK(c, L) /\ MarkedSmall(c, L) /\ Marked(c) /\ Indexed(c) /\ Bare(c, N)
      /\ TrieOf(c, N, dep)
  BY <1>1 DEF Inv
<1>3. s # 0 /\ s \in LargeSizes /\ i \in TreeIndexes /\ x # Nil
  BY SizesAre, InBinFacts, SmallBinAssumption
<1>4. x \notin N
  <2>1. \A t \in N : c.size[t] \in ChunkSizes
    BY <1>1, <1>2, HeadsAre
  <2> QED  BY <2>1, SizesAre
<1>5. L[s] \in Seq(Chunks) /\ Once(L[s]) /\ Elements(L[s]) = {y \in Chunks : c.size[y] = s} /\ Len(L[s]) = 0
      /\ x \notin Elements(L[s])
  BY <1>2, <1>3, EmptySeq DEF ListsOK
<1>6. PICK r : r = Backed(L[s], x)
  OBVIOUS
<1>7. r \in Seq(Chunks) /\ Once(r) /\ Elements(r) = Elements(L[s]) \cup {x} /\ r # <<>> /\ Len(r) = 1 /\ r[1] = x
  <2>1. r = Backed(<<>>, x)
    BY <1>6
  <2>2. r \in Seq(Chunks) /\ Once(r) /\ Elements(r) = {x} /\ r # <<>> /\ Len(r) = 1 /\ r[1] = x
    BY <2>1, BackedFirst
  <2>3. Elements(L[s]) = {}
    BY <1>5 DEF Elements
  <2> QED  BY <2>2, <2>3
<1>8. d \in State /\ d.smallmap = c.smallmap
      /\ d.size[x] = s /\ (\A y \in Chunks : y # x => d.size[y] = c.size[y])
      /\ d.index[x] = i /\ (\A y \in Chunks : y # x => d.index[y] = c.index[y])
      /\ \A k \in 0 .. 1 : d.child[x][k] = Nil
  BY DEF Filed
<1>9. /\ \A j \in TreeIndexes : d.treebins[j] = IF e = 0 /\ j = i THEN x ELSE c.treebins[j]
      /\ \A y \in Chunks, k \in 0 .. 1 :
           y # x => d.child[y][k] = IF e # 0 /\ y = p /\ k = PathBit(s, i, dep[p]) THEN x ELSE c.child[y][k]
  BY DEF Placed
<1>10. /\ d.fd[x] = x /\ d.bk[x] = x /\ \A y \in Linked : y # x => d.fd[y] = c.fd[y] /\ d.bk[y] = c.bk[y]
       /\ d.parent[x] = (IF e = 0 THEN i ELSE p) /\ \A y \in Chunks : y # x => d.parent[y] = c.parent[y]
  BY DEF Placed, Hangs
<1>11. ListsOK(d, With(L, s, r))
  <2>1. OthersSame(c, d, x, s)
    BY <1>8, <1>10 DEF OthersSame
  <2>2. Elements(r) = {y \in Chunks : d.size[y] = s}
    BY <1>5, <1>7, <1>8
  <2>3. LargeRing(d.fd, d.bk, r)
    <3>1. \A k \in 1 .. Len(r) - 1 : FALSE
      BY <1>7
    <3> QED  BY <1>7, <1>10, <3>1 DEF LargeRing
  <2>4. Ring(d.fd, d.bk, s, r)
    BY <2>3 DEF Ring
  <2> QED  BY <1>2, <1>7, <2>1, <2>2, <2>4, ListsStep
<1>12. MarkedSmall(d, With(L, s, r))
  <2>1. \A z \in ChunkSizes : With(L, s, r)[z] = IF z = s THEN r ELSE L[z]
    BY DEF With
  <2> QED  BY <1>2, <1>8, <2>1 DEF MarkedSmall
<1>13. Heads(With(L, s, r)) = N \cup {x}
  <2>1. \A h \in N : c.size[h] # s
    BY <1>1, <1>2, HeadsAre
  <2> QED  BY <1>1, <1>2, <1>7, <2>1, HeadsLarge
<1>14. PICK dep2 : dep2 = WithDepth(dep, x, e)
  OBVIOUS
<1>15. TrieOf(d, N \cup {x}, dep2)
  <2>1. Trie(N, dep, c.size, c.treebins, c.child, c.parent)
    BY <1>2 DEF TrieOf
  <2>2. \A t \in N : t \in Chunks /\ t # x /\ c.size[t] # s
    BY <1>1, <1>2, <1>4, HeadsAre
  <2>3. NodeAdded(N, dep, c.size, c.treebins, c.child, c.parent,
                  dep2, d.size, d.treebins, d.child, d.parent, x, s, i, e, p)
    <3>1. dep2[x] = e /\ \A t \in N : dep2[t] = dep[t]
      BY <1>14, <2>2 DEF WithDepth
    <3>2. \A t \in N : d.size[t] = c.size[t] /\ d.parent[t] = c.parent[t]
      BY <1>8, <1>10, <2>2
    <3>3. \A t \in N, k \in 0 .. 1 :
            d.child[t][k] = IF e # 0 /\ t = p /\ k = PathBit(s, i, dep[p]) THEN x ELSE c.child[t][k]
      BY <1>9, <2>2
    <3> QED  BY <1>8, <1>9, <1>10, <3>1, <3>2, <3>3 DEF NodeAdded
  <2>4. PlaceFree(N, dep, c.size, c.treebins, c.child, s, i, e, p)
    BY <1>1
  <2>5. Trie(N \cup {x}, dep2, d.size, d.treebins, d.child, d.parent)
    BY <1>4, <2>1, <2>2, <2>3, <2>4, TrieAdd
  <2>6. TreeLinks(d)
    BY <1>8 DEF State, TreeLinks
  <2> QED  BY <2>5, <2>6 DEF TrieOf
<1>16. Marked(d)
  BY DEF Placed
<1>17. Bare(d, N \cup {x})
  <2>1. e # 0 => p \in N
    BY <1>1 DEF PlaceFree
  <2>2. ASSUME NEW y \in Chunks, y \notin N \cup {x}
        PROVE  d.parent[y] = Nil /\ \A k \in 0 .. 1 : d.child[y][k] = Nil
    <3>1. c.parent[y] = Nil /\ \A k \in 0 .. 1 : c.child[y][k] = Nil
      BY <1>2, <2>2 DEF Bare
    <3>2. d.parent[y] = c.parent[y]
      BY <1>10, <2>2
    <3>3. \A k \in 0 .. 1 : d.child[y][k] = c.child[y][k]
      BY <1>9, <2>1, <2>2
    <3> QED  BY <3>1, <3>2, <3>3
  <2> QED  BY <2>2 DEF Bare
<1>18. Indexed(d)
  <2>1. ComputeTreeIndex(s) = i
    BY DEF InBin
  <2> QED  BY <1>2, <1>8, <2>1 DEF Indexed
<1>19. Inv(d, With(L, s, r), dep2)
  BY <1>8, <1>11, <1>12, <1>13, <1>15, <1>16, <1>17, <1>18 DEF Inv
<1> QED  BY <1>6, <1>14, <1>19

(* A further chunk of a size joins the ring of the node.                   *)
LEMMA RingInsertKeeps ==
  ASSUME NEW c, NEW L, NEW dep, Inv(c, L, dep), NEW x \in Chunks, c.size[x] = 0,
         NEW s \in ChunkSizes, ~IsSmall(s), NEW i, InBin(s, i), L[s] # <<>>,
         NEW d, Filed(c, d, x, s, i), InRing(c, d, x, L[s][1])
  PROVE  Inv(d, With(L, s, Backed(L[s], x)), dep)
<1>1. PICK N : N = Heads(L)
  OBVIOUS
<1>2. c \in State /\ ListsOK(c, L) /\ MarkedSmall(c, L) /\ Marked(c) /\ Indexed(c) /\ Bare(c, N)
      /\ TrieOf(c, N, dep)
  BY <1>1 DEF Inv
<1>3. s # 0 /\ s \in LargeSizes /\ i \in TreeIndexes
  BY SizesAre, InBinFacts
<1>4. x \notin N
  <2>1. \A t \in N : c.size[t] \in ChunkSizes
    BY <1>1, <1>2, HeadsAre
  <2> QED  BY <2>1, SizesAre
<1>5. PICK q \in Seq(Chunks) : /\ q = L[s] /\ q # <<>> /\ Once(q) /\ Elements(q) = {y \in Chunks : c.size[y] = s}
                               /\ LargeRing(c.fd, c.bk, q) /\ InRing(c, d, x, q[1])
  BY <1>2 DEF ListsOK, Ring
<1>6. PICK r : r = Backed(q, x)
  OBVIOUS
<1>7. Len(q) \in Nat /\ Len(q) > 0 /\ x \notin Elements(q)
  BY <1>3, <1>5, ListPlaces
<1>8. r \in Seq(Chunks) /\ Once(r) /\ Elements(r) = Elements(q) \cup {x} /\ r # <<>> /\ r[1] = q[1]
  <2>1. /\ r \in Seq(Chunks) /\ Once(r) /\ Elements(r) = Elements(q) \cup {x} /\ r # <<>>
        /\ \A j \in 1 .. Len(q) : r[j] = q[j]
    BY <1>5, <1>6, <1>7, BackedIs
  <2> QED  BY <1>7, <2>1
<1>9. d \in State /\ d.smallmap = c.smallmap
      /\ d.size[x] = s /\ (\A y \in Chunks : y # x => d.size[y] = c.size[y])
      /\ d.index[x] = i /\ (\A y \in Chunks : y # x => d.index[y] = c.index[y])
      /\ \A k \in 0 .. 1 : d.child[x][k] = Nil
  BY DEF Filed
<1>10. /\ LinkedLast(c.fd, c.bk, d.fd, d.bk, q[1], x)
       /\ d.treebins = c.treebins /\ d.treemap = c.treemap
       /\ d.parent[x] = Nil /\ \A y \in Chunks : y # x => d.parent[y] = c.parent[y] /\ d.child[y] = c.child[y]
  BY <1>5 DEF InRing
<1>11. ListsOK(d, With(L, s, r))
  <2>1. OthersSame(c, d, x, s)
    <3>1. q[1] \in Elements(q) /\ q[Len(q)] \in Elements(q) /\ c.fd[q[1]] = q[Len(q)]
      BY <1>5, <1>7 DEF Elements, LargeRing
    <3>2. \A y \in Linked : y # x /\ (y \in Chunks => c.size[y] # s) => y # q[1] /\ y # c.fd[q[1]]
      BY <1>5, <3>1
    <3> QED  BY <1>9, <1>10, <3>2 DEF OthersSame, LinkedLast
  <2>2. Elements(r) = {y \in Chunks : d.size[y] = s}
    BY <1>5, <1>8, <1>9
  <2>3. LargeRing(d.fd, d.bk, r)
    BY <1>5, <1>6, <1>7, <1>10, LargeRingGrows
  <2>4. Ring(d.fd, d.bk, s, r)
    BY <2>3 DEF Ring
  <2> QED  BY <1>2, <1>8, <2>1, <2>2, <2>4, ListsStep
<1>12. MarkedSmall(d, With(L, s, r))
  <2>1. \A z \in ChunkSizes : With(L, s, r)[z] = IF z = s THEN r ELSE L[z]
    BY DEF With
  <2> QED  BY <1>2, <1>9, <2>1 DEF MarkedSmall
<1>13. Heads(With(L, s, r)) = N
  <2>1. q[1] \in N /\ c.size[q[1]] = s /\ \A h \in N : c.size[h] = s => h = q[1]
    BY <1>1, <1>2, <1>5, HeadsAre
  <2>2. Heads(With(L, s, r)) = {h \in Heads(L) : c.size[h] # s} \cup (IF r = <<>> THEN {} ELSE {r[1]})
    BY <1>2, HeadsLarge
  <2>3. Heads(With(L, s, r)) = {h \in N : c.size[h] # s} \cup {q[1]}
    BY <1>1, <1>8, <2>2
  <2> QED  BY <2>1, <2>3
<1>14. TrieOf(d, N, dep)
  <2>1. \A t \in N : t \in Chunks /\ t # x
    BY <1>1, <1>2, <1>4, HeadsAre
  <2>2. Trie(N, dep, c.size, c.treebins, c.child, c.parent)
    BY <1>2 DEF TrieOf
  <2>3. \A t \in N : d.size[t] = c.size[t] /\ d.parent[t] = c.parent[t] /\ \A k \in 0 .. 1 : d.child[t][k] = c.child[t][k]
    BY <1>9, <1>10, <2>1
  <2>4. Trie(N, dep, d.size, c.treebins, d.child, d.parent)
    BY <2>2, <2>3, TrieSame
  <2>5. TreeLinks(d)
    BY <1>9 DEF State, TreeLinks
  <2> QED  BY <1>10, <2>4, <2>5 DEF TrieOf
<1>15. Marked(d)
  BY <1>2, <1>10 DEF Marked
<1>16. Bare(d, N)
  BY <1>2, <1>9, <1>10 DEF Bare
<1>17. Indexed(d)
  <2>1. ComputeTreeIndex(s) = i
    BY DEF InBin
  <2> QED  BY <1>2, <1>9, <2>1 DEF Indexed
<1>18. Inv(d, With(L, s, r), dep)
  BY <1>9, <1>11, <1>12, <1>13, <1>14, <1>15, <1>16, <1>17 DEF Inv
<1> QED  BY <1>5, <1>6, <1>18

(* insert_large_chunk puts the chunk behind the list of its size.          *)
LEMMA InsertLargeKeeps ==
  ASSUME NEW c, NEW L, NEW dep, Inv(c, L, dep), NEW x \in Chunks, c.size[x] = 0,
         NEW s \in ChunkSizes, ~IsSmall(s)
  PROVE  \E dep2 : Inv(InsertLargeChunk(c, x, s), With(L, s, Backed(L[s], x)), dep2)
<1>1. PICK N : N = Heads(L)
  OBVIOUS
<1>2. c \in State /\ ListsOK(c, L) /\ Marked(c) /\ TrieOf(c, N, dep)
  BY <1>1 DEF Inv
<1>3. s # 0 /\ s \in LargeSizes
  BY SizesAre
<1>4. PICK i : i = ComputeTreeIndex(s) /\ InBin(s, i) /\ i \in TreeIndexes
  BY <1>3, IndexRange DEF InBin
<1>5. PICK e : e = Prepared(c, x, s, i)
  OBVIOUS
<1>6. \A t \in N : t \in Chunks /\ t # Nil /\ c.size[t] \in ChunkSizes /\ c.size[t] # 0 /\ t # x
                   /\ L[c.size[t]] # <<>> /\ L[c.size[t]][1] = t
  <2>1. \A t \in N : t \in Chunks /\ c.size[t] \in ChunkSizes /\ L[c.size[t]] # <<>> /\ L[c.size[t]][1] = t
    BY <1>1, <1>2, HeadsAre
  <2> QED  BY <2>1, SizesAre, SmallBinAssumption
<1>7. L[s] # <<>> => L[s][1] \in N /\ c.size[L[s][1]] = s
  BY <1>1, <1>2, HeadsAre
<1>8. c.treemap = {j \in TreeIndexes : c.treebins[j] # Nil}
  BY <1>2 DEF Marked
<1>9. CASE i \notin c.treemap
  <2>1. PICK d : d = AddNode([e EXCEPT !.treebins[i] = x, !.treemap = @ \cup {i}], x, i)
    OBVIOUS
  <2>2. InsertLargeChunk(c, x, s) = d
    BY <1>4, <1>5, <1>9, <2>1, Zenon DEF InsertLargeChunk, Prepared
  <2>3. Filed(c, d, x, s, i) /\ Hangs(c, d, x, i) /\ AsRoot(c, d, x, i)
    BY <1>2, <1>4, <1>5, <2>1, RootIs
  <2>4. c.treebins[i] = Nil
    BY <1>4, <1>8, <1>9
  <2>5. L[s] = <<>>
    <3>1. ASSUME L[s] # <<>> PROVE FALSE
      <4>1. PICK h \in N : c.size[h] = s
        BY <1>7, <3>1
      <4>2. BinOf(c.size, h) = i
        BY <1>4, <4>1 DEF BinOf
      <4> QED  BY <1>2, <2>4, <4>1, <4>2, UnderRoot
    <3> QED  BY <3>1
  <2>6. PlaceFree(N, dep, c.size, c.treebins, c.child, s, i, 0, Nil)
    BY <2>4 DEF PlaceFree
  <2>7. Placed(c, d, x, s, i, 0, Nil, dep)
    <3>1. /\ d.treebins[i] = x /\ \A j \in TreeIndexes : j # i => d.treebins[j] = c.treebins[j]
          /\ d.treemap = c.treemap \cup {i}
          /\ \A y \in Chunks : y # x => d.child[y] = c.child[y]
      BY <2>3 DEF AsRoot
    <3>2. x # Nil
      BY SmallBinAssumption
    <3>3. Marked(d)
      BY <1>4, <1>8, <3>1, <3>2 DEF Marked
    <3> QED  BY <2>3, <3>1, <3>3 DEF Placed
  <2>8. 0 \in Nat
    OBVIOUS
  <2>9. Inv(d, With(L, s, Backed(L[s], x)), WithDepth(dep, x, 0))
    BY <1>1, <1>4, <2>3, <2>5, <2>6, <2>7, <2>8, NodeInsertKeeps
  <2> QED  BY <2>2, <2>9
<1>10. CASE i \in c.treemap
  <2>1. PICK way : way = Way(c, i, s)
    OBVIOUS
  <2>2. PICK w : w = WayEnd(c, way, s)
    OBVIOUS
  <2>3. Ended(c, way, s, w)
    BY <1>2, <1>4, <2>1, <2>2, WayEnds
  <2>4. w \in 0 .. WordBits /\ WordBits \in Nat /\ w \in Nat /\ w \in 0 .. w
    BY <2>3, SizeBounds DEF Ended
  <2>5. /\ \A g \in 0 .. w : way[g] # Nil => OnTheWay(c, N, dep, way[g], g, s, i)
        /\ \A g \in 0 .. w - 1 : way[g + 1] = c.child[way[g]][PathBit(s, i, g)]
    BY <1>2, <1>4, <2>1, <2>3, <2>4, WayNodes DEF Ended
  <2>6. InsertLargeChunk(c, x, s) = InsertBelow(e, x, s, i, way, w)
    BY <1>4, <1>5, <1>10, <2>1, <2>2, Zenon DEF InsertLargeChunk, Prepared
  <2>7. CASE way[w] # Nil
    <3>1. PICK t \in N : t = way[w] /\ c.size[t] = s
      BY <2>3, <2>4, <2>5, <2>7 DEF OnTheWay, Ended
    <3>2. L[s] # <<>> /\ t = L[s][1] /\ t \in Chunks /\ t # x
      BY <1>6, <3>1
    <3>3. PICK d : d = AddToRing(e, x, t)
      OBVIOUS
    <3>4. InsertLargeChunk(c, x, s) = d
      BY <2>6, <2>7, <3>1, <3>3, Zenon DEF InsertBelow
    <3>5. c.fd[t] \in Chunks /\ c.fd[t] # x
      <4>1. PICK q \in Seq(Chunks) : /\ q = L[s] /\ q # <<>> /\ Once(q) /\ Elements(q) = {y \in Chunks : c.size[y] = s}
                                     /\ LargeRing(c.fd, c.bk, q)
        BY <1>2, <3>2 DEF ListsOK, Ring
      <4>2. Len(q) \in Nat /\ Len(q) > 0
        BY <4>1, ListPlaces
      <4>3. c.fd[t] = q[Len(q)] /\ q[Len(q)] \in Elements(q)
        BY <3>2, <4>1, <4>2 DEF LargeRing, Elements
      <4> QED  BY <1>3, <4>1, <4>3
    <3>6. Filed(c, d, x, s, i) /\ InRing(c, d, x, t)
      BY <1>2, <1>4, <1>5, <3>2, <3>3, <3>5, InRingIs
    <3>7. Inv(d, With(L, s, Backed(L[s], x)), dep)
      BY <1>4, <3>2, <3>6, RingInsertKeeps
    <3> QED  BY <3>4, <3>7
  <2>8. CASE way[w] = Nil
    <3>1. w # 0
      <4>1. way[0] = c.treebins[i]
        BY <1>2, <1>4, <2>1, WaySteps DEF TrieOf
      <4> QED  BY <1>8, <1>10, <2>8, <4>1
    <3>2. PICK v \in Nat : v = w - 1 /\ v + 1 = w /\ v \in 0 .. w - 1 /\ v \in 0 .. w
      <4>1. w - 1 \in Nat /\ (w - 1) + 1 = w /\ w - 1 \in 0 .. w - 1 /\ w - 1 \in 0 .. w
        BY <2>4, <3>1
      <4> QED  BY <4>1
    <3>3. PICK p : p = way[v]
      OBVIOUS
    <3>4. OnTheWay(c, N, dep, p, v, s, i)
      BY <2>3, <2>5, <3>2, <3>3 DEF Ended
    <3>5. p \in N /\ dep[p] = v /\ BinOf(c.size, p) = i /\ Agree(c.size[p], s, i, v)
      BY <3>4 DEF OnTheWay
    <3>6. PICK k \in 0 .. 1 : k = PathBit(s, i, v)
      BY <1>4, InBinFacts, PathBits
    <3>7. c.child[p][k] = Nil
      <4>1. way[v + 1] = c.child[way[v]][PathBit(s, i, v)]
        BY <2>5, <3>2
      <4> QED  BY <2>8, <3>2, <3>3, <3>6, <4>1
    <3>8. PICK d : d = [AddNode(e, x, p) EXCEPT !.child[p][k] = x]
      OBVIOUS
    <3>9. InsertLargeChunk(c, x, s) = d
      BY <2>6, <2>8, <3>2, <3>3, <3>6, <3>8, Zenon DEF InsertBelow
    <3>10. Filed(c, d, x, s, i) /\ Hangs(c, d, x, p) /\ AsLeaf(c, d, x, p, k)
      BY <1>2, <1>4, <1>5, <1>6, <3>5, <3>8, LeafIs
    <3>11. L[s] = <<>>
      <4>1. ASSUME L[s] # <<>> PROVE FALSE
        <5>1. PICK h \in N : c.size[h] = s
          BY <1>7, <4>1
        <5>2. way[w] = h
          BY <1>2, <1>4, <2>1, <2>3, <5>1, WayFinds
        <5> QED  BY <1>6, <2>8, <5>2
      <4> QED  BY <4>1
    <3>12. PlaceFree(N, dep, c.size, c.treebins, c.child, s, i, w, p)
      BY <3>1, <3>2, <3>5, <3>6, <3>7 DEF PlaceFree
    <3>13. Placed(c, d, x, s, i, w, p, dep)
      <4>1. /\ d.treebins = c.treebins /\ d.treemap = c.treemap
            /\ \A y \in Chunks, j \in 0 .. 1 : y # x => d.child[y][j] = IF y = p /\ j = k THEN x ELSE c.child[y][j]
        BY <3>10 DEF AsLeaf
      <4>2. Marked(d)
        BY <1>2, <4>1 DEF Marked
      <4> QED  BY <3>1, <3>5, <3>6, <3>10, <4>1, <4>2 DEF Placed
    <3>14. Inv(d, With(L, s, Backed(L[s], x)), WithDepth(dep, x, w))
      BY <1>1, <1>4, <2>4, <3>10, <3>11, <3>12, <3>13, NodeInsertKeeps
    <3> QED  BY <3>9, <3>14
  <2> QED  BY <2>7, <2>8
<1> QED  BY <1>9, <1>10

(* The list q of size s with x added to it as insert_chunk does.           *)
Added(q, s, x) == IF IsSmall(s) THEN Fronted(q, x) ELSE Backed(q, x)

(* insert_chunk keeps the invariant: it adds the chunk to the list of its  *)
(* size.                                                                   *)
LEMMA InsertKeeps ==
  ASSUME NEW c, NEW L, NEW dep, Inv(c, L, dep), NEW x \in Chunks, c.size[x] = 0, NEW s \in ChunkSizes
  PROVE  \E dep2 : Inv(InsertChunk(c, x, s), With(L, s, Added(L[s], s, x)), dep2)
<1>1. CASE IsSmall(s)
  BY <1>1, InsertSmallKeeps DEF InsertChunk, Added
<1>2. CASE ~IsSmall(s)
  BY <1>2, InsertLargeKeeps DEF InsertChunk, Added
<1> QED  BY <1>1, <1>2

-----------------------------------------------------------------------------
(* A chunk is taken from a smallbin.                                       *)

Forgotten(c, d, p) ==
  /\ d \in State /\ d.smallmap = c.smallmap /\ d.treemap = c.treemap /\ d.treebins = c.treebins
  /\ d.size[p] = 0 /\ \A y \in Chunks : y # p => d.size[y] = c.size[y]
  /\ \A y \in Linked : y # p => d.fd[y] = c.fd[y] /\ d.bk[y] = c.bk[y]
  /\ d.parent[p] = Nil /\ \A j \in 0 .. 1 : d.child[p][j] = Nil
  /\ \A y \in Chunks : y # p => d.child[y] = c.child[y] /\ d.parent[y] = c.parent[y] /\ d.index[y] = c.index[y]

(* What forgetting the links of a chunk changes.                           *)
LEMMA ForgetIs ==
  ASSUME NEW c \in State, NEW p \in Chunks
  PROVE  Forgotten(c, Forget(c, p), p)
<1>1. PICK d : d = Forget(c, p)
  OBVIOUS
<1>2. NoChildren \in [0 .. 1 -> Chunks \cup {Nil}] /\ \A j \in 0 .. 1 : NoChildren[j] = Nil
  BY DEF NoChildren
<1>3. 0 \in TreeIndexes /\ p \in Linked /\ Nil \in Nodes
  BY TreeBinAssumption DEF TreeIndexes, Linked, Nodes
<1>4. /\ d.fd = [c.fd EXCEPT ![p] = Nil] /\ d.bk = [c.bk EXCEPT ![p] = Nil] /\ d.size = [c.size EXCEPT ![p] = 0]
      /\ d.child = [c.child EXCEPT ![p] = NoChildren] /\ d.parent = [c.parent EXCEPT ![p] = Nil]
      /\ d.index = [c.index EXCEPT ![p] = 0]
      /\ d.smallmap = c.smallmap /\ d.treemap = c.treemap /\ d.treebins = c.treebins
  BY <1>1 DEF Forget, State
<1>5. /\ c.fd \in [Linked -> Nodes] /\ c.bk \in [Linked -> Nodes] /\ c.size \in [Chunks -> {0} \cup ChunkSizes]
      /\ c.child \in [Chunks -> [0 .. 1 -> Chunks \cup {Nil}]] /\ c.parent \in [Chunks -> Nodes]
      /\ c.index \in [Chunks -> TreeIndexes]
  BY DEF State
<1>6. d \in State
  <2>1. /\ [c.fd EXCEPT ![p] = Nil] \in [Linked -> Nodes] /\ [c.bk EXCEPT ![p] = Nil] \in [Linked -> Nodes]
        /\ [c.size EXCEPT ![p] = 0] \in [Chunks -> {0} \cup ChunkSizes]
        /\ [c.child EXCEPT ![p] = NoChildren] \in [Chunks -> [0 .. 1 -> Chunks \cup {Nil}]]
        /\ [c.parent EXCEPT ![p] = Nil] \in [Chunks -> Nodes]
        /\ [c.index EXCEPT ![p] = 0] \in [Chunks -> TreeIndexes]
    BY <1>2, <1>3, <1>5
  <2>2. d = [c EXCEPT !.fd = [@ EXCEPT ![p] = Nil], !.bk = [@ EXCEPT ![p] = Nil], !.size = [@ EXCEPT ![p] = 0],
                      !.child = [@ EXCEPT ![p] = NoChildren], !.parent = [@ EXCEPT ![p] = Nil],
                      !.index = [@ EXCEPT ![p] = 0]]
    BY <1>1 DEF Forget, State
  <2> QED  BY <2>1, <2>2 DEF State
<1>7. d.size[p] = 0 /\ \A y \in Chunks : y # p => d.size[y] = c.size[y]
  BY <1>4, <1>5
<1>8. \A y \in Linked : y # p => d.fd[y] = c.fd[y] /\ d.bk[y] = c.bk[y]
  BY <1>4, <1>5
<1>9. /\ d.parent[p] = Nil /\ \A j \in 0 .. 1 : d.child[p][j] = Nil
      /\ \A y \in Chunks : y # p => d.child[y] = c.child[y] /\ d.parent[y] = c.parent[y] /\ d.index[y] = c.index[y]
  <2>1. d.child[p] = NoChildren
    BY <1>4, <1>5
  <2> QED  BY <1>2, <1>4, <1>5, <2>1
<1> QED  BY <1>1, <1>4, <1>6, <1>7, <1>8, <1>9 DEF Forgotten

(* p left the list of small size s: i was the bin, f and k its neighbours. *)
SmallUnlinked(c, v, p, i, f, k, single) ==
  /\ v \in State /\ v.size = c.size /\ TreesSame(c, v)
  /\ single => v.smallmap = c.smallmap \ {i} /\ v.fd = c.fd /\ v.bk = c.bk
  /\ ~single => v.smallmap = c.smallmap /\ Bridged(c.fd, c.bk, v.fd, v.bk, f, k, p)

(* What linking two chunks to each other changes.                          *)
LEMMA BridgeIs ==
  ASSUME NEW c \in State, NEW f \in Linked, NEW k \in Linked, NEW p
  PROVE  /\ [c EXCEPT !.bk[f] = k, !.fd[k] = f] \in State
         /\ [c EXCEPT !.bk[f] = k, !.fd[k] = f].size = c.size
         /\ [c EXCEPT !.bk[f] = k, !.fd[k] = f].smallmap = c.smallmap
         /\ TreesSame(c, [c EXCEPT !.bk[f] = k, !.fd[k] = f])
         /\ Bridged(c.fd, c.bk, [c EXCEPT !.bk[f] = k, !.fd[k] = f].fd,
                    [c EXCEPT !.bk[f] = k, !.fd[k] = f].bk, f, k, p)
<1>1. PICK v : v = [c EXCEPT !.bk[f] = k, !.fd[k] = f]
  OBVIOUS
<1>2. c.fd \in [Linked -> Nodes] /\ c.bk \in [Linked -> Nodes] /\ f \in Nodes /\ k \in Nodes
  BY DEF State, Linked, Nodes
<1>3. v.bk = [c.bk EXCEPT ![f] = k] /\ v.fd = [c.fd EXCEPT ![k] = f] /\ v.size = c.size /\ v.smallmap = c.smallmap
  BY <1>1 DEF State
<1>4. TreesSame(c, v)
  BY <1>1 DEF State, TreesSame
<1>5. v \in State
  <2>1. [c.bk EXCEPT ![f] = k] \in [Linked -> Nodes] /\ [c.fd EXCEPT ![k] = f] \in [Linked -> Nodes]
    BY <1>2
  <2>2. v = [c EXCEPT !.bk = [@ EXCEPT ![f] = k], !.fd = [@ EXCEPT ![k] = f]]
    BY <1>1 DEF State
  <2> QED  BY <2>1, <2>2 DEF State
<1>6. Bridged(c.fd, c.bk, v.fd, v.bk, f, k, p)
  BY <1>2, <1>3 DEF Bridged
<1> QED  BY <1>1, <1>3, <1>4, <1>5, <1>6

(* The checks of unlink_small_chunk pass.                                  *)
LEMMA UnlinkSmallIs ==
  ASSUME NEW c, c \in State, NEW s \in ChunkSizes, IsSmall(s), NEW q \in Seq(Chunks), Once(q),
         SmallRing(c.fd, c.bk, SmallIndex(s), q), NEW m \in 1 .. Len(q), c.size[q[m]] = s
  PROVE  SmallUnlinked(c, UnlinkSmallChunk(c, q[m], s), q[m], SmallIndex(s),
                       c.fd[q[m]], c.bk[q[m]], Len(q) = 1)
<1>1. PICK i \in SmallIndexes : i = SmallIndex(s)
  BY SizesAre
<1>2. PICK p \in Chunks : p = q[m]
  BY ListPlaces
<1>3. PICK f : f = c.fd[p]
  OBVIOUS
<1>4. PICK k : k = c.bk[p]
  OBVIOUS
<1>5. SmallNear(c.fd, c.bk, i, q, m)
  BY <1>1, SmallNeighbours
<1>6. /\ f = IF m = Len(q) THEN i ELSE q[m + 1]
      /\ k = IF m = 1 THEN i ELSE q[m - 1]
      /\ c.fd[k] = p /\ (f # i => c.bk[f] = p) /\ f # p /\ k # p
      /\ f = k <=> Len(q) = 1
  BY <1>2, <1>3, <1>4, <1>5 DEF SmallNear
<1>7. f \in Linked /\ k \in Linked
  <2>1. Len(q) \in Nat /\ \A j \in 1 .. Len(q) : q[j] \in Linked
    BY ListPlaces
  <2>2. i \in Linked
    BY DEF Linked
  <2>3. (m # Len(q) => m + 1 \in 1 .. Len(q)) /\ (m # 1 => m - 1 \in 1 .. Len(q))
    BY <2>1
  <2> QED  BY <1>6, <2>1, <2>2, <2>3
<1>8. SmallIndex2Size(i) = s
  <2>1. s \in Nat
    BY SizesAre
  <2> QED  BY <1>1, <2>1 DEF SmallIndex, SmallIndex2Size
<1>9. ~(p \in {f, k} \/ c.size[p] # SmallIndex2Size(i) \/ (f # i /\ c.bk[f] # p)) /\ (k = i \/ c.fd[k] = p)
  BY <1>2, <1>6, <1>8
<1>10. UnlinkSmallChunk(c, p, s) = IF f = k THEN [c EXCEPT !.smallmap = @ \ {i}]
                                   ELSE [c EXCEPT !.bk[f] = k, !.fd[k] = f]
  <2>1. Check(c, k = i \/ c.fd[k] = p) = c
    BY <1>9, Zenon DEF Check
  <2>2. UnlinkSmallChunk(c, p, s) =
          IF p \in {f, k} \/ c.size[p] # SmallIndex2Size(i) \/ (f # i /\ c.bk[f] # p)
          THEN Check(c, FALSE)
          ELSE IF f = k THEN [c EXCEPT !.smallmap = @ \ {i}]
          ELSE [Check(c, k = i \/ c.fd[k] = p) EXCEPT !.bk[f] = k, !.fd[k] = f]
    BY <1>1, <1>3, <1>4, Zenon DEF UnlinkSmallChunk
  <2> QED  BY <1>9, <2>1, <2>2, Zenon
<1>11. PICK v : v = UnlinkSmallChunk(c, p, s)
  OBVIOUS
<1>12. CASE Len(q) = 1
  <2>1. v = [c EXCEPT !.smallmap = @ \ {i}]
    BY <1>6, <1>10, <1>11, <1>12
  <2>2. v \in State /\ v.size = c.size /\ v.smallmap = c.smallmap \ {i} /\ v.fd = c.fd /\ v.bk = c.bk
    BY <2>1 DEF State
  <2>3. TreesSame(c, v)
    BY <2>1 DEF State, TreesSame
  <2> QED  BY <1>1, <1>2, <1>3, <1>4, <1>11, <1>12, <2>2, <2>3 DEF SmallUnlinked
<1>13. CASE Len(q) # 1
  <2>1. v = [c EXCEPT !.bk[f] = k, !.fd[k] = f]
    BY <1>6, <1>10, <1>11, <1>13
  <2>2. v \in State /\ v.size = c.size /\ v.smallmap = c.smallmap /\ TreesSame(c, v)
        /\ Bridged(c.fd, c.bk, v.fd, v.bk, f, k, p)
    BY <1>7, <2>1, BridgeIs
  <2> QED  BY <1>1, <1>2, <1>3, <1>4, <1>11, <1>13, <2>2 DEF SmallUnlinked
<1> QED  BY <1>12, <1>13

(* The list of a size is one of its chunks.                                *)
LEMMA ListOfSize ==
  ASSUME NEW c, NEW L, ListsOK(c, L), NEW s \in ChunkSizes
  PROVE  \E q \in Seq(Chunks) : /\ q = L[s] /\ Once(q) /\ Elements(q) = {y \in Chunks : c.size[y] = s}
                                /\ Len(q) \in Nat /\ (q # <<>> <=> Len(q) > 0)
                                /\ \A k \in 1 .. Len(q) : q[k] \in Chunks /\ c.size[q[k]] = s
                                /\ (q # <<>> => Ring(c.fd, c.bk, s, q))
<1>1. PICK q \in Seq(Chunks) : /\ q = L[s] /\ Once(q) /\ Elements(q) = {y \in Chunks : c.size[y] = s}
                               /\ (q # <<>> => Ring(c.fd, c.bk, s, q))
  BY DEF ListsOK
<1>2. Len(q) \in Nat /\ (q # <<>> <=> Len(q) > 0)
  BY <1>1, ListPlaces
<1>3. \A k \in 1 .. Len(q) : q[k] \in Elements(q)
  BY DEF Elements
<1> QED  BY <1>1, <1>2, <1>3

(* unlink_small_chunk takes the chunk from the list of its size.           *)
LEMMA UnlinkSmallKeeps ==
  ASSUME NEW c, NEW L, NEW dep, Inv(c, L, dep), NEW s \in ChunkSizes, IsSmall(s),
         NEW m \in 1 .. Len(L[s])
  PROVE  Inv(UnlinkChunk(c, L[s][m]), With(L, s, Without(L[s], m)), dep)
<1>1. PICK N : N = Heads(L)
  OBVIOUS
<1>2. c \in State /\ ListsOK(c, L) /\ MarkedSmall(c, L) /\ Marked(c) /\ Indexed(c) /\ Bare(c, N)
      /\ TrieOf(c, N, dep)
  BY <1>1 DEF Inv
<1>3. PICK q \in Seq(Chunks) : /\ q = L[s] /\ Once(q) /\ Elements(q) = {y \in Chunks : c.size[y] = s}
                               /\ Len(q) \in Nat /\ (q # <<>> <=> Len(q) > 0)
                               /\ \A k \in 1 .. Len(q) : q[k] \in Chunks /\ c.size[q[k]] = s
                               /\ (q # <<>> => Ring(c.fd, c.bk, s, q))
  BY <1>2, ListOfSize
<1>4. m \in 1 .. Len(q) /\ Len(q) > 0 /\ q # <<>>
  <2>1. m \in 1 .. Len(q)
    BY <1>3
  <2>2. Len(q) > 0
    BY <1>3, <2>1
  <2> QED  BY <1>3, <2>1, <2>2
<1>5. PICK p \in Chunks : p = q[m] /\ c.size[p] = s
  BY <1>3, <1>4
<1>6. PICK i \in SmallIndexes : i = SmallIndex(s) /\ i \notin Chunks
  BY SizesAre, BinsAssumption DEF SmallIndexes
<1>7. SmallRing(c.fd, c.bk, i, q)
  BY <1>3, <1>4, <1>6 DEF Ring
<1>8. PICK f : f = c.fd[p]
  OBVIOUS
<1>9. PICK k : k = c.bk[p]
  OBVIOUS
<1>10. PICK v : v = UnlinkSmallChunk(c, p, s)
  OBVIOUS
<1>11. SmallUnlinked(c, v, p, i, f, k, Len(q) = 1)
  <2>1. SmallUnlinked(c, UnlinkSmallChunk(c, q[m], s), q[m], SmallIndex(s), c.fd[q[m]], c.bk[q[m]], Len(q) = 1)
    BY <1>2, <1>3, <1>4, <1>5, <1>6, <1>7, UnlinkSmallIs
  <2> QED  BY <1>5, <1>6, <1>8, <1>9, <1>10, <2>1
<1>12. PICK d : d = UnlinkChunk(c, p)
  OBVIOUS
<1>13. d = Forget(v, p) /\ Forgotten(v, d, p)
  <2>1. d = Forget(v, p)
    BY <1>5, <1>10, <1>12 DEF UnlinkChunk
  <2> QED  BY <1>11, <2>1, ForgetIs DEF SmallUnlinked
<1>14. PICK r : r = Without(q, m)
  OBVIOUS
<1>15. r \in Seq(Chunks) /\ Once(r) /\ Elements(r) = Elements(q) \ {p}
  BY <1>3, <1>4, <1>5, <1>14, WithoutIs
<1>16. r # <<>> <=> Len(q) # 1
  <2>1. Skips(r, q, m) /\ Len(r) \in Nat /\ (r # <<>> <=> Len(r) > 0)
    BY <1>3, <1>4, <1>14, <1>15, WithoutIs, ListPlaces
  <2>2. Len(r) = Len(q) - 1
    BY <2>1 DEF Skips
  <2>3. PICK n \in Nat : n = Len(q) /\ n > 0
    BY <1>3, <1>4
  <2>4. Len(r) = n - 1
    BY <2>2, <2>3
  <2>5. CASE n = 1
    <3>1. ~(Len(r) > 0)
      BY <2>4, <2>5
    <3> QED  BY <2>1, <2>3, <2>5, <3>1
  <2>6. CASE n # 1
    <3>1. Len(r) > 0
      BY <2>3, <2>4, <2>6
    <3> QED  BY <2>1, <2>3, <2>6, <3>1
  <2> QED  BY <2>5, <2>6
<1>17. /\ d \in State /\ d.treemap = c.treemap /\ d.treebins = c.treebins
       /\ d.size[p] = 0 /\ (\A y \in Chunks : y # p => d.size[y] = c.size[y])
       /\ (\A y \in Linked : y # p => d.fd[y] = v.fd[y] /\ d.bk[y] = v.bk[y])
       /\ d.parent[p] = Nil /\ (\A j \in 0 .. 1 : d.child[p][j] = Nil)
       /\ (\A y \in Chunks : y # p => d.child[y] = c.child[y] /\ d.parent[y] = c.parent[y] /\ d.index[y] = c.index[y])
       /\ d.smallmap = v.smallmap
  BY <1>11, <1>13 DEF SmallUnlinked, Forgotten, TreesSame
<1>18. s # 0
  BY SizesAre
<1>19. /\ f = IF m = Len(q) THEN i ELSE q[m + 1]
       /\ k = IF m = 1 THEN i ELSE q[m - 1]
       /\ f # p /\ k # p
  <2>1. SmallNear(c.fd, c.bk, i, q, m)
    BY <1>3, <1>4, <1>6, <1>7, SmallNeighbours
  <2> QED  BY <1>5, <1>8, <1>9, <2>1 DEF SmallNear
<1>20. f \in {i} \cup Elements(q) /\ k \in {i} \cup Elements(q)
  <2>1. (m # Len(q) => m + 1 \in 1 .. Len(q)) /\ (m # 1 => m - 1 \in 1 .. Len(q))
    BY <1>3, <1>4
  <2> QED  BY <1>19, <2>1 DEF Elements
<1>21. ListsOK(d, With(L, s, r))
  <2>1. OthersSame(c, d, p, s)
    <3>1. \A y \in Linked : y # p /\ y # i /\ (y \in Chunks => c.size[y] # s) => y # f /\ y # k
      BY <1>3, <1>20
    <3>2. \A y \in Linked : y # p /\ y # i /\ (y \in Chunks => c.size[y] # s)
            => v.fd[y] = c.fd[y] /\ v.bk[y] = c.bk[y]
      BY <1>11, <3>1 DEF SmallUnlinked, Bridged
    <3> QED  BY <1>5, <1>6, <1>17, <3>2 DEF OthersSame
  <2>2. Elements(r) = {y \in Chunks : d.size[y] = s}
    BY <1>3, <1>15, <1>17, <1>18
  <2>3. ASSUME r # <<>>
        PROVE  Ring(d.fd, d.bk, s, r)
    <3>1. Bridged(c.fd, c.bk, v.fd, v.bk, f, k, p) /\ Len(q) # 1
      BY <1>11, <1>16, <2>3 DEF SmallUnlinked
    <3>2. Bridged(c.fd, c.bk, v.fd, v.bk, c.fd[q[m]], c.bk[q[m]], q[m])
      BY <1>5, <1>8, <1>9, <3>1
    <3>3. SmallRing(v.fd, v.bk, i, r)
      BY <1>3, <1>4, <1>6, <1>7, <1>14, <3>1, <3>2, SmallRingShrinks
    <3>4. \A y \in Elements(r) : d.fd[y] = v.fd[y] /\ d.bk[y] = v.bk[y]
      BY <1>3, <1>15, <1>17 DEF Linked
    <3>5. d.fd[i] = v.fd[i]
      <4>1. i \in Linked /\ i # p
        BY <1>6 DEF Linked
      <4> QED  BY <1>17, <4>1
    <3>6. SmallRing(d.fd, d.bk, i, r)
      BY <1>15, <2>3, <3>3, <3>4, <3>5, HeaderSame
    <3> QED  BY <1>6, <3>6 DEF Ring
  <2> QED  BY <1>2, <1>15, <2>1, <2>2, <2>3, ListsStep
<1>22. MarkedSmall(d, With(L, s, r))
  <2>1. \A z \in ChunkSizes : With(L, s, r)[z] = IF z = s THEN r ELSE L[z]
    BY DEF With
  <2>2. d.smallmap = IF Len(q) = 1 THEN c.smallmap \ {i} ELSE c.smallmap
    BY <1>11, <1>17 DEF SmallUnlinked
  <2>3. \A z \in ChunkSizes : SmallIndex(z) = SmallIndex(s) => z = s
    BY SizesAre DEF SmallIndex
  <2> QED  BY <1>2, <1>3, <1>4, <1>6, <1>16, <2>1, <2>2, <2>3 DEF MarkedSmall
<1>23. Heads(With(L, s, r)) = N
  BY <1>1, HeadsSmall
<1>24. \A t \in N : t # p /\ t \in Chunks
  BY <1>1, <1>2, <1>5, HeadsAre
<1>25. TrieOf(d, N, dep)
  <2>1. Trie(N, dep, c.size, c.treebins, c.child, c.parent)
    BY <1>2 DEF TrieOf
  <2>2. \A t \in N : d.size[t] = c.size[t] /\ d.parent[t] = c.parent[t] /\ \A j \in 0 .. 1 : d.child[t][j] = c.child[t][j]
    BY <1>17, <1>24
  <2>3. Trie(N, dep, d.size, c.treebins, d.child, d.parent)
    BY <2>1, <2>2, TrieSame
  <2>4. TreeLinks(d)
    BY <1>17 DEF State, TreeLinks
  <2> QED  BY <1>17, <2>3, <2>4 DEF TrieOf
<1>26. Marked(d) /\ Bare(d, N)
  BY <1>2, <1>17 DEF Marked, Bare
<1>27. Indexed(d)
  <2>1. 0 \notin LargeSizes
    BY SizeBounds DEF LargeSizes
  <2> QED  BY <1>2, <1>17, <2>1 DEF Indexed
<1>28. Inv(d, With(L, s, r), dep)
  BY <1>17, <1>21, <1>22, <1>23, <1>25, <1>26, <1>27 DEF Inv
<1> QED  BY <1>3, <1>5, <1>12, <1>14, <1>28

(* Taking the first chunk of a smallbin is to unlink it.                   *)
LEMMA TakeFirstIs ==
  ASSUME NEW c, NEW L, NEW dep, Inv(c, L, dep), NEW s \in ChunkSizes, IsSmall(s), L[s] # <<>>
  PROVE  /\ c.fd[SmallIndex(s)] = L[s][1] /\ c.size[L[s][1]] = s
         /\ TakeFirst(c, SmallIndex(s)) = UnlinkChunk(c, L[s][1])
<1>1. ListsOK(c, L)
  BY DEF Inv
<1>2. PICK q \in Seq(Chunks) : /\ q = L[s] /\ Once(q) /\ Len(q) \in Nat /\ Len(q) > 0
                               /\ \A k \in 1 .. Len(q) : q[k] \in Chunks /\ c.size[q[k]] = s
                               /\ Ring(c.fd, c.bk, s, q)
  BY <1>1, ListOfSize
<1>3. PICK i \in SmallIndexes : i = SmallIndex(s) /\ i \notin Chunks
  BY SizesAre, BinsAssumption DEF SmallIndexes
<1>4. 1 \in 1 .. Len(q)
  BY <1>2
<1>5. PICK p \in Chunks : p = q[1] /\ c.size[p] = s
  BY <1>2, <1>4
<1>6. PICK f : f = c.fd[p]
  OBVIOUS
<1>7. SmallRing(c.fd, c.bk, i, q)
  BY <1>2, <1>3 DEF Ring
<1>8. /\ f = IF 1 = Len(q) THEN i ELSE q[2]
      /\ c.bk[p] = i /\ c.fd[i] = p /\ (f # i => c.bk[f] = p) /\ f # p
  <2>1. SmallNear(c.fd, c.bk, i, q, 1)
    BY <1>2, <1>3, <1>4, <1>7, SmallNeighbours
  <2> QED  BY <1>5, <1>6, <2>1 DEF SmallNear
<1>9. SmallIndex2Size(i) = s /\ p # i
  <2>1. s \in Nat
    BY SizesAre
  <2> QED  BY <1>3, <2>1 DEF SmallIndex, SmallIndex2Size
<1>10. UnlinkFirstSmallChunk(c, p, i) = IF f = i THEN [c EXCEPT !.smallmap = @ \ {i}]
                                        ELSE [c EXCEPT !.bk[f] = i, !.fd[i] = f]
  <2>1. f # i => Check(c, c.bk[f] = p) = c
    BY <1>8, Zenon DEF Check
  <2>2. UnlinkFirstSmallChunk(c, p, i) =
          IF p \in {i, f} \/ c.size[p] # SmallIndex2Size(i) THEN Check(c, FALSE)
          ELSE IF f = i THEN [c EXCEPT !.smallmap = @ \ {i}]
          ELSE [Check(c, c.bk[f] = p) EXCEPT !.bk[f] = i, !.fd[i] = f]
    BY <1>6, Zenon DEF UnlinkFirstSmallChunk
  <2>3. ~(p \in {i, f} \/ c.size[p] # SmallIndex2Size(i))
    BY <1>5, <1>8, <1>9
  <2> QED  BY <2>1, <2>2, <2>3, Zenon
<1>11. UnlinkSmallChunk(c, p, s) = IF f = i THEN [c EXCEPT !.smallmap = @ \ {i}]
                                   ELSE [c EXCEPT !.bk[f] = i, !.fd[i] = f]
  <2>1. Check(c, i = i \/ c.fd[i] = p) = c
    BY Zenon DEF Check
  <2>2. UnlinkSmallChunk(c, p, s) =
          IF p \in {f, i} \/ c.size[p] # SmallIndex2Size(i) \/ (f # i /\ c.bk[f] # p)
          THEN Check(c, FALSE)
          ELSE IF f = i THEN [c EXCEPT !.smallmap = @ \ {i}]
          ELSE [Check(c, i = i \/ c.fd[i] = p) EXCEPT !.bk[f] = i, !.fd[i] = f]
    BY <1>3, <1>6, <1>8, Zenon DEF UnlinkSmallChunk
  <2>3. ~(p \in {f, i} \/ c.size[p] # SmallIndex2Size(i) \/ (f # i /\ c.bk[f] # p))
    BY <1>5, <1>8, <1>9
  <2> QED  BY <2>1, <2>2, <2>3, Zenon
<1>12. TakeFirst(c, i) = UnlinkChunk(c, p)
  <2>1. TakeFirst(c, i) = Forget(UnlinkFirstSmallChunk(c, p, i), p)
    BY <1>8 DEF TakeFirst
  <2>2. UnlinkChunk(c, p) = Forget(UnlinkSmallChunk(c, p, s), p)
    BY <1>5 DEF UnlinkChunk
  <2> QED  BY <1>10, <1>11, <2>1, <2>2
<1> QED  BY <1>2, <1>3, <1>5, <1>8, <1>12

-----------------------------------------------------------------------------
(* A chunk is taken from a treebin.                                        *)

(* Where a node hangs: from the bin or in one slot of its parent; and what *)
(* hangs from it.                                                          *)
HangsAt(c, N, dep, x) ==
  /\ c.parent[x] # Nil
  /\ \A j \in TreeIndexes : c.treebins[j] = x <=> (j = BinOf(c.size, x) /\ dep[x] = 0)
  /\ dep[x] # 0 => c.parent[x] \in N /\ c.parent[x] # x
  /\ \A t \in N, k \in 0 .. 1 :
       c.child[t][k] = x <=> (dep[x] # 0 /\ t = c.parent[x] /\ k = SlotOf(c, c.parent[x], x))
  /\ \A t \in N : c.parent[t] = x <=> t \in {c.child[x][0], c.child[x][1]}
  /\ \A k \in 0 .. 1 : c.child[x][k] # x

(* A node hangs from one place only.                                       *)
LEMMA HangsAtIs ==
  ASSUME NEW c, NEW N, NEW dep, TrieOf(c, N, dep), NEW x \in N
  PROVE  HangsAt(c, N, dep, x)
<1>1. Trie(N, dep, c.size, c.treebins, c.child, c.parent)
  BY DEF TrieOf
<1>2. \A t \in N : t \in Chunks /\ t # Nil /\ t \notin Int /\ dep[t] \in Nat /\ c.size[t] \in LargeSizes
                   /\ BinOf(c.size, t) \in TreeIndexes /\ InBin(c.size[t], BinOf(c.size, t))
  BY <1>1, TrieNode, SmallBinAssumption, BinsAssumption
<1>3. \A t \in N : Hung(N, dep, c.size, c.treebins, c.child, c.parent, t)
  BY <1>1 DEF Trie
<1>4. \A t \in N, k \in 0 .. 1 : c.child[t][k] # Nil => ChildOf(N, dep, c.size, c.parent, t, k, c.child[t][k])
  BY <1>1 DEF Trie
<1>5. \A t \in N : dep[t] = 0 => c.treebins[BinOf(c.size, t)] = t /\ c.parent[t] = BinOf(c.size, t)
  BY <1>3 DEF Hung
<1>6. \A t \in N : dep[t] # 0 => /\ c.parent[t] \in N /\ dep[t] = dep[c.parent[t]] + 1
                                 /\ \E k \in 0 .. 1 : c.child[c.parent[t]][k] = t
  <2> SUFFICES ASSUME NEW t \in N, dep[t] # 0
               PROVE  /\ c.parent[t] \in N /\ dep[t] = dep[c.parent[t]] + 1
                      /\ \E k \in 0 .. 1 : c.child[c.parent[t]][k] = t
    OBVIOUS
  <2>1. PICK p \in N : p = c.parent[t] /\ dep[t] = dep[p] + 1 /\ Under(dep, c.size, p, t)
                       /\ c.child[p][PathBit(c.size[t], BinOf(c.size, t), dep[p])] = t
    BY <1>3 DEF Hung
  <2>2. Top(BinOf(c.size, t)) \in 0 .. WordBits - 1
    BY <1>2, InBinFacts
  <2>3. PathBit(c.size[t], BinOf(c.size, t), dep[p]) \in 0 .. 1
    BY <1>2, <2>1, <2>2, PathBits
  <2> QED  BY <2>1, <2>3
<1>7. ASSUME NEW t \in N, NEW k \in 0 .. 1, NEW u \in N, c.child[t][k] = u
      PROVE  c.parent[u] = t /\ dep[u] = dep[t] + 1 /\ dep[u] # 0 /\ u # t
             /\ PathBit(c.size[u], BinOf(c.size, t), dep[t]) = k
  <2>1. ChildOf(N, dep, c.size, c.parent, t, k, u)
    BY <1>2, <1>4, <1>7
  <2>2. c.parent[u] = t /\ dep[u] = dep[t] + 1 /\ PathBit(c.size[u], BinOf(c.size, t), dep[t]) = k
    BY <2>1 DEF ChildOf
  <2>3. dep[t] \in Nat
    BY <1>2
  <2>4. dep[u] # dep[t] /\ dep[u] # 0
    BY <2>2, <2>3
  <2> QED  BY <2>2, <2>4
<1>8. c.parent[x] # Nil
  <2>1. CASE dep[x] = 0
    BY <1>2, <1>5, <2>1, BinsAssumption DEF TreeIndexes
  <2>2. CASE dep[x] # 0
    BY <1>2, <1>6, <2>2
  <2> QED  BY <2>1, <2>2
<1>9. ASSUME NEW j \in TreeIndexes
      PROVE  c.treebins[j] = x <=> (j = BinOf(c.size, x) /\ dep[x] = 0)
  <2>1. ASSUME c.treebins[j] = x PROVE j = BinOf(c.size, x) /\ dep[x] = 0
    BY <1>1, <1>2, <2>1 DEF Trie
  <2>2. ASSUME j = BinOf(c.size, x), dep[x] = 0 PROVE c.treebins[j] = x
    BY <1>5, <2>2
  <2> QED  BY <2>1, <2>2
<1>10. ASSUME dep[x] # 0
       PROVE  c.parent[x] \in N /\ c.parent[x] # x
  <2>1. c.parent[x] \in N /\ \E k \in 0 .. 1 : c.child[c.parent[x]][k] = x
    BY <1>6, <1>10
  <2> QED  BY <1>7, <2>1
<1>11. ASSUME NEW t \in N, NEW k \in 0 .. 1
       PROVE  c.child[t][k] = x <=> (dep[x] # 0 /\ t = c.parent[x] /\ k = SlotOf(c, c.parent[x], x))
  <2>1. ASSUME c.child[t][k] = x
        PROVE  dep[x] # 0 /\ t = c.parent[x] /\ k = SlotOf(c, c.parent[x], x)
    <3>1. t = c.parent[x] /\ dep[x] # 0 /\ PathBit(c.size[x], BinOf(c.size, t), dep[t]) = k
      BY <1>7, <2>1
    <3>2. CASE c.child[t][0] = x
      <4>1. 0 \in 0 .. 1
        OBVIOUS
      <4>2. PathBit(c.size[x], BinOf(c.size, t), dep[t]) = 0
        BY <1>7, <3>2, <4>1
      <4>3. SlotOf(c, t, x) = 0
        BY <3>2, Zenon DEF SlotOf
      <4> QED  BY <3>1, <4>2, <4>3
    <3>3. CASE c.child[t][0] # x
      <4>1. k = 1
        BY <2>1, <3>3
      <4>2. SlotOf(c, t, x) = 1
        BY <3>3, Zenon DEF SlotOf
      <4> QED  BY <3>1, <4>1, <4>2
    <3> QED  BY <3>2, <3>3
  <2>2. ASSUME dep[x] # 0, t = c.parent[x], k = SlotOf(c, c.parent[x], x)
        PROVE  c.child[t][k] = x
    <3>1. PICK j \in 0 .. 1 : c.child[t][j] = x
      BY <1>6, <2>2
    <3>2. CASE c.child[t][0] = x
      <4>1. SlotOf(c, t, x) = 0
        BY <3>2, Zenon DEF SlotOf
      <4> QED  BY <2>2, <3>2, <4>1
    <3>3. CASE c.child[t][0] # x
      <4>1. SlotOf(c, t, x) = 1
        BY <3>3, Zenon DEF SlotOf
      <4>2. j = 1
        BY <3>1, <3>3
      <4> QED  BY <2>2, <3>1, <4>1, <4>2
    <3> QED  BY <3>2, <3>3
  <2> QED  BY <2>1, <2>2
<1>12. ASSUME NEW t \in N
       PROVE  c.parent[t] = x <=> t \in {c.child[x][0], c.child[x][1]}
  <2>1. ASSUME c.parent[t] = x PROVE t \in {c.child[x][0], c.child[x][1]}
    <3>1. dep[t] # 0
      BY <1>2, <1>5, <2>1 DEF TreeIndexes
    <3>2. \E k \in 0 .. 1 : c.child[x][k] = t
      BY <1>6, <2>1, <3>1
    <3> QED  BY <3>2
  <2>2. ASSUME t \in {c.child[x][0], c.child[x][1]} PROVE c.parent[t] = x
    <3>1. PICK k \in 0 .. 1 : c.child[x][k] = t
      BY <2>2
    <3> QED  BY <1>7, <3>1
  <2> QED  BY <2>1, <2>2
<1>13. \A k \in 0 .. 1 : c.child[x][k] # x
  BY <1>7
<1> QED  BY <1>8, <1>9, <1>10, <1>11, <1>12, <1>13 DEF HangsAt

(* A field of one chunk, or none, is set.                                  *)
SlotSet(c, d, p, k, r) ==
  /\ d \in State /\ d.fd = c.fd /\ d.bk = c.bk /\ d.size = c.size /\ d.smallmap = c.smallmap
  /\ d.treemap = c.treemap /\ d.treebins = c.treebins /\ d.parent = c.parent /\ d.index = c.index
  /\ \A y \in Chunks, j \in 0 .. 1 : d.child[y][j] = IF y = p /\ j = k THEN r ELSE c.child[y][j]

(* What assigning the slot of a node changes.                              *)
LEMMA SetSlotIs ==
  ASSUME NEW c \in State, NEW p \in Chunks, NEW x, NEW r \in Chunks \cup {Nil}
  PROVE  SlotSet(c, SetSlot(c, p, x, r), p, SlotOf(c, p, x), r)
<1>1. PICK k \in 0 .. 1 : k = SlotOf(c, p, x)
  BY DEF SlotOf
<1>2. PICK d : d = [c EXCEPT !.child[p][k] = r]
  OBVIOUS
<1>3. /\ d.fd = c.fd /\ d.bk = c.bk /\ d.size = c.size /\ d.smallmap = c.smallmap
      /\ d.treemap = c.treemap /\ d.treebins = c.treebins /\ d.parent = c.parent /\ d.index = c.index
      /\ d.child = [c.child EXCEPT ![p] = [@ EXCEPT ![k] = r]]
  BY <1>2 DEF State
<1>4. c.child \in [Chunks -> [0 .. 1 -> Chunks \cup {Nil}]]
  BY DEF State
<1>5. d \in State
  BY <1>2, <1>4 DEF State
<1>6. ASSUME NEW y \in Chunks, NEW j \in 0 .. 1
      PROVE  d.child[y][j] = IF y = p /\ j = k THEN r ELSE c.child[y][j]
  <2>1. CASE y = p
    <3>1. d.child[p] = [c.child[p] EXCEPT ![k] = r] /\ c.child[p] \in [0 .. 1 -> Chunks \cup {Nil}]
      BY <1>3, <1>4
    <3> QED  BY <2>1, <3>1
  <2>2. CASE y # p
    BY <1>3, <1>4, <2>2
  <2> QED  BY <2>1, <2>2
<1>7. SetSlot(c, p, x, r) = d
  BY <1>1, <1>2 DEF SetSlot
<1> QED  BY <1>1, <1>3, <1>5, <1>6, <1>7 DEF SlotSet

(* r took the place of x in its trie.                                      *)
Put(v, d, x, r) ==
  /\ d \in State /\ d.fd = v.fd /\ d.bk = v.bk /\ d.size = v.size /\ d.smallmap = v.smallmap
  /\ d.treemap = v.treemap /\ d.index = v.index
  /\ \A j \in TreeIndexes :
       d.treebins[j] = IF j = v.index[x] /\ v.treebins[j] = x THEN r ELSE v.treebins[j]
  /\ \A y \in Chunks :
       d.parent[y] = IF y = r THEN v.parent[x]
                     ELSE IF y \in {v.child[x][0], v.child[x][1]} THEN r ELSE v.parent[y]
  /\ \A y \in Chunks, k \in 0 .. 1 :
       d.child[y][k] = IF y = r THEN v.child[x][k]
                       ELSE IF v.treebins[v.index[x]] # x /\ y = v.parent[x] /\ k = SlotOf(v, v.parent[x], x)
                            THEN r ELSE v.child[y][k]

(* What the place was in: the bin, or the parent's slot.                   *)
Emptied(v, w, x, r) ==
  /\ w \in State /\ w.fd = v.fd /\ w.bk = v.bk /\ w.size = v.size /\ w.smallmap = v.smallmap
  /\ w.treemap = v.treemap /\ w.index = v.index /\ w.parent = v.parent
  /\ \A j \in TreeIndexes :
       w.treebins[j] = IF j = v.index[x] /\ v.treebins[j] = x THEN r ELSE v.treebins[j]
  /\ \A y \in Chunks, k \in 0 .. 1 :
       w.child[y][k] = IF v.treebins[v.index[x]] # x /\ y = v.parent[x] /\ k = SlotOf(v, v.parent[x], x)
                       THEN r ELSE v.child[y][k]

(* Assigning the place of a node, in the bin or in its parent.             *)
LEMMA EmptiedIs ==
  ASSUME NEW v \in State, NEW x \in Chunks, NEW r \in Chunks,
         v.treebins[v.index[x]] # x => v.parent[x] \in Chunks
  PROVE  Emptied(v, IF v.treebins[v.index[x]] = x
                    THEN [v EXCEPT !.treebins[v.index[x]] = r,
                                   !.treemap = IF r = Nil THEN @ \ {v.index[x]} ELSE @]
                    ELSE SetSlot(v, v.parent[x], x, r), x, r)
<1>1. PICK i \in TreeIndexes : i = v.index[x]
  BY DEF State
<1>2. r # Nil
  BY SmallBinAssumption
<1>3. CASE v.treebins[i] = x
  <2>1. PICK w : w = [v EXCEPT !.treebins[i] = r, !.treemap = IF r = Nil THEN @ \ {i} ELSE @]
    OBVIOUS
  <2>2. /\ w.fd = v.fd /\ w.bk = v.bk /\ w.size = v.size /\ w.smallmap = v.smallmap
        /\ w.treemap = v.treemap /\ w.index = v.index /\ w.parent = v.parent /\ w.child = v.child
        /\ w.treebins = [v.treebins EXCEPT ![i] = r]
    BY <1>2, <2>1 DEF State
  <2>3. v.treebins \in [TreeIndexes -> Chunks \cup {Nil}] /\ v.treemap \in SUBSET TreeIndexes
    BY DEF State
  <2>4. w \in State
    <3>1. [v.treebins EXCEPT ![i] = r] \in [TreeIndexes -> Chunks \cup {Nil}]
      BY <2>3
    <3>2. w = [v EXCEPT !.treebins = [@ EXCEPT ![i] = r], !.treemap = v.treemap]
      BY <1>2, <2>1 DEF State
    <3> QED  BY <2>3, <3>1, <3>2 DEF State
  <2>5. \A j \in TreeIndexes : w.treebins[j] = IF j = i /\ v.treebins[j] = x THEN r ELSE v.treebins[j]
    BY <1>3, <2>2, <2>3
  <2> QED  BY <1>1, <1>3, <2>1, <2>2, <2>4, <2>5 DEF Emptied
<1>4. CASE v.treebins[i] # x
  <2>1. PICK w : w = SetSlot(v, v.parent[x], x, r)
    OBVIOUS
  <2>2. SlotSet(v, w, v.parent[x], SlotOf(v, v.parent[x], x), r)
    BY <1>1, <1>4, <2>1, SetSlotIs
  <2>3. Emptied(v, w, x, r)
    BY <1>1, <1>4, <2>2 DEF SlotSet, Emptied
  <2> QED  BY <1>1, <1>4, <2>1, <2>3
<1> QED  BY <1>1, <1>3, <1>4

(* What putting r in the place of x changes.                               *)
LEMMA PutIs ==
  ASSUME NEW v \in State, NEW x \in Chunks, NEW r \in Chunks, r # x, v.parent[x] # Nil,
         v.treebins[v.index[x]] # x => v.parent[x] \in Chunks /\ v.parent[x] # x /\ v.parent[x] # r,
         \A k \in 0 .. 1 : v.child[r][k] = Nil
  PROVE  Put(v, PutInPlace(v, x, r), x, r)
<1>1. PICK w : w = IF v.treebins[v.index[x]] = x
                   THEN [v EXCEPT !.treebins[v.index[x]] = r,
                                  !.treemap = IF r = Nil THEN @ \ {v.index[x]} ELSE @]
                   ELSE SetSlot(v, v.parent[x], x, r)
  OBVIOUS
<1>2. Emptied(v, w, x, r)
  BY <1>1, EmptiedIs
<1>3. r # Nil
  BY SmallBinAssumption
<1>4. PICK d : d = Adopt(w, x, r)
  OBVIOUS
<1>5. PutInPlace(v, x, r) = d
  BY <1>1, <1>3, <1>4, Zenon DEF PutInPlace
<1>6. w \in State /\ w.parent = v.parent
  BY <1>2 DEF Emptied
<1>7. \A k \in 0 .. 1 : w.child[x][k] = v.child[x][k] /\ w.child[r][k] = Nil
  <2>1. ~(v.treebins[v.index[x]] # x /\ x = v.parent[x]) /\ ~(v.treebins[v.index[x]] # x /\ r = v.parent[x])
    OBVIOUS
  <2> QED  BY <1>2, <2>1 DEF Emptied
<1>8. /\ w.parent \in [Chunks -> Nodes] /\ w.child \in [Chunks -> [0 .. 1 -> Chunks \cup {Nil}]]
      /\ w.parent[x] \in Nodes /\ r \in Nodes
  BY <1>6 DEF State, Nodes
<1>9. PICK pa : pa = [c \in DOMAIN w.parent |-> IF c = r THEN w.parent[x]
                                               ELSE IF c \in {w.child[x][0], w.child[x][1]} THEN r
                                               ELSE w.parent[c]]
  OBVIOUS
<1>10. PICK ch : ch = [k \in 0 .. 1 |-> IF w.child[x][k] # Nil THEN w.child[x][k] ELSE w.child[r][k]]
  OBVIOUS
<1>11. pa \in [Chunks -> Nodes]
       /\ \A c \in Chunks : pa[c] = IF c = r THEN w.parent[x]
                                    ELSE IF c \in {w.child[x][0], w.child[x][1]} THEN r ELSE w.parent[c]
  <2>1. DOMAIN w.parent = Chunks
    BY <1>8
  <2> QED  BY <1>8, <1>9, <2>1
<1>12. ch \in [0 .. 1 -> Chunks \cup {Nil}] /\ \A k \in 0 .. 1 : ch[k] = v.child[x][k]
  <2>1. \A k \in 0 .. 1 : w.child[x][k] \in Chunks \cup {Nil} /\ w.child[r][k] \in Chunks \cup {Nil}
    BY <1>8
  <2> QED  BY <1>7, <1>10, <2>1
<1>13. d = [w EXCEPT !.parent = pa, !.child = [@ EXCEPT ![r] = ch]]
  BY <1>4, <1>6, <1>9, <1>10 DEF Adopt, State
<1>14. /\ d.fd = w.fd /\ d.bk = w.bk /\ d.size = w.size /\ d.smallmap = w.smallmap
       /\ d.treemap = w.treemap /\ d.index = w.index /\ d.treebins = w.treebins
       /\ d.parent = pa /\ d.child = [w.child EXCEPT ![r] = ch]
  BY <1>6, <1>13 DEF State
<1>15. d \in State
  <2>1. [w.child EXCEPT ![r] = ch] \in [Chunks -> [0 .. 1 -> Chunks \cup {Nil}]]
    BY <1>8, <1>12
  <2> QED  BY <1>6, <1>11, <1>13, <2>1 DEF State
<1>16. \A y \in Chunks : d.parent[y] = IF y = r THEN v.parent[x]
                     ELSE IF y \in {v.child[x][0], v.child[x][1]} THEN r ELSE v.parent[y]
  BY <1>6, <1>7, <1>11, <1>14
<1>17. \A y \in Chunks, k \in 0 .. 1 :
         d.child[y][k] = IF y = r THEN v.child[x][k]
                         ELSE IF v.treebins[v.index[x]] # x /\ y = v.parent[x] /\ k = SlotOf(v, v.parent[x], x)
                              THEN r ELSE v.child[y][k]
  <2>1. \A y \in Chunks : d.child[y] = IF y = r THEN ch ELSE w.child[y]
    BY <1>8, <1>14
  <2>2. \A y \in Chunks, k \in 0 .. 1 : d.child[y][k] = IF y = r THEN v.child[x][k] ELSE w.child[y][k]
    BY <1>12, <2>1
  <2> QED  BY <1>2, <2>2 DEF Emptied
<1>18. Put(v, d, x, r)
  BY <1>2, <1>14, <1>15, <1>16, <1>17 DEF Emptied, Put
<1> QED  BY <1>5, <1>18

(* r, which has the turns of x, is a node of the trie where x was.         *)
LEMMA NodePut ==
  ASSUME NEW v, NEW N, NEW dep, TrieOf(v, N, dep), NEW x \in N, NEW r \in Chunks, r \notin N,
         v.index[x] = BinOf(v.size, x), NEW d, Put(v, d, x, r),
         v.size[r] \in LargeSizes, BinOf(v.size, r) = BinOf(v.size, x),
         Agree(v.size[r], v.size[x], BinOf(v.size, x), dep[x]),
         \A t \in N \ {x} : v.size[t] # v.size[r],
         Bare(v, N \cup {r}), Marked(v)
  PROVE  /\ TrieOf(d, (N \ {x}) \cup {r}, WithDepth(dep, r, dep[x])) /\ Marked(d)
         /\ Bare(d, (N \ {x}) \cup {r} \cup {x})
<1>1. Trie(N, dep, v.size, v.treebins, v.child, v.parent) /\ TreeLinks(v)
  BY DEF TrieOf
<1>2. HangsAt(v, N, dep, x)
  BY HangsAtIs
<1>3. /\ v.parent[x] # Nil
      /\ (\A j \in TreeIndexes : v.treebins[j] = x <=> (j = BinOf(v.size, x) /\ dep[x] = 0))
      /\ (dep[x] # 0 => v.parent[x] \in N /\ v.parent[x] # x)
      /\ (\A t \in N, k \in 0 .. 1 :
            v.child[t][k] = x <=> (dep[x] # 0 /\ t = v.parent[x] /\ k = SlotOf(v, v.parent[x], x)))
      /\ (\A t \in N : v.parent[t] = x <=> t \in {v.child[x][0], v.child[x][1]})
      /\ \A k \in 0 .. 1 : v.child[x][k] # x
  BY <1>2 DEF HangsAt
<1>4. N \subseteq Chunks /\ x \in Chunks /\ BinOf(v.size, x) \in TreeIndexes /\ x # r /\ r # Nil /\ x # Nil
  BY <1>1, TrieNode, SmallBinAssumption DEF Trie
<1>5. v.treebins[v.index[x]] # x <=> dep[x] # 0
  BY <1>3, <1>4
<1>6. /\ d \in State /\ d.size = v.size /\ d.treemap = v.treemap
      /\ (\A j \in TreeIndexes : d.treebins[j] = IF j = v.index[x] /\ v.treebins[j] = x THEN r ELSE v.treebins[j])
      /\ (\A y \in Chunks : d.parent[y] = IF y = r THEN v.parent[x]
                     ELSE IF y \in {v.child[x][0], v.child[x][1]} THEN r ELSE v.parent[y])
      /\ \A y \in Chunks, k \in 0 .. 1 :
           d.child[y][k] = IF y = r THEN v.child[x][k]
                           ELSE IF v.treebins[v.index[x]] # x /\ y = v.parent[x] /\ k = SlotOf(v, v.parent[x], x)
                                THEN r ELSE v.child[y][k]
  BY DEF Put
<1>7. \A j \in TreeIndexes : d.treebins[j] = IF v.treebins[j] = x THEN r ELSE v.treebins[j]
  BY <1>3, <1>6
<1>8. \A t \in N \ {x}, k \in 0 .. 1 : d.child[t][k] = IF v.child[t][k] = x THEN r ELSE v.child[t][k]
  BY <1>3, <1>4, <1>5, <1>6
<1>9. \A t \in N \ {x} : d.parent[t] = IF v.parent[t] = x THEN r ELSE v.parent[t]
  BY <1>3, <1>4, <1>6
<1>10. d.parent[r] = v.parent[x] /\ \A k \in 0 .. 1 : d.child[r][k] = v.child[x][k]
  BY <1>6
<1>11. PICK e : e = WithDepth(dep, r, dep[x])
  OBVIOUS
<1>12. e[r] = dep[x] /\ \A t \in N : e[t] = dep[t]
  BY <1>4, <1>11 DEF WithDepth
<1>13. NodeReplaced(N, dep, v.size, v.treebins, v.child, v.parent,
                    e, d.size, d.treebins, d.child, d.parent, x, r)
  BY <1>6, <1>7, <1>8, <1>9, <1>10, <1>12 DEF NodeReplaced
<1>14. Trie((N \ {x}) \cup {r}, e, d.size, d.treebins, d.child, d.parent)
  BY <1>1, <1>6, <1>13, TrieReplace
<1>15. TreeLinks(d)
  BY <1>6 DEF State, TreeLinks
<1>16. Marked(d)
  BY <1>4, <1>6, <1>7 DEF Marked
<1>17. Bare(d, (N \ {x}) \cup {r} \cup {x})
  <2>1. ASSUME NEW p \in Chunks, p \notin N, p # r
        PROVE  d.parent[p] = Nil /\ \A k \in 0 .. 1 : d.child[p][k] = Nil
    <3>1. v.parent[p] = Nil /\ \A k \in 0 .. 1 : v.child[p][k] = Nil
      BY <2>1 DEF Bare
    <3>2. \A k \in 0 .. 1 : v.child[x][k] # Nil => v.child[x][k] \in N
      BY <1>1 DEF Trie, ChildOf
    <3>3. p # v.child[x][0] /\ p # v.child[x][1]
      BY <2>1, <3>2, SmallBinAssumption
    <3>4. ~(v.treebins[v.index[x]] # x /\ p = v.parent[x])
      BY <1>3, <1>5, <2>1
    <3> QED  BY <1>6, <2>1, <3>1, <3>3, <3>4
  <2> QED  BY <2>1 DEF Bare
<1> QED  BY <1>11, <1>14, <1>15, <1>16, <1>17 DEF TrieOf

(* u is the heap c without x, whose tries have the nodes N2 at the depths  *)
(* dep2; x was alone in its ring, or its neighbours are linked now.        *)
LargeTaken(c, u, x, N2, dep2, single) ==
  /\ u \in State /\ u.size = c.size /\ u.smallmap = c.smallmap /\ u.index = c.index
  /\ Marked(u) /\ TrieOf(u, N2, dep2) /\ Bare(u, N2 \cup {x})
  /\ single => u.fd = c.fd /\ u.bk = c.bk
  /\ ~single => Bridged(c.fd, c.bk, u.fd, u.bk, c.fd[x], c.bk[x], x)

(* x shares its ring: the next one replaces it if it was the node.         *)
LEMMA RingTaken ==
  ASSUME NEW c \in State, NEW N, NEW dep, TrieOf(c, N, dep), Bare(c, N), Marked(c), Indexed(c),
         NEW s \in LargeSizes, NEW q \in Seq(Chunks), Once(q), LargeRing(c.fd, c.bk, q), Len(q) # 1,
         \A k \in 1 .. Len(q) : c.size[q[k]] = s /\ (q[k] \in N <=> k = 1), NEW m \in 1 .. Len(q)
  PROVE  \E dep2 : LargeTaken(c, UnlinkLargeChunk(c, q[m]), q[m],
                              IF m = 1 THEN (N \ {q[1]}) \cup {q[2]} ELSE N, dep2, FALSE)
<1>1. PICK n \in Nat : n = Len(q) /\ n > 1 /\ \A j \in 1 .. n : q[j] \in Chunks
  <2>1. PICK n \in Nat : n = Len(q) /\ \A j \in 1 .. n : q[j] \in Chunks
    BY ListPlaces
  <2>2. n # 1 /\ m \in 1 .. n
    BY <2>1
  <2>3. n > 1
    BY <2>2
  <2> QED  BY <2>1, <2>3
<1>2. PICK x \in Chunks : x = q[m] /\ c.size[x] = s /\ (x \in N <=> m = 1)
  BY <1>1
<1>3. PICK f : f = c.fd[x]
  OBVIOUS
<1>4. PICK k : k = c.bk[x]
  OBVIOUS
<1>5. LargeNear(c.fd, c.bk, q, m)
  BY LargeNeighbours
<1>6. /\ k = IF m = n THEN q[1] ELSE q[m + 1]
      /\ f = IF m = 1 THEN q[n] ELSE q[m - 1]
      /\ c.fd[k] = x /\ c.bk[f] = x /\ k # x
  BY <1>1, <1>2, <1>3, <1>4, <1>5 DEF LargeNear
<1>7. f \in Chunks /\ k \in Chunks /\ f \in Linked /\ k \in Linked
  <2>1. (m # n => m + 1 \in 1 .. n) /\ (m # 1 => m - 1 \in 1 .. n) /\ 1 \in 1 .. n /\ n \in 1 .. n
    BY <1>1
  <2> QED  BY <1>1, <1>6, <2>1 DEF Linked
<1>8. PICK v : v = [c EXCEPT !.bk[f] = k, !.fd[k] = f]
  OBVIOUS
<1>9. UnlinkLargeChunk(c, x) = PutInPlace(v, x, k)
  <2>1. PICK leaf : leaf = Descent(c, x)[WordBits]
    OBVIOUS
  <2>2. Check(c, c.bk[f] = x /\ c.fd[k] = x) = c
    BY <1>6, Zenon DEF Check
  <2>3. DetachReplacement(c, x, leaf) = v
    BY <1>3, <1>4, <1>6, <1>8, <2>2, Zenon DEF DetachReplacement
  <2>4. Replacement(c, x, leaf) = k
    BY <1>4, <1>6, Zenon DEF Replacement
  <2> QED  BY <2>1, <2>3, <2>4, Zenon DEF UnlinkLargeChunk
<1>10. /\ v \in State /\ v.size = c.size /\ v.smallmap = c.smallmap /\ TreesSame(c, v)
       /\ Bridged(c.fd, c.bk, v.fd, v.bk, f, k, x)
  BY <1>7, <1>8, BridgeIs
<1>11. /\ v.treemap = c.treemap /\ v.treebins = c.treebins /\ v.child = c.child /\ v.parent = c.parent
       /\ v.index = c.index
  BY <1>10 DEF TreesSame
<1>12. TrieOf(v, N, dep) /\ Marked(v) /\ Bare(v, N)
  BY <1>10, <1>11 DEF TrieOf, TreeLinks, Marked, Bare
<1>13. CASE m # 1
  <2>1. v.parent[x] = Nil
    BY <1>2, <1>12, <1>13 DEF Bare
  <2>2. PutInPlace(v, x, k) = v
    BY <2>1, Zenon DEF PutInPlace
  <2>3. Bare(v, N \cup {x})
    BY <1>12 DEF Bare
  <2>4. LargeTaken(c, v, x, N, dep, FALSE)
    BY <1>3, <1>4, <1>10, <1>11, <1>12, <2>3 DEF LargeTaken
  <2> QED  BY <1>2, <1>9, <1>13, <2>2, <2>4
<1>14. CASE m = 1
  <2>1. k = q[2] /\ k \notin N /\ c.size[k] = s
    <3>1. m # n /\ 2 \in 1 .. n /\ m + 1 = 2
      BY <1>1, <1>14
    <3> QED  BY <1>1, <1>6, <3>1
  <2>2. x \in N
    BY <1>2, <1>14
  <2>3. HangsAt(v, N, dep, x)
    BY <1>12, <2>2, HangsAtIs
  <2>4. v.index[x] = BinOf(v.size, x)
    BY <1>2, <1>10, <1>11 DEF Indexed, BinOf
  <2>5. v.index[x] \in TreeIndexes /\ N \subseteq Chunks
    BY <1>10, <1>12 DEF State, TrieOf, Trie
  <2>6. v.parent[x] # Nil /\ (v.treebins[v.index[x]] # x => v.parent[x] \in N /\ v.parent[x] # x)
    BY <2>3, <2>4, <2>5 DEF HangsAt
  <2>7. \A j \in 0 .. 1 : v.child[k][j] = Nil
    BY <1>7, <1>12, <2>1 DEF Bare
  <2>8. PICK d : d = PutInPlace(v, x, k)
    OBVIOUS
  <2>9. Put(v, d, x, k)
    BY <1>6, <1>7, <1>10, <2>1, <2>5, <2>6, <2>7, <2>8, PutIs
  <2>10. BinOf(v.size, k) = BinOf(v.size, x) /\ v.size[k] \in LargeSizes /\ v.size[k] = v.size[x]
    BY <1>2, <1>10, <2>1 DEF BinOf
  <2>11. Agree(v.size[k], v.size[x], BinOf(v.size, x), dep[x])
    BY <2>10 DEF Agree
  <2>12. \A t \in N \ {x} : v.size[t] # v.size[k]
    BY <1>12, <2>2, <2>10 DEF TrieOf, Trie
  <2>13. Bare(v, N \cup {k})
    BY <1>12 DEF Bare
  <2>14. PICK e : e = WithDepth(dep, k, dep[x])
    OBVIOUS
  <2>15. TrieOf(d, (N \ {x}) \cup {k}, e) /\ Marked(d) /\ Bare(d, (N \ {x}) \cup {k} \cup {x})
    <3>1. k \in Chunks /\ k \notin N /\ TrieOf(v, N, dep) /\ x \in N /\ Marked(v)
      BY <1>7, <1>12, <2>1, <2>2
    <3>2. v.size[k] \in LargeSizes /\ BinOf(v.size, k) = BinOf(v.size, x)
      BY <2>10
    <3>3. /\ TrieOf(d, (N \ {x}) \cup {k}, WithDepth(dep, k, dep[x])) /\ Marked(d)
          /\ Bare(d, (N \ {x}) \cup {k} \cup {x})
      BY <2>4, <2>9, <2>11, <2>12, <2>13, <3>1, <3>2, NodePut
    <3> QED  BY <2>14, <3>3
  <2>16. LargeTaken(c, d, x, (N \ {x}) \cup {k}, e, FALSE)
    BY <1>3, <1>4, <1>10, <1>11, <2>9, <2>15 DEF Put, LargeTaken
  <2> QED  BY <1>2, <1>9, <1>14, <2>1, <2>8, <2>16
<1> QED  BY <1>13, <1>14

(* What taking x from its place changes.                                   *)
PlaceGone(c, d, dep, x) ==
  /\ d.size = c.size /\ d.parent = c.parent
  /\ \A j \in TreeIndexes : d.treebins[j] = IF c.treebins[j] = x THEN Nil ELSE c.treebins[j]
  /\ d.treemap = c.treemap \ {j \in TreeIndexes : c.treebins[j] = x}
  /\ \A t \in Chunks, k \in 0 .. 1 :
       d.child[t][k] = IF dep[x] # 0 /\ t = c.parent[x] /\ k = SlotOf(c, c.parent[x], x)
                       THEN Nil ELSE c.child[t][k]

(* The place of leaf x is emptied.                                         *)
LEMMA LeafGone ==
  ASSUME NEW c \in State, NEW N, NEW dep, TrieOf(c, N, dep), Bare(c, N), Marked(c), NEW x \in N,
         c.index[x] = BinOf(c.size, x), \A k \in 0 .. 1 : c.child[x][k] = Nil,
         NEW d \in State, PlaceGone(c, d, dep, x)
  PROVE  TrieOf(d, N \ {x}, dep) /\ Marked(d) /\ Bare(d, (N \ {x}) \cup {x})
<1>1. Trie(N, dep, c.size, c.treebins, c.child, c.parent)
  BY DEF TrieOf
<1>2. HangsAt(c, N, dep, x)
  BY HangsAtIs
<1>3. \A t \in N, k \in 0 .. 1 : d.child[t][k] = IF c.child[t][k] = x THEN Nil ELSE c.child[t][k]
  BY <1>1, <1>2 DEF HangsAt, Trie, PlaceGone
<1>4. LeafTaken(N, dep, c.size, c.treebins, c.child, c.parent, d.treebins, d.child, x)
  BY <1>3 DEF LeafTaken, PlaceGone
<1>5. Trie(N \ {x}, dep, c.size, d.treebins, d.child, c.parent)
  BY <1>1, <1>4, TrieTake
<1>6. TreeLinks(d)
  BY DEF State, TreeLinks
<1>7. x # Nil
  BY <1>1, TrieNode, SmallBinAssumption
<1>8. Marked(d)
  BY <1>7 DEF Marked, PlaceGone
<1>9. Bare(d, (N \ {x}) \cup {x})
  BY DEF Bare, PlaceGone
<1> QED  BY <1>5, <1>6, <1>8, <1>9 DEF TrieOf, PlaceGone

(* x is alone in its ring, and a leaf below it takes its place: what is    *)
(* left is the trie without x.                                             *)
LEMMA AloneReplaced ==
  ASSUME NEW c \in State, NEW N, NEW dep, TrieOf(c, N, dep), Bare(c, N), Marked(c), NEW x \in N,
         c.index[x] = BinOf(c.size, x), c.bk[x] = x, NEW leaf, leaf = Descent(c, x)[WordBits], leaf # x
  PROVE  \E dep2 : LargeTaken(c, UnlinkLargeChunk(c, x), x, N \ {x}, dep2, TRUE)
<1>1. Trie(N, dep, c.size, c.treebins, c.child, c.parent)
  BY DEF TrieOf
<1>2. leaf \in N /\ Under(dep, c.size, x, leaf) /\ \A k \in 0 .. 1 : c.child[leaf][k] = Nil
  BY DescentEnds
<1>3. x \in Chunks /\ leaf \in Chunks /\ dep[x] \in Nat /\ dep[leaf] \in Nat /\ N \subseteq Chunks
      /\ c.size[leaf] \in LargeSizes
  BY <1>1, <1>2, TrieNode DEF Trie
<1>4. dep[leaf] # 0
  <2>1. ASSUME dep[leaf] = 0 PROVE FALSE
    <3>1. dep[x] = dep[leaf]
      BY <1>2, <1>3, <2>1 DEF Under
    <3> QED  BY <1>1, <1>2, <3>1 DEF Trie
  <2> QED  BY <2>1
<1>5. HangsAt(c, N, dep, leaf)
  BY <1>2, HangsAtIs
<1>6. PICK p \in Chunks : p = c.parent[leaf]
  BY <1>3, <1>4, <1>5 DEF HangsAt
<1>7. PICK v : v = SetSlot(c, p, leaf, Nil)
  OBVIOUS
<1>8. SlotSet(c, v, p, SlotOf(c, p, leaf), Nil)
  BY <1>7, SetSlotIs
<1>9. /\ v \in State /\ v.fd = c.fd /\ v.bk = c.bk /\ v.size = c.size /\ v.smallmap = c.smallmap
      /\ v.treemap = c.treemap /\ v.treebins = c.treebins /\ v.parent = c.parent /\ v.index = c.index
      /\ \A y \in Chunks, j \in 0 .. 1 :
           v.child[y][j] = IF y = p /\ j = SlotOf(c, p, leaf) THEN Nil ELSE c.child[y][j]
  BY <1>8 DEF SlotSet
<1>10. UnlinkLargeChunk(c, x) = PutInPlace(v, x, leaf)
  <2>1. DetachReplacement(c, x, leaf) = v
    BY <1>6, <1>7, Zenon DEF DetachReplacement
  <2>2. Replacement(c, x, leaf) = leaf
    BY Zenon DEF Replacement
  <2> QED  BY <2>1, <2>2, Zenon DEF UnlinkLargeChunk
<1>11. PICK N1 : N1 = N \ {leaf}
  OBVIOUS
<1>12. Trie(N1, dep, v.size, v.treebins, v.child, v.parent)
  <2>1. \A j \in TreeIndexes : c.treebins[j] # leaf
    BY <1>4, <1>5 DEF HangsAt
  <2>2. \A t \in N, k \in 0 .. 1 : v.child[t][k] = IF c.child[t][k] = leaf THEN Nil ELSE c.child[t][k]
    BY <1>3, <1>4, <1>5, <1>6, <1>9 DEF HangsAt
  <2>3. LeafTaken(N, dep, c.size, c.treebins, c.child, c.parent, v.treebins, v.child, leaf)
    BY <1>2, <1>9, <2>1, <2>2 DEF LeafTaken
  <2>4. Trie(N \ {leaf}, dep, c.size, v.treebins, v.child, c.parent)
    BY <1>1, <1>2, <2>3, TrieTake
  <2> QED  BY <1>9, <1>11, <2>4
<1>13. TrieOf(v, N1, dep) /\ Marked(v)
  <2>1. TreeLinks(v)
    BY <1>9 DEF State, TreeLinks
  <2> QED  BY <1>9, <1>12, <2>1 DEF TrieOf, Marked
<1>14. Bare(v, N1 \cup {leaf})
  BY <1>9, <1>11 DEF Bare
<1>15. x \in N1 /\ leaf \notin N1
  BY <1>11
<1>16. HangsAt(v, N1, dep, x)
  BY <1>13, <1>15, HangsAtIs
<1>17. v.index[x] = BinOf(v.size, x) /\ v.index[x] \in TreeIndexes
  BY <1>3, <1>9 DEF State
<1>18. v.parent[x] # Nil
       /\ (v.treebins[v.index[x]] # x => v.parent[x] \in Chunks /\ v.parent[x] # x /\ v.parent[x] # leaf)
  BY <1>3, <1>11, <1>16, <1>17 DEF HangsAt
<1>19. \A k \in 0 .. 1 : v.child[leaf][k] = Nil
  BY <1>2, <1>3, <1>9
<1>20. PICK d : d = PutInPlace(v, x, leaf)
  OBVIOUS
<1>21. Put(v, d, x, leaf)
  BY <1>3, <1>9, <1>18, <1>19, <1>20, PutIs
<1>22. v.size[leaf] \in LargeSizes /\ BinOf(v.size, leaf) = BinOf(v.size, x)
  BY <1>2, <1>3, <1>9 DEF Under
<1>23. Agree(v.size[leaf], v.size[x], BinOf(v.size, x), dep[x])
  <2>1. Agree(c.size[x], c.size[leaf], BinOf(c.size, x), dep[x])
    BY <1>2 DEF Under
  <2>2. Agree(c.size[leaf], c.size[x], BinOf(c.size, x), dep[x])
    BY <1>3, <2>1, AgreeLaws
  <2> QED  BY <1>9, <2>2
<1>24. \A t \in N1 \ {x} : v.size[t] # v.size[leaf]
  BY <1>1, <1>2, <1>9, <1>11 DEF Trie
<1>25. /\ TrieOf(d, (N1 \ {x}) \cup {leaf}, WithDepth(dep, leaf, dep[x])) /\ Marked(d)
       /\ Bare(d, (N1 \ {x}) \cup {leaf} \cup {x})
  BY <1>3, <1>13, <1>14, <1>15, <1>17, <1>21, <1>22, <1>23, <1>24, NodePut
<1>26. (N1 \ {x}) \cup {leaf} = N \ {x}
  BY <1>2, <1>11
<1>27. LargeTaken(c, d, x, N \ {x}, WithDepth(dep, leaf, dep[x]), TRUE)
  <2>1. d \in State /\ d.size = c.size /\ d.smallmap = c.smallmap /\ d.index = c.index /\ d.fd = c.fd /\ d.bk = c.bk
    BY <1>9, <1>21 DEF Put
  <2>2. TrieOf(d, N \ {x}, WithDepth(dep, leaf, dep[x])) /\ Bare(d, (N \ {x}) \cup {x})
    BY <1>25, <1>26
  <2> QED  BY <1>25, <2>1, <2>2 DEF LargeTaken
<1> QED  BY <1>10, <1>20, <1>27

(* x is alone in its ring and has no children: its place is emptied.       *)
LEMMA AloneGone ==
  ASSUME NEW c \in State, NEW N, NEW dep, TrieOf(c, N, dep), Bare(c, N), Marked(c), NEW x \in N,
         c.index[x] = BinOf(c.size, x), c.bk[x] = x, x = Descent(c, x)[WordBits]
  PROVE  LargeTaken(c, UnlinkLargeChunk(c, x), x, N \ {x}, dep, TRUE)
<1>1. x \in Chunks /\ N \subseteq Chunks /\ x # Nil
  BY TrieNode, SmallBinAssumption DEF TrieOf, Trie
<1>2. \A k \in 0 .. 1 : c.child[x][k] = Nil
  <2>1. PICK leaf : leaf = Descent(c, x)[WordBits]
    OBVIOUS
  <2>2. \A k \in 0 .. 1 : c.child[leaf][k] = Nil
    BY <2>1, DescentEnds
  <2> QED  BY <2>1, <2>2
<1>3. HangsAt(c, N, dep, x)
  BY HangsAtIs
<1>4. PICK i \in TreeIndexes : i = c.index[x]
  BY <1>1 DEF State
<1>5. c.parent[x] # Nil /\ (\A j \in TreeIndexes : c.treebins[j] = x <=> (j = i /\ dep[x] = 0))
      /\ (dep[x] # 0 => c.parent[x] \in Chunks)
  BY <1>1, <1>3, <1>4 DEF HangsAt
<1>6. PICK d : d = IF c.treebins[i] = x
                   THEN [c EXCEPT !.treebins[i] = Nil, !.treemap = @ \ {i}]
                   ELSE SetSlot(c, c.parent[x], x, Nil)
  OBVIOUS
<1>7. UnlinkLargeChunk(c, x) = d
  <2>1. PICK leaf : leaf = Descent(c, x)[WordBits]
    OBVIOUS
  <2>2. leaf = x
    BY <2>1
  <2>3. DetachReplacement(c, x, leaf) = c
    BY <2>2, Zenon DEF DetachReplacement
  <2>4. Replacement(c, x, leaf) = Nil
    BY <2>2, Zenon DEF Replacement
  <2>5. UnlinkLargeChunk(c, x) = PutInPlace(c, x, Nil)
    BY <2>1, <2>3, <2>4, Zenon DEF UnlinkLargeChunk
  <2>6. PutInPlace(c, x, Nil) = IF c.treebins[i] = x
                   THEN [c EXCEPT !.treebins[i] = Nil, !.treemap = IF Nil = Nil THEN @ \ {i} ELSE @]
                   ELSE SetSlot(c, c.parent[x], x, Nil)
    BY <1>4, <1>5, Zenon DEF PutInPlace
  <2> QED  BY <1>6, <2>5, <2>6
<1>8. /\ d \in State /\ d.fd = c.fd /\ d.bk = c.bk /\ d.size = c.size /\ d.smallmap = c.smallmap
      /\ d.index = c.index /\ d.parent = c.parent
      /\ (\A j \in TreeIndexes : d.treebins[j] = IF c.treebins[j] = x THEN Nil ELSE c.treebins[j])
      /\ d.treemap = c.treemap \ {j \in TreeIndexes : c.treebins[j] = x}
      /\ \A t \in Chunks, k \in 0 .. 1 :
           d.child[t][k] = IF dep[x] # 0 /\ t = c.parent[x] /\ k = SlotOf(c, c.parent[x], x)
                           THEN Nil ELSE c.child[t][k]
  <2>1. CASE c.treebins[i] = x
    <3>1. {j \in TreeIndexes : c.treebins[j] = x} = {i} /\ dep[x] = 0
      BY <1>5, <2>1
    <3>2. c.treebins \in [TreeIndexes -> Chunks \cup {Nil}] /\ c.treemap \in SUBSET TreeIndexes
      BY DEF State
    <3>3. d = [c EXCEPT !.treebins = [@ EXCEPT ![i] = Nil], !.treemap = @ \ {i}]
      BY <1>6, <2>1 DEF State
    <3>4. /\ d.fd = c.fd /\ d.bk = c.bk /\ d.size = c.size /\ d.smallmap = c.smallmap
          /\ d.index = c.index /\ d.parent = c.parent /\ d.child = c.child
          /\ d.treebins = [c.treebins EXCEPT ![i] = Nil] /\ d.treemap = c.treemap \ {i}
      BY <3>3 DEF State
    <3>5. d \in State
      <4>1. [c.treebins EXCEPT ![i] = Nil] \in [TreeIndexes -> Chunks \cup {Nil}] /\ c.treemap \ {i} \in SUBSET TreeIndexes
        BY <3>2
      <4> QED  BY <3>3, <4>1 DEF State
    <3>6. \A j \in TreeIndexes : d.treebins[j] = IF c.treebins[j] = x THEN Nil ELSE c.treebins[j]
      BY <1>5, <2>1, <3>2, <3>4
    <3> QED  BY <3>1, <3>4, <3>5, <3>6
  <2>2. CASE c.treebins[i] # x
    <3>1. {j \in TreeIndexes : c.treebins[j] = x} = {} /\ dep[x] # 0
      BY <1>5, <2>2
    <3>2. SlotSet(c, d, c.parent[x], SlotOf(c, c.parent[x], x), Nil)
      BY <1>5, <1>6, <2>2, <3>1, SetSlotIs
    <3>3. \A j \in TreeIndexes : d.treebins[j] = IF c.treebins[j] = x THEN Nil ELSE c.treebins[j]
      BY <3>1, <3>2 DEF SlotSet
    <3> QED  BY <3>1, <3>2, <3>3 DEF SlotSet
  <2> QED  BY <2>1, <2>2
<1>9. TrieOf(d, N \ {x}, dep) /\ Marked(d) /\ Bare(d, (N \ {x}) \cup {x})
  <2>1. d \in State /\ PlaceGone(c, d, dep, x)
    BY <1>8 DEF PlaceGone
  <2> QED  BY <1>2, <2>1, LeafGone
<1>10. LargeTaken(c, d, x, N \ {x}, dep, TRUE)
  BY <1>8, <1>9 DEF LargeTaken
<1> QED  BY <1>7, <1>10

(* The nodes when chunk m of list q, of a large size, is taken.            *)
LEMMA LargeTakenIs ==
  ASSUME NEW c, NEW L, NEW dep, Inv(c, L, dep), NEW s \in ChunkSizes, ~IsSmall(s),
         NEW q \in Seq(Chunks), q = L[s], Once(q), LargeRing(c.fd, c.bk, q),
         \A k \in 1 .. Len(q) : c.size[q[k]] = s, NEW m \in 1 .. Len(q)
  PROVE  \E N2, dep2 : /\ LargeTaken(c, UnlinkLargeChunk(c, q[m]), q[m], N2, dep2, Len(q) = 1)
                       /\ N2 = Heads(With(L, s, Without(q, m)))
<1>1. PICK N : N = Heads(L)
  OBVIOUS
<1>2. c \in State /\ ListsOK(c, L) /\ Marked(c) /\ Indexed(c) /\ Bare(c, N) /\ TrieOf(c, N, dep)
  BY <1>1 DEF Inv
<1>3. PICK n \in Nat : n = Len(q) /\ n > 0 /\ m \in 1 .. n /\ q # <<>> /\ \A j \in 1 .. n : q[j] \in Chunks
  <2>1. PICK n \in Nat : n = Len(q) /\ \A j \in 1 .. n : q[j] \in Chunks
    BY ListPlaces
  <2>2. n > 0
    BY <2>1
  <2>3. q # <<>>
    BY <2>1, <2>2, ListPlaces
  <2> QED  BY <2>1, <2>2, <2>3
<1>4. PICK x \in Chunks : x = q[m] /\ c.size[x] = s
  BY <1>3
<1>5. \A k \in 1 .. n : q[k] \in N <=> k = 1
  <2>1. \A h \in N : c.size[h] = s => h = q[1]
    BY <1>1, <1>2, HeadsAre
  <2>2. q[1] \in N
    BY <1>1, <1>2, <1>3, HeadsAre
  <2>3. \A k \in 1 .. n : q[k] = q[1] => k = 1
    BY <1>3 DEF Once
  <2> QED  BY <1>3, <2>1, <2>2, <2>3
<1>6. PICK r : r = Without(q, m)
  OBVIOUS
<1>7. r \in Seq(Chunks) /\ Once(r) /\ Skips(r, q, m)
  BY <1>6, WithoutIs
<1>8. Len(r) = n - 1 /\ (r = <<>> <=> n = 1)
  <2>1. Len(r) \in Nat /\ (r # <<>> <=> Len(r) > 0)
    BY <1>7, ListPlaces
  <2>2. Len(r) = n - 1
    BY <1>3, <1>7 DEF Skips
  <2>3. CASE n = 1
    <3>1. ~(Len(r) > 0)
      BY <2>2, <2>3
    <3> QED  BY <2>1, <2>2, <2>3, <3>1
  <2>4. CASE n # 1
    <3>1. n \in Nat /\ n > 0
      BY <1>3
    <3>2. n - 1 > 0
      BY <2>4, <3>1
    <3>3. Len(r) > 0
      BY <2>2, <3>2
    <3> QED  BY <2>1, <2>2, <2>4, <3>3
  <2> QED  BY <2>3, <2>4
<1>9. n # 1 => r[1] = IF m = 1 THEN q[2] ELSE q[1]
  <2>1. ASSUME n # 1 PROVE 1 \in 1 .. Len(r)
    BY <1>3, <1>8, <2>1
  <2> QED  BY <1>3, <1>7, <2>1 DEF Skips
<1>10. PICK H : H = {h \in N : c.size[h] # s}
  OBVIOUS
<1>11. Heads(With(L, s, r)) = H \cup (IF r = <<>> THEN {} ELSE {r[1]})
  BY <1>1, <1>2, <1>10, HeadsLarge
<1>12. H = N \ {q[1]}
  <2>1. \A h \in N : c.size[h] = s <=> h = q[1]
    BY <1>1, <1>2, <1>3, HeadsAre
  <2> QED  BY <1>10, <2>1
<1>13. CASE n # 1
  <2>1. s \in LargeSizes
    BY SizesAre
  <2>2. PICK dep2 : LargeTaken(c, UnlinkLargeChunk(c, q[m]), q[m],
                               IF m = 1 THEN (N \ {q[1]}) \cup {q[2]} ELSE N, dep2, FALSE)
    <3>1. /\ c \in State /\ TrieOf(c, N, dep) /\ Bare(c, N) /\ Marked(c) /\ Indexed(c)
          /\ Once(q) /\ LargeRing(c.fd, c.bk, q) /\ Len(q) # 1
          /\ \A k \in 1 .. Len(q) : c.size[q[k]] = s /\ (q[k] \in N <=> k = 1)
      BY <1>2, <1>3, <1>5, <1>13
    <3>2. m \in 1 .. Len(q)
      BY <1>3
    <3> QED  BY <2>1, <3>1, <3>2, RingTaken
  <2>3. Heads(With(L, s, r)) = IF m = 1 THEN (N \ {q[1]}) \cup {q[2]} ELSE N
    <3>1. Heads(With(L, s, r)) = (N \ {q[1]}) \cup {r[1]}
      BY <1>8, <1>11, <1>12, <1>13
    <3>2. q[1] \in N
      BY <1>3, <1>5
    <3> QED  BY <1>9, <1>13, <3>1, <3>2
  <2>4. LargeTaken(c, UnlinkLargeChunk(c, q[m]), q[m], Heads(With(L, s, r)), dep2, FALSE)
    BY <2>2, <2>3
  <2>5. (Len(q) = 1) = FALSE
    BY <1>3, <1>13
  <2> QED  BY <1>6, <2>4, <2>5
<1>14. CASE n = 1
  <2>1. m = 1 /\ x \in N /\ x = q[1]
    BY <1>3, <1>4, <1>5, <1>14
  <2>2. Heads(With(L, s, r)) = N \ {x}
    BY <1>8, <1>11, <1>12, <1>14, <2>1
  <2>3. c.bk[x] = x
    <3>1. LargeNear(c.fd, c.bk, q, m)
      BY LargeNeighbours
    <3> QED  BY <1>3, <1>4, <1>14, <3>1 DEF LargeNear
  <2>4. c.index[x] = BinOf(c.size, x)
    <3>1. c.size[x] \in LargeSizes
      BY <1>4, SizesAre
    <3> QED  BY <1>2, <3>1 DEF Indexed, BinOf
  <2>5. PICK leaf : leaf = Descent(c, x)[WordBits]
    OBVIOUS
  <2>6. \E dep2 : LargeTaken(c, UnlinkLargeChunk(c, x), x, N \ {x}, dep2, TRUE)
    <3>1. CASE leaf # x
      BY <1>2, <2>1, <2>3, <2>4, <2>5, <3>1, AloneReplaced
    <3>2. CASE leaf = x
      BY <1>2, <2>1, <2>3, <2>4, <2>5, <3>2, AloneGone
    <3> QED  BY <3>1, <3>2
  <2>7. PICK dep2 : LargeTaken(c, UnlinkLargeChunk(c, q[m]), q[m], Heads(With(L, s, r)), dep2, TRUE)
    BY <1>4, <2>2, <2>6
  <2>8. (Len(q) = 1) = TRUE
    BY <1>3, <1>14
  <2> QED  BY <1>6, <2>7, <2>8
<1> QED  BY <1>13, <1>14

(* unlink_large_chunk takes the chunk from the list of its size.           *)
LEMMA UnlinkLargeKeeps ==
  ASSUME NEW c, NEW L, NEW dep, Inv(c, L, dep), NEW s \in ChunkSizes, ~IsSmall(s),
         NEW m \in 1 .. Len(L[s])
  PROVE  \E dep2 : Inv(UnlinkChunk(c, L[s][m]), With(L, s, Without(L[s], m)), dep2)
<1>1. c \in State /\ ListsOK(c, L) /\ MarkedSmall(c, L) /\ Indexed(c)
  BY DEF Inv
<1>2. PICK q \in Seq(Chunks) : /\ q = L[s] /\ Once(q) /\ Elements(q) = {y \in Chunks : c.size[y] = s}
                               /\ Len(q) \in Nat /\ (q # <<>> <=> Len(q) > 0)
                               /\ \A k \in 1 .. Len(q) : q[k] \in Chunks /\ c.size[q[k]] = s
                               /\ (q # <<>> => Ring(c.fd, c.bk, s, q))
  BY <1>1, ListOfSize
<1>3. m \in 1 .. Len(q) /\ Len(q) > 0 /\ q # <<>>
  <2>1. m \in 1 .. Len(q)
    BY <1>2
  <2>2. Len(q) > 0
    BY <1>2, <2>1
  <2> QED  BY <1>2, <2>1, <2>2
<1>4. PICK p \in Chunks : p = q[m] /\ c.size[p] = s
  BY <1>2, <1>3
<1>5. LargeRing(c.fd, c.bk, q)
  BY <1>2, <1>3 DEF Ring
<1>6. PICK u : u = UnlinkLargeChunk(c, p)
  OBVIOUS
<1>7. PICK r : r = Without(q, m)
  OBVIOUS
<1>8. PICK N2, e : LargeTaken(c, u, p, N2, e, Len(q) = 1) /\ N2 = Heads(With(L, s, r))
  <2>1. \E N3, dep2 : /\ LargeTaken(c, UnlinkLargeChunk(c, q[m]), q[m], N3, dep2, Len(q) = 1)
                      /\ N3 = Heads(With(L, s, Without(q, m)))
    BY <1>2, <1>3, <1>5, LargeTakenIs
  <2> QED  BY <1>4, <1>6, <1>7, <2>1
<1>9. /\ u \in State /\ u.size = c.size /\ u.smallmap = c.smallmap /\ u.index = c.index
      /\ Marked(u) /\ TrieOf(u, N2, e) /\ Bare(u, N2 \cup {p})
      /\ (Len(q) = 1 => u.fd = c.fd /\ u.bk = c.bk)
      /\ (Len(q) # 1 => Bridged(c.fd, c.bk, u.fd, u.bk, c.fd[p], c.bk[p], p))
  BY <1>8 DEF LargeTaken
<1>10. PICK d : d = UnlinkChunk(c, p)
  OBVIOUS
<1>11. Forgotten(u, d, p)
  <2>1. d = Forget(u, p)
    BY <1>4, <1>6, <1>10 DEF UnlinkChunk
  <2> QED  BY <1>9, <2>1, ForgetIs
<1>12. /\ d \in State /\ d.smallmap = c.smallmap /\ d.treemap = u.treemap /\ d.treebins = u.treebins
       /\ d.size[p] = 0 /\ (\A y \in Chunks : y # p => d.size[y] = c.size[y])
       /\ (\A y \in Linked : y # p => d.fd[y] = u.fd[y] /\ d.bk[y] = u.bk[y])
       /\ d.parent[p] = Nil /\ (\A j \in 0 .. 1 : d.child[p][j] = Nil)
       /\ (\A y \in Chunks : y # p => d.child[y] = u.child[y] /\ d.parent[y] = u.parent[y] /\ d.index[y] = c.index[y])
  BY <1>9, <1>11 DEF Forgotten
<1>13. s # 0
  BY SizesAre
<1>14. r \in Seq(Chunks) /\ Once(r) /\ Elements(r) = Elements(q) \ {p}
  BY <1>2, <1>3, <1>4, <1>7, WithoutIs
<1>15. r # <<>> => Len(q) # 1
  <2>1. Skips(r, q, m) /\ Len(r) \in Nat /\ (r # <<>> <=> Len(r) > 0)
    BY <1>2, <1>3, <1>7, <1>14, WithoutIs, ListPlaces
  <2>2. Len(r) = Len(q) - 1
    BY <2>1 DEF Skips
  <2>3. Len(q) = 1 => ~(Len(r) > 0)
    BY <1>2, <2>1, <2>2
  <2> QED  BY <2>1, <2>3
<1>16. c.fd[p] \in Elements(q) /\ c.bk[p] \in Elements(q)
  <2>1. LargeNear(c.fd, c.bk, q, m)
    BY <1>2, <1>3, <1>5, LargeNeighbours
  <2>2. (m # Len(q) => m + 1 \in 1 .. Len(q)) /\ (m # 1 => m - 1 \in 1 .. Len(q))
        /\ 1 \in 1 .. Len(q) /\ Len(q) \in 1 .. Len(q)
    BY <1>2, <1>3
  <2> QED  BY <1>4, <2>1, <2>2 DEF LargeNear, Elements
<1>17. ListsOK(d, With(L, s, r))
  <2>1. OthersSame(c, d, p, s)
    <3>1. \A y \in Linked : y # p /\ (y \in Chunks => c.size[y] # s) => y # c.fd[p] /\ y # c.bk[p]
      BY <1>2, <1>16
    <3>2. \A y \in Linked : y # p /\ (y \in Chunks => c.size[y] # s) => u.fd[y] = c.fd[y] /\ u.bk[y] = c.bk[y]
      BY <1>9, <3>1 DEF Bridged
    <3> QED  BY <1>4, <1>12, <3>2 DEF OthersSame
  <2>2. Elements(r) = {y \in Chunks : d.size[y] = s}
    BY <1>2, <1>12, <1>13, <1>14
  <2>3. ASSUME r # <<>>
        PROVE  Ring(d.fd, d.bk, s, r)
    <3>1. Len(q) # 1 /\ Bridged(c.fd, c.bk, u.fd, u.bk, c.fd[q[m]], c.bk[q[m]], q[m])
      BY <1>4, <1>9, <1>15, <2>3
    <3>2. LargeRing(u.fd, u.bk, r)
      BY <1>2, <1>3, <1>5, <1>7, <3>1, LargeRingShrinks
    <3>3. \A y \in Elements(r) : d.fd[y] = u.fd[y] /\ d.bk[y] = u.bk[y]
      BY <1>2, <1>12, <1>14 DEF Linked
    <3>4. LargeRing(d.fd, d.bk, r)
      BY <1>14, <2>3, <3>2, <3>3, NodeSame
    <3> QED  BY <3>4 DEF Ring
  <2> QED  BY <1>1, <1>14, <2>1, <2>2, <2>3, ListsStep
<1>18. MarkedSmall(d, With(L, s, r))
  <2>1. \A z \in ChunkSizes : IsSmall(z) => With(L, s, r)[z] = L[z]
    BY DEF With
  <2> QED  BY <1>1, <1>12, <2>1 DEF MarkedSmall
<1>19. \A t \in N2 : t \in Chunks /\ t # p
  <2>1. \A t \in N2 : t \in Chunks /\ d.size[t] # 0
    <3>1. \A t \in N2 : t \in Chunks /\ d.size[t] \in ChunkSizes
      BY <1>8, <1>17, HeadsAre
    <3> QED  BY <3>1, SizesAre
  <2> QED  BY <1>12, <2>1
<1>20. TrieOf(d, N2, e)
  <2>1. Trie(N2, e, u.size, u.treebins, u.child, u.parent)
    BY <1>9 DEF TrieOf
  <2>2. \A t \in N2 : d.size[t] = u.size[t] /\ d.parent[t] = u.parent[t] /\ \A j \in 0 .. 1 : d.child[t][j] = u.child[t][j]
    BY <1>9, <1>12, <1>19
  <2>3. Trie(N2, e, d.size, d.treebins, d.child, d.parent)
    BY <1>12, <2>1, <2>2, TrieSame
  <2>4. TreeLinks(d)
    BY <1>12 DEF State, TreeLinks
  <2> QED  BY <2>3, <2>4 DEF TrieOf
<1>21. Marked(d) /\ Bare(d, N2)
  <2>1. Marked(d)
    BY <1>9, <1>12 DEF Marked
  <2>2. Bare(d, N2)
    BY <1>9, <1>12 DEF Bare
  <2> QED  BY <2>1, <2>2
<1>22. Indexed(d)
  <2>1. 0 \notin LargeSizes
    BY SizeBounds DEF LargeSizes
  <2> QED  BY <1>1, <1>12, <2>1 DEF Indexed
<1>23. Inv(d, With(L, s, r), e)
  BY <1>8, <1>12, <1>17, <1>18, <1>20, <1>21, <1>22 DEF Inv
<1> QED  BY <1>2, <1>4, <1>7, <1>10, <1>23

(* A chunk leaves the list of its size.                                    *)
LEMMA UnlinkKeeps ==
  ASSUME NEW c, NEW L, NEW dep, Inv(c, L, dep), NEW s \in ChunkSizes, NEW m \in 1 .. Len(L[s])
  PROVE  \E dep2 : Inv(UnlinkChunk(c, L[s][m]), With(L, s, Without(L[s], m)), dep2)
BY UnlinkSmallKeeps, UnlinkLargeKeeps

-----------------------------------------------------------------------------
(* malloc and its relatives keep the invariant.                            *)

(* The lists without the first chunk of size s, and with chunk x of size d.*)
Popped(L, s) == With(L, s, Without(L[s], 1))
Refiled(L, x, d) == IF d = 0 THEN L ELSE With(L, d, Added(L[d], d, x))

(* The least size that is in the lists and fits nb.                        *)
Chosen(L, nb, s) ==
  /\ s \in ChunkSizes /\ L[s] # <<>> /\ s >= nb
  /\ \A z \in ChunkSizes : L[z] # <<>> /\ z >= nb => s <= z

(* A chunk in no list is in none after another one left.                   *)
LEMMA StaysOut ==
  ASSUME NEW c, NEW L, ListsOK(c, L), NEW s \in ChunkSizes, NEW m \in 1 .. Len(L[s]),
         NEW M, M = With(L, s, Without(L[s], m)), NEW d \in State, ListsOK(d, M),
         NEW x \in Chunks, c.size[x] = 0
  PROVE  d.size[x] = 0
<1>1. ListsOK(c, L) /\ ListsOK(d, With(L, s, Without(L[s], m))) /\ d \in State
  OBVIOUS
<1>2. PICK q \in Seq(Chunks) : q = L[s] /\ Once(q)
  BY <1>1 DEF ListsOK
<1>3. m \in 1 .. Len(q)
  BY <1>2
<1>4. Elements(Without(q, m)) = Elements(q) \ {q[m]}
  BY <1>2, <1>3, WithoutIs
<1>5. ASSUME d.size[x] # 0 PROVE FALSE
  <2>1. PICK z \in ChunkSizes : z = d.size[x] /\ z # 0
    <3>1. d.size \in [Chunks -> {0} \cup ChunkSizes]
      BY <1>1 DEF State
    <3> QED  BY <1>5, <3>1
  <2>2. x \in Elements(With(L, s, Without(q, m))[z])
    BY <1>1, <1>2, <2>1 DEF ListsOK
  <2>3. x \in Elements(L[z])
    BY <1>2, <1>4, <2>2 DEF With
  <2>4. c.size[x] = z
    BY <1>1, <2>3 DEF ListsOK
  <2> QED  BY <2>1, <2>4
<1> QED  BY <1>5

(* Taking the first chunk of a smallbin pops its list;                     *)
LEMMA TakeFirstKeeps ==
  ASSUME NEW c, NEW L, NEW dep, Inv(c, L, dep), NEW s \in ChunkSizes, IsSmall(s), L[s] # <<>>
  PROVE  \E dep2 : Inv(TakeFirst(c, SmallIndex(s)), Popped(L, s), dep2)
<1>1. PICK q \in Seq(Chunks) : q = L[s] /\ Len(q) \in Nat /\ (q # <<>> <=> Len(q) > 0)
  <2>1. ListsOK(c, L)
    BY DEF Inv
  <2> QED  BY <2>1, ListOfSize
<1>2. 1 \in 1 .. Len(L[s])
  BY <1>1
<1>3. TakeFirst(c, SmallIndex(s)) = UnlinkChunk(c, L[s][1])
  BY TakeFirstIs
<1> QED  BY <1>2, <1>3, UnlinkKeeps DEF Popped

(* taking a node pops the list of its size;                                *)
LEMMA TakeNodeKeeps ==
  ASSUME NEW c, NEW L, NEW dep, Inv(c, L, dep), NEW v \in Heads(L)
  PROVE  /\ c.size[v] \in ChunkSizes /\ ~IsSmall(c.size[v]) /\ L[c.size[v]] # <<>>
         /\ \E dep2 : Inv(TakeNode(c, v), Popped(L, c.size[v]), dep2)
<1>0. ListsOK(c, L)
  BY DEF Inv
<1>1. PICK s \in ChunkSizes : s = c.size[v] /\ ~IsSmall(s) /\ L[s] # <<>> /\ L[s][1] = v
  BY <1>0, HeadsAre
<1>2. PICK q \in Seq(Chunks) : q = L[s] /\ Len(q) \in Nat /\ (q # <<>> <=> Len(q) > 0)
  BY <1>0, ListOfSize
<1>3. 1 \in 1 .. Len(L[s])
  BY <1>1, <1>2
<1>4. TakeNode(c, v) = UnlinkChunk(c, L[s][1])
  BY <1>1 DEF TakeNode, UnlinkChunk
<1>5. \E dep2 : Inv(TakeNode(c, v), Popped(L, s), dep2)
  BY <1>3, <1>4, UnlinkKeeps DEF Popped
<1> QED  BY <1>1, <1>5

(* and replace_dv adds the old victim to the list of its size, if there is *)
(* one.                                                                    *)
LEMMA ReplaceDvKeeps ==
  ASSUME NEW c, NEW L, NEW dep, Inv(c, L, dep), NEW x \in Chunks, c.size[x] = 0,
         NEW d \in DvSizes, d # 0 => IsSmall(d)
  PROVE  \E dep2 : Inv(ReplaceDv(c, x, d), Refiled(L, x, d), dep2)
<1>1. CASE d = 0
  BY <1>1 DEF ReplaceDv, Refiled
<1>2. CASE d # 0
  <2>1. d \in ChunkSizes
    BY <1>2, BinsAssumption
  <2>2. ReplaceDv(c, x, d) = InsertChunk(c, x, d)
    BY <1>2 DEF ReplaceDv, InsertChunk, Check
  <2> QED  BY <1>2, <2>1, <2>2, InsertKeeps DEF Refiled
<1> QED  BY <1>1, <1>2

(* The bits of smallmap that malloc looks for.                             *)
LEMMA SmallBits ==
  ASSUME NEW c, NEW L, NEW dep, Inv(c, L, dep), NEW nb \in Requests, IsSmall(nb)
  PROVE  /\ ExactBins(c, nb) = IF nb \in ChunkSizes /\ L[nb] # <<>> THEN {SmallIndex(nb)} ELSE {}
         /\ \A s \in ChunkSizes : IsSmall(s) /\ L[s] # <<>> /\ s > nb <=>
              IsSmall(s) /\ s \in ChunkSizes /\ SmallIndex(s) \in NextSmallBins(c, nb)
         /\ \A i \in NextSmallBins(c, nb) : \E s \in ChunkSizes : i = SmallIndex(s) /\ IsSmall(s)
<1>1. PICK S : S = {z \in ChunkSizes : IsSmall(z) /\ L[z] # <<>>}
  OBVIOUS
<1>2. c.smallmap = {SmallIndex(s) : s \in S}
  BY <1>1 DEF Inv, MarkedSmall
<1>3. nb \in Nat /\ \A s \in ChunkSizes : s \in Nat
  BY SizesAre, BinsAssumption, SmallBinAssumption
<1>4. \A s \in S : SmallIndex(s) # SmallIndex(nb) + 1 /\ (SmallIndex(s) = SmallIndex(nb) <=> s = nb)
                   /\ (SmallIndex(s) > SmallIndex(nb) <=> s > nb)
  BY <1>1, <1>3 DEF SmallIndex
<1>5. \A s \in ChunkSizes : SmallIndex(s) \in c.smallmap <=> s \in S
  <2>1. \A s \in ChunkSizes, z \in S : SmallIndex(s) = SmallIndex(z) => s = z
    BY <1>1, <1>3 DEF SmallIndex
  <2> QED  BY <1>2, <2>1
<1>6. ExactBins(c, nb) = IF nb \in ChunkSizes /\ L[nb] # <<>> THEN {SmallIndex(nb)} ELSE {}
  <2>1. nb \in S <=> nb \in ChunkSizes /\ L[nb] # <<>>
    BY <1>1
  <2>2. SmallIndex(nb) + 1 \notin c.smallmap /\ (SmallIndex(nb) \in c.smallmap <=> nb \in S)
    BY <1>2, <1>4
  <2> QED  BY <2>1, <2>2 DEF ExactBins
<1>7. \A s \in ChunkSizes : IsSmall(s) /\ L[s] # <<>> /\ s > nb <=>
        IsSmall(s) /\ s \in ChunkSizes /\ SmallIndex(s) \in NextSmallBins(c, nb)
  BY <1>1, <1>4, <1>5 DEF NextSmallBins
<1>8. \A i \in NextSmallBins(c, nb) : \E s \in ChunkSizes : i = SmallIndex(s) /\ IsSmall(s)
  BY <1>1, <1>2 DEF NextSmallBins
<1> QED  BY <1>6, <1>7, <1>8

(* The first of the smallbins above that of nb.                            *)
LEMMA NextSmallIs ==
  ASSUME NEW c, NEW L, NEW dep, Inv(c, L, dep), NEW nb \in Requests, IsSmall(nb),
         ExactBins(c, nb) = {}, NextSmallBins(c, nb) # {}
  PROVE  \E s \in ChunkSizes : /\ IsSmall(s) /\ Chosen(L, nb, s) /\ LeastBit(NextSmallBins(c, nb)) = SmallIndex(s)
                               /\ SmallIndex2Size(SmallIndex(s)) = s /\ s # nb
<1>1. PICK S : S = NextSmallBins(c, nb)
  OBVIOUS
<1>2. \A i \in S : \E s \in ChunkSizes : i = SmallIndex(s) /\ IsSmall(s)
  BY <1>1, SmallBits
<1>3. \A s \in ChunkSizes : s \in Nat /\ SmallIndex(s) \in Nat /\ SmallIndex2Size(SmallIndex(s)) = s
                            /\ (IsSmall(s) <=> s < SmallLimit)
  BY SizesAre DEF SmallIndex, SmallIndex2Size
<1>4. S \subseteq Nat /\ S # {}
  BY <1>1, <1>2, <1>3
<1>5. PICK i \in S : i = LeastBit(S) /\ \A j \in S : i <= j
  BY <1>4, LeastBitIs
<1>6. PICK s \in ChunkSizes : i = SmallIndex(s) /\ IsSmall(s)
  BY <1>2
<1>7. L[s] # <<>> /\ s > nb
  BY <1>1, <1>5, <1>6, SmallBits
<1>8. nb \in Nat /\ nb < SmallLimit /\ SmallLimit \in Nat
  BY BinsAssumption, SmallBinAssumption DEF IsSmall, SmallIndex, SmallIndexes
<1>9. ASSUME NEW z \in ChunkSizes, L[z] # <<>>, z >= nb
      PROVE  s <= z
  <2>1. z # nb
    BY <1>9, SmallBits
  <2>2. z > nb
    BY <1>3, <1>8, <1>9, <2>1
  <2>3. CASE IsSmall(z)
    <3>1. SmallIndex(z) \in S
      BY <1>1, <1>9, <2>2, <2>3, SmallBits
    <3>2. SmallIndex(s) <= SmallIndex(z)
      BY <1>5, <1>6, <3>1
    <3> QED  BY <1>3, <3>2 DEF SmallIndex
  <2>4. CASE ~IsSmall(z)
    BY <1>3, <1>6, <1>8, <2>4
  <2> QED  BY <2>3, <2>4
<1> QED  BY <1>1, <1>3, <1>5, <1>6, <1>7, <1>8, <1>9 DEF Chosen

(* The lists after malloc took the first chunk of size s for nb, the       *)
(* victim x, of size d, or the rest x being binned if any chunk is.        *)
Filled(L, s, nb, x, d) ==
  IF s - nb < MinChunk THEN Popped(L, s)
  ELSE Refiled(Popped(L, s), x, IF IsSmall(nb) THEN d ELSE s - nb)

(* A chunk in no list is in none after a list was popped.                  *)
LEMMA PoppedOut ==
  ASSUME NEW c, NEW L, NEW dep, Inv(c, L, dep), NEW s \in ChunkSizes, L[s] # <<>>,
         NEW d, NEW dep2, Inv(d, Popped(L, s), dep2), NEW x \in Chunks, c.size[x] = 0
  PROVE  d.size[x] = 0
<1>1. Len(L[s]) \in Nat /\ Len(L[s]) > 0
  <2>1. ListsOK(c, L)
    BY DEF Inv
  <2> QED  BY <2>1, ListOfSize
<1>2. PICK k \in 1 .. Len(L[s]) : k = 1
  BY <1>1
<1>3. PICK M : M = Popped(L, s)
  OBVIOUS
<1>4. M = With(L, s, Without(L[s], k))
  BY <1>2, <1>3 DEF Popped
<1>5. ListsOK(c, L) /\ ListsOK(d, M) /\ d \in State
  BY <1>3 DEF Inv
<1> QED  BY <1>4, <1>5, StaysOut

(* What the requests are.                                                  *)
LEMMA RequestsAre ==
  \A nb \in Requests : /\ nb \in Nat /\ IsRequest(nb) /\ (IsSmall(nb) <=> nb < SmallLimit)
                       /\ (~IsSmall(nb) => nb \in LargeSizes)
<1> TAKE nb \in Requests
<1>1. nb \in Nat /\ 0 < nb /\ nb < AddrSpace
  BY SizeBounds, BinsAssumption, SmallBinAssumption
<1> QED  BY <1>1, SizeBounds DEF LargeSizes, IsRequest

(* A victim too small for a small request is small.                        *)
LEMMA VictimSmall ==
  ASSUME NEW nb \in Requests, IsSmall(nb), NEW d \in DvSizes, nb > d
  PROVE  d # 0 => d \in ChunkSizes /\ IsSmall(d)
<1>1. d # 0 => d \in ChunkSizes /\ d \in Nat
  BY SizesAre, BinsAssumption
<1>2. nb \in Nat /\ nb < SmallLimit /\ SmallLimit \in Nat
  BY RequestsAre, SizeBounds
<1>3. d \in ChunkSizes => (IsSmall(d) <=> d < SmallLimit)
  BY SizesAre
<1> QED  BY <1>1, <1>2, <1>3

(* What a malloc step makes of the lists.                                  *)
Serves(L, nb, d, s) == Chosen(L, nb, s) /\ IF IsSmall(nb) THEN s = nb \/ nb > d ELSE s - nb < Word(d - nb)

(* malloc() of a small size with an exact fit pops the list of that size;  *)
LEMMA ExactStep ==
  ASSUME NEW L, NEW dep, Inv(b, L, dep), NEW nb \in Requests, MallocExact(nb)
  PROVE  /\ nb \in ChunkSizes /\ L[nb] # <<>> /\ IsSmall(nb)
         /\ \E dep2 : Inv(b', Popped(L, nb), dep2)
<1>1. IsSmall(nb) /\ ExactBins(b, nb) # {} /\ b' = TakeFirst(b, LeastBit(ExactBins(b, nb)))
  BY DEF MallocExact
<1>2. nb \in ChunkSizes /\ L[nb] # <<>> /\ ExactBins(b, nb) = {SmallIndex(nb)}
  BY <1>1, SmallBits
<1>3. LeastBit(ExactBins(b, nb)) = SmallIndex(nb)
  <2>1. PICK S : S = ExactBins(b, nb) /\ S = {SmallIndex(nb)}
    BY <1>2
  <2>2. SmallIndex(nb) \in Nat
    BY RequestsAre DEF SmallIndex
  <2>3. LeastBit(S) \in S
    BY <2>1, <2>2, LeastBitIs
  <2> QED  BY <2>1, <2>3
<1>4. b' = TakeFirst(b, SmallIndex(nb))
  BY <1>1, <1>3
<1> QED  BY <1>1, <1>2, <1>4, TakeFirstKeeps

(* from the next smallbin, it serves the request from the least size that  *)
(* fits;                                                                   *)
LEMMA NextSmallStep ==
  ASSUME NEW L, NEW dep, Inv(b, L, dep), NEW nb \in Requests, NEW d \in DvSizes, NEW x \in Chunks,
         MallocNextSmall(nb, d, x)
  PROVE  \E s, dep2 : Serves(L, nb, d, s) /\ Inv(b', Filled(L, s, nb, x, d), dep2)
<1>1. PICK i : i = LeastBit(NextSmallBins(b, nb))
  OBVIOUS
<1>2. /\ IsSmall(nb) /\ ExactBins(b, nb) = {} /\ nb > d /\ x \notin Binned(b) /\ NextSmallBins(b, nb) # {}
      /\ b' = IF SmallIndex2Size(i) - nb < MinChunk THEN TakeFirst(b, i)
              ELSE ReplaceDv(TakeFirst(b, i), x, d)
  BY <1>1 DEF MallocNextSmall
<1>3. PICK s \in ChunkSizes : /\ IsSmall(s) /\ Chosen(L, nb, s) /\ i = SmallIndex(s)
                              /\ SmallIndex2Size(i) = s /\ s # nb
  <2>1. \E s \in ChunkSizes : /\ IsSmall(s) /\ Chosen(L, nb, s) /\ LeastBit(NextSmallBins(b, nb)) = SmallIndex(s)
                              /\ SmallIndex2Size(SmallIndex(s)) = s /\ s # nb
    BY <1>2, NextSmallIs
  <2> QED  BY <1>1, <2>1
<1>4. L[s] # <<>>
  BY <1>3 DEF Chosen
<1>5. PICK u, e : u = TakeFirst(b, i) /\ Inv(u, Popped(L, s), e)
  BY <1>3, <1>4, TakeFirstKeeps
<1>6. Serves(L, nb, d, s)
  BY <1>2, <1>3 DEF Serves
<1>7. CASE s - nb < MinChunk
  <2>1. b' = u
    BY <1>2, <1>3, <1>5, <1>7
  <2> QED  BY <1>5, <1>6, <1>7, <2>1 DEF Filled
<1>8. CASE ~(s - nb < MinChunk)
  <2>1. b' = ReplaceDv(u, x, d)
    BY <1>2, <1>3, <1>5, <1>8
  <2>2. b.size[x] = 0
    BY <1>2 DEF Binned
  <2>3. L[s] # <<>>
    BY <1>4
  <2>4. u.size[x] = 0
    BY <1>5, <2>2, <2>3, PoppedOut
  <2>5. d # 0 => IsSmall(d)
    BY <1>2, VictimSmall
  <2>6. \E dep2 : Inv(b', Refiled(Popped(L, s), x, d), dep2)
    BY <1>5, <2>1, <2>4, <2>5, ReplaceDvKeeps
  <2> QED  BY <1>2, <1>6, <1>8, <2>6 DEF Filled
<1> QED  BY <1>7, <1>8

(* The least node that fits is of the least size that fits, if no list of  *)
(* a small size does.                                                      *)
LEMMA LeastFitChosen ==
  ASSUME NEW c, NEW L, NEW dep, Inv(c, L, dep), NEW nb, NEW v \in Heads(L), LeastFit(c, Heads(L), nb, v),
         \A z \in ChunkSizes : IsSmall(z) /\ z >= nb => L[z] = <<>>
  PROVE  Chosen(L, nb, c.size[v]) /\ c.size[v] >= nb
<1>1. ListsOK(c, L)
  BY DEF Inv
<1>2. c.size[v] \in ChunkSizes /\ L[c.size[v]] # <<>>
  BY <1>1, HeadsAre
<1>3. c.size[v] >= nb /\ \A u \in Heads(L) : c.size[u] >= nb => c.size[v] <= c.size[u]
  <2>1. v # Nil
    BY <1>1, HeadsAre, SmallBinAssumption
  <2> QED  BY <2>1 DEF LeastFit
<1>4. ASSUME NEW z \in ChunkSizes, L[z] # <<>>, z >= nb
      PROVE  c.size[v] <= z
  <2>1. ~IsSmall(z)
    BY <1>4
  <2>2. L[z][1] \in Heads(L) /\ c.size[L[z][1]] = z
    BY <1>1, <1>4, <2>1, HeadsAre
  <2> QED  BY <1>3, <1>4, <2>2
<1> QED  BY <1>2, <1>3, <1>4 DEF Chosen

(* so it does from the trees,                                              *)
LEMMA TreeSmallStep ==
  ASSUME NEW L, NEW dep, Inv(b, L, dep), NEW nb \in Requests, NEW d \in DvSizes, NEW x \in Chunks,
         MallocTreeSmall(nb, d, x)
  PROVE  \E s, dep2 : Serves(L, nb, d, s) /\ Inv(b', Filled(L, s, nb, x, d), dep2)
<1>1. PICK v : v = TmallocSmallChoice(b, nb)
  OBVIOUS
<1>2. /\ IsSmall(nb) /\ ExactBins(b, nb) = {} /\ nb > d /\ x \notin Binned(b) /\ NextSmallBins(b, nb) = {}
      /\ b.treemap # {}
      /\ b' = IF b.size[v] - nb < MinChunk THEN TakeNode(b, v) ELSE ReplaceDv(TakeNode(b, v), x, d)
  BY <1>1 DEF MallocTreeSmall
<1>3. TrieOf(b, Heads(L), dep) /\ Marked(b)
  BY DEF Inv
<1>4. v \in Heads(L) /\ LeastFit(b, Heads(L), nb, v)
  BY <1>1, <1>2, <1>3, RequestsAre, SmallChoice
<1>5. ASSUME NEW z \in ChunkSizes, IsSmall(z), z >= nb
      PROVE  L[z] = <<>>
  <2>1. z = nb \/ z > nb
    BY <1>5, RequestsAre, SizesAre
  <2>2. CASE z = nb
    BY <1>2, <2>2, SmallBits
  <2>3. CASE z > nb
    BY <1>2, <1>5, <2>3, SmallBits
  <2> QED  BY <2>1, <2>2, <2>3
<1>6. PICK s \in ChunkSizes : s = b.size[v] /\ L[s] # <<>> /\ \E e : Inv(TakeNode(b, v), Popped(L, s), e)
  BY <1>4, TakeNodeKeeps
<1>7. Serves(L, nb, d, s)
  <2>1. Chosen(L, nb, s)
    BY <1>4, <1>5, <1>6, LeastFitChosen
  <2> QED  BY <1>2, <2>1 DEF Serves
<1>8. PICK u, e : u = TakeNode(b, v) /\ Inv(u, Popped(L, s), e)
  BY <1>6
<1>9. CASE s - nb < MinChunk
  <2>1. b' = u
    BY <1>2, <1>6, <1>8, <1>9
  <2> QED  BY <1>7, <1>8, <1>9, <2>1 DEF Filled
<1>10. CASE ~(s - nb < MinChunk)
  <2>1. b' = ReplaceDv(u, x, d)
    BY <1>2, <1>6, <1>8, <1>10
  <2>2. b.size[x] = 0
    BY <1>2 DEF Binned
  <2>3. L[s] # <<>>
    BY <1>6
  <2>4. u.size[x] = 0
    BY <1>8, <2>2, <2>3, PoppedOut
  <2>5. d # 0 => IsSmall(d)
    BY <1>2, VictimSmall
  <2>6. \E dep2 : Inv(b', Refiled(Popped(L, s), x, d), dep2)
    BY <1>8, <2>1, <2>4, <2>5, ReplaceDvKeeps
  <2> QED  BY <1>2, <1>7, <1>10, <2>6 DEF Filled
<1> QED  BY <1>9, <1>10

(* and so does malloc() of a large size.                                   *)
LEMMA LargeStep ==
  ASSUME NEW L, NEW dep, Inv(b, L, dep), NEW nb \in Requests, NEW d \in DvSizes, NEW x \in Chunks,
         MallocLarge(nb, d, x)
  PROVE  \E s, dep2 : Serves(L, nb, d, s) /\ Inv(b', Filled(L, s, nb, x, d), dep2)
<1>1. PICK v : v = TmallocLargeChoice(b, nb)
  OBVIOUS
<1>2. /\ ~IsSmall(nb) /\ v # Nil /\ Rem(b, v, nb) < Word(d - nb) /\ x \notin Binned(b)
      /\ b' = IF Rem(b, v, nb) < MinChunk THEN TakeNode(b, v)
              ELSE InsertChunk(TakeNode(b, v), x, Rem(b, v, nb))
  BY <1>1 DEF MallocLarge
<1>3. TrieOf(b, Heads(L), dep) /\ Marked(b)
  BY DEF Inv
<1>4. v \in Heads(L) /\ LeastFit(b, Heads(L), nb, v)
  <2>1. nb \in LargeSizes
    BY <1>2, RequestsAre
  <2>2. LeastFit(b, Heads(L), nb, v)
    BY <1>1, <1>3, <2>1, LargeChoice
  <2> QED  BY <1>2, <2>2 DEF LeastFit
<1>5. ASSUME NEW z \in ChunkSizes, IsSmall(z), z >= nb
      PROVE  L[z] = <<>>
  <2>1. nb \in Nat /\ z \in Nat /\ ~(nb < SmallLimit) /\ z < SmallLimit /\ SmallLimit \in Nat
    BY <1>2, <1>5, RequestsAre, SizesAre, SizeBounds
  <2> QED  BY <1>5, <2>1
<1>6. PICK s \in ChunkSizes : s = b.size[v] /\ ~IsSmall(s) /\ L[s] # <<>> /\ \E e : Inv(TakeNode(b, v), Popped(L, s), e)
  BY <1>4, TakeNodeKeeps
<1>7. Chosen(L, nb, s) /\ s >= nb
  BY <1>4, <1>5, <1>6, LeastFitChosen
<1>8. Rem(b, v, nb) = s - nb
  <2>1. b.size[v] \in LargeSizes
    BY <1>6, SizesAre
  <2>2. IsRequest(nb)
    BY RequestsAre
  <2> QED  BY <1>6, <1>7, <2>1, <2>2, RemIs
<1>9. Serves(L, nb, d, s)
  BY <1>2, <1>7, <1>8 DEF Serves
<1>10. PICK u, e : u = TakeNode(b, v) /\ Inv(u, Popped(L, s), e)
  BY <1>6
<1>11. CASE s - nb < MinChunk
  <2>1. b' = u
    BY <1>2, <1>8, <1>10, <1>11
  <2> QED  BY <1>9, <1>10, <1>11, <2>1 DEF Filled
<1>12. CASE ~(s - nb < MinChunk)
  <2>1. b' = InsertChunk(u, x, s - nb)
    BY <1>2, <1>8, <1>10, <1>12
  <2>2. b.size[x] = 0
    BY <1>2 DEF Binned
  <2>3. L[s] # <<>>
    BY <1>6
  <2>4. u.size[x] = 0
    BY <1>10, <2>2, <2>3, PoppedOut
  <2>5. s - nb \in ChunkSizes /\ s - nb # 0
    <3>1. s \in Nat /\ nb \in Nat /\ MinChunk \in Nat /\ MinChunk > 0
      BY SizesAre, RequestsAre, BinsAssumption, SmallBinAssumption
    <3>2. s - nb >= MinChunk /\ s - nb # 0
      BY <1>12, <3>1
    <3> QED  BY <1>2, <3>2, BinsAssumption
  <2>6. \E dep2 : Inv(b', Refiled(Popped(L, s), x, s - nb), dep2)
    BY <1>10, <2>1, <2>4, <2>5, InsertKeeps DEF Refiled
  <2> QED  BY <1>2, <1>9, <1>12, <2>6 DEF Filled
<1> QED  BY <1>11, <1>12

(* free() adds a chunk to the list of its size;                            *)
LEMMA InsertStep ==
  ASSUME NEW L, NEW dep, Inv(b, L, dep), NEW p \in Chunks, NEW s \in Sizes, Insert(p, s)
  PROVE  /\ s \in ChunkSizes /\ b.size[p] = 0
         /\ \E dep2 : Inv(b', With(L, s, Added(L[s], s, p)), dep2)
<1>1. s \in ChunkSizes /\ b.size[p] = 0 /\ b' = InsertChunk(b, p, s)
  BY BinsAssumption DEF Insert, Binned
<1> QED  BY <1>1, InsertKeeps

(* and merging a chunk takes it from the list of its size.                 *)
LEMMA UnlinkStep ==
  ASSUME NEW L, NEW dep, Inv(b, L, dep), NEW p \in Chunks, Unlink(p)
  PROVE  \E s \in ChunkSizes, m \in Nat :
           /\ m \in 1 .. Len(L[s]) /\ L[s][m] = p
           /\ \E dep2 : Inv(b', With(L, s, Without(L[s], m)), dep2)
<1>0. ListsOK(b, L) /\ b \in State
  BY DEF Inv
<1>1. PICK s \in ChunkSizes : s = b.size[p]
  <2>1. b.size \in [Chunks -> {0} \cup ChunkSizes]
    BY <1>0 DEF State
  <2> QED  BY <2>1 DEF Unlink, Binned
<1>2. PICK q \in Seq(Chunks) : q = L[s] /\ Len(q) \in Nat /\ p \in Elements(q)
  <2>1. PICK q \in Seq(Chunks) : q = L[s] /\ Len(q) \in Nat /\ Elements(q) = {y \in Chunks : b.size[y] = s}
    BY <1>0, ListOfSize
  <2> QED  BY <1>1, <2>1
<1>3. PICK m \in 1 .. Len(q) : q[m] = p
  BY <1>2 DEF Elements
<1>4. m \in Nat /\ m \in 1 .. Len(L[s]) /\ L[s][m] = p
  BY <1>2, <1>3
<1>5. b' = UnlinkChunk(b, L[s][m])
  BY <1>4 DEF Unlink
<1> QED  BY <1>4, <1>5, UnlinkKeeps

(* The links spell some lists, one per size, and the nodes of the large    *)
(* sizes some tries.                                                       *)
IInv == \E L, dep : Inv(b, L, dep)

(* At first all lists are empty.                                           *)
LEMMA InitLists ==
  ASSUME Init, NEW dep
  PROVE  Inv(b, [s \in ChunkSizes |-> <<>>], dep)
<1>1. PICK L : L = [s \in ChunkSizes |-> <<>>]
  OBVIOUS
<1>2. L \in [ChunkSizes -> Seq(Chunks)] /\ \A s \in ChunkSizes : L[s] = <<>>
  <2>1. <<>> \in Seq(Chunks)
    BY EmptySeq
  <2> QED  BY <1>1, <2>1
<1>3. Heads(L) = {}
  BY <1>2 DEF Heads
<1>4. b \in State
  <2>1. /\ SmallIndexes \cup Chunks = Linked /\ 0 \in TreeIndexes
        /\ \A n \in Linked : n \in Chunks \/ n \in Nodes
        /\ Nil \in Nodes
    BY TreeBinAssumption DEF TreeIndexes, Linked, Nodes
  <2>2. /\ NoChildren \in [0 .. 1 -> Chunks \cup {Nil}] /\ NoLinks \in [Chunks -> Nodes]
    BY <2>1 DEF NoChildren, NoLinks
  <2>3. /\ [n \in SmallIndexes \cup Chunks |-> IF n \in Chunks THEN Nil ELSE n] \in [Linked -> Nodes]
        /\ [p \in Chunks |-> 0] \in [Chunks -> {0} \cup ChunkSizes]
        /\ [i \in TreeIndexes |-> Nil] \in [TreeIndexes -> Chunks \cup {Nil}]
        /\ [p \in Chunks |-> NoChildren] \in [Chunks -> [0 .. 1 -> Chunks \cup {Nil}]]
        /\ [p \in Chunks |-> 0] \in [Chunks -> TreeIndexes]
    BY <2>1, <2>2
  <2> QED  BY <2>2, <2>3 DEF Init, State
<1>5. /\ \A p \in Chunks : b.size[p] = 0 /\ b.parent[p] = Nil /\ \A k \in 0 .. 1 : b.child[p][k] = Nil
      /\ b.smallmap = {} /\ b.treemap = {} /\ \A i \in TreeIndexes : b.treebins[i] = Nil
  BY DEF Init, NoLinks, NoChildren
<1>6. ListsOK(b, L)
  <2>1. \A s \in ChunkSizes : s # 0
    BY SizesAre
  <2>2. \A s \in ChunkSizes : {p \in Chunks : b.size[p] = s} = {}
    BY <1>5, <2>1
  <2>3. Elements(<<>>) = {} /\ Once(<<>>)
    <3>1. Len(<<>>) = 0
      OBVIOUS
    <3> QED  BY <3>1 DEF Elements, Once
  <2>4. \A s \in ChunkSizes : Elements(L[s]) = {p \in Chunks : b.size[p] = s} /\ Once(L[s])
    BY <1>2, <2>2, <2>3
  <2> QED  BY <1>2, <2>4 DEF ListsOK
<1>7. MarkedSmall(b, L)
  BY <1>2, <1>5 DEF MarkedSmall
<1>8. TrieOf(b, {}, dep)
  <2>1. Trie({}, dep, b.size, b.treebins, b.child, b.parent)
    BY <1>5 DEF Trie
  <2>2. TreeLinks(b)
    BY <1>4 DEF State, TreeLinks
  <2> QED  BY <2>1, <2>2 DEF TrieOf
<1>9. Marked(b)
  BY <1>5 DEF Marked
<1>10. Bare(b, {})
  BY <1>5 DEF Bare
<1>11. Indexed(b)
  <2>1. 0 \notin LargeSizes
    BY SizeBounds DEF LargeSizes
  <2> QED  BY <1>5, <2>1 DEF Indexed
<1> QED  BY <1>1, <1>3, <1>4, <1>6, <1>7, <1>8, <1>9, <1>10, <1>11 DEF Inv

(* Every operation keeps the invariant: one that insert_chunk and          *)
(* unlink_chunk rely on when they trust the links.                         *)
LEMMA StepKeeps == IInv /\ [Next]_b => IInv'
<1> SUFFICES ASSUME IInv, [Next]_b PROVE IInv'
  OBVIOUS
<1>1. PICK L, dep : Inv(b, L, dep)
  BY DEF IInv
<1>2. ASSUME NEW p \in Chunks, NEW s \in Sizes, Insert(p, s) PROVE \E M, e : Inv(b', M, e)
  BY <1>1, <1>2, InsertStep
<1>3. ASSUME NEW p \in Chunks, Unlink(p) PROVE \E M, e : Inv(b', M, e)
  BY <1>1, <1>3, UnlinkStep
<1>4. ASSUME NEW nb \in Requests, MallocExact(nb) PROVE \E M, e : Inv(b', M, e)
  BY <1>1, <1>4, ExactStep
<1>5. ASSUME NEW nb \in Requests, NEW d \in DvSizes, NEW x \in Chunks, MallocNextSmall(nb, d, x)
      PROVE  \E M, e : Inv(b', M, e)
  BY <1>1, <1>5, NextSmallStep
<1>6. ASSUME NEW nb \in Requests, NEW d \in DvSizes, NEW x \in Chunks, MallocTreeSmall(nb, d, x)
      PROVE  \E M, e : Inv(b', M, e)
  BY <1>1, <1>6, TreeSmallStep
<1>7. ASSUME NEW nb \in Requests, NEW d \in DvSizes, NEW x \in Chunks, MallocLarge(nb, d, x)
      PROVE  \E M, e : Inv(b', M, e)
  BY <1>1, <1>7, LargeStep
<1>8. CASE UNCHANGED b
  <2>1. Inv(b', L, dep)
    BY <1>1, <1>8
  <2> QED  BY <2>1 DEF IInv
<1>9. CASE Next
  <2>1. \E M, e : Inv(b', M, e)
    BY <1>2, <1>3, <1>4, <1>5, <1>6, <1>7, <1>9 DEF Next
  <2> QED  BY <2>1 DEF IInv
<1> QED  BY <1>8, <1>9

(* In every reachable state the links of smallbins and treebins spell one  *)
(* list per size, the tries are ordered by the bits of the sizes, and the  *)
(* bitmaps show what is not empty.                                         *)
THEOREM LinksSpellLists == Spec => []IInv
<1>1. Init => IInv
  BY InitLists DEF IInv
<1> QED  BY <1>1, StepKeeps, PTL DEF Spec

-----------------------------------------------------------------------------
(* What the invariant shows                                                *)

(* The links are links of the bins, and the bitmaps hold indexes of bins.  *)
THEOREM TypesKept == Spec => []TypeOK
<1>1. ASSUME IInv PROVE TypeOK
  <2>1. b \in State
    BY <1>1 DEF IInv, Inv
  <2>2. SmallIndexes \cup Chunks = Linked
    BY DEF Linked
  <2>3. b.ok \in BOOLEAN
    BY <2>1 DEF State
  <2> QED  BY <2>1, <2>2, <2>3 DEF State, TypeOK
<1> QED  BY <1>1, LinksSpellLists, PTL

(* No assert and no runtime check of a link ever fails: the abort of       *)
(* CORRUPTION_ERROR_ACTION is never reached through the bins.              *)
THEOREM ChecksPass == Spec => []NoCorruption
<1>1. ASSUME IInv PROVE NoCorruption
  <2>1. b \in State
    BY <1>1 DEF IInv, Inv
  <2> QED  BY <2>1 DEF State, NoCorruption
<1> QED  BY <1>1, LinksSpellLists, PTL

(* Everything below the left child is smaller than everything below the    *)
(* right one.                                                              *)
LEMMA SidesOrdered ==
  ASSUME NEW c, NEW N, NEW dep, TrieOf(c, N, dep), NEW t \in N,
         c.child[t][0] # Nil, c.child[t][1] # Nil,
         NEW u \in Below(c, c.child[t][0]), NEW v \in Below(c, c.child[t][1])
  PROVE  c.size[u] < c.size[v]
<1>1. Trie(N, dep, c.size, c.treebins, c.child, c.parent)
  BY DEF TrieOf
<1>2. PICK i : i = BinOf(c.size, t)
  OBVIOUS
<1>3. dep[t] \in Nat /\ i \in TreeIndexes
  BY <1>1, <1>2, TrieNode
<1>4. ASSUME NEW k \in 0 .. 1, NEW w \in Below(c, c.child[t][k]), c.child[t][k] # Nil
      PROVE  /\ w \in N /\ Under(dep, c.size, t, w)
             /\ PathBit(c.size[w], i, dep[t]) = k
  <2>1. PICK l \in N : /\ l = c.child[t][k] /\ dep[l] = dep[t] + 1 /\ BinOf(c.size, l) = i
                       /\ Agree(c.size[t], c.size[l], i, dep[t])
                       /\ PathBit(c.size[l], i, dep[t]) = k
    BY <1>2, <1>4, ChildUnder
  <2>2. w \in N /\ Under(dep, c.size, l, w)
    BY <1>4, <2>1, BelowIsUnder
  <2>3. Under(dep, c.size, t, l)
    BY <1>2, <1>3, <2>1 DEF Under
  <2>4. Under(dep, c.size, t, w)
    BY <1>1, <2>1, <2>2, <2>3, UnderTransitive
  <2>5. Agree(c.size[l], c.size[w], i, dep[t] + 1)
    BY <2>1, <2>2 DEF Under
  <2>6. PathBit(c.size[l], i, dep[t]) = PathBit(c.size[w], i, dep[t])
    BY <1>3, <2>5 DEF Agree
  <2> QED  BY <2>1, <2>2, <2>4, <2>6
<1>5. 0 \in 0 .. 1 /\ 1 \in 0 .. 1
  OBVIOUS
<1>6. u \in N /\ Under(dep, c.size, t, u) /\ PathBit(c.size[u], i, dep[t]) = 0
  BY <1>4, <1>5
<1>7. v \in N /\ Under(dep, c.size, t, v) /\ PathBit(c.size[v], i, dep[t]) # 0
  <2>1. v \in N /\ Under(dep, c.size, t, v) /\ PathBit(c.size[v], i, dep[t]) = 1
    BY <1>4, <1>5
  <2> QED  BY <2>1
<1> QED  BY <1>2, <1>6, <1>7, LeftLess

(* The nodes of the tries, in any state c.                                 *)
NodesIn(c) == {p \in Binned(c) : ~IsSmall(c.size[p]) /\ c.parent[p] # Nil}

(* The nodes of the tries are the first chunks of the large lists.         *)
LEMMA NodesInAre ==
  ASSUME NEW c, NEW L, NEW dep, Inv(c, L, dep)
  PROVE  NodesIn(c) = Heads(L)
<1>1. ListsOK(c, L) /\ TrieOf(c, Heads(L), dep) /\ Bare(c, Heads(L))
  BY DEF Inv
<1>2. ASSUME NEW p \in Heads(L) PROVE p \in NodesIn(c)
  <2>1. p \in Chunks /\ c.size[p] \in ChunkSizes /\ ~IsSmall(c.size[p])
    BY <1>1, HeadsAre
  <2>2. c.parent[p] # Nil
    BY <1>1, HangsAtIs DEF HangsAt
  <2> QED  BY <2>1, <2>2, SizesAre DEF NodesIn, Binned
<1>3. ASSUME NEW p \in NodesIn(c) PROVE p \in Heads(L)
  BY <1>1 DEF NodesIn, Binned, Bare
<1> QED  BY <1>2, <1>3

(* The nodes that the properties speak of are the nodes of the invariant.  *)
LEMMA NodesAre ==
  ASSUME NEW L, NEW dep, Inv(b, L, dep)
  PROVE  LargeNodes = Heads(L)
BY NodesInAre DEF LargeNodes, NodesIn

(* The order of the tries, on which the search for the best fit relies.    *)
THEOREM TriesStayOrdered == Spec => []TriesOrdered
<1>1. ASSUME IInv PROVE TriesOrdered
  <2>1. PICK L, dep : Inv(b, L, dep)
    BY <1>1 DEF IInv
  <2>2. PICK N : N = Heads(L) /\ LargeNodes = N
    BY <2>1, NodesAre
  <2>3. TrieOf(b, N, dep) /\ Indexed(b)
    BY <2>1, <2>2 DEF Inv
  <2>4. Trie(N, dep, b.size, b.treebins, b.child, b.parent)
    BY <2>3 DEF TrieOf
  <2>5. ASSUME NEW t \in N
        PROVE  /\ b.index[t] = ComputeTreeIndex(b.size[t])
               /\ \/ b.parent[t] = b.index[t] /\ b.treebins[b.index[t]] = t
                  \/ b.parent[t] \in N /\ t \in {b.child[b.parent[t]][k] : k \in 0 .. 1}
               /\ \A u \in N \ {t} : b.size[u] # b.size[t]
               /\ Nil \notin {b.child[t][0], b.child[t][1]} =>
                    \A u \in Below(b, b.child[t][0]), v \in Below(b, b.child[t][1]) :
                      b.size[u] < b.size[v]
    <3>1. t \in Chunks /\ b.size[t] \in LargeSizes /\ dep[t] \in Nat
      BY <2>4, TrieNode
    <3>2. b.index[t] = ComputeTreeIndex(b.size[t])
      BY <2>3, <3>1 DEF Indexed
    <3>3. Hung(N, dep, b.size, b.treebins, b.child, b.parent, t)
      BY <2>4 DEF Trie
    <3>4. \/ b.parent[t] = b.index[t] /\ b.treebins[b.index[t]] = t
          \/ b.parent[t] \in N /\ t \in {b.child[b.parent[t]][k] : k \in 0 .. 1}
      <4>1. CASE dep[t] = 0
        BY <3>2, <3>3, <4>1 DEF Hung, BinOf
      <4>2. CASE dep[t] # 0
        <5>1. HangsAt(b, N, dep, t)
          BY <2>3, HangsAtIs
        <5>2. b.parent[t] \in N
          BY <4>2, <5>1 DEF HangsAt
        <5>3. PICK k \in 0 .. 1 : k = SlotOf(b, b.parent[t], t)
          BY DEF SlotOf
        <5>4. b.child[b.parent[t]][k] = t
          BY <4>2, <5>1, <5>2, <5>3 DEF HangsAt
        <5> QED  BY <5>2, <5>4
      <4> QED  BY <4>1, <4>2
    <3>5. \A u \in N \ {t} : b.size[u] # b.size[t]
      BY <2>4 DEF Trie
    <3>6. ASSUME b.child[t][0] # Nil, b.child[t][1] # Nil
          PROVE  \A u \in Below(b, b.child[t][0]), v \in Below(b, b.child[t][1]) : b.size[u] < b.size[v]
      BY <2>3, <3>6, SidesOrdered
    <3> QED  BY <3>2, <3>4, <3>5, <3>6
  <2> QED  BY <2>2, <2>5 DEF TriesOrdered
<1> QED  BY <1>1, LinksSpellLists, PTL

(* A list of chunks is no longer than there are chunks.                    *)
LEMMA ListLength ==
  ASSUME NEW q \in Seq(Chunks), Once(q)
  PROVE  Len(q) \in Nat /\ Cardinality(Chunks) \in Nat /\ Len(q) <= Cardinality(Chunks)
<1>1. PICK n \in Nat : n = Len(q) /\ \A j \in 1 .. n : q[j] \in Chunks
  BY ListPlaces
<1>2. PICK f : f = [j \in 1 .. n |-> q[j]]
  OBVIOUS
<1>3. f \in Injection(1 .. n, Chunks)
  <2>1. f \in [1 .. n -> Chunks]
    BY <1>1, <1>2
  <2>2. \A j, k \in 1 .. n : f[j] = f[k] => j = k
    BY <1>1, <1>2 DEF Once
  <2> QED  BY <2>1, <2>2 DEF Injection, IsInjective
<1>4. IsFiniteSet(Chunks) /\ Cardinality(Chunks) \in Nat
  BY BinsAssumption, FS_CardinalityType
<1>5. Cardinality(1 .. n) <= Cardinality(Chunks)
  BY <1>3, <1>4, FS_Injection
<1>6. Cardinality(1 .. n) = n
  <2>1. 1 \in Int /\ n \in Int
    OBVIOUS
  <2>2. Cardinality(1 .. n) = IF 1 > n THEN 0 ELSE n - 1 + 1
    BY <2>1, FS_Interval
  <2> QED  BY <2>2
<1> QED  BY <1>1, <1>4, <1>5, <1>6

(* Following the links from the header of a smallbin meets its list;       *)
LEMMA SmallAlong ==
  ASSUME NEW fd, NEW bk, NEW i, NEW q \in Seq(Chunks), Once(q), q # <<>>, SmallRing(fd, bk, i, q),
         NEW to, to = Along(fd, i)
  PROVE  DOMAIN to = 0 .. Cardinality(Chunks) /\ to[0] = i /\ \A k \in 1 .. Len(q) : to[k] = q[k]
<1>1. PICK n \in Nat : n = Len(q) /\ n > 0 /\ n <= Cardinality(Chunks) /\ Cardinality(Chunks) \in Nat
  BY ListLength, ListPlaces
<1>2. fd[i] = q[1] /\ fd[q[n]] = i /\ \A k \in 1 .. n - 1 : fd[q[k]] = q[k + 1]
  BY <1>1 DEF SmallRing
<1>3. PICK V : V = {i} \cup Elements(q)
  OBVIOUS
<1>4. \A k \in 1 .. n : q[k] \in V
  BY <1>1, <1>3 DEF Elements
<1>5. \A v \in V : fd[v] \in V
  <2>1. fd[i] \in V
    <3>1. 1 \in 1 .. n
      BY <1>1
    <3> QED  BY <1>2, <1>4, <3>1
  <2>2. ASSUME NEW k \in 1 .. n PROVE fd[q[k]] \in V
    <3>1. k # n => k \in 1 .. n - 1 /\ k + 1 \in 1 .. n
      BY <1>1
    <3> QED  BY <1>2, <1>3, <1>4, <3>1
  <2> QED  BY <1>1, <1>3, <2>1, <2>2 DEF Elements
<1>6. /\ DOMAIN to = 0 .. Cardinality(Chunks) /\ to[0] = i
      /\ \A d \in 1 .. Cardinality(Chunks) : to[d] = fd[to[d - 1]]
  BY <1>3, <1>5, AlongSteps
<1>7. PICK S : S = {d \in 0 .. n : d = 0 \/ to[d] = q[d]}
  OBVIOUS
<1>8. \A d \in 0 .. n : d \in S /\ d < n => d + 1 \in S
  <2> SUFFICES ASSUME NEW d \in 0 .. n, d \in S, d < n PROVE d + 1 \in S
    OBVIOUS
  <2>1. d + 1 \in 0 .. n /\ d + 1 \in 1 .. Cardinality(Chunks) /\ (d + 1) - 1 = d /\ d \in Nat
    BY <1>1
  <2>2. to[d + 1] = fd[to[d]]
    BY <1>6, <2>1
  <2>3. CASE d = 0
    BY <1>2, <1>6, <1>7, <2>1, <2>2, <2>3
  <2>4. CASE d # 0
    <3>1. d \in 1 .. n - 1
      BY <1>1, <2>1, <2>4
    <3> QED  BY <1>2, <1>7, <2>1, <2>2, <2>4, <3>1
  <2> QED  BY <2>3, <2>4
<1>9. 0 .. n \subseteq S
  <2>1. 0 \in S
    BY <1>1, <1>7
  <2> QED  BY <1>8, <2>1, UpTo
<1>10. \A k \in 1 .. n : to[k] = q[k]
  BY <1>7, <1>9
<1> QED  BY <1>1, <1>6, <1>10

(* from a node of a trie its ring, backwards.                              *)
LEMMA LargeAlong ==
  ASSUME NEW fd, NEW bk, NEW q \in Seq(Chunks), Once(q), q # <<>>, LargeRing(fd, bk, q),
         NEW to, to = Along(fd, q[1]), NEW m \in 1 .. Len(q)
  PROVE  DOMAIN to = 0 .. Cardinality(Chunks) /\ \E d \in DOMAIN to : to[d] = q[m]
<1>1. PICK n \in Nat : n = Len(q) /\ n > 0 /\ n <= Cardinality(Chunks) /\ Cardinality(Chunks) \in Nat
  BY ListLength, ListPlaces
<1>2. fd[q[1]] = q[n] /\ \A k \in 1 .. n - 1 : fd[q[k + 1]] = q[k]
  BY <1>1 DEF LargeRing
<1>3. PICK V : V = Elements(q)
  OBVIOUS
<1>4. \A k \in 1 .. n : q[k] \in V
  BY <1>1, <1>3 DEF Elements
<1>5. 1 \in 1 .. n /\ n \in 1 .. n
  BY <1>1
<1>6. \A v \in V : fd[v] \in V
  <2>1. ASSUME NEW k \in 1 .. n PROVE fd[q[k]] \in V
    <3>1. CASE k = 1
      BY <1>2, <1>4, <1>5, <3>1
    <3>2. CASE k # 1
      <4>1. k - 1 \in 1 .. n - 1 /\ k - 1 \in 1 .. n /\ (k - 1) + 1 = k
        BY <1>1, <3>2
      <4> QED  BY <1>2, <1>4, <4>1
    <3> QED  BY <3>1, <3>2
  <2> QED  BY <1>1, <1>3, <2>1 DEF Elements
<1>7. /\ DOMAIN to = 0 .. Cardinality(Chunks) /\ to[0] = q[1]
      /\ \A d \in 1 .. Cardinality(Chunks) : to[d] = fd[to[d - 1]]
  BY <1>4, <1>5, <1>6, AlongSteps
<1>8. PICK S : S = {d \in 0 .. n - 1 : d = 0 \/ to[d] = q[n + 1 - d]}
  OBVIOUS
<1>9. \A d \in 0 .. n - 1 : d \in S /\ d < n - 1 => d + 1 \in S
  <2> SUFFICES ASSUME NEW d \in 0 .. n - 1, d \in S, d < n - 1 PROVE d + 1 \in S
    OBVIOUS
  <2>1. d + 1 \in 0 .. n - 1 /\ d + 1 \in 1 .. Cardinality(Chunks) /\ (d + 1) - 1 = d /\ d \in Nat
        /\ n + 1 - (d + 1) = n - d
    BY <1>1
  <2>2. to[d + 1] = fd[to[d]]
    BY <1>7, <2>1
  <2>3. CASE d = 0
    <3>1. to[d + 1] = q[n] /\ n - d = n
      BY <1>1, <1>2, <1>7, <2>2, <2>3
    <3> QED  BY <1>8, <2>1, <3>1
  <2>4. CASE d # 0
    <3>1. n - d \in 1 .. n - 1 /\ (n - d) + 1 = n + 1 - d
      BY <1>1, <2>1, <2>4
    <3>2. to[d] = q[(n - d) + 1]
      BY <1>8, <2>4, <3>1
    <3>3. to[d + 1] = q[n - d]
      BY <1>2, <2>2, <3>1, <3>2
    <3> QED  BY <1>8, <2>1, <3>3
  <2> QED  BY <2>3, <2>4
<1>10. 0 .. n - 1 \subseteq S
  <2>1. PICK k \in Nat : k = n - 1
    BY <1>1
  <2>2. 0 \in S
    BY <1>1, <1>8
  <2>3. 0 .. k \subseteq S
    BY <1>9, <2>1, <2>2, UpTo
  <2> QED  BY <2>1, <2>3
<1>11. CASE m = 1
  <2>1. 0 \in DOMAIN to
    BY <1>1, <1>7
  <2> QED  BY <1>7, <1>11, <2>1
<1>12. CASE m # 1
  <2>1. n + 1 - m \in 0 .. n - 1 /\ n + 1 - m # 0 /\ n + 1 - (n + 1 - m) = m /\ n + 1 - m \in 0 .. Cardinality(Chunks)
    BY <1>1, <1>12
  <2>2. to[n + 1 - m] = q[m]
    BY <1>8, <1>10, <2>1
  <2> QED  BY <1>7, <2>1, <2>2
<1> QED  BY <1>11, <1>12

(* bin_find finds every chunk that is filed.                               *)
LEMMA BinFound ==
  ASSUME NEW L, NEW dep, Inv(b, L, dep), NEW p \in Binned(b)
  PROVE  BinFind(p)
<1>1. b \in State /\ ListsOK(b, L) /\ MarkedSmall(b, L) /\ TrieOf(b, Heads(L), dep) /\ Marked(b)
  BY DEF Inv
<1>2. PICK s \in ChunkSizes : s = b.size[p] /\ p \in Chunks
  <2>1. b.size \in [Chunks -> {0} \cup ChunkSizes]
    BY <1>1 DEF State
  <2> QED  BY <2>1 DEF Binned
<1>3. PICK q \in Seq(Chunks) : /\ q = L[s] /\ Once(q) /\ Elements(q) = {y \in Chunks : b.size[y] = s}
                               /\ Len(q) \in Nat /\ (q # <<>> <=> Len(q) > 0)
                               /\ \A k \in 1 .. Len(q) : q[k] \in Chunks /\ b.size[q[k]] = s
                               /\ (q # <<>> => Ring(b.fd, b.bk, s, q))
  <2>1. ListsOK(b, L)
    BY <1>1
  <2> QED  BY <2>1, ListOfSize
<1>4. PICK m \in 1 .. Len(q) : q[m] = p
  BY <1>2, <1>3 DEF Elements
<1>5. Len(q) > 0 /\ q # <<>> /\ 1 \in 1 .. Len(q)
  <2>1. Len(q) > 0
    BY <1>3, <1>4
  <2> QED  BY <1>3, <2>1
<1>6. CASE IsSmall(s)
  <2>1. PICK i : i = SmallIndex(s)
    OBVIOUS
  <2>2. PICK ring : ring = Along(b.fd, i)
    OBVIOUS
  <2>3. SmallRing(b.fd, b.bk, i, q)
    BY <1>3, <1>5, <1>6, <2>1 DEF Ring
  <2>4. DOMAIN ring = 0 .. Cardinality(Chunks) /\ \A k \in 1 .. Len(q) : ring[k] = q[k]
    BY <1>3, <1>5, <2>2, <2>3, SmallAlong
  <2>5. m \in DOMAIN ring
    BY <1>3, <1>4, <2>4, ListLength
  <2>6. i \in b.smallmap
    BY <1>1, <1>3, <1>5, <1>6, <2>1 DEF MarkedSmall
  <2>7. i # Nil
    BY <1>6, <2>1, SizesAre, BinsAssumption DEF SmallIndexes
  <2>8. ring[m] = p
    BY <1>4, <2>4
  <2> QED  BY <1>2, <1>6, <2>1, <2>2, <2>5, <2>6, <2>7, <2>8, Zenon DEF BinFind
<1>7. CASE ~IsSmall(s)
  <2>1. PICK i : i = ComputeTreeIndex(s)
    OBVIOUS
  <2>2. PICK way : way = Way(b, i, s)
    OBVIOUS
  <2>3. PICK e : e = WayEnd(b, way, s)
    OBVIOUS
  <2>4. s \in LargeSizes
    BY <1>7, SizesAre
  <2>5. InBin(s, i)
    BY <2>1, <2>4 DEF InBin
  <2>6. q[1] \in Heads(L) /\ b.size[q[1]] = s
    BY <1>1, <1>3, <1>5, <1>7, HeadsAre
  <2>7. Ended(b, way, s, e)
    BY <1>1, <2>2, <2>3, <2>5, WayEnds
  <2>8. way[e] = q[1]
    BY <1>1, <2>2, <2>5, <2>6, <2>7, WayFinds
  <2>9. PICK ring : ring = Along(b.fd, way[e])
    OBVIOUS
  <2>10. LargeRing(b.fd, b.bk, q)
    BY <1>3, <1>5, <1>7 DEF Ring
  <2>11. \E d \in DOMAIN ring : ring[d] = p
    <3>1. ring = Along(b.fd, q[1])
      BY <2>8, <2>9
    <3>2. \E d \in DOMAIN ring : ring[d] = q[m]
      BY <1>3, <1>4, <1>5, <2>10, <3>1, LargeAlong
    <3> QED  BY <1>4, <3>2
  <2>12. i \in b.treemap
    <3>1. PICK h \in Heads(L) : h = q[1] /\ BinOf(b.size, h) = i
      BY <2>1, <2>6 DEF BinOf
    <3>2. i \in TreeIndexes
      BY <2>5, InBinFacts
    <3>3. b.treebins[i] # Nil
      <4>1. way[0] = b.treebins[i]
        BY <1>1, <2>2, <2>5, WaySteps DEF TrieOf
      <4>2. CASE e = 0
        BY <2>6, <2>8, <4>1, <4>2, <1>1, HeadsAre, SmallBinAssumption
      <4>3. CASE e # 0
        <5>1. 0 \in 0 .. e - 1
          <6>1. WordBits \in Nat /\ e \in 0 .. WordBits
            BY <2>7, SizeBounds DEF Ended
          <6> QED  BY <4>3, <6>1
        <5> QED  BY <2>7, <4>1, <5>1 DEF Ended
      <4> QED  BY <4>2, <4>3
    <3> QED  BY <1>1, <3>2, <3>3 DEF Marked
  <2>13. way[e] # Nil
    BY <1>1, <2>6, <2>8, HeadsAre, SmallBinAssumption
  <2> QED  BY <1>2, <1>7, <2>1, <2>2, <2>3, <2>9, <2>11, <2>12, <2>13, Zenon DEF BinFind
<1> QED  BY <1>6, <1>7

(* Every chunk that is filed is found from its bin, and the bitmaps mark   *)
(* the bins in which something is.                                         *)
THEOREM ChunksFound == Spec => []EveryChunkFound
<1>1. ASSUME IInv PROVE EveryChunkFound
  <2>1. PICK L, dep : Inv(b, L, dep)
    BY <1>1 DEF IInv
  <2>2. /\ b \in State /\ ListsOK(b, L) /\ MarkedSmall(b, L) /\ TrieOf(b, Heads(L), dep) /\ Marked(b)
        /\ \A p \in Binned(b) : BinFind(p)
    BY <2>1, BinFound DEF Inv
  <2>3. \A p \in Binned(b) : p \in Chunks /\ b.size[p] \in ChunkSizes /\ L[b.size[p]] # <<>>
    <3>1. b.size \in [Chunks -> {0} \cup ChunkSizes]
      BY <2>2 DEF State
    <3>2. \A p \in Binned(b) : p \in Chunks /\ b.size[p] \in ChunkSizes
      BY <3>1 DEF Binned
    <3>3. ASSUME NEW p \in Binned(b) PROVE L[b.size[p]] # <<>>
      <4>1. PICK s \in ChunkSizes : s = b.size[p]
        BY <3>2
      <4>2. p \in Elements(L[s])
        BY <2>2, <3>2, <4>1 DEF ListsOK
      <4>3. Elements(<<>>) = {}
        <5>1. Len(<<>>) = 0
          OBVIOUS
        <5> QED  BY <5>1 DEF Elements
      <4> QED  BY <4>1, <4>2, <4>3
    <3> QED  BY <3>2, <3>3
  <2>4. ASSUME NEW s \in ChunkSizes, L[s] # <<>>
        PROVE  \E p \in Binned(b) : b.size[p] = s
    <3>1. L[s][1] \in Chunks /\ b.size[L[s][1]] = s
      <4>1. Len(L[s]) \in Nat /\ Len(L[s]) > 0 /\ \A k \in 1 .. Len(L[s]) : L[s][k] \in Chunks /\ b.size[L[s][k]] = s
        BY <2>2, <2>4, ListOfSize
      <4>2. 1 \in 1 .. Len(L[s])
        BY <4>1
      <4> QED  BY <4>1, <4>2
    <3> QED  BY <3>1, SizesAre DEF Binned
  <2>5. b.smallmap = {SmallIndex(b.size[p]) : p \in {q \in Binned(b) : IsSmall(b.size[q])}}
    BY <2>2, <2>3, <2>4 DEF MarkedSmall
  <2>6. b.treemap = {i \in TreeIndexes : b.treebins[i] # Nil}
    BY <2>2 DEF Marked
  <2>7. Trie(Heads(L), dep, b.size, b.treebins, b.child, b.parent)
    BY <2>2 DEF TrieOf
  <2>8. b.treemap = {ComputeTreeIndex(b.size[p]) : p \in {q \in Binned(b) : ~IsSmall(b.size[q])}}
    <3>1. ASSUME NEW i \in b.treemap
          PROVE  \E p \in Binned(b) : ~IsSmall(b.size[p]) /\ i = ComputeTreeIndex(b.size[p])
      <4>1. i \in TreeIndexes /\ b.treebins[i] # Nil
        BY <2>6, <3>1
      <4>2. PICK t \in Heads(L) : BinOf(b.size, t) = i
        BY <2>7, <4>1 DEF Trie
      <4>3. t \in Binned(b) /\ ~IsSmall(b.size[t])
        BY <2>2, HeadsAre, SizesAre DEF Binned
      <4> QED  BY <4>2, <4>3 DEF BinOf
    <3>2. ASSUME NEW p \in Binned(b), ~IsSmall(b.size[p])
          PROVE  ComputeTreeIndex(b.size[p]) \in b.treemap
      <4>1. BinFind(p)
        BY <2>2
      <4> QED  BY <3>2, <4>1 DEF BinFind
    <3> QED  BY <3>1, <3>2
  <2> QED  BY <2>2, <2>5, <2>6, <2>8 DEF EveryChunkFound
<1> QED  BY <1>1, LinksSpellLists, PTL

-----------------------------------------------------------------------------
(* The operations of the abstract bins on the lists of the invariant.      *)

(* The lists of this module and the sequences of FreeLists: in front,      *)
LEMMA FrontedConcat ==
  ASSUME NEW q \in Seq(Chunks), NEW p \in Chunks, p \notin Elements(q), Once(q)
  PROVE  <<p>> \o q = Fronted(q, p)
<1>1. PICK r : r = Fronted(q, p)
  OBVIOUS
<1>2. r \in Seq(Chunks) /\ Len(r) = Len(q) + 1 /\ r[1] = p /\ \A j \in 1 .. Len(q) : r[j + 1] = q[j]
  BY <1>1, FrontedIs
<1>3. PICK a : a = <<p>> /\ a \in Seq(Chunks) /\ Len(a) = 1 /\ a[1] = p
  <2>1. <<p>> \in Seq(Chunks) /\ Len(<<p>>) = 1 /\ <<p>>[1] = p
    OBVIOUS
  <2> QED  BY <2>1, Zenon
<1>4. PICK n \in Nat : n = Len(q)
  BY ListPlaces
<1>5. PICK t : t = a \o q
  OBVIOUS
<1>6. /\ t \in Seq(Chunks) /\ Len(t) = 1 + n
      /\ \A i \in 1 .. 1 + n : t[i] = IF i <= 1 THEN a[i] ELSE q[i - 1]
  BY <1>3, <1>4, <1>5, ConcatProperties
<1>7. Len(r) = Len(t)
  BY <1>2, <1>4, <1>6
<1>8. \A i \in 1 .. Len(r) : r[i] = t[i]
  <2>1. ASSUME NEW i \in 1 .. n + 1 PROVE r[i] = t[i]
    <3>1. CASE i = 1
      BY <1>2, <1>3, <1>4, <1>6, <3>1
    <3>2. CASE i # 1
      <4>1. i - 1 \in 1 .. n /\ (i - 1) + 1 = i /\ ~(i <= 1) /\ i \in 1 .. 1 + n
        BY <1>4, <3>2
      <4>2. r[i] = q[i - 1]
        BY <1>2, <1>4, <4>1
      <4> QED  BY <1>6, <4>1, <4>2
    <3> QED  BY <3>1, <3>2
  <2> QED  BY <1>2, <1>4, <2>1
<1>9. r = t
  BY <1>2, <1>6, <1>7, <1>8, SeqEqual
<1> QED  BY <1>1, <1>3, <1>5, <1>9

(* behind,                                                                 *)
LEMMA BackedAppend ==
  ASSUME NEW q \in Seq(Chunks), NEW p \in Chunks, p \notin Elements(q), Once(q)
  PROVE  Append(q, p) = Backed(q, p)
<1>1. PICK r : r = Backed(q, p)
  OBVIOUS
<1>2. r \in Seq(Chunks) /\ Len(r) = Len(q) + 1 /\ r[Len(q) + 1] = p /\ \A j \in 1 .. Len(q) : r[j] = q[j]
  BY <1>1, BackedIs
<1>3. PICK t : t = Append(q, p)
  OBVIOUS
<1>4. /\ t \in Seq(Chunks) /\ Len(t) = Len(q) + 1
      /\ (\A i \in 1 .. Len(q) : t[i] = q[i]) /\ t[Len(q) + 1] = p
  BY <1>3, AppendProperties
<1>5. PICK n \in Nat : n = Len(q)
  BY ListPlaces
<1>6. \A i \in 1 .. n + 1 : i \in 1 .. n \/ i = n + 1
  BY <1>5
<1>7. \A i \in 1 .. Len(r) : r[i] = t[i]
  BY <1>2, <1>4, <1>5, <1>6
<1>8. r = t
  BY <1>2, <1>4, <1>7, SeqEqual
<1> QED  BY <1>1, <1>3, <1>8

(* and without a place.                                                    *)
LEMMA WithoutRemoves ==
  ASSUME NEW q \in Seq(Chunks), NEW k \in 1 .. Len(q), Once(q)
  PROVE  Lists!Seqs!RemoveAt(q, k) = Without(q, k)
<1>1. PICK r : r = Without(q, k)
  OBVIOUS
<1>2. r \in Seq(Chunks) /\ Len(r) = Len(q) - 1 /\ \A j \in 1 .. Len(q) - 1 : r[j] = IF j < k THEN q[j] ELSE q[j + 1]
  <2>1. r \in Seq(Chunks) /\ Skips(r, q, k)
    BY <1>1, WithoutIs
  <2> QED  BY <2>1 DEF Skips
<1>3. PICK n \in Nat : n = Len(q) /\ \A j \in 1 .. n : q[j] \in Chunks
  BY ListPlaces
<1>4. k \in 1 .. n
  BY <1>3
<1>5. PICK u : u = SubSeq(q, 1, k - 1)
  OBVIOUS
<1>6. PICK w : w = SubSeq(q, k + 1, Len(q))
  OBVIOUS
<1>7. u \in Seq(Chunks) /\ Len(u) = k - 1 /\ \A j \in 1 .. k - 1 : u[j] = q[j]
  <2>1. \A j \in 1 .. k - 1 : q[j] \in Chunks
    BY <1>3, <1>4
  <2>2. /\ u \in Seq(Chunks) /\ Len(u) = IF 1 <= k - 1 THEN (k - 1) - 1 + 1 ELSE 0
        /\ \A j \in 1 .. (k - 1) - 1 + 1 : u[j] = q[1 + j - 1]
    BY <1>4, <1>5, <2>1, SubSeqProperties
  <2>3. \A j \in 1 .. k - 1 : j \in 1 .. (k - 1) - 1 + 1 /\ 1 + j - 1 = j
    BY <1>4
  <2> QED  BY <1>4, <2>2, <2>3
<1>8. w \in Seq(Chunks) /\ Len(w) = n - k /\ \A j \in 1 .. n - k : w[j] = q[k + j]
  <2>1. \A j \in k + 1 .. n : q[j] \in Chunks
    BY <1>3, <1>4
  <2>2. /\ w \in Seq(Chunks) /\ Len(w) = IF k + 1 <= n THEN n - (k + 1) + 1 ELSE 0
        /\ \A j \in 1 .. n - (k + 1) + 1 : w[j] = q[k + 1 + j - 1]
    BY <1>3, <1>4, <1>6, <2>1, SubSeqProperties
  <2>3. \A j \in 1 .. n - k : j \in 1 .. n - (k + 1) + 1 /\ k + 1 + j - 1 = k + j
    BY <1>4
  <2> QED  BY <1>4, <2>2, <2>3
<1>9. PICK t : t = u \o w
  OBVIOUS
<1>10. /\ t \in Seq(Chunks) /\ Len(t) = Len(u) + Len(w)
       /\ \A j \in 1 .. Len(u) + Len(w) : t[j] = IF j <= Len(u) THEN u[j] ELSE w[j - Len(u)]
  BY <1>7, <1>8, <1>9, ConcatProperties
<1>11. Len(t) = n - 1 /\ Len(r) = n - 1
  BY <1>2, <1>3, <1>4, <1>7, <1>8, <1>10
<1>12. ASSUME NEW j \in 1 .. n - 1
       PROVE  r[j] = t[j]
  <2>1. j \in 1 .. Len(u) + Len(w) /\ Len(u) = k - 1 /\ j \in 1 .. Len(q) - 1
    BY <1>3, <1>4, <1>7, <1>8
  <2>2. CASE j < k
    <3>1. j <= Len(u) /\ j \in 1 .. k - 1
      BY <1>4, <2>1, <2>2
    <3> QED  BY <1>2, <1>7, <1>10, <2>1, <2>2, <3>1
  <2>3. CASE ~(j < k)
    <3>1. ~(j <= Len(u)) /\ j - Len(u) \in 1 .. n - k /\ k + (j - Len(u)) = j + 1
      BY <1>4, <2>1, <2>3
    <3>2. t[j] = w[j - Len(u)]
      BY <1>10, <2>1, <3>1
    <3>3. w[j - Len(u)] = q[k + (j - Len(u))]
      BY <1>8, <3>1
    <3> QED  BY <1>2, <2>1, <2>3, <3>1, <3>2, <3>3
  <2> QED  BY <2>2, <2>3
<1>13. r = t
  BY <1>2, <1>10, <1>11, <1>12, SeqEqual
<1>14. Lists!Seqs!RemoveAt(q, k) = u \o w
  BY <1>5, <1>6 DEF Lists!Seqs!RemoveAt
<1> QED  BY <1>1, <1>9, <1>13, <1>14

(* The records on which the abstract operations work.                      *)
Abs == [bins : [ChunkSizes -> Seq(Chunks)], dv : Chunks \cup {0}, dvsize : Int, ok : {TRUE}]

(* n is m with the lists M.                                                *)
Relisted(m, n, M) == n \in Abs /\ n.bins = M /\ n.dv = m.dv /\ n.dvsize = m.dvsize

(* The abstract insert_chunk adds the chunk to its list,                   *)
LEMMA AbsInsert ==
  ASSUME NEW m \in Abs, NEW s \in ChunkSizes, NEW p \in Chunks, p \notin Elements(m.bins[s]), Once(m.bins[s])
  PROVE  Relisted(m, Lists!InsertChunk(m, p, s), With(m.bins, s, Added(m.bins[s], s, p)))
<1>1. PICK q \in Seq(Chunks) : q = m.bins[s] /\ p \notin Elements(q) /\ Once(q)
  BY DEF Abs
<1>2. s \in Nat /\ s >= MinChunk /\ (IsSmall(s) <=> s < SmallLimit)
  BY SizesAre
<1>3. Added(q, s, p) = IF s < SmallLimit THEN <<p>> \o q ELSE Append(q, p)
  BY <1>1, <1>2, FrontedConcat, BackedAppend DEF Added
<1>4. PICK r \in Seq(Chunks) : r = Added(q, s, p)
  <2>1. Fronted(q, p) \in Seq(Chunks) /\ Backed(q, p) \in Seq(Chunks)
    BY <1>1, FrontedIs, BackedIs
  <2> QED  BY <2>1 DEF Added
<1>5. PICK n : n = Lists!InsertChunk(m, p, s)
  OBVIOUS
<1>6. n = [m EXCEPT !.bins[s] = r]
  <2>1. Lists!Check(m, s >= MinChunk) = m
    BY <1>2, Zenon DEF Lists!Check
  <2>2. Lists!InsertChunk(m, p, s) =
          [m EXCEPT !.bins[s] = IF s < SmallLimit THEN <<p>> \o m.bins[s] ELSE Append(m.bins[s], p)]
    BY <2>1 DEF Lists!InsertChunk, Lists!IsSmall
  <2> QED  BY <1>1, <1>3, <1>4, <1>5, <2>2
<1>7. n.bins = [m.bins EXCEPT ![s] = r] /\ n.dv = m.dv /\ n.dvsize = m.dvsize
  BY <1>6 DEF Abs
<1>8. m.bins \in [ChunkSizes -> Seq(Chunks)]
  BY DEF Abs
<1>9. n \in Abs
  BY <1>6, <1>8 DEF Abs
<1>10. n.bins = With(m.bins, s, r)
  BY <1>7, <1>8 DEF With
<1> QED  BY <1>1, <1>4, <1>5, <1>7, <1>9, <1>10 DEF Relisted

(* the abstract unlink_chunk takes it away,                                *)
LEMMA AbsUnlink ==
  ASSUME NEW m \in Abs, NEW s \in ChunkSizes, Once(m.bins[s]), NEW k \in 1 .. Len(m.bins[s])
  PROVE  Relisted(m, Lists!UnlinkChunk(m, m.bins[s][k], s), With(m.bins, s, Without(m.bins[s], k)))
<1>1. PICK q \in Seq(Chunks) : q = m.bins[s] /\ Once(q) /\ k \in 1 .. Len(q)
  BY DEF Abs
<1>2. PICK p : p = q[k]
  OBVIOUS
<1>3. PICK P : P = Lists!Places(m, p, s)
  OBVIOUS
<1>4. P = {k}
  <2>1. DOMAIN q = 1 .. Len(q)
    BY <1>1, LenProperties
  <2>2. P = {i \in DOMAIN q : q[i] = p}
    BY <1>1, <1>3 DEF Lists!Places
  <2>3. \A i \in 1 .. Len(q) : q[i] = q[k] => i = k
    BY <1>1 DEF Once
  <2> QED  BY <1>1, <1>2, <2>1, <2>2, <2>3
<1>5. (CHOOSE i \in P : TRUE) = k
  BY <1>4
<1>6. PICK r \in Seq(Chunks) : r = Without(q, k) /\ Lists!Seqs!RemoveAt(q, k) = r
  BY <1>1, WithoutIs, WithoutRemoves
<1>7. PICK n : n = Lists!UnlinkChunk(m, p, s)
  OBVIOUS
<1>8. n = [m EXCEPT !.bins[s] = r]
  <2>1. Lists!Check(m, P # {}) = m
    BY <1>4, Zenon DEF Lists!Check
  <2>2. Lists!UnlinkChunk(m, p, s) =
          [Lists!Check(m, P # {}) EXCEPT
             !.bins[s] = IF P = {} THEN @ ELSE Lists!Seqs!RemoveAt(@, CHOOSE i \in P : TRUE)]
    BY <1>3, Zenon DEF Lists!UnlinkChunk
  <2>3. Lists!UnlinkChunk(m, p, s) =
          [m EXCEPT !.bins[s] = IF P = {} THEN m.bins[s]
                                ELSE Lists!Seqs!RemoveAt(m.bins[s], CHOOSE i \in P : TRUE)]
    BY <2>1, <2>2
  <2>4. (IF P = {} THEN m.bins[s] ELSE Lists!Seqs!RemoveAt(m.bins[s], CHOOSE i \in P : TRUE)) = r
    <3>1. P # {}
      BY <1>4
    <3>2. Lists!Seqs!RemoveAt(m.bins[s], CHOOSE i \in P : TRUE) = Lists!Seqs!RemoveAt(q, k)
      BY <1>1, <1>5
    <3> QED  BY <1>6, <3>1, <3>2
  <2> QED  BY <1>7, <2>3, <2>4
<1>9. n.bins = [m.bins EXCEPT ![s] = r] /\ n.dv = m.dv /\ n.dvsize = m.dvsize
  BY <1>8 DEF Abs
<1>10. m.bins \in [ChunkSizes -> Seq(Chunks)]
  BY DEF Abs
<1>11. n \in Abs
  BY <1>8, <1>10 DEF Abs
<1>12. n.bins = With(m.bins, s, r)
  BY <1>9, <1>10 DEF With
<1> QED  BY <1>1, <1>2, <1>6, <1>7, <1>9, <1>11, <1>12 DEF Relisted

(* What the abstract malloc chooses.                                       *)
LEMMA AbsFit ==
  ASSUME NEW m \in Abs, NEW nb \in Requests, NEW s, Serves(m.bins, nb, m.dvsize, s)
  PROVE  Lists!BinnedFit(m, nb) = s /\ s # 0
<1>1. PICK L : L = m.bins /\ L \in [ChunkSizes -> Seq(Chunks)]
  BY DEF Abs
<1>2. PICK d \in Int : d = m.dvsize
  BY DEF Abs
<1>3. s \in ChunkSizes /\ L[s] # <<>> /\ s >= nb /\ \A z \in ChunkSizes : L[z] # <<>> /\ z >= nb => s <= z
  BY <1>1 DEF Serves, Chosen
<1>4. IF IsSmall(nb) THEN s = nb \/ nb > d ELSE s - nb < Word(d - nb)
  BY <1>2 DEF Serves
<1>5. (\A z \in ChunkSizes : z \in Nat) /\ s # 0 /\ SmallLimit \in Nat
  BY <1>3, SizesAre, SizeBounds
<1>6. nb \in Nat /\ (IsSmall(nb) <=> nb < SmallLimit)
  BY RequestsAre
<1>7. PICK small : small = {z \in ChunkSizes : L[z] # <<>> /\ z < SmallLimit /\ z >= nb}
  OBVIOUS
<1>8. PICK large : large = {z \in ChunkSizes : L[z] # <<>> /\ ~(z < SmallLimit) /\ z >= nb}
  OBVIOUS
<1>9. DOMAIN m.bins = ChunkSizes
  BY <1>1
<1>10. {z \in Lists!SmallSizes(m) : z >= nb} = small
  BY <1>1, <1>7, <1>9 DEF Lists!SmallSizes, Lists!IsSmall
<1>11. {z \in Lists!TreeSizes(m) : z >= nb} = large
  BY <1>1, <1>8, <1>9 DEF Lists!TreeSizes, Lists!IsSmall
<1>12. Lists!BinnedFit(m, nb) =
         IF nb < SmallLimit
         THEN IF nb \in small THEN nb
              ELSE IF nb <= d THEN 0
              ELSE IF small # {} THEN Lists!Least(small)
              ELSE IF large # {} THEN Lists!Least(large) ELSE 0
         ELSE IF large # {} /\ Lists!Least(large) - nb < Word(d - nb) THEN Lists!Least(large) ELSE 0
  BY <1>2, <1>10, <1>11, Zenon DEF Lists!BinnedFit, Lists!IsSmall, Lists!Word, Word
<1>13. \A S : s \in S /\ S \subseteq ChunkSizes /\ (\A z \in S : s <= z) => Lists!Least(S) = s
  <2> SUFFICES ASSUME NEW S, s \in S, S \subseteq ChunkSizes, \A z \in S : s <= z
               PROVE  Lists!Least(S) = s
    OBVIOUS
  <2>1. PICK y : y = Lists!Least(S)
    OBVIOUS
  <2>2. y \in S /\ \A z \in S : y <= z
    BY <2>1 DEF Lists!Least
  <2>3. y \in Nat /\ s \in Nat /\ y <= s /\ s <= y
    BY <1>5, <2>2
  <2>4. y = s
    BY <2>3
  <2> QED  BY <2>1, <2>4
<1>14. CASE s < SmallLimit
  <2>1. s \in small /\ nb < SmallLimit
    BY <1>3, <1>5, <1>6, <1>7, <1>14
  <2>2. Lists!Least(small) = s /\ small # {}
    BY <1>3, <1>7, <1>13, <2>1
  <2>3. nb \in small => s = nb
    BY <1>3, <1>5, <1>6, <1>7
  <2>4. CASE nb \in small
    BY <1>5, <1>12, <2>1, <2>3, <2>4
  <2>5. CASE nb \notin small
    <3>1. s # nb
      BY <2>1, <2>5
    <3>2. ~(nb <= d)
      BY <1>2, <1>4, <1>6, <2>1, <3>1
    <3> QED  BY <1>5, <1>12, <2>1, <2>2, <2>5, <3>2
  <2> QED  BY <2>4, <2>5
<1>15. CASE ~(s < SmallLimit)
  <2>1. s \in large
    BY <1>3, <1>8, <1>15
  <2>2. Lists!Least(large) = s /\ large # {}
    BY <1>3, <1>8, <1>13, <2>1
  <2>3. small = {}
    BY <1>3, <1>5, <1>7, <1>15
  <2>4. CASE nb < SmallLimit
    <3>1. s # nb
      BY <1>15, <2>4
    <3>2. ~(nb <= d)
      BY <1>2, <1>4, <1>6, <2>4, <3>1
    <3> QED  BY <1>5, <1>12, <2>2, <2>3, <2>4, <3>2
  <2>5. CASE ~(nb < SmallLimit)
    <3>1. s - nb < Word(d - nb)
      BY <1>4, <1>6, <2>5
    <3> QED  BY <1>5, <1>12, <2>2, <2>5, <3>1
  <2> QED  BY <2>4, <2>5
<1> QED  BY <1>14, <1>15

(* and the abstract malloc leaves the lists that the links spell then.     *)
LEMMA AbsServe ==
  ASSUME NEW m \in Abs, \A z \in ChunkSizes : Once(m.bins[z]), NEW nb \in Requests, NEW x \in Chunks, m.dv = x,
         \A z \in ChunkSizes : x \notin Elements(m.bins[z]), m.dvsize \in DvSizes,
         NEW s, Serves(m.bins, nb, m.dvsize, s)
  PROVE  Lists!Split(Lists!UnlinkChunk(m, Head(m.bins[s]), s), nb, s, x).bins
           = Filled(m.bins, s, nb, x, m.dvsize)
<1>1. s \in ChunkSizes /\ m.bins[s] # <<>> /\ s >= nb /\ s \in Nat
  BY SizesAre DEF Serves, Chosen
<1>2. PICK q \in Seq(Chunks) : q = m.bins[s] /\ q # <<>> /\ Once(q) /\ 1 \in 1 .. Len(q)
  <2>1. PICK q \in Seq(Chunks) : q = m.bins[s] /\ q # <<>> /\ Once(q)
    BY <1>1 DEF Abs
  <2>2. Len(q) \in Nat /\ Len(q) > 0
    BY <2>1, ListPlaces
  <2> QED  BY <2>1, <2>2
<1>3. Head(m.bins[s]) = m.bins[s][1]
  BY <1>2
<1>4. PICK d \in DvSizes : d = m.dvsize
  OBVIOUS
<1>5. PICK n : n = Lists!UnlinkChunk(m, m.bins[s][1], s)
  OBVIOUS
<1>6. PICK P : P = Popped(m.bins, s)
  OBVIOUS
<1>7. n \in Abs /\ n.bins = P /\ n.dv = x /\ n.dvsize = d
  BY <1>1, <1>2, <1>4, <1>5, <1>6, AbsUnlink DEF Relisted, Popped
<1>8. nb \in Nat /\ MinChunk \in Nat /\ MinChunk > 0 /\ (IsSmall(nb) <=> nb < SmallLimit)
  BY RequestsAre, BinsAssumption, SmallBinAssumption
<1>9. CASE s - nb < MinChunk
  <2>1. Lists!Split(n, nb, s, x) = n
    BY <1>9, Zenon DEF Lists!Split
  <2> QED  BY <1>3, <1>5, <1>6, <1>7, <1>9, <2>1 DEF Filled
<1>10. CASE ~(s - nb < MinChunk)
  <2>1. s # nb /\ s - nb >= MinChunk
    BY <1>1, <1>8, <1>10
  <2>2. \A z \in ChunkSizes : Once(P[z]) /\ x \notin Elements(P[z])
    <3>1. \A z \in ChunkSizes : P[z] = IF z = s THEN Without(q, 1) ELSE m.bins[z]
      BY <1>2, <1>6 DEF Popped, With
    <3>2. Once(Without(q, 1)) /\ Elements(Without(q, 1)) = Elements(q) \ {q[1]}
      BY <1>2, WithoutIs
    <3> QED  BY <1>1, <1>2, <3>1, <3>2
  <2>3. CASE IsSmall(nb)
    <3>1. nb > d
      BY <1>4, <2>1, <2>3 DEF Serves
    <3>2. d # 0 => d \in ChunkSizes /\ IsSmall(d)
      BY <2>3, <3>1, VictimSmall
    <3>3. d < SmallLimit
      BY <1>8, <2>3, <3>1, <3>2, SizesAre, SizeBounds
    <3>4. Lists!Check(n, n.dvsize < SmallLimit) = n
      BY <1>7, <3>3, Zenon DEF Lists!Check
    <3>5. PICK g : g = Lists!BinDv(n)
      OBVIOUS
    <3>6. g \in Abs /\ g.bins = Refiled(P, x, d)
      <4>1. CASE d = 0
        <5>1. g = n
          BY <1>7, <3>5, <4>1 DEF Lists!BinDv
        <5> QED  BY <1>7, <4>1, <5>1 DEF Refiled
      <4>2. CASE d # 0
        <5>1. g = Lists!InsertChunk(n, x, d)
          BY <1>7, <3>5, <4>2 DEF Lists!BinDv
        <5>2. d \in ChunkSizes /\ x \notin Elements(n.bins[d]) /\ Once(n.bins[d])
          BY <1>7, <2>2, <3>2, <4>2
        <5>3. Relisted(n, g, With(n.bins, d, Added(n.bins[d], d, x)))
          BY <1>7, <5>1, <5>2, AbsInsert
        <5> QED  BY <1>7, <4>2, <5>3 DEF Relisted, Refiled
      <4> QED  BY <4>1, <4>2
    <3>7. Lists!ReplaceDv(n, x, s - nb) = [g EXCEPT !.dvsize = s - nb, !.dv = x]
      BY <3>4, <3>5, Zenon DEF Lists!ReplaceDv, Lists!IsSmall
    <3>8. Lists!ReplaceDv(n, x, s - nb).bins = g.bins
      BY <3>6, <3>7 DEF Abs
    <3>9. Lists!Split(n, nb, s, x) = Lists!ReplaceDv(n, x, s - nb)
      BY <1>8, <1>10, <2>3, Zenon DEF Lists!Split, Lists!KeepRest, Lists!IsSmall
    <3> QED  BY <1>3, <1>4, <1>5, <1>6, <1>10, <2>3, <3>6, <3>8, <3>9 DEF Filled
  <2>4. CASE ~IsSmall(nb)
    <3>1. s - nb \in ChunkSizes /\ s - nb # 0
      BY <1>1, <1>8, <2>1, <2>4, BinsAssumption
    <3>2. Lists!Split(n, nb, s, x) = Lists!InsertChunk(n, x, s - nb)
      BY <1>8, <1>10, <2>4, Zenon DEF Lists!Split, Lists!KeepRest, Lists!IsSmall
    <3>3. Relisted(n, Lists!InsertChunk(n, x, s - nb), With(n.bins, s - nb, Added(n.bins[s - nb], s - nb, x)))
      BY <1>7, <2>2, <3>1, AbsInsert
    <3>4. Lists!Split(n, nb, s, x).bins = Refiled(P, x, s - nb)
      BY <1>7, <3>1, <3>2, <3>3 DEF Relisted, Refiled
    <3> QED  BY <1>3, <1>5, <1>6, <1>10, <2>4, <3>4 DEF Filled
  <2> QED  BY <2>3, <2>4
<1> QED  BY <1>9, <1>10

-----------------------------------------------------------------------------
(* The links spell the lists of the invariant.                             *)

(* Following the links from the first chunk of q to the node stop.         *)
LEMMA TurnsAre ==
  ASSUME NEW link, NEW q \in Seq(Chunks), Once(q), q # <<>>, NEW stop,
         link[q[Len(q)]] = stop, link[stop] \in Elements(q),
         \A k \in 1 .. Len(q) - 1 : link[q[k]] = q[k + 1] /\ q[k + 1] # stop
  PROVE  Turns(link, q[1], stop) = q
<1>1. PICK n \in Nat : n = Len(q) /\ n > 0 /\ n <= Cardinality(Chunks) /\ Cardinality(Chunks) \in Nat
  BY ListLength, ListPlaces
<1>2. PICK to : to = Along(link, q[1])
  OBVIOUS
<1>3. PICK V : V = {stop} \cup Elements(q)
  OBVIOUS
<1>4. \A k \in 1 .. n : q[k] \in V
  BY <1>1, <1>3 DEF Elements
<1>5. \A v \in V : link[v] \in V
  <2>1. ASSUME NEW k \in 1 .. n PROVE link[q[k]] \in V
    <3>1. k # n => k \in 1 .. n - 1 /\ k + 1 \in 1 .. n
      BY <1>1
    <3> QED  BY <1>1, <1>3, <1>4, <3>1
  <2> QED  BY <1>1, <1>3, <2>1 DEF Elements
<1>6. 1 \in 1 .. n /\ q[1] \in V
  BY <1>1, <1>4
<1>7. /\ DOMAIN to = 0 .. Cardinality(Chunks) /\ to[0] = q[1]
      /\ \A d \in 1 .. Cardinality(Chunks) : to[d] = link[to[d - 1]]
  BY <1>2, <1>5, <1>6, AlongSteps
<1>8. PICK e \in Nat : e = n - 1 /\ e + 1 = n
  <2>1. n - 1 \in Nat /\ (n - 1) + 1 = n
    BY <1>1
  <2> QED  BY <2>1
<1>9. PICK S : S = {d \in 0 .. e : to[d] = q[d + 1]}
  OBVIOUS
<1>10. \A d \in 0 .. e : d \in S /\ d < e => d + 1 \in S
  <2> SUFFICES ASSUME NEW d \in 0 .. e, d \in S, d < e PROVE d + 1 \in S
    OBVIOUS
  <2>1. d + 1 \in 0 .. e /\ d + 1 \in 1 .. Cardinality(Chunks) /\ (d + 1) - 1 = d /\ d + 1 \in 1 .. n - 1
    BY <1>1, <1>8
  <2>2. to[d + 1] = link[to[d]]
    BY <1>7, <2>1
  <2>3. to[d + 1] = q[(d + 1) + 1]
    BY <1>1, <1>9, <2>1, <2>2
  <2> QED  BY <1>9, <2>1, <2>3
<1>11. 0 .. e \subseteq S
  <2>1. 0 \in S
    BY <1>7, <1>8, <1>9
  <2> QED  BY <1>8, <1>10, <2>1, UpTo
<1>12. \A d \in 0 .. e : to[d] = q[d + 1]
  BY <1>9, <1>11
<1>13. \A d \in 0 .. e : link[to[d]] = stop <=> d = e
  <2>1. ASSUME NEW d \in 0 .. e PROVE link[to[d]] = stop <=> d = e
    <3>1. CASE d = e
      <4>1. to[d] = q[n]
        BY <1>8, <1>12, <3>1
      <4> QED  BY <1>1, <3>1, <4>1
    <3>2. CASE d # e
      <4>1. d + 1 \in 1 .. n - 1
        BY <1>8, <3>2
      <4>2. link[to[d]] = q[(d + 1) + 1] /\ q[(d + 1) + 1] # stop
        BY <1>1, <1>12, <4>1
      <4> QED  BY <3>2, <4>2
    <3> QED  BY <3>1, <3>2
  <2> QED  BY <2>1
<1>14. PICK g : g = CHOOSE h \in DOMAIN to : link[to[h]] = stop /\ \A j \in 0 .. h - 1 : link[to[j]] # stop
  OBVIOUS
<1>15. g = e
  <2>1. e \in DOMAIN to /\ link[to[e]] = stop /\ \A j \in 0 .. e - 1 : link[to[j]] # stop
    BY <1>1, <1>7, <1>8, <1>13
  <2>2. g \in DOMAIN to /\ link[to[g]] = stop /\ \A j \in 0 .. g - 1 : link[to[j]] # stop
    BY <1>14, <2>1
  <2>3. g \in Nat
    BY <1>7, <2>2
  <2>4. ~(g < e)
    BY <1>8, <1>13, <2>2, <2>3
  <2>5. ~(e < g)
    <3>1. ASSUME e < g PROVE e \in 0 .. g - 1
      BY <1>8, <2>3, <3>1
    <3> QED  BY <2>1, <2>2, <3>1
  <2> QED  BY <1>8, <2>3, <2>4, <2>5
<1>16. Turns(link, q[1], stop) = [d \in 1 .. n |-> to[d - 1]]
  <2>1. Turns(link, q[1], stop) = [d \in 1 .. g + 1 |-> to[d - 1]]
    BY <1>2, <1>14 DEF Turns
  <2> QED  BY <1>8, <1>15, <2>1
<1>17. \A d \in 1 .. n : to[d - 1] = q[d]
  <2>1. \A d \in 1 .. n : d - 1 \in 0 .. e /\ (d - 1) + 1 = d
    BY <1>8
  <2> QED  BY <1>12, <2>1
<1>18. q = [d \in 1 .. n |-> q[d]]
  <2>1. DOMAIN q = 1 .. n /\ q \in [1 .. n -> Chunks]
    BY <1>1, LenProperties
  <2> QED  BY <2>1
<1> QED  BY <1>16, <1>17, <1>18

(* The lists of the links, in any state c.                                 *)
ListIn(c, s) ==
  IF s \notin {c.size[p] : p \in Chunks} THEN <<>>
  ELSE IF IsSmall(s) THEN Turns(c.fd, c.fd[SmallIndex(s)], SmallIndex(s))
  ELSE LET t == CHOOSE p \in NodesIn(c) : c.size[p] = s IN Turns(c.bk, t, t)

Spelt(c) == [s \in ChunkSizes |-> ListIn(c, s)]

(* The links spell the lists of the invariant.                             *)
LEMMA SpeltIs ==
  ASSUME NEW c, NEW L, NEW dep, Inv(c, L, dep)
  PROVE  Spelt(c) = L
<1>1. ListsOK(c, L) /\ L \in [ChunkSizes -> Seq(Chunks)]
  BY DEF Inv, ListsOK
<1>2. ASSUME NEW s \in ChunkSizes PROVE ListIn(c, s) = L[s]
  <2>1. PICK q \in Seq(Chunks) : /\ q = L[s] /\ Once(q) /\ Elements(q) = {y \in Chunks : c.size[y] = s}
                                 /\ Len(q) \in Nat /\ (q # <<>> <=> Len(q) > 0)
                                 /\ \A k \in 1 .. Len(q) : q[k] \in Chunks /\ c.size[q[k]] = s
                                 /\ (q # <<>> => Ring(c.fd, c.bk, s, q))
    BY <1>1, ListOfSize
  <2>2. PICK n \in Nat : n = Len(q)
    BY <2>1
  <2>3. CASE q = <<>>
    <3>1. Elements(q) = {}
      BY <2>1, <2>3 DEF Elements
    <3>2. s \notin {c.size[p] : p \in Chunks}
      BY <2>1, <3>1
    <3>3. ListIn(c, s) = <<>>
      BY <3>2 DEF ListIn
    <3> QED  BY <2>1, <2>3, <3>3
  <2>4. CASE q # <<>> /\ IsSmall(s)
    <3>1. n > 0 /\ SmallRing(c.fd, c.bk, SmallIndex(s), q)
      BY <2>1, <2>2, <2>4 DEF Ring
    <3>2. 1 \in 1 .. Len(q) /\ q[1] \in Elements(q)
      BY <2>2, <3>1 DEF Elements
    <3>3. s \in {c.size[p] : p \in Chunks}
      BY <2>1, <3>2
    <3>4. PICK i : i = SmallIndex(s)
      OBVIOUS
    <3>5. i \in Int
      BY <3>4, SizesAre DEF SmallIndex
    <3>6. \A k \in 1 .. Len(q) : q[k] # i
      BY <2>1, <3>5, ListPlaces
    <3>7. c.fd[q[Len(q)]] = i /\ c.fd[i] = q[1]
          /\ \A k \in 1 .. Len(q) - 1 : c.fd[q[k]] = q[k + 1]
      BY <3>1, <3>4 DEF SmallRing
    <3>8. \A k \in 1 .. Len(q) - 1 : q[k + 1] # i
      <4>1. \A k \in 1 .. n - 1 : k + 1 \in 1 .. n
        OBVIOUS
      <4> QED  BY <2>2, <3>6, <4>1
    <3>9. PICK fd : fd = c.fd
      OBVIOUS
    <3>10. fd[q[Len(q)]] = i /\ fd[i] \in Elements(q)
      BY <3>2, <3>7, <3>9
    <3>11. \A k \in 1 .. Len(q) - 1 : fd[q[k]] = q[k + 1] /\ q[k + 1] # i
      BY <3>7, <3>8, <3>9
    <3>12. Turns(fd, q[1], i) = q
      <4>1. /\ Once(q) /\ q # <<>> /\ fd[q[Len(q)]] = i /\ fd[i] \in Elements(q)
            /\ \A k \in 1 .. Len(q) - 1 : fd[q[k]] = q[k + 1] /\ q[k + 1] # i
        BY <2>1, <2>4, <3>10, <3>11
      <4> QED  BY <4>1, TurnsAre, Zenon
    <3>13. ListIn(c, s) = Turns(fd, fd[i], i)
      BY <2>4, <3>3, <3>4, <3>9 DEF ListIn
    <3> QED  BY <2>1, <3>7, <3>9, <3>12, <3>13
  <2>5. CASE q # <<>> /\ ~IsSmall(s)
    <3>1. n > 0 /\ LargeRing(c.fd, c.bk, q)
      BY <2>1, <2>2, <2>5 DEF Ring
    <3>2. 1 \in 1 .. Len(q) /\ q[1] \in Elements(q)
      BY <2>2, <3>1 DEF Elements
    <3>3. s \in {c.size[p] : p \in Chunks}
      BY <2>1, <3>2
    <3>4. NodesIn(c) = Heads(L)
      BY NodesInAre
    <3>5. q[1] \in NodesIn(c) /\ c.size[q[1]] = s
      BY <1>1, <2>1, <2>5, <3>2, <3>4, HeadsAre
    <3>6. \A p \in NodesIn(c) : c.size[p] = s => p = q[1]
      BY <1>1, <2>1, <3>4, HeadsAre
    <3>7. PICK t : t = CHOOSE p \in NodesIn(c) : c.size[p] = s
      OBVIOUS
    <3>8. t = q[1]
      BY <3>5, <3>6, <3>7
    <3>9. PICK bk : bk = c.bk
      OBVIOUS
    <3>10. ListIn(c, s) = Turns(bk, t, t)
      BY <2>5, <3>3, <3>7, <3>9 DEF ListIn
    <3>11. bk[q[Len(q)]] = q[1] /\ \A k \in 1 .. Len(q) - 1 : bk[q[k]] = q[k + 1]
      BY <3>1, <3>9 DEF LargeRing
    <3>12. \A k \in 1 .. Len(q) - 1 : q[k + 1] # t
      <4>1. \A k \in 1 .. n - 1 : k + 1 \in 1 .. n /\ k + 1 # 1
        OBVIOUS
      <4> QED  BY <2>1, <2>2, <3>2, <3>8, <4>1 DEF Once
    <3>13. bk[t] \in Elements(q)
      <4>1. CASE n = 1
        BY <2>2, <3>2, <3>8, <3>11, <4>1
      <4>2. CASE n # 1
        <5>1. 1 \in 1 .. n - 1 /\ 2 \in 1 .. n
          BY <3>1, <4>2
        <5>2. bk[q[1]] = q[2]
          BY <2>2, <3>11, <5>1
        <5> QED  BY <2>2, <3>8, <5>1, <5>2 DEF Elements
      <4> QED  BY <4>1, <4>2
    <3>14. Turns(bk, q[1], t) = q
      <4>1. /\ Once(q) /\ q # <<>> /\ bk[q[Len(q)]] = t /\ bk[t] \in Elements(q)
            /\ \A k \in 1 .. Len(q) - 1 : bk[q[k]] = q[k + 1] /\ q[k + 1] # t
        BY <2>1, <2>5, <3>8, <3>11, <3>12, <3>13
      <4> QED  BY <4>1, TurnsAre, Zenon
    <3> QED  BY <2>1, <3>8, <3>10, <3>14
  <2> QED  BY <2>3, <2>4, <2>5
<1>3. Spelt(c) = [s \in ChunkSizes |-> L[s]]
  BY <1>2 DEF Spelt
<1> QED  BY <1>1, <1>3

(* The mapping of the refinement gives the lists of the invariant.         *)
LEMMA MappedLists ==
  ASSUME NEW L, NEW dep, Inv(b, L, dep)
  PROVE  [s \in ChunkSizes |-> ListOf(s)] = L
<1>1. [s \in ChunkSizes |-> ListOf(s)] = Spelt(b)
  BY DEF ListOf, LargeNodes, Spelt, ListIn, NodesIn
<1> QED  BY <1>1, SpeltIs

(* The same in the next state.                                             *)
LEMMA MappedListsNext ==
  ASSUME NEW L, NEW dep, Inv(b', L, dep)
  PROVE  [s \in ChunkSizes |-> ListOf(s)]' = L
<1>1. [s \in ChunkSizes |-> ListOf(s)]' = Spelt(b')
  BY DEF ListOf, LargeNodes, Binned, Spelt, ListIn, NodesIn
<1> QED  BY <1>1, SpeltIs

(* The record on which the abstract operations work, in a reachable state. *)
LEMMA StateIs ==
  ASSUME NEW L, NEW dep, Inv(b, L, dep), NEW d \in Int, NEW x \in Chunks \cup {0}
  PROVE  \E m \in Abs : /\ m = Lists!State(d, x) /\ m.bins = L /\ m.dv = x /\ m.dvsize = d
                        /\ \A z \in ChunkSizes : Once(m.bins[z])
<1>1. ListsOK(b, L)
  BY DEF Inv
<1>2. L \in [ChunkSizes -> Seq(Chunks)] /\ \A z \in ChunkSizes : Once(L[z])
  BY <1>1 DEF ListsOK
<1>3. PICK m : m = [bins |-> L, dv |-> x, dvsize |-> d, ok |-> TRUE]
  OBVIOUS
<1>4. m = Lists!State(d, x)
  BY <1>3, MappedLists DEF Lists!State
<1>5. m \in Abs /\ m.bins = L /\ m.dv = x /\ m.dvsize = d
  BY <1>2, <1>3 DEF Abs
<1> QED  BY <1>2, <1>4, <1>5

(* A chunk is in an abstract list exactly when it is filed.                *)
LEMMA BinnedIs ==
  ASSUME NEW L, NEW dep, Inv(b, L, dep), NEW p \in Chunks
  PROVE  /\ Lists!IsBinned(p) <=> b.size[p] # 0
         /\ \A s \in ChunkSizes : Lists!In(p, L[s]) <=> p \in Elements(L[s])
         /\ b.size[p] = 0 => \A s \in ChunkSizes : p \notin Elements(L[s])
<1>1. ListsOK(b, L) /\ b \in State
  BY DEF Inv
<1>2. L \in [ChunkSizes -> Seq(Chunks)] /\ \A s \in ChunkSizes : Elements(L[s]) = {y \in Chunks : b.size[y] = s}
  BY <1>1 DEF ListsOK
<1>3. \A s \in ChunkSizes : Lists!In(p, L[s]) <=> p \in Elements(L[s])
  <2> SUFFICES ASSUME NEW s \in ChunkSizes PROVE Lists!In(p, L[s]) <=> p \in Elements(L[s])
    OBVIOUS
  <2>1. PICK q \in Seq(Chunks) : q = L[s] /\ DOMAIN q = 1 .. Len(q)
    BY <1>2, LenProperties
  <2>2. Lists!In(p, q) <=> p \in Elements(q)
    BY <2>1 DEF Lists!In, Elements
  <2> QED  BY <2>1, <2>2
<1>4. Lists!IsBinned(p) <=> \E s \in DOMAIN L : Lists!In(p, L[s])
  BY MappedLists DEF Lists!IsBinned
<1>5. DOMAIN L = ChunkSizes
  BY <1>2
<1>6. b.size[p] \in {0} \cup ChunkSizes
  BY <1>1 DEF State
<1>7. Lists!IsBinned(p) => b.size[p] # 0
  BY <1>2, <1>3, <1>4, <1>5, SizesAre
<1>8. b.size[p] # 0 => Lists!IsBinned(p)
  BY <1>2, <1>3, <1>4, <1>5, <1>6
<1>9. b.size[p] = 0 => \A s \in ChunkSizes : p \notin Elements(L[s])
  BY <1>2, SizesAre
<1> QED  BY <1>3, <1>7, <1>8, <1>9

(* Each call of the code is a call of the lists.                           *)
LEMMA InsertImplements ==
  ASSUME NEW L, NEW dep, Inv(b, L, dep), NEW p \in Chunks, NEW s \in Sizes, Insert(p, s)
  PROVE  Lists!Insert(p, s)
<1>1. PICK dep2 : Inv(b', With(L, s, Added(L[s], s, p)), dep2)
  BY InsertStep
<1>2. s \in ChunkSizes /\ b.size[p] = 0
  BY InsertStep
<1>3. PICK m \in Abs : m = Lists!State(0, 0) /\ m.bins = L /\ \A z \in ChunkSizes : Once(m.bins[z])
  BY StateIs
<1>4. ~Lists!IsBinned(p) /\ p \notin Elements(L[s])
  BY <1>2, BinnedIs
<1>5. Relisted(m, Lists!InsertChunk(m, p, s), With(m.bins, s, Added(m.bins[s], s, p)))
  BY <1>2, <1>3, <1>4, AbsInsert
<1>6. Lists!InsertChunk(Lists!State(0, Lists!NULL), p, s).bins = With(L, s, Added(L[s], s, p))
  BY <1>3, <1>5 DEF Relisted, Lists!NULL
<1>7. [z \in ChunkSizes |-> ListOf(z)]' = With(L, s, Added(L[s], s, p))
  BY <1>1, MappedListsNext
<1> QED  BY <1>4, <1>6, <1>7 DEF Lists!Insert

(* Taking a chunk from the middle of a list is the abstract unlinking,     *)
LEMMA RemovalImplements ==
  ASSUME NEW L, NEW dep, Inv(b, L, dep), NEW s \in ChunkSizes, NEW k \in 1 .. Len(L[s]),
         NEW dep2, Inv(b', With(L, s, Without(L[s], k)), dep2)
  PROVE  L[s][k] \in Chunks /\ Lists!Unlink(L[s][k])
<1>1. PICK q \in Seq(Chunks) : q = L[s] /\ k \in 1 .. Len(q)
  BY DEF Inv, ListsOK
<1>2. PICK p \in Chunks : p = q[k]
  BY <1>1, ElementOfSeq
<1>3. PICK m \in Abs : m = Lists!State(0, 0) /\ m.bins = L /\ \A z \in ChunkSizes : Once(m.bins[z])
  BY StateIs
<1>4. Lists!In(p, L[s])
  <2>1. p \in Elements(L[s])
    BY <1>1, <1>2 DEF Elements
  <2> QED  BY <2>1, BinnedIs
<1>5. Relisted(m, Lists!UnlinkChunk(m, m.bins[s][k], s), With(m.bins, s, Without(m.bins[s], k)))
  BY <1>3, AbsUnlink
<1>6. Lists!UnlinkChunk(Lists!State(0, Lists!NULL), p, s).bins = With(L, s, Without(L[s], k))
  BY <1>1, <1>2, <1>3, <1>5 DEF Relisted, Lists!NULL
<1>7. [z \in ChunkSizes |-> ListOf(z)]' = With(L, s, Without(L[s], k))
  BY MappedListsNext
<1>8. [z \in ChunkSizes |-> ListOf(z)] = L /\ s \in DOMAIN L
  BY MappedLists DEF Inv, ListsOK
<1>9. Lists!Unlink(p)
  BY <1>4, <1>6, <1>7, <1>8 DEF Lists!Unlink
<1> QED  BY <1>1, <1>2, <1>9

(* and serving a request the abstract malloc.                              *)
LEMMA MallocImplements ==
  ASSUME NEW L, NEW dep, Inv(b, L, dep), NEW nb \in Requests, NEW d \in DvSizes, NEW x \in Chunks,
         b.size[x] = 0, NEW s, Serves(L, nb, d, s), NEW dep2, Inv(b', Filled(L, s, nb, x, d), dep2)
  PROVE  Lists!Malloc(nb, d, x)
<1>1. d \in Int
  BY BinsAssumption, SizesAre
<1>2. PICK m \in Abs : /\ m = Lists!State(d, x) /\ m.bins = L /\ m.dv = x /\ m.dvsize = d
                       /\ \A z \in ChunkSizes : Once(m.bins[z])
  BY <1>1, StateIs
<1>3. ~Lists!IsBinned(x) /\ \A z \in ChunkSizes : x \notin Elements(L[z])
  BY BinnedIs
<1>4. Lists!BinnedFit(m, nb) = s /\ s # 0
  BY <1>2, AbsFit
<1>5. Lists!Split(Lists!UnlinkChunk(m, Head(m.bins[s]), s), nb, s, x).bins = Filled(L, s, nb, x, d)
  <2>1. \A z \in ChunkSizes : x \notin Elements(m.bins[z])
    BY <1>2, <1>3
  <2>2. m.dvsize \in DvSizes /\ Serves(m.bins, nb, m.dvsize, s)
    BY <1>2
  <2>3. Lists!Split(Lists!UnlinkChunk(m, Head(m.bins[s]), s), nb, s, x).bins
          = Filled(m.bins, s, nb, x, m.dvsize)
    BY <1>2, <2>1, <2>2, AbsServe
  <2> QED  BY <1>2, <2>3
<1>6. [z \in ChunkSizes |-> ListOf(z)]' = Filled(L, s, nb, x, d)
  BY MappedListsNext
<1>7. [z \in ChunkSizes |-> ListOf(z)] = L
  BY MappedLists
<1> QED  BY <1>2, <1>3, <1>4, <1>5, <1>6, <1>7 DEF Lists!Malloc

(* Every step of the linked bins is a step of the lists, or none.          *)
LEMMA StepImplements == IInv /\ [Next]_b => [Lists!Next]_([s \in ChunkSizes |-> ListOf(s)])
<1> SUFFICES ASSUME IInv, [Next]_b PROVE [Lists!Next]_([s \in ChunkSizes |-> ListOf(s)])
  OBVIOUS
<1>1. PICK L, dep : Inv(b, L, dep)
  BY DEF IInv
<1>2. ASSUME NEW p \in Chunks, NEW s \in Sizes, Insert(p, s) PROVE Lists!Next
  <2>1. Lists!Insert(p, s)
    BY <1>1, <1>2, InsertImplements
  <2> QED  BY <2>1 DEF Lists!Next
<1>3. ASSUME NEW s \in ChunkSizes, NEW k \in 1 .. Len(L[s]), NEW dep2, Inv(b', With(L, s, Without(L[s], k)), dep2)
      PROVE  Lists!Next
  <2>1. L[s][k] \in Chunks /\ Lists!Unlink(L[s][k])
    BY <1>1, <1>3, RemovalImplements
  <2> QED  BY <2>1 DEF Lists!Next
<1>4. ASSUME NEW p \in Chunks, Unlink(p) PROVE Lists!Next
  <2>1. PICK s \in ChunkSizes, k \in Nat :
           /\ k \in 1 .. Len(L[s]) /\ L[s][k] = p
           /\ \E dep2 : Inv(b', With(L, s, Without(L[s], k)), dep2)
    BY <1>1, <1>4, UnlinkStep
  <2> QED  BY <1>3, <2>1
<1>5. ASSUME NEW nb \in Requests, MallocExact(nb) PROVE Lists!Next
  <2>1. nb \in ChunkSizes /\ L[nb] # <<>>
    BY <1>1, <1>5, ExactStep
  <2>2. PICK dep2 : Inv(b', Popped(L, nb), dep2)
    BY <1>1, <1>5, ExactStep
  <2>3. 1 \in 1 .. Len(L[nb])
    <3>1. ListsOK(b, L)
      BY <1>1 DEF Inv
    <3>2. Len(L[nb]) \in Nat /\ Len(L[nb]) > 0
      BY <2>1, <3>1, ListOfSize
    <3> QED  BY <3>2
  <2>4. Inv(b', With(L, nb, Without(L[nb], 1)), dep2)
    BY <2>2 DEF Popped
  <2> QED  BY <1>3, <2>1, <2>3, <2>4
<1>6. ASSUME NEW nb \in Requests, NEW d \in DvSizes, NEW x \in Chunks, b.size[x] = 0,
             NEW s, NEW dep2, Serves(L, nb, d, s), Inv(b', Filled(L, s, nb, x, d), dep2)
      PROVE  Lists!Next
  <2>1. Lists!Malloc(nb, d, x)
    BY <1>1, <1>6, MallocImplements
  <2> QED  BY <2>1 DEF Lists!Next
<1>7. ASSUME NEW nb \in Requests, NEW d \in DvSizes, NEW x \in Chunks, MallocNextSmall(nb, d, x)
      PROVE  Lists!Next
  <2>1. b.size[x] = 0
    BY <1>7 DEF MallocNextSmall, Binned
  <2> QED  BY <1>1, <1>6, <1>7, <2>1, NextSmallStep
<1>8. ASSUME NEW nb \in Requests, NEW d \in DvSizes, NEW x \in Chunks, MallocTreeSmall(nb, d, x)
      PROVE  Lists!Next
  <2>1. b.size[x] = 0
    BY <1>8 DEF MallocTreeSmall, Binned
  <2> QED  BY <1>1, <1>6, <1>8, <2>1, TreeSmallStep
<1>9. ASSUME NEW nb \in Requests, NEW d \in DvSizes, NEW x \in Chunks, MallocLarge(nb, d, x)
      PROVE  Lists!Next
  <2>1. b.size[x] = 0
    BY <1>9 DEF MallocLarge, Binned
  <2> QED  BY <1>1, <1>6, <1>9, <2>1, LargeStep
<1>10. CASE UNCHANGED b
  <2>1. b' = b
    BY <1>10
  <2>2. Inv(b', L, dep)
    BY <1>1, <2>1
  <2>3. [s \in ChunkSizes |-> ListOf(s)]' = [s \in ChunkSizes |-> ListOf(s)]
    BY <1>1, <2>2, MappedLists, MappedListsNext
  <2> QED  BY <2>3
<1>11. CASE Next
  <2>1. Lists!Next
    BY <1>2, <1>4, <1>5, <1>7, <1>8, <1>9, <1>11 DEF Next
  <2> QED  BY <2>1
<1> QED  BY <1>10, <1>11

(* The linked bins implement the lists: what the rest of the allocator     *)
(* relies on.                                                              *)
THEOREM LinksImplementLists == Spec => ImplementsLists
<1>1. Init => Lists!Init
  <2> SUFFICES ASSUME Init PROVE Lists!Init
    OBVIOUS
  <2>1. Inv(b, [s \in ChunkSizes |-> <<>>], 0)
    BY InitLists
  <2>2. [s \in ChunkSizes |-> ListOf(s)] = [s \in ChunkSizes |-> <<>>]
    BY <2>1, MappedLists
  <2> QED  BY <2>2 DEF Lists!Init
<1> QED  BY <1>1, StepImplements, LinksSpellLists, PTL DEF Spec, ImplementsLists, Lists!Spec
=============================================================================
