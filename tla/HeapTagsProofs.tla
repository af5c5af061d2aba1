--------------------------- MODULE HeapTagsProofs ---------------------------
(***************************************************************************)
(* The lemmas about the tags and the free lists of the heap, for every     *)
(* value of the constants: what each macro of dlmalloc.i that writes a     *)
(* head, a footer or a list changes, and how chunks tile a span that is    *)
(* rewritten.                                                              *)
(*                                                                         *)
(* Tiles(h, f, a, b) of module HeapTags says that good chunks fill the     *)
(* span from a to b.  A rewriting of a part of it is described by what it  *)
(* makes of that part: Whole, one chunk; Cut, two chunks.                  *)
(***************************************************************************)
EXTENDS HeapTags, TLAPS, SequenceTheorems, WellFoundedInduction

-----------------------------------------------------------------------------
(* Numbers and sequences                                                   *)

(* Every nonempty set of natural numbers has a least element.              *)
LEMMA NatMinimum ==
  ASSUME NEW S, S \subseteq Nat, S # {}
  PROVE  \E x \in S : \A y \in S : x <= y
<1> DEFINE R == {ss \in Nat \X Nat : ss[1] < ss[2]}
<1>1. IsWellFoundedOn(R, Nat)
  BY NatLessThanWellFounded DEF OpToRel
<1>2. PICK x \in S : \A y \in S : ~(<<y, x>> \in R)
  <2> HIDE DEF R
  <2> QED  BY <1>1, WFMin, Zenon
<1>3. \A y \in S : ~(y < x)
  BY <1>2
<1> QED  BY <1>3

(* The choice that malloc makes among the sizes it found.                  *)
LEMMA LeastIs ==
  ASSUME NEW S, S \subseteq Nat, S # {}
  PROVE  Least(S) \in S /\ \A t \in S : Least(S) <= t
BY NatMinimum, Zenon DEF Least

(* e is among the first n places of f, once.                               *)
Once(f, n, e) == \E i \in 1 .. n : f[i] = e /\ \A j \in 1 .. n : f[j] = e => j = i
OnceIn(list, e) == Once(list, Len(list), e)

(* The n places of short are those of long but the one at at.              *)
Gap(short, long, n, at) ==
  at \in 1 .. n+1 /\ \A i \in 1 .. n : short[i] = long[IF i < at THEN i ELSE i + 1]

(* What the longer list holds, but for the one at at, the shorter one      *)
(* holds.                                                                  *)
LEMMA GapLong ==
  ASSUME NEW n \in Nat, NEW short, NEW long, NEW at, Gap(short, long, n, at),
         NEW i \in 1 .. n+1, i # at
  PROVE  \E j \in 1 .. n : long[i] = short[j]
<1>0. at \in 1 .. n+1 /\ \A j \in 1 .. n : short[j] = long[IF j < at THEN j ELSE j + 1]
  BY DEF Gap
<1>1. CASE i < at
  <2>1. i \in 1 .. n
    BY <1>0, <1>1
  <2> QED  BY <1>0, <1>1, <2>1
<1>2. CASE i > at
  <2>1. i - 1 \in 1 .. n /\ ~(i - 1 < at) /\ (i - 1) + 1 = i
    BY <1>0, <1>2
  <2> QED  BY <1>0, <2>1
<1> QED  BY <1>0, <1>1, <1>2

(* What the shorter list holds, the longer one holds elsewhere than at at. *)
LEMMA GapShort ==
  ASSUME NEW n \in Nat, NEW short, NEW long, NEW at, Gap(short, long, n, at), NEW i \in 1 .. n
  PROVE  \E j \in 1 .. n+1 : j # at /\ short[i] = long[j]
<1>1. PICK j : j = IF i < at THEN i ELSE i + 1
  OBVIOUS
<1>2. j \in 1 .. n+1 /\ j # at
  BY <1>1 DEF Gap
<1>3. short[i] = long[j]
  BY <1>1 DEF Gap
<1> QED  BY <1>2, <1>3

(* An entry other than the one at at is in both lists once, or in neither. *)
LEMMA GapOnce ==
  ASSUME NEW n \in Nat, NEW short, NEW long, NEW at, Gap(short, long, n, at),
         NEW q, q # long[at]
  PROVE  Once(short, n, q) <=> Once(long, n+1, q)
<1> DEFINE up(i) == IF i < at THEN i ELSE i + 1
<1>0. at \in 1 .. n+1
  BY DEF Gap
<1>1. \A i \in 1 .. n : up(i) \in 1 .. n+1 /\ short[i] = long[up(i)]
  BY DEF Gap
<1>2. \A i \in 1 .. n, j \in 1 .. n : up(i) = up(j) => i = j
  BY <1>0
<1>3. ASSUME NEW j \in 1 .. n+1, j # at PROVE \E i \in 1 .. n : up(i) = j
  <2>1. CASE j < at
    <3>1. j \in 1 .. n
      BY <1>0, <2>1
    <3> QED  BY <2>1, <3>1
  <2>2. CASE j > at
    <3>1. j - 1 \in 1 .. n /\ ~(j - 1 < at) /\ (j - 1) + 1 = j
      BY <1>0, <2>2
    <3> QED  BY <3>1
  <2> QED  BY <1>0, <1>3, <2>1, <2>2
<1> HIDE DEF up
<1>4. ASSUME Once(short, n, q) PROVE Once(long, n+1, q)
  <2>1. PICK i \in 1 .. n : short[i] = q /\ \A j \in 1 .. n : short[j] = q => j = i
    BY <1>4 DEF Once
  <2>2. \A j \in 1 .. n+1 : long[j] = q => j = up(i)
    BY <1>1, <1>3, <2>1
  <2> QED  BY <1>1, <2>1, <2>2 DEF Once
<1>5. ASSUME Once(long, n+1, q) PROVE Once(short, n, q)
  <2>1. PICK i \in 1 .. n+1 : long[i] = q /\ \A j \in 1 .. n+1 : long[j] = q => j = i
    BY <1>5 DEF Once
  <2>2. PICK k \in 1 .. n : up(k) = i
    BY <1>3, <2>1
  <2>3. \A j \in 1 .. n : short[j] = q => j = k
    BY <1>1, <1>2, <2>1, <2>2
  <2> QED  BY <1>1, <2>1, <2>2, <2>3 DEF Once
<1> QED  BY <1>4, <1>5

(* The entry put into a list that did not have it is there once.           *)
LEMMA GapFilled ==
  ASSUME NEW n \in Nat, NEW short, NEW long, NEW at, Gap(short, long, n, at),
         \A i \in 1 .. n : short[i] # long[at]
  PROVE  Once(long, n+1, long[at])
<1>1. \A i \in 1 .. n+1 : i # at => \E j \in 1 .. n : long[i] = short[j]
  BY GapLong
<1>2. \A i \in 1 .. n+1 : i # at => long[i] # long[at]
  BY <1>1
<1> QED  BY <1>2 DEF Once, Gap

(* A sequence of integers has a length, and integers for entries.          *)
LEMMA SeqLength == \A s \in Seq(Int) : Len(s) \in Nat /\ \A i \in 1 .. Len(s) : s[i] \in Int
  BY LenProperties, ElementOfSeq

(* RemoveAt closes a gap.                                                  *)
LEMMA RemoveAtIs ==
  ASSUME NEW s \in Seq(Int), NEW i \in 1 .. Len(s)
  PROVE  /\ Seqs!RemoveAt(s, i) \in Seq(Int)
         /\ Len(Seqs!RemoveAt(s, i)) = Len(s) - 1
         /\ \A j \in 1 .. Len(s) - 1 :
              Seqs!RemoveAt(s, i)[j] = s[IF j < i THEN j ELSE j + 1]
<1>1. Seqs!RemoveAt(s, i) = SubSeq(s, 1, i-1) \o SubSeq(s, i+1, Len(s))
  BY DEF Seqs!RemoveAt
<1>2. Len(s) \in Nat /\ \A j \in 1 .. Len(s) : s[j] \in Int
  BY SeqLength
<1>3. PICK a : a = SubSeq(s, 1, i-1)
  OBVIOUS
<1>4. PICK b : b = SubSeq(s, i+1, Len(s))
  OBVIOUS
<1>5. a \in Seq(Int) /\ Len(a) = i - 1 /\ \A j \in 1 .. i-1 : a[j] = s[j]
  <2>1. \A j \in 1 .. i-1 : s[j] \in Int
    BY <1>2
  <2>2. /\ a \in Seq(Int) /\ Len(a) = IF 1 <= i-1 THEN (i-1)-1+1 ELSE 0
        /\ \A j \in 1 .. (i-1)-1+1 : a[j] = s[1+j-1]
    BY <1>3, <2>1, SubSeqProperties
  <2>3. \A j \in 1 .. i-1 : j \in 1 .. (i-1)-1+1 /\ 1+j-1 = j
    OBVIOUS
  <2> QED  BY <2>2, <2>3
<1>6. b \in Seq(Int) /\ Len(b) = Len(s) - i /\ \A j \in 1 .. Len(s) - i : b[j] = s[i + j]
  <2>1. \A j \in i+1 .. Len(s) : s[j] \in Int
    BY <1>2
  <2>2. /\ b \in Seq(Int) /\ Len(b) = IF i+1 <= Len(s) THEN Len(s)-(i+1)+1 ELSE 0
        /\ \A j \in 1 .. Len(s)-(i+1)+1 : b[j] = s[i+1+j-1]
    BY <1>2, <1>4, <2>1, SubSeqProperties
  <2>3. \A j \in 1 .. Len(s) - i : j \in 1 .. Len(s)-(i+1)+1 /\ i+1+j-1 = i + j
    BY <1>2
  <2> QED  BY <1>2, <2>2, <2>3
<1>7. PICK c : c = a \o b
  OBVIOUS
<1>8. /\ c \in Seq(Int) /\ Len(c) = Len(a) + Len(b)
      /\ \A j \in 1 .. Len(a) + Len(b) : c[j] = IF j <= Len(a) THEN a[j] ELSE b[j - Len(a)]
  BY <1>5, <1>6, <1>7, ConcatProperties
<1>9. PICK la, lb, n \in Nat : la = Len(a) /\ lb = Len(b) /\ n = Len(s)
  BY <1>5, <1>6, <1>2, SeqLength
<1>10. ASSUME NEW j \in 1 .. n - 1
       PROVE  c[j] = s[IF j < i THEN j ELSE j + 1]
  <2>1. la = i - 1 /\ lb = n - i /\ j \in 1 .. la + lb /\ i \in 1 .. n
    BY <1>5, <1>6, <1>9
  <2>2. CASE j < i
    <3>1. j <= la /\ j \in 1 .. i-1
      BY <2>1, <2>2
    <3> QED  BY <1>5, <1>8, <1>9, <2>1, <2>2, <3>1
  <2>3. CASE ~(j < i)
    <3>1. ~(j <= la) /\ j - la \in 1 .. n - i /\ i + (j - la) = j + 1
      BY <2>1, <2>3
    <3>2. c[j] = b[j - la]
      BY <1>8, <1>9, <2>1, <3>1
    <3>3. b[j - la] = s[i + (j - la)]
      BY <1>6, <1>9, <3>1
    <3> QED  BY <2>3, <3>1, <3>2, <3>3
  <2> QED  BY <2>2, <2>3
<1>11. Seqs!RemoveAt(s, i) = c /\ Len(c) = Len(s) - 1
  <2>1. Seqs!RemoveAt(s, i) = c
    BY <1>1, <1>3, <1>4, <1>7, Zenon
  <2>2. Len(c) = la + lb /\ la = i - 1 /\ lb = n - i /\ n = Len(s) /\ i \in 1 .. n
    BY <1>5, <1>6, <1>8, <1>9
  <2> QED  BY <2>1, <2>2
<1> QED  BY <1>8, <1>9, <1>10, <1>11

(* A list after an element was put at its front or its back.               *)
LEMMA ListInsert ==
  ASSUME NEW old \in Seq(Int), NEW e \in Int, NEW list,
         list = <<e>> \o old \/ list = Append(old, e),
         \A i \in 1 .. Len(old) : old[i] # e
  PROVE  /\ list \in Seq(Int)
         /\ \A i \in 1 .. Len(list) : list[i] = e \/ \E j \in 1 .. Len(old) : list[i] = old[j]
         /\ OnceIn(list, e)
         /\ \A q : q # e /\ OnceIn(old, q) => OnceIn(list, q)
<1>1. PICK n \in Nat : n = Len(old)
  BY SeqLength
<1>2. PICK at \in 1 .. n+1 :
        /\ list \in Seq(Int) /\ Len(list) = n + 1 /\ list[at] = e
        /\ Gap(old, list, n, at)
  <2>1. CASE list = <<e>> \o old
    <3>1. <<e>> \in Seq(Int) /\ Len(<<e>>) = 1 /\ <<e>>[1] = e
      OBVIOUS
    <3>2. /\ list \in Seq(Int) /\ Len(list) = 1 + n
          /\ \A i \in 1 .. 1 + n : list[i] = IF i <= 1 THEN <<e>>[i] ELSE old[i - 1]
      BY <1>1, <2>1, <3>1, ConcatProperties
    <3>3. list[1] = e
      BY <3>1, <3>2
    <3>4. ASSUME NEW i \in 1 .. n PROVE old[i] = list[IF i < 1 THEN i ELSE i + 1]
      <4>1. i + 1 \in 1 .. 1 + n /\ ~(i + 1 <= 1) /\ (i + 1) - 1 = i /\ ~(i < 1)
        OBVIOUS
      <4> QED  BY <3>2, <4>1
    <3>5. 1 \in 1 .. n+1
      OBVIOUS
    <3>6. Gap(old, list, n, 1)
      BY <3>4, <3>5 DEF Gap
    <3>7. Len(list) = n + 1
      BY <3>2
    <3> QED  BY <3>2, <3>3, <3>5, <3>6, <3>7
  <2>2. CASE list = Append(old, e)
    <3>1. /\ list \in Seq(Int) /\ Len(list) = n + 1 /\ list[n + 1] = e
          /\ \A i \in 1 .. n : list[i] = old[i]
      BY <1>1, <2>2, AppendProperties
    <3>2. \A i \in 1 .. n : old[i] = list[IF i < n+1 THEN i ELSE i + 1]
      BY <3>1
    <3>3. n+1 \in 1 .. n+1
      OBVIOUS
    <3>4. Gap(old, list, n, n+1)
      BY <3>2, <3>3 DEF Gap
    <3> QED  BY <3>1, <3>3, <3>4
  <2> QED  BY <2>1, <2>2
<1>3. \A i \in 1 .. n : old[i] # list[at]
  BY <1>1, <1>2
<1>4. Once(list, n+1, list[at])
  BY <1>2, <1>3, GapFilled
<1>5. \A q : q # list[at] => (Once(old, n, q) <=> Once(list, n+1, q))
  BY <1>2, GapOnce
<1>6. \A i \in 1 .. n+1 : i # at => \E j \in 1 .. n : list[i] = old[j]
  <2>1. PICK k, s, l, a : k = n /\ s = old /\ l = list /\ a = at
    OBVIOUS
  <2>2. k \in Nat /\ Gap(s, l, k, a)
    BY <1>1, <1>2, <2>1
  <2>3. \A i \in 1 .. k+1 : i # a => \E j \in 1 .. k : l[i] = s[j]
    BY <2>2, GapLong
  <2> QED  BY <2>1, <2>3
<1>7. /\ list \in Seq(Int) /\ Len(list) = n + 1 /\ list[at] = e
  BY <1>2
<1>8. \A i \in 1 .. Len(list) : list[i] = e \/ \E j \in 1 .. Len(old) : list[i] = old[j]
  BY <1>1, <1>6, <1>7, Zenon
<1> QED  BY <1>1, <1>4, <1>5, <1>7, <1>8, Zenon DEF OnceIn

(* A list after its only e was taken out.                                  *)
LEMMA ListRemove ==
  ASSUME NEW old \in Seq(Int), NEW i \in 1 .. Len(old), OnceIn(old, old[i]),
         NEW list, list = Seqs!RemoveAt(old, i)
  PROVE  /\ list \in Seq(Int)
         /\ \A j \in 1 .. Len(list) : list[j] # old[i] /\ \E k \in 1 .. Len(old) : list[j] = old[k]
         /\ \A q : q # old[i] /\ OnceIn(old, q) => OnceIn(list, q)
<1>1. PICK n \in Nat : n + 1 = Len(old) /\ i \in 1 .. n+1
  <2>1. Len(old) \in Nat /\ Len(old) >= 1
    BY SeqLength
  <2> QED  BY <2>1
<1>2. /\ list \in Seq(Int) /\ Len(list) = n
      /\ Gap(list, old, n, i)
  <2>1. n = Len(old) - 1
    BY <1>1
  <2>2. /\ list \in Seq(Int) /\ Len(list) = Len(old) - 1
        /\ \A j \in 1 .. Len(old) - 1 : list[j] = old[IF j < i THEN j ELSE j + 1]
    BY RemoveAtIs, Zenon
  <2> QED  BY <1>1, <2>1, <2>2 DEF Gap
<1>3. \A q : q # old[i] => (Once(list, n, q) <=> Once(old, n+1, q))
  BY <1>1, <1>2, GapOnce
<1>4. \A j \in 1 .. n : \E k \in 1 .. n+1 : k # i /\ list[j] = old[k]
  <2> TAKE j \in 1 .. n
  <2>1. n \in Nat /\ i \in 1 .. n+1
    BY <1>1
  <2>2. Gap(list, old, n, i)
    BY <1>2
  <2> QED  BY <2>1, <2>2, GapShort
<1>5. \A k \in 1 .. n+1 : k # i => old[k] # old[i]
  BY <1>1 DEF OnceIn, Once
<1>6. \A j \in 1 .. n : list[j] # old[i] /\ \E k \in 1 .. n+1 : list[j] = old[k]
  BY <1>4, <1>5, Zenon
<1> QED  BY <1>1, <1>2, <1>3, <1>6, Zenon DEF OnceIn

-----------------------------------------------------------------------------
(* The lists                                                               *)

(* The lists hold the chunks of B, whose sizes are in h: each in the list  *)
(* of its size, in one place, and no other chunk.                          *)
Binned(bins, B, h) ==
  /\ \A s \in DOMAIN bins : bins[s] \in Seq(Int)
  /\ \A s \in DOMAIN bins : \A i \in 1 .. Len(bins[s]) :
       bins[s][i] \in B /\ h[bins[s][i]].size = s
  /\ \A p \in B : h[p].size \in DOMAIN bins /\ OnceIn(bins[h[p].size], p)

(* Every chunk of F, and nothing else, is the designated victim or binned. *)
Listed(m, F, h) ==
  /\ Binned(m.bins, F \ {m.dv}, h)
  /\ m.dv = NULL <=> m.dvsize = 0
  /\ m.dv # NULL => m.dv \in F /\ h[m.dv].size = m.dvsize

(* A chunk put at either end of the list for its size: the bins hold it,   *)
(* too, and once.                                                          *)
LEMMA BinnedInsert ==
  ASSUME NEW bins, NEW B, NEW h, NEW p \in Int, NEW s \in DOMAIN bins, NEW list,
         Binned(bins, B, h), p \notin B, h[p].size = s,
         list = <<p>> \o bins[s] \/ list = Append(bins[s], p)
  PROVE  Binned([bins EXCEPT ![s] = list], B \cup {p}, h)
<1>1. PICK old : old = bins[s]
  OBVIOUS
<1>2. PICK b2 : b2 = [bins EXCEPT ![s] = list]
  OBVIOUS
<1>3. old \in Seq(Int) /\ \A j \in 1 .. Len(old) : old[j] \in B /\ h[old[j]].size = s
  BY <1>1 DEF Binned
<1>4. /\ list \in Seq(Int)
      /\ \A i \in 1 .. Len(list) : list[i] = p \/ \E j \in 1 .. Len(old) : list[i] = old[j]
      /\ OnceIn(list, p)
      /\ \A q : q # p /\ OnceIn(old, q) => OnceIn(list, q)
  <2>1. \A j \in 1 .. Len(old) : old[j] # p
    BY <1>3
  <2>2. list = <<p>> \o old \/ list = Append(old, p)
    BY <1>1, Zenon
  <2> QED  BY <1>3, <2>1, <2>2, ListInsert, Zenon
<1>5. DOMAIN b2 = DOMAIN bins /\ b2[s] = list /\ \A t \in DOMAIN bins : t # s => b2[t] = bins[t]
  BY <1>2
<1>6. ASSUME NEW t \in DOMAIN b2
      PROVE  /\ b2[t] \in Seq(Int)
             /\ \A i \in 1 .. Len(b2[t]) :
                  b2[t][i] \in B \cup {p} /\ h[b2[t][i]].size = t
  <2>1. CASE t = s
    <3>1. b2[t] = list /\ h[p].size = t
      BY <1>5, <2>1
    <3>2. \A i \in 1 .. Len(list) :
            list[i] \in B \cup {p} /\ h[list[i]].size = t
      BY <1>3, <1>4, <2>1
    <3> QED  BY <1>4, <3>1, <3>2, Zenon
  <2>2. CASE t # s
    BY <1>5, <2>2 DEF Binned
  <2> QED  BY <2>1, <2>2
<1>7. ASSUME NEW q \in B \cup {p}
      PROVE  h[q].size \in DOMAIN b2 /\ OnceIn(b2[h[q].size], q)
  <2>1. CASE q = p
    BY <1>4, <1>5, <2>1
  <2>2. CASE q # p /\ h[q].size # s
    BY <1>5, <1>7, <2>2 DEF Binned
  <2>3. CASE q # p /\ h[q].size = s
    <3>1. OnceIn(old, q)
      BY <1>1, <1>7, <2>3 DEF Binned
    <3> QED  BY <1>4, <1>5, <2>3, <3>1
  <2> QED  BY <2>1, <2>2, <2>3
<1> QED  BY <1>2, <1>6, <1>7 DEF Binned

(* A chunk taken out of the list for its size: the bins hold all the       *)
(* others.                                                                 *)
LEMMA BinnedRemove ==
  ASSUME NEW bins, NEW B, NEW h, NEW p, NEW s,
         Binned(bins, B, h), p \in B, h[p].size = s,
         NEW i \in 1 .. Len(bins[s]), bins[s][i] = p
  PROVE  Binned([bins EXCEPT ![s] = Seqs!RemoveAt(bins[s], i)], B \ {p}, h)
<1>1. PICK old : old = bins[s]
  OBVIOUS
<1>2. PICK list : list = Seqs!RemoveAt(old, i)
  OBVIOUS
<1>3. PICK b2 : b2 = [bins EXCEPT ![s] = list]
  OBVIOUS
<1>4. s \in DOMAIN bins /\ OnceIn(old, p) /\ old[i] = p /\ i \in 1 .. Len(old)
  BY <1>1 DEF Binned
<1>5. old \in Seq(Int) /\ \A j \in 1 .. Len(old) : old[j] \in B /\ h[old[j]].size = s
  BY <1>1, <1>4 DEF Binned
<1>6. /\ list \in Seq(Int)
      /\ \A j \in 1 .. Len(list) : list[j] # p /\ \E k \in 1 .. Len(old) : list[j] = old[k]
      /\ \A q : q # p /\ OnceIn(old, q) => OnceIn(list, q)
  BY <1>2, <1>4, <1>5, ListRemove
<1>7. DOMAIN b2 = DOMAIN bins /\ b2[s] = list /\ \A t \in DOMAIN bins : t # s => b2[t] = bins[t]
  BY <1>3, <1>4
<1>8. ASSUME NEW t \in DOMAIN b2
      PROVE  /\ b2[t] \in Seq(Int)
             /\ \A j \in 1 .. Len(b2[t]) :
                  b2[t][j] \in B \ {p} /\ h[b2[t][j]].size = t
  <2>1. CASE t = s
    BY <1>5, <1>6, <1>7, <2>1
  <2>2. CASE t # s
    BY <1>7, <2>2 DEF Binned
  <2> QED  BY <2>1, <2>2
<1>9. ASSUME NEW q \in B \ {p}
      PROVE  h[q].size \in DOMAIN b2 /\ OnceIn(b2[h[q].size], q)
  <2>1. CASE h[q].size # s
    BY <1>7, <1>9, <2>1 DEF Binned
  <2>2. CASE h[q].size = s
    <3>1. OnceIn(old, q)
      BY <1>1, <1>9, <2>2 DEF Binned
    <3> QED  BY <1>6, <1>7, <1>4, <2>2, <3>1
  <2> QED  BY <2>1, <2>2
<1> QED  BY <1>1, <1>2, <1>3, <1>8, <1>9 DEF Binned

-----------------------------------------------------------------------------
(* The chunks                                                              *)

Words(h) == DOMAIN h \subseteq Int /\ \A p \in DOMAIN h : h[p] \in [size : Int, cinuse : BOOLEAN, pinuse : BOOLEAN]

End(h, p) == p + h[p].size

(* The chunk at p tells that no free chunk is before it.                   *)
UsedBefore(h, p) == h[p].pinuse

(* The chunk of h at p ends inside b, nothing is inside it, and its status *)
(* is what its successor's head and the foot between them tell.            *)
GoodChunk(h, f, p, b) ==
  /\ End(h, p) \in DOMAIN h /\ End(h, p) <= b /\ h[p].size >= MinChunk
  /\ \A q \in DOMAIN h : q <= p \/ q >= End(h, p)
  /\ h[End(h, p)].pinuse = h[p].cinuse
  /\ End(h, p) \in DOMAIN f /\ f[End(h, p)] = IF h[p].cinuse THEN Magic ELSE h[p].size
  /\ h[p].cinuse \/ h[p].pinuse

(* Chunks tile the space from a to b, where another one begins.            *)
Tiles(h, f, a, b) ==
  /\ a \in DOMAIN h /\ b \in DOMAIN h /\ a <= b
  /\ \A p \in DOMAIN h : a <= p /\ p < b => GoodChunk(h, f, p, b)
  /\ \A q \in DOMAIN h : a < q /\ q <= b => \E p \in DOMAIN h : a <= p /\ p < q /\ End(h, p) = q

(* Chunks that tile two adjacent spans tile them together.                 *)
LEMMA TilesJoin ==
  ASSUME NEW h, NEW f, NEW a, NEW b, NEW c, Words(h), Tiles(h, f, a, b), Tiles(h, f, b, c)
  PROVE  Tiles(h, f, a, c)
BY ListsAssumption DEF Words, Tiles, GoodChunk, End

(* A span that is tiled is so up to any head in it, and from there on.     *)
LEMMA TilesSplit ==
  ASSUME NEW h, NEW f, NEW a, NEW b, NEW c,
         Words(h), Tiles(h, f, a, c), b \in DOMAIN h, a <= b, b <= c
  PROVE  Tiles(h, f, a, b) /\ Tiles(h, f, b, c)
BY ListsAssumption DEF Words, Tiles, GoodChunk, End

(* Tiles that a rewriting of other words leaves tiles.                     *)
LEMMA TilesFrame ==
  ASSUME NEW h, NEW f, NEW h2, NEW f2, NEW a, NEW b,
         Words(h), Words(h2), Tiles(h, f, a, b),
         \A x \in Int : a <= x /\ x <= b => (x \in DOMAIN h2 <=> x \in DOMAIN h),
         \A x \in DOMAIN h : a < x /\ x < b => h2[x] = h[x],
         a < b => /\ h2[a].size = h[a].size /\ h2[a].cinuse = h[a].cinuse
                  /\ h2[a].cinuse \/ h2[a].pinuse
                  /\ h2[b].pinuse = h[b].pinuse,
         \A x \in DOMAIN f : a < x /\ x <= b => x \in DOMAIN f2 /\ f2[x] = f[x]
  PROVE  Tiles(h2, f2, a, b)
<1>1. a \in DOMAIN h2 /\ b \in DOMAIN h2 /\ a <= b /\ a \in Int /\ b \in Int
  BY DEF Words, Tiles
<1>2. ASSUME NEW p \in DOMAIN h2, a <= p, p < b
      PROVE  /\ p \in DOMAIN h /\ GoodChunk(h, f, p, b)
             /\ h2[p].size = h[p].size /\ h2[p].cinuse = h[p].cinuse
             /\ h2[p].cinuse \/ h2[p].pinuse
             /\ h[p].size \in Int
  <2>1. p \in DOMAIN h /\ p \in Int
    BY <1>1, <1>2 DEF Words
  <2>2. GoodChunk(h, f, p, b)
    BY <1>2, <2>1 DEF Tiles
  <2>3. h[p].size \in Int
    BY <2>1 DEF Words
  <2>4. CASE p = a
    BY <1>2, <2>1, <2>2, <2>3, <2>4
  <2>5. CASE p # a
    <3>1. h2[p] = h[p]
      BY <1>1, <1>2, <2>1, <2>5
    <3> QED  BY <2>1, <2>2, <2>3, <3>1 DEF GoodChunk
  <2> QED  BY <2>4, <2>5
<1>3. ASSUME NEW p \in DOMAIN h2, a <= p, p < b
      PROVE  GoodChunk(h2, f2, p, b)
  <2>1. /\ p \in DOMAIN h /\ GoodChunk(h, f, p, b)
        /\ h2[p].size = h[p].size /\ h2[p].cinuse = h[p].cinuse
        /\ h2[p].cinuse \/ h2[p].pinuse
        /\ h[p].size \in Int /\ p \in Int
    BY <1>2, <1>3 DEF Words
  <2>2. PICK e \in Int : e = End(h, p)
    BY <2>1 DEF End
  <2>3. e = End(h2, p) /\ a < e /\ e <= b /\ e \in DOMAIN h /\ e \in DOMAIN h2 /\ p < e
    BY <1>1, <1>3, <2>1, <2>2, ListsAssumption DEF GoodChunk, End
  <2>4. h2[e].pinuse = h2[p].cinuse
    <3>1. h[e].pinuse = h[p].cinuse
      BY <2>1, <2>2 DEF GoodChunk
    <3>2. CASE e = b
      BY <1>1, <2>1, <2>3, <3>1, <3>2
    <3>3. CASE e # b
      BY <1>1, <2>1, <2>3, <3>1, <3>3
    <3> QED  BY <3>2, <3>3
  <2>5. e \in DOMAIN f2 /\ f2[e] = IF h2[p].cinuse THEN Magic ELSE h2[p].size
    <3>1. e \in DOMAIN f /\ f[e] = IF h[p].cinuse THEN Magic ELSE h[p].size
      BY <2>1, <2>2 DEF GoodChunk
    <3> QED  BY <2>1, <2>3, <3>1
  <2>6. \A q \in DOMAIN h2 : q <= p \/ q >= e
    <3> SUFFICES ASSUME NEW q \in DOMAIN h2, p < q, q < e PROVE FALSE
      BY <1>1, <2>1 DEF Words
    <3>1. q \in Int /\ a <= q /\ q <= b
      BY <1>1, <1>3, <2>1, <2>3 DEF Words
    <3>2. q \in DOMAIN h
      BY <3>1
    <3> QED  BY <2>1, <2>2, <3>1, <3>2 DEF GoodChunk
  <2> QED  BY <2>1, <2>3, <2>4, <2>5, <2>6 DEF GoodChunk
<1>4. ASSUME NEW q \in DOMAIN h2, a < q, q <= b
      PROVE  \E p \in DOMAIN h2 : a <= p /\ p < q /\ End(h2, p) = q
  <2>1. q \in DOMAIN h /\ q \in Int
    BY <1>1, <1>4 DEF Words
  <2>2. PICK p \in DOMAIN h : a <= p /\ p < q /\ End(h, p) = q
    BY <1>4, <2>1 DEF Tiles
  <2>3. p \in DOMAIN h2 /\ p < b
    BY <1>1, <1>4, <2>1, <2>2 DEF Words
  <2>4. h2[p].size = h[p].size
    BY <1>2, <2>2, <2>3
  <2> QED  BY <2>2, <2>3, <2>4 DEF End
<1> QED  BY <1>1, <1>3, <1>4 DEF Tiles

(* One chunk is a tiling.                                                  *)
LEMMA OneTile ==
  ASSUME NEW h, NEW f, NEW p, Words(h), p \in DOMAIN h, GoodChunk(h, f, p, End(h, p))
  PROVE  Tiles(h, f, p, End(h, p))
BY ListsAssumption DEF Words, Tiles, GoodChunk, End
-----------------------------------------------------------------------------
(* Records                                                                 *)

HeapFields == {"head", "foot", "bins", "dv", "dvsize", "top", "topsize", "trim_check",
               "segbase", "segsize", "brk", "contiguous", "footprint", "max_footprint",
               "footprint_limit", "usage", "ok"}

(* n is the heap m but for the fields in S.                                *)
Keeps(m, n, S) ==
  DOMAIN m = HeapFields /\ DOMAIN n = HeapFields /\ \A f \in HeapFields \ S : n[f] = m[f]

(* n is the heap m but for its tags.                                       *)
KeepsTags(m, n) == Keeps(m, n, {"head", "foot"})

Tag(s, c, b) == [size |-> s, cinuse |-> c, pinuse |-> b]

(* What the macros on tags write.                                          *)
PutHeadTo(h, f, h2, f2, p, s, w) ==
  /\ \A x : x \in DOMAIN h2 <=> x = p \/ (x \in DOMAIN h /\ (x <= p \/ x >= p + s))
  /\ h2[p] = w
  /\ \A x \in DOMAIN h2 : x # p => h2[x] = h[x]
  /\ \A x : x \in DOMAIN f2 <=> x \in DOMAIN f /\ (x <= p \/ x >= p + s)
  /\ \A x \in DOMAIN f2 : f2[x] = f[x]

(* Writing the head of a chunk: the words inside the chunk are no heads or *)
(* footers any more, and the rest of the heap is as it was.                *)
LEMMA PutHeadIs ==
  ASSUME NEW m, DOMAIN m = HeapFields, NEW p, NEW s, NEW c, NEW b,
         NEW n, n = PutHead(m, p, s, c, b)
  PROVE  /\ KeepsTags(m, n)
         /\ PutHeadTo(m.head, m.foot, n.head, n.foot, p, s, Tag(s, c, b))
<1>1. KeepsTags(m, n)
  BY DEF PutHead, KeepsTags, Keeps, HeapFields
<1>2. n.head = Put(Outside(m.head, p, s), p, Tag(s, c, b)) /\ n.foot = Outside(m.foot, p, s)
  BY DEF PutHead, HeapFields, Tag
<1> HIDE DEF Tag
<1>3. PutHeadTo(m.head, m.foot, n.head, n.foot, p, s, Tag(s, c, b))
  BY <1>2 DEF PutHeadTo, Put, Outside
<1> QED  BY <1>1, <1>3

PutFootTo(f, f2, n, v) ==
  DOMAIN f2 = DOMAIN f \cup {n} /\ f2[n] = v /\ \A x \in DOMAIN f : x # n => f2[x] = f[x]

(* Writing a footer changes that footer alone.                             *)
LEMMA PutFootIs ==
  ASSUME NEW m, DOMAIN m = HeapFields, NEW p, NEW v, NEW n, n = PutFoot(m, p, v)
  PROVE  /\ KeepsTags(m, n)
         /\ n.head = m.head /\ PutFootTo(m.foot, n.foot, p, v)
<1>1. KeepsTags(m, n) /\ n.head = m.head /\ n.foot = Put(m.foot, p, v)
  BY DEF PutFoot, KeepsTags, Keeps, HeapFields
<1> QED  BY <1>1 DEF Put,  PutFootTo

PutPinuseTo(h, h2, n, bit) ==
  /\ DOMAIN h2 = DOMAIN h \cup {n}
  /\ h2[n] = IF n \in DOMAIN h THEN Tag(h[n].size, h[n].cinuse, bit) ELSE Tag(0, FALSE, bit)
  /\ \A x \in DOMAIN h : x # n => h2[x] = h[x]

(* Writing the bit that tells of the chunk before changes one head, if     *)
(* there is one.                                                           *)
LEMMA PutPinuseIs ==
  ASSUME NEW m, DOMAIN m = HeapFields, Words(m.head), NEW p, NEW bit, NEW n, n = PutPinuse(m, p, bit)
  PROVE  /\ KeepsTags(m, n)
         /\ n.foot = m.foot /\ PutPinuseTo(m.head, n.head, p, bit)
<1>1. PICK w : w = IF p \in DOMAIN m.head THEN [m.head[p] EXCEPT !.pinuse = bit]
                   ELSE Tag(0, FALSE, bit)
  OBVIOUS
<1>2. KeepsTags(m, n) /\ n.foot = m.foot /\ n.head = Put(m.head, p, w)
  BY <1>1 DEF PutPinuse, KeepsTags, Keeps, HeapFields, Tag
<1>3. DOMAIN n.head = DOMAIN m.head \cup {p} /\ n.head[p] = w
      /\ \A x \in DOMAIN m.head : x # p => n.head[x] = m.head[x]
  BY <1>2 DEF Put
<1>4. w = IF p \in DOMAIN m.head THEN Tag(m.head[p].size, m.head[p].cinuse, bit)
          ELSE Tag(0, FALSE, bit)
  BY <1>1 DEF Words, Tag
<1> QED  BY <1>2, <1>3, <1>4 DEF PutPinuseTo

(* A list of chunks stays what it is while their sizes do.                 *)
LEMMA BinnedFrame ==
  ASSUME NEW bins, NEW B, NEW h, NEW h2, Binned(bins, B, h), \A p \in B : h2[p].size = h[p].size
  PROVE  Binned(bins, B, h2)
BY DEF Binned

(* The lists are exact still where neither they nor the sizes of their     *)
(* chunks changed.                                                         *)
LEMMA ListedFrame ==
  ASSUME NEW m, NEW n, NEW F, NEW h, NEW h2, Listed(m, F, h), \A p \in F : h2[p].size = h[p].size,
         n.bins = m.bins, n.dv = m.dv, n.dvsize = m.dvsize
  PROVE  Listed(n, F, h2)
<1>1. Binned(m.bins, F \ {m.dv}, h2)
  BY BinnedFrame DEF Listed
<1> QED  BY <1>1 DEF Listed

(* insert_chunk puts the chunk into the bin of its size and changes        *)
(* nothing else.                                                           *)
LEMMA InsertChunkIs ==
  ASSUME NEW m, DOMAIN m = HeapFields, NEW B, NEW h, Binned(m.bins, B, h),
         NEW p \in Int, p \notin B, NEW s \in DOMAIN m.bins, h[p].size = s, s >= MinChunk,
         NEW n, n = InsertChunk(m, p, s)
  PROVE  /\ Keeps(m, n, {"bins"}) /\ DOMAIN n.bins = DOMAIN m.bins
         /\ Binned(n.bins, B \cup {p}, h)
<1>1. PICK list : list = IF IsSmall(s) THEN <<p>> \o m.bins[s] ELSE Append(m.bins[s], p)
  OBVIOUS
<1>2. PICK b2 : b2 = [m.bins EXCEPT ![s] = list]
  OBVIOUS
<1>3. n = [m EXCEPT !.bins = b2]
  BY <1>1, <1>2 DEF InsertChunk, Check
<1>4. Keeps(m, n, {"bins"}) /\ n.bins = b2
  BY <1>3 DEF Keeps, HeapFields
<1>5. list = <<p>> \o m.bins[s] \/ list = Append(m.bins[s], p)
  BY <1>1, Zenon
<1>6. Binned(b2, B \cup {p}, h)
  BY <1>2, <1>5, BinnedInsert, Zenon
<1>7. DOMAIN b2 = DOMAIN m.bins
  BY <1>2
<1> QED  BY <1>4, <1>6, <1>7

(* unlink_chunk takes the chunk out of the bin of its size and changes     *)
(* nothing else.                                                           *)
LEMMA UnlinkChunkIs ==
  ASSUME NEW m, DOMAIN m = HeapFields, NEW B, NEW h, Binned(m.bins, B, h),
         NEW p \in B, NEW s, h[p].size = s, NEW n, n = UnlinkChunk(m, p, s)
  PROVE  /\ Keeps(m, n, {"bins"}) /\ DOMAIN n.bins = DOMAIN m.bins
         /\ Binned(n.bins, B \ {p}, h)
<1>1. s \in DOMAIN m.bins /\ m.bins[s] \in Seq(Int) /\ OnceIn(m.bins[s], p)
  BY DEF Binned
<1>2. PICK i : i = CHOOSE j \in Places(m, p, s) : TRUE
  OBVIOUS
<1>3. DOMAIN m.bins[s] = 1 .. Len(m.bins[s])
  BY <1>1, LenProperties
<1>4. Places(m, p, s) # {}
  BY <1>1, <1>3 DEF Places, OnceIn, Once
<1>5. i \in Places(m, p, s)
  BY <1>2, <1>4
<1>6. i \in 1 .. Len(m.bins[s]) /\ m.bins[s][i] = p
  BY <1>3, <1>5 DEF Places
<1>7. PICK b2 : b2 = [m.bins EXCEPT ![s] = Seqs!RemoveAt(m.bins[s], i)]
  OBVIOUS
<1>8. n = [m EXCEPT !.bins = b2]
  BY <1>2, <1>4, <1>7 DEF UnlinkChunk, Check
<1>9. Keeps(m, n, {"bins"}) /\ n.bins = b2
  BY <1>8 DEF Keeps, HeapFields
<1>10. Binned(b2, B \ {p}, h)
  BY <1>6, <1>7, BinnedRemove, Zenon
<1>11. DOMAIN b2 = DOMAIN m.bins
  BY <1>7
<1> QED  BY <1>9, <1>10, <1>11

(* The old designated victim is binned.                                    *)
LEMMA BinDvIs ==
  ASSUME NEW m, DOMAIN m = HeapFields, NEW F, F \subseteq Int \ {NULL}, NEW h, Listed(m, F, h),
         \A p \in F : h[p].size \in DOMAIN m.bins /\ h[p].size >= MinChunk,
         NEW n, n = BinDv(m)
  PROVE  /\ Keeps(m, n, {"bins"}) /\ DOMAIN n.bins = DOMAIN m.bins
         /\ Binned(n.bins, F, h)
<1>1. CASE m.dvsize = 0
  <2>1. n = m /\ m.dv = NULL
    BY <1>1 DEF BinDv, Listed
  <2>2. F \ {m.dv} = F
    BY <2>1
  <2> QED  BY <2>1, <2>2 DEF Listed, Keeps
<1>2. CASE m.dvsize # 0
  <2>1. PICK p, s : p = m.dv /\ s = m.dvsize
    OBVIOUS
  <2>2. n = InsertChunk(m, p, s)
    BY <1>2, <2>1 DEF BinDv
  <2>3. p # NULL /\ p \in F /\ h[p].size = s /\ Binned(m.bins, F \ {p}, h)
    BY <1>2, <2>1 DEF Listed
  <2>4. p \in Int /\ s \in DOMAIN m.bins /\ s >= MinChunk
    BY <2>3
  <2>5. /\ Keeps(m, n, {"bins"}) /\ DOMAIN n.bins = DOMAIN m.bins
        /\ Binned(n.bins, (F \ {p}) \cup {p}, h)
    BY <2>2, <2>3, <2>4, InsertChunkIs
  <2>6. (F \ {p}) \cup {p} = F
    BY <2>3
  <2> QED  BY <2>5, <2>6
<1> QED  BY <1>1, <1>2

(* p becomes the designated victim.                                        *)
LEMMA ReplaceDvIs ==
  ASSUME NEW m, DOMAIN m = HeapFields, NEW F, F \subseteq Int \ {NULL}, NEW h, Listed(m, F, h),
         \A q \in F : h[q].size \in DOMAIN m.bins /\ h[q].size >= MinChunk,
         IsSmall(m.dvsize), NEW p \in Int, p # NULL, p \notin F, NEW s \in Int, s > 0,
         h[p].size = s, NEW n, n = ReplaceDv(m, p, s)
  PROVE  /\ Keeps(m, n, {"bins", "dv", "dvsize"}) /\ DOMAIN n.bins = DOMAIN m.bins
         /\ Listed(n, F \cup {p}, h)
<1>1. PICK k : k = BinDv(m)
  OBVIOUS
<1>2. /\ Keeps(m, k, {"bins"}) /\ DOMAIN k.bins = DOMAIN m.bins
      /\ Binned(k.bins, F, h)
  BY <1>1, BinDvIs
<1>3. n = [k EXCEPT !.dvsize = s, !.dv = p]
  BY <1>1 DEF ReplaceDv, Check
<1>4. Keeps(m, n, {"bins", "dv", "dvsize"}) /\ n.bins = k.bins /\ n.dv = p /\ n.dvsize = s
  BY <1>2, <1>3 DEF Keeps, HeapFields
<1>5. (F \cup {p}) \ {p} = F
  OBVIOUS
<1>6. Listed(n, F \cup {p}, h)
  BY <1>2, <1>4, <1>5 DEF Listed
<1> QED  BY <1>2, <1>4, <1>6

(* insert_chunk, when the designated victim is counted with the bins.      *)
LEMMA InsertListed ==
  ASSUME NEW m, DOMAIN m = HeapFields, NEW F, NEW h, Listed(m, F, h),
         NEW p \in Int, p # NULL, p \notin F, NEW s \in DOMAIN m.bins, h[p].size = s, s >= MinChunk,
         NEW n, n = InsertChunk(m, p, s)
  PROVE  /\ Keeps(m, n, {"bins"}) /\ DOMAIN n.bins = DOMAIN m.bins
         /\ Listed(n, F \cup {p}, h)
<1>1. Binned(m.bins, F \ {m.dv}, h) /\ p \notin F \ {m.dv}
  BY DEF Listed
<1>2. /\ Keeps(m, n, {"bins"}) /\ DOMAIN n.bins = DOMAIN m.bins
      /\ Binned(n.bins, (F \ {m.dv}) \cup {p}, h)
  BY <1>1, InsertChunkIs
<1>3. n.dv = m.dv /\ n.dvsize = m.dvsize
  BY <1>2 DEF Keeps, HeapFields
<1>4. (F \cup {p}) \ {m.dv} = (F \ {m.dv}) \cup {p}
  BY DEF Listed
<1>5. Listed(n, F \cup {p}, h)
  BY <1>2, <1>3, <1>4 DEF Listed
<1> QED  BY <1>2, <1>5

(* unlink_chunk, when the designated victim is counted with the bins.      *)
LEMMA UnlinkListed ==
  ASSUME NEW m, DOMAIN m = HeapFields, NEW F, NEW h, Listed(m, F, h),
         NEW p \in F, p # m.dv, NEW s, h[p].size = s, NEW n, n = UnlinkChunk(m, p, s)
  PROVE  /\ Keeps(m, n, {"bins"}) /\ DOMAIN n.bins = DOMAIN m.bins
         /\ Listed(n, F \ {p}, h)
<1>1. Binned(m.bins, F \ {m.dv}, h) /\ p \in F \ {m.dv}
  BY DEF Listed
<1>2. /\ Keeps(m, n, {"bins"}) /\ DOMAIN n.bins = DOMAIN m.bins
      /\ Binned(n.bins, (F \ {m.dv}) \ {p}, h)
  <2>1. PICK B : B = F \ {m.dv}
    OBVIOUS
  <2>2. Binned(m.bins, B, h) /\ p \in B
    BY <1>1, <2>1
  <2>3. Keeps(m, n, {"bins"}) /\ DOMAIN n.bins = DOMAIN m.bins /\ Binned(n.bins, B \ {p}, h)
    BY <2>2, UnlinkChunkIs
  <2> QED  BY <2>1, <2>3
<1>3. n.dv = m.dv /\ n.dvsize = m.dvsize
  BY <1>2 DEF Keeps, HeapFields
<1>4. (F \ {p}) \ {m.dv} = (F \ {m.dv}) \ {p}
  OBVIOUS
<1>5. Listed(n, F \ {p}, h)
  BY <1>2, <1>3, <1>4 DEF Listed
<1> QED  BY <1>2, <1>5

(* The chunks of G can be put in the lists of B; the remainder of a chunk  *)
(* split for nb granules can take the place of a designated victim of d.   *)
Fillable(G, h, B) == G \subseteq Int \ {NULL} /\ \A x \in G : h[x].size \in B /\ h[x].size >= MinChunk
SmallRoom(nb, d) == IsSmall(nb) => IsSmall(d)

(* What is left of a split chunk is filed.                                 *)
LEMMA KeepRestIs ==
  ASSUME NEW m, DOMAIN m = HeapFields, NEW F, NEW h, Listed(m, F, h), Fillable(F, h, DOMAIN m.bins),
         NEW nb, SmallRoom(nb, m.dvsize),
         NEW p \in Int, p # NULL, p \notin F, NEW s \in DOMAIN m.bins, s \in Int, h[p].size = s,
         s >= MinChunk, NEW n, n = KeepRest(m, nb, p, s)
  PROVE  /\ Keeps(m, n, {"bins", "dv", "dvsize"}) /\ DOMAIN n.bins = DOMAIN m.bins
         /\ Listed(n, F \cup {p}, h)
<1>1. /\ F \subseteq Int \ {NULL} /\ \A x \in F : h[x].size \in DOMAIN m.bins /\ h[x].size >= MinChunk
  BY DEF Fillable
<1>2. CASE IsSmall(nb)
  <2>1. n = ReplaceDv(m, p, s) /\ s > 0 /\ IsSmall(m.dvsize)
    BY <1>2, ListsAssumption DEF KeepRest, SmallRoom
  <2> QED  BY <1>1, <2>1, ReplaceDvIs
<1>3. CASE ~IsSmall(nb)
  <2>1. n = InsertChunk(m, p, s)
    BY <1>3 DEF KeepRest
  <2>2. Keeps(m, n, {"bins"}) /\ DOMAIN n.bins = DOMAIN m.bins /\ Listed(n, F \cup {p}, h)
    BY <2>1, InsertListed
  <2>3. Keeps(m, n, {"bins", "dv", "dvsize"})
    BY <2>2 DEF Keeps
  <2> QED  BY <2>2, <2>3
<1> QED  BY <1>2, <1>3


(* The parts of a head word.                                               *)
LEMMA TagIs ==
  \A s, c, b : Tag(s, c, b).size = s /\ Tag(s, c, b).cinuse = c /\ Tag(s, c, b).pinuse = b
BY DEF Tag

(* A head word of the model is one.                                        *)
LEMMA TagInWords ==
  \A s \in Int, c \in BOOLEAN, b \in BOOLEAN :
    Tag(s, c, b) \in [size : Int, cinuse : BOOLEAN, pinuse : BOOLEAN]
BY DEF Tag

(* A chunk of size s was laid out at p: its head is w and its foot v.      *)
Laid(h, f, h2, f2, p, s, w, v) ==
  /\ \A x : x # p + s => (x \in DOMAIN h2 <=> x = p \/ (x \in DOMAIN h /\ (x <= p \/ x >= p + s)))
  /\ h2[p] = w
  /\ \A x \in DOMAIN h2 : x # p /\ x # p + s => h2[x] = h[x]
  /\ \A x : x \in DOMAIN f2 <=> x = p + s \/ (x \in DOMAIN f /\ (x <= p \/ x >= p + s))
  /\ f2[p + s] = v
  /\ \A x \in DOMAIN f2 : x # p + s => f2[x] = f[x]

(* Its successor was told of it, or not.                                   *)
Told(h, h2, n, bit) ==
  /\ n \in DOMAIN h2
  /\ h2[n] = IF n \in DOMAIN h THEN Tag(h[n].size, h[n].cinuse, bit) ELSE Tag(0, FALSE, bit)
Untold(h, h2, n) == (n \in DOMAIN h2 <=> n \in DOMAIN h) /\ (n \in DOMAIN h => h2[n] = h[n])

(* A head and a footer written for a chunk, and nothing in the head after  *)
(* it.                                                                     *)
LEMMA LaidUntold ==
  ASSUME NEW h, NEW f, NEW h1, NEW f1, NEW f2, NEW p \in Int, NEW s \in Int, s > 0, NEW w, NEW v,
         DOMAIN h \subseteq Int,
         PutHeadTo(h, f, h1, f1, p, s, w), PutFootTo(f1, f2, p + s, v)
  PROVE  Laid(h, f, h1, f2, p, s, w, v) /\ Untold(h, h1, p + s)
<1>1. PICK e \in Int : e = p + s /\ e > p
  OBVIOUS
<1>2. Laid(h, f, h1, f2, p, s, w, v)
  BY <1>1 DEF Laid, PutHeadTo, PutFootTo
<1>3. Untold(h, h1, p + s)
  BY <1>1 DEF Untold, PutHeadTo
<1> QED  BY <1>2, <1>3

(* A head and a footer written for a chunk, and the bit that tells of it   *)
(* in the head after it.                                                   *)
LEMMA LaidTold ==
  ASSUME NEW h, NEW f, NEW h1, NEW f1, NEW h2, NEW f2, NEW p \in Int, NEW s \in Int, s > 0,
         NEW w, NEW v, NEW bit, DOMAIN h \subseteq Int,
         PutHeadTo(h, f, h1, f1, p, s, w), PutPinuseTo(h1, h2, p + s, bit),
         PutFootTo(f1, f2, p + s, v)
  PROVE  Laid(h, f, h2, f2, p, s, w, v) /\ Told(h, h2, p + s, bit)
<1>1. PICK e \in Int : e = p + s /\ e > p
  OBVIOUS
<1>2. Laid(h, f, h1, f2, p, s, w, v) /\ Untold(h, h1, e)
  BY <1>1, LaidUntold
<1>3. Laid(h, f, h2, f2, p, s, w, v)
  BY <1>1, <1>2 DEF Laid, PutPinuseTo
<1>4. Told(h, h2, p + s, bit)
  BY <1>1, <1>2 DEF Told, Untold, PutPinuseTo
<1> QED  BY <1>3, <1>4

(* set_inuse writes the chunk's head, keeping what it says of the chunk    *)
(* before, its footer and the bit in the next head.                        *)
LEMMA SetInuseIs ==
  ASSUME NEW m, DOMAIN m = HeapFields, Words(m.head), NEW p \in Int, NEW s \in Int, s > 0,
         NEW n, n = SetInuse(m, p, s)
  PROVE  /\ KeepsTags(m, n)
         /\ Laid(m.head, m.foot, n.head, n.foot, p, s,
                 Tag(s, TRUE, p \in DOMAIN m.head /\ m.head[p].pinuse), Magic)
         /\ Told(m.head, n.head, p + s, TRUE)
<1>1. PICK b \in BOOLEAN : b = (p \in DOMAIN m.head /\ m.head[p].pinuse)
  OBVIOUS
<1>2. PICK k : k = PutHead(m, p, s, TRUE, b)
  OBVIOUS
<1>3. PICK l : l = PutPinuse(k, p + s, TRUE)
  OBVIOUS
<1>4. n = PutFoot(l, p + s, Magic)
  BY <1>1, <1>2, <1>3, Zenon DEF SetInuse, Pinuse
<1>5. KeepsTags(m, k) /\ PutHeadTo(m.head, m.foot, k.head, k.foot, p, s, Tag(s, TRUE, b))
  BY <1>2, PutHeadIs
<1>6. DOMAIN k = HeapFields /\ Words(k.head)
  BY <1>5, TagInWords DEF KeepsTags, Keeps, Words, PutHeadTo
<1>7. KeepsTags(k, l) /\ l.foot = k.foot /\ PutPinuseTo(k.head, l.head, p + s, TRUE)
  BY <1>3, <1>6, PutPinuseIs
<1>8. DOMAIN l = HeapFields
  BY <1>7 DEF KeepsTags, Keeps
<1>9. KeepsTags(l, n) /\ n.head = l.head /\ PutFootTo(l.foot, n.foot, p + s, Magic)
  BY <1>4, <1>8, PutFootIs
<1>10. KeepsTags(m, n)
  BY <1>5, <1>7, <1>9 DEF KeepsTags, Keeps
<1>11. Laid(m.head, m.foot, n.head, n.foot, p, s, Tag(s, TRUE, b), Magic) /\ Told(m.head, n.head, p + s, TRUE)
  BY <1>5, <1>7, <1>9, LaidTold DEF Words
<1> QED  BY <1>1, <1>10, <1>11

(* set_inuse_and_pinuse does so and says that the chunk before is in use.  *)
LEMMA SetInuseAndPinuseIs ==
  ASSUME NEW m, DOMAIN m = HeapFields, Words(m.head), NEW p \in Int, NEW s \in Int, s > 0,
         NEW n, n = SetInuseAndPinuse(m, p, s)
  PROVE  /\ KeepsTags(m, n)
         /\ Laid(m.head, m.foot, n.head, n.foot, p, s, Tag(s, TRUE, TRUE), Magic)
         /\ Told(m.head, n.head, p + s, TRUE)
<1>2. PICK k : k = PutHead(m, p, s, TRUE, TRUE)
  OBVIOUS
<1>3. PICK l : l = PutPinuse(k, p + s, TRUE)
  OBVIOUS
<1>4. n = PutFoot(l, p + s, Magic)
  BY <1>2, <1>3, Zenon DEF SetInuseAndPinuse
<1>5. KeepsTags(m, k) /\ PutHeadTo(m.head, m.foot, k.head, k.foot, p, s, Tag(s, TRUE, TRUE))
  BY <1>2, PutHeadIs
<1>6. DOMAIN k = HeapFields /\ Words(k.head)
  BY <1>5, TagInWords DEF KeepsTags, Keeps, Words, PutHeadTo
<1>7. KeepsTags(k, l) /\ l.foot = k.foot /\ PutPinuseTo(k.head, l.head, p + s, TRUE)
  BY <1>3, <1>6, PutPinuseIs
<1>8. DOMAIN l = HeapFields
  BY <1>7 DEF KeepsTags, Keeps
<1>9. KeepsTags(l, n) /\ n.head = l.head /\ PutFootTo(l.foot, n.foot, p + s, Magic)
  BY <1>4, <1>8, PutFootIs
<1>10. KeepsTags(m, n)
  BY <1>5, <1>7, <1>9 DEF KeepsTags, Keeps
<1>11. Laid(m.head, m.foot, n.head, n.foot, p, s, Tag(s, TRUE, TRUE), Magic) /\ Told(m.head, n.head, p + s, TRUE)
  BY <1>5, <1>7, <1>9, LaidTold DEF Words
<1> QED  BY <1>10, <1>11

(* The macros that write a head and a foot and no bit of the successor.    *)
LEMMA HeadAndFoot ==
  ASSUME NEW m, DOMAIN m = HeapFields, Words(m.head), NEW p \in Int, NEW s \in Int, s > 0,
         NEW w, NEW v, NEW k, NEW n,
         KeepsTags(m, k), PutHeadTo(m.head, m.foot, k.head, k.foot, p, s, w),
         KeepsTags(k, n), n.head = k.head, PutFootTo(k.foot, n.foot, p + s, v)
  PROVE  /\ KeepsTags(m, n)
         /\ Laid(m.head, m.foot, n.head, n.foot, p, s, w, v)
         /\ Untold(m.head, n.head, p + s)
<1>1. KeepsTags(m, n)
  BY DEF KeepsTags, Keeps
<1>2. Laid(m.head, m.foot, k.head, n.foot, p, s, w, v) /\ Untold(m.head, k.head, p + s)
  BY LaidUntold DEF Words
<1> QED  BY <1>1, <1>2

(* set_size_and_pinuse_of_inuse_chunk leaves the next head alone.          *)
LEMMA SetSizeAndPinuseOfInuseChunkIs ==
  ASSUME NEW m, DOMAIN m = HeapFields, Words(m.head), NEW p \in Int, NEW s \in Int, s > 0,
         NEW n, n = SetSizeAndPinuseOfInuseChunk(m, p, s)
  PROVE  /\ KeepsTags(m, n)
         /\ Laid(m.head, m.foot, n.head, n.foot, p, s, Tag(s, TRUE, TRUE), Magic)
         /\ Untold(m.head, n.head, p + s)
<1>1. PICK k : k = PutHead(m, p, s, TRUE, TRUE)
  OBVIOUS
<1>2. n = PutFoot(k, p + s, Magic)
  BY <1>1 DEF SetSizeAndPinuseOfInuseChunk
<1>3. KeepsTags(m, k) /\ PutHeadTo(m.head, m.foot, k.head, k.foot, p, s, Tag(s, TRUE, TRUE))
  BY <1>1, PutHeadIs
<1>4. DOMAIN k = HeapFields
  BY <1>3 DEF KeepsTags, Keeps
<1>5. KeepsTags(k, n) /\ n.head = k.head /\ PutFootTo(k.foot, n.foot, p + s, Magic)
  BY <1>2, <1>4, PutFootIs
<1> QED  BY <1>3, <1>5, HeadAndFoot

(* set_size_and_pinuse_of_free_chunk writes head and footer of a free      *)
(* chunk and leaves the next head alone.                                   *)
LEMMA SetSizeAndPinuseOfFreeChunkIs ==
  ASSUME NEW m, DOMAIN m = HeapFields, Words(m.head), NEW p \in Int, NEW s \in Int, s > 0,
         NEW n, n = SetSizeAndPinuseOfFreeChunk(m, p, s)
  PROVE  /\ KeepsTags(m, n)
         /\ Laid(m.head, m.foot, n.head, n.foot, p, s, Tag(s, FALSE, TRUE), s)
         /\ Untold(m.head, n.head, p + s)
<1>1. PICK k : k = PutHead(m, p, s, FALSE, TRUE)
  OBVIOUS
<1>2. n = PutFoot(k, p + s, s)
  BY <1>1 DEF SetSizeAndPinuseOfFreeChunk
<1>3. KeepsTags(m, k) /\ PutHeadTo(m.head, m.foot, k.head, k.foot, p, s, Tag(s, FALSE, TRUE))
  BY <1>1, PutHeadIs
<1>4. DOMAIN k = HeapFields
  BY <1>3 DEF KeepsTags, Keeps
<1>5. KeepsTags(k, n) /\ n.head = k.head /\ PutFootTo(k.foot, n.foot, p + s, s)
  BY <1>2, <1>4, PutFootIs
<1> QED  BY <1>3, <1>5, HeadAndFoot

(* set_free_with_pinuse does so and clears the bit in the next head.       *)
LEMMA SetFreeWithPinuseIs ==
  ASSUME NEW m, DOMAIN m = HeapFields, Words(m.head), NEW p \in Int, NEW s \in Int, s > 0,
         NEW n, n = SetFreeWithPinuse(m, p, s, p + s)
  PROVE  /\ KeepsTags(m, n)
         /\ Laid(m.head, m.foot, n.head, n.foot, p, s, Tag(s, FALSE, TRUE), s)
         /\ Told(m.head, n.head, p + s, FALSE)
<1>1. PICK k : k = PutPinuse(m, p + s, FALSE)
  OBVIOUS
<1>2. KeepsTags(m, k) /\ k.foot = m.foot /\ PutPinuseTo(m.head, k.head, p + s, FALSE)
  BY <1>1, PutPinuseIs
<1>3. DOMAIN k = HeapFields /\ Words(k.head)
  <2>1. Tag(0, FALSE, FALSE) \in [size : Int, cinuse : BOOLEAN, pinuse : BOOLEAN]
    BY DEF Tag
  <2>2. ASSUME NEW x \in DOMAIN k.head
        PROVE  k.head[x] \in [size : Int, cinuse : BOOLEAN, pinuse : BOOLEAN]
    <3>1. CASE x \in DOMAIN m.head
      <4>1. Tag(m.head[x].size, m.head[x].cinuse, FALSE)
              \in [size : Int, cinuse : BOOLEAN, pinuse : BOOLEAN]
        BY <3>1 DEF Tag, Words
      <4>2. k.head[x] = m.head[x] \/ k.head[x] = Tag(m.head[x].size, m.head[x].cinuse, FALSE)
        BY <1>2, <3>1 DEF PutPinuseTo
      <4> QED  BY <3>1, <4>1, <4>2 DEF Words
    <3>2. CASE x \notin DOMAIN m.head
      BY <1>2, <2>1, <2>2, <3>2 DEF PutPinuseTo
    <3> QED  BY <3>1, <3>2
  <2> QED  BY <1>2, <2>2 DEF KeepsTags, Keeps, Words, PutPinuseTo
<1>4. n = SetSizeAndPinuseOfFreeChunk(k, p, s)
  BY <1>1 DEF SetFreeWithPinuse
<1>5. /\ KeepsTags(k, n)
      /\ Laid(k.head, k.foot, n.head, n.foot, p, s, Tag(s, FALSE, TRUE), s)
      /\ Untold(k.head, n.head, p + s)
  BY <1>3, <1>4, SetSizeAndPinuseOfFreeChunkIs
<1>6. KeepsTags(m, n)
  BY <1>2, <1>5 DEF KeepsTags, Keeps
<1>7. Laid(m.head, m.foot, n.head, n.foot, p, s, Tag(s, FALSE, TRUE), s)
  BY <1>2, <1>5 DEF Laid, PutPinuseTo
<1>8. Told(m.head, n.head, p + s, FALSE)
  BY <1>2, <1>5 DEF Told, Untold, PutPinuseTo
<1> QED  BY <1>6, <1>7, <1>8
-----------------------------------------------------------------------------
(* Rewriting a span of chunks                                              *)

(* Of the tags, only those of what lies between p and r were rewritten,    *)
(* and what a chunk before p or after r tells or is told.                  *)
Rewrote(h, f, h2, f2, p, r) ==
  /\ Words(h2)
  /\ \A x \in Int : x < p \/ x > r => (x \in DOMAIN h2 <=> x \in DOMAIN h)
  /\ \A x \in DOMAIN h : x < p \/ x > r => h2[x] = h[x]
  /\ p \in DOMAIN h2 /\ h2[p].pinuse = h[p].pinuse
  /\ r \in DOMAIN h2 /\ h2[r].size = h[r].size /\ h2[r].cinuse = h[r].cinuse
  /\ \A x \in DOMAIN f : x <= p \/ x > r => x \in DOMAIN f2 /\ f2[x] = f[x]
  /\ \A x \in DOMAIN f2 :
       \/ x \in DOMAIN f /\ f2[x] = f[x]
       \/ x \in Int /\ p < x /\ x <= r /\ f2[x] \in {Magic} \cup 1 .. r - p

(* A span rewritten inside a tiled one, so that its new chunks tile it and *)
(* the head after it says of no two free neighbours, leaves the whole      *)
(* tiled.                                                                  *)
LEMMA Retile ==
  ASSUME NEW h, NEW f, NEW h2, NEW f2, NEW a, NEW b, NEW p, NEW r,
         Words(h), Tiles(h, f, a, b), a <= p, p <= r, r <= b, p \in DOMAIN h, r \in DOMAIN h,
         Rewrote(h, f, h2, f2, p, r), Tiles(h2, f2, p, r),
         r < b => h2[r].cinuse \/ h2[r].pinuse
  PROVE  Tiles(h2, f2, a, b)
<1>1. a \in Int /\ b \in Int /\ p \in Int /\ r \in Int /\ Words(h2)
  BY DEF Words, Tiles, Rewrote
<1>2. Tiles(h, f, a, p) /\ Tiles(h, f, p, b)
  <2>1. p <= b
    BY <1>1
  <2> QED  BY <2>1, TilesSplit
<1>3. Tiles(h, f, r, b)
  BY <1>2, TilesSplit
<1>4. Tiles(h2, f2, a, p)
  <2>1. \A x \in Int : a <= x /\ x <= p => (x \in DOMAIN h2 <=> x \in DOMAIN h)
    BY <1>1 DEF Rewrote
  <2>2. \A x \in DOMAIN h : a < x /\ x < p => h2[x] = h[x]
    BY <1>1 DEF Rewrote
  <2>3. a < p => /\ h2[a].size = h[a].size /\ h2[a].cinuse = h[a].cinuse
                 /\ h2[a].cinuse \/ h2[a].pinuse
                 /\ h2[p].pinuse = h[p].pinuse
    <3> SUFFICES ASSUME a < p
                 PROVE  /\ h2[a].size = h[a].size /\ h2[a].cinuse = h[a].cinuse
                        /\ h2[a].cinuse \/ h2[a].pinuse
                        /\ h2[p].pinuse = h[p].pinuse
      OBVIOUS
    <3>1. a \in DOMAIN h /\ h2[a] = h[a]
      BY <1>2 DEF Rewrote, Tiles
    <3>2. GoodChunk(h, f, a, p)
      BY <1>1, <1>2, <3>1 DEF Tiles
    <3> QED  BY <3>1, <3>2 DEF GoodChunk, Rewrote
  <2>4. \A x \in DOMAIN f : a < x /\ x <= p => x \in DOMAIN f2 /\ f2[x] = f[x]
    BY DEF Rewrote
  <2> QED  BY <1>1, <1>2, <2>1, <2>2, <2>3, <2>4, TilesFrame
<1>5. Tiles(h2, f2, r, b)
  <2>1. \A x \in Int : r <= x /\ x <= b => (x \in DOMAIN h2 <=> x \in DOMAIN h)
    BY <1>1 DEF Rewrote
  <2>2. \A x \in DOMAIN h : r < x /\ x < b => h2[x] = h[x]
    BY <1>1 DEF Rewrote, Words
  <2>3. r < b => /\ h2[r].size = h[r].size /\ h2[r].cinuse = h[r].cinuse
                 /\ h2[r].cinuse \/ h2[r].pinuse
                 /\ h2[b].pinuse = h[b].pinuse
    BY <1>1, <1>3 DEF Rewrote, Tiles
  <2>4. \A x \in DOMAIN f : r < x /\ x <= b => x \in DOMAIN f2 /\ f2[x] = f[x]
    BY DEF Rewrote
  <2> QED  BY <1>1, <1>3, <2>1, <2>2, <2>3, <2>4, TilesFrame
<1> QED  BY <1>1, <1>4, <1>5, TilesJoin

Footer(c, s) == IF c THEN Magic ELSE s

(* The span from p to r became one chunk.                                  *)
Whole(h, f, h2, f2, p, r, c) ==
  /\ \A x : x \in DOMAIN h2 <=> x = p \/ x = r \/ (x \in DOMAIN h /\ (x < p \/ x > r))
  /\ h2[p] = Tag(r - p, c, h[p].pinuse) /\ h2[r] = Tag(h[r].size, h[r].cinuse, c)
  /\ \A x \in DOMAIN h2 : x # p /\ x # r => h2[x] = h[x]
  /\ \A x : x \in DOMAIN f2 <=> x = r \/ (x \in DOMAIN f /\ (x <= p \/ x >= r))
  /\ f2[r] = Footer(c, r - p)
  /\ \A x \in DOMAIN f2 : x # r => f2[x] = f[x]

(* A span made into one chunk is tiled by it.                              *)
LEMMA WholeTiles ==
  ASSUME NEW h, NEW f, NEW h2, NEW f2, NEW p \in DOMAIN h, NEW r \in DOMAIN h, NEW c \in BOOLEAN,
         Words(h), r - p >= MinChunk, c \/ h[p].pinuse, Whole(h, f, h2, f2, p, r, c),
         DOMAIN f \subseteq Int
  PROVE  Rewrote(h, f, h2, f2, p, r) /\ Tiles(h2, f2, p, r)
<1>1. p \in Int /\ r \in Int /\ p < r /\ r - p \in Int
  BY ListsAssumption DEF Words
<1>2. Words(h2)
  <2>1. ASSUME NEW x \in DOMAIN h2
        PROVE  x \in Int /\ h2[x] \in [size : Int, cinuse : BOOLEAN, pinuse : BOOLEAN]
    <3>1. x = p \/ x = r \/ x \in DOMAIN h
      BY DEF Whole
    <3>2. CASE x = p
      BY <1>1, <3>2, TagInWords DEF Whole, Words
    <3>3. CASE x = r
      BY <1>1, <3>3, TagInWords DEF Whole, Words
    <3>4. CASE x # p /\ x # r
      BY <3>1, <3>4 DEF Whole, Words
    <3> QED  BY <3>2, <3>3, <3>4
  <2> QED  BY <2>1 DEF Words
<1>3. /\ p \in DOMAIN h2 /\ h2[p].size = r - p /\ h2[p].cinuse = c /\ h2[p].pinuse = h[p].pinuse
      /\ r \in DOMAIN h2 /\ h2[r].size = h[r].size /\ h2[r].cinuse = h[r].cinuse
      /\ h2[r].pinuse = c
  BY <1>1, TagIs DEF Whole
<1>4. Rewrote(h, f, h2, f2, p, r)
  <2>1. \A x \in Int : x < p \/ x > r => (x \in DOMAIN h2 <=> x \in DOMAIN h)
    BY <1>1 DEF Whole
  <2>2. \A x \in DOMAIN h : x < p \/ x > r => h2[x] = h[x]
    BY <1>1 DEF Whole, Words
  <2>3. \A x \in DOMAIN f : x <= p \/ x > r => x \in DOMAIN f2 /\ f2[x] = f[x]
    BY <1>1 DEF Whole
  <2>4. \A x \in DOMAIN f2 :
          \/ x \in DOMAIN f /\ f2[x] = f[x]
          \/ x \in Int /\ p < x /\ x <= r /\ f2[x] \in {Magic} \cup 1 .. r - p
    BY <1>1, ListsAssumption DEF Whole, Footer
  <2> QED  BY <1>2, <1>3, <2>1, <2>2, <2>3, <2>4 DEF Rewrote
<1>5. GoodChunk(h2, f2, p, r)
  <2>1. \A q \in DOMAIN h2 : q <= p \/ q >= r
    BY <1>1 DEF Whole, Words
  <2>2. End(h2, p) = r
    BY <1>1, <1>3 DEF End
  <2>3. r \in DOMAIN f2 /\ f2[r] = IF h2[p].cinuse THEN Magic ELSE h2[p].size
    BY <1>3 DEF Whole, Footer
  <2> QED  BY <1>1, <1>3, <2>1, <2>2, <2>3 DEF GoodChunk
<1>6. End(h2, p) = r
  BY <1>1, <1>3 DEF End
<1> QED  BY <1>2, <1>3, <1>4, <1>5, <1>6, OneTile

(* The span from p to r became two chunks that meet at q.                  *)
Cut(h, f, h2, f2, p, q, r, c, d) ==
  /\ \A x : x \in DOMAIN h2 <=> x = p \/ x = q \/ x = r \/ (x \in DOMAIN h /\ (x < p \/ x > r))
  /\ h2[p] = Tag(q - p, c, h[p].pinuse) /\ h2[q] = Tag(r - q, d, c)
  /\ h2[r] = Tag(h[r].size, h[r].cinuse, d)
  /\ \A x \in DOMAIN h2 : x # p /\ x # q /\ x # r => h2[x] = h[x]
  /\ \A x : x \in DOMAIN f2 <=> x = q \/ x = r \/ (x \in DOMAIN f /\ (x <= p \/ x >= r))
  /\ f2[q] = Footer(c, q - p) /\ f2[r] = Footer(d, r - q)
  /\ \A x \in DOMAIN f2 : x # q /\ x # r => f2[x] = f[x]

(* A span made into two chunks is tiled by them.                           *)
LEMMA CutTiles ==
  ASSUME NEW h, NEW f, NEW h2, NEW f2, NEW p \in DOMAIN h, NEW q \in Int, NEW r \in DOMAIN h,
         NEW c \in BOOLEAN, NEW d \in BOOLEAN, DOMAIN f \subseteq Int,
         Words(h), q - p >= MinChunk, r - q >= MinChunk, c \/ h[p].pinuse, c \/ d,
         Cut(h, f, h2, f2, p, q, r, c, d)
  PROVE  Rewrote(h, f, h2, f2, p, r) /\ Tiles(h2, f2, p, r)
<1>1. p \in Int /\ r \in Int /\ p < q /\ q < r
  BY ListsAssumption DEF Words
<1>2. Words(h2)
  <2>1. ASSUME NEW x \in DOMAIN h2
        PROVE  x \in Int /\ h2[x] \in [size : Int, cinuse : BOOLEAN, pinuse : BOOLEAN]
    <3>1. x = p \/ x = q \/ x = r \/ x \in DOMAIN h
      BY DEF Cut
    <3>2. CASE x = p
      BY <1>1, <3>2, TagInWords DEF Cut, Words
    <3>3. CASE x = q
      BY <1>1, <3>3, TagInWords DEF Cut, Words
    <3>4. CASE x = r
      BY <1>1, <3>4, TagInWords DEF Cut, Words
    <3>5. CASE x # p /\ x # q /\ x # r
      BY <3>1, <3>5 DEF Cut, Words
    <3> QED  BY <3>2, <3>3, <3>4, <3>5
  <2> QED  BY <2>1 DEF Words
<1>3. /\ p \in DOMAIN h2 /\ h2[p].size = q - p /\ h2[p].cinuse = c /\ h2[p].pinuse = h[p].pinuse
      /\ q \in DOMAIN h2 /\ h2[q].size = r - q /\ h2[q].cinuse = d /\ h2[q].pinuse = c
      /\ r \in DOMAIN h2 /\ h2[r].size = h[r].size /\ h2[r].cinuse = h[r].cinuse
      /\ h2[r].pinuse = d
  BY <1>1, TagIs DEF Cut
<1>4. Rewrote(h, f, h2, f2, p, r)
  <2>1. \A x \in Int : x < p \/ x > r => (x \in DOMAIN h2 <=> x \in DOMAIN h)
    BY <1>1 DEF Cut
  <2>2. \A x \in DOMAIN h : x < p \/ x > r => h2[x] = h[x]
    BY <1>1 DEF Cut, Words
  <2>3. \A x \in DOMAIN f : x <= p \/ x > r => x \in DOMAIN f2 /\ f2[x] = f[x]
    BY <1>1 DEF Cut
  <2>4. \A x \in DOMAIN f2 :
          \/ x \in DOMAIN f /\ f2[x] = f[x]
          \/ x \in Int /\ p < x /\ x <= r /\ f2[x] \in {Magic} \cup 1 .. r - p
    BY <1>1, ListsAssumption DEF Cut, Footer
  <2> QED  BY <1>2, <1>3, <2>1, <2>2, <2>3, <2>4 DEF Rewrote
<1>5. Tiles(h2, f2, p, q)
  <2>1. GoodChunk(h2, f2, p, q)
    <3>1. \A x \in DOMAIN h2 : x <= p \/ x >= q
      BY <1>1 DEF Cut, Words
    <3>2. End(h2, p) = q
      BY <1>1, <1>3 DEF End
    <3>3. q \in DOMAIN f2 /\ f2[q] = IF h2[p].cinuse THEN Magic ELSE h2[p].size
      BY <1>3 DEF Cut, Footer
    <3> QED  BY <1>1, <1>3, <3>1, <3>2, <3>3 DEF GoodChunk
  <2>2. End(h2, p) = q
    BY <1>1, <1>3 DEF End
  <2> QED  BY <1>2, <1>3, <2>1, <2>2, OneTile
<1>6. Tiles(h2, f2, q, r)
  <2>1. GoodChunk(h2, f2, q, r)
    <3>1. \A x \in DOMAIN h2 : x <= q \/ x >= r
      BY <1>1 DEF Cut, Words
    <3>2. End(h2, q) = r
      BY <1>1, <1>3 DEF End
    <3>3. r \in DOMAIN f2 /\ f2[r] = IF h2[q].cinuse THEN Magic ELSE h2[q].size
      BY <1>3 DEF Cut, Footer
    <3> QED  BY <1>1, <1>3, <3>1, <3>2, <3>3 DEF GoodChunk
  <2>2. End(h2, q) = r
    BY <1>1, <1>3 DEF End
  <2> QED  BY <1>2, <1>3, <2>1, <2>2, OneTile
<1> QED  BY <1>2, <1>4, <1>5, <1>6, TilesJoin

-----------------------------------------------------------------------------
(* The macros that rewrite a span                                          *)

(* The head after a chunk that tells of it as it is, whether it was        *)
(* written or was so before.                                               *)
LEMMA ToldTag ==
  ASSUME NEW h, NEW h2, NEW r, NEW c, Words(h), r \in DOMAIN h,
         Told(h, h2, r, c) \/ (Untold(h, h2, r) /\ h[r].pinuse = c)
  PROVE  r \in DOMAIN h2 /\ h2[r] = Tag(h[r].size, h[r].cinuse, c)
<1>1. h[r] = Tag(h[r].size, h[r].cinuse, h[r].pinuse)
  BY DEF Words, Tag
<1>2. CASE Told(h, h2, r, c)
  BY <1>2 DEF Told
<1>3. CASE Untold(h, h2, r) /\ h[r].pinuse = c
  BY <1>1, <1>3, Zenon DEF Untold
<1> QED  BY <1>2, <1>3

(* The writes that make one chunk of a span.                               *)
LEMMA LaidWhole ==
  ASSUME NEW h, NEW f, NEW h2, NEW f2, NEW p \in DOMAIN h, NEW r \in DOMAIN h, NEW s \in Int, NEW c,
         Words(h), s > 0, r = p + s,
         Laid(h, f, h2, f2, p, s, Tag(s, c, h[p].pinuse), Footer(c, s)),
         r \in DOMAIN h2, h2[r] = Tag(h[r].size, h[r].cinuse, c)
  PROVE  Whole(h, f, h2, f2, p, r, c)
<1>1. p \in Int /\ r \in Int /\ p < r /\ s = r - p /\ DOMAIN h \subseteq Int
  BY DEF Words
<1> HIDE DEF Tag, Footer
<1>2. \A x : x \in DOMAIN h2 <=> x = p \/ x = r \/ (x \in DOMAIN h /\ (x < p \/ x > r))
  BY <1>1 DEF Laid
<1>3. \A x : x \in DOMAIN f2 <=> x = r \/ (x \in DOMAIN f /\ (x <= p \/ x >= r))
  BY <1>1 DEF Laid
<1> QED  BY <1>1, <1>2, <1>3 DEF Laid, Whole

(* The writes that make two chunks of a span, the first one first.         *)
LEMMA LaidCut ==
  ASSUME NEW h, NEW f, NEW h1, NEW f1, NEW h2, NEW f2, NEW p \in DOMAIN h, NEW q \in Int,
         NEW r \in DOMAIN h, NEW c, NEW d, NEW s \in Int, NEW t \in Int,
         Words(h), DOMAIN f \subseteq Int, s > 0, t > 0, q = p + s, r = q + t,
         Laid(h, f, h1, f1, p, s, Tag(s, c, h[p].pinuse), Footer(c, s)),
         Laid(h1, f1, h2, f2, q, t, Tag(t, d, c), Footer(d, t)),
         r \in DOMAIN h2, h2[r] = Tag(h[r].size, h[r].cinuse, d)
  PROVE  Cut(h, f, h2, f2, p, q, r, c, d)
<1>1. p \in Int /\ r \in Int /\ p < q /\ q < r /\ DOMAIN h \subseteq Int /\ s = q - p /\ t = r - q
  BY DEF Words
<1> HIDE DEF Tag, Footer
<1>2. \A x : x \in DOMAIN h2 <=> x = p \/ x = q \/ x = r \/ (x \in DOMAIN h /\ (x < p \/ x > r))
  BY <1>1 DEF Laid
<1>3. ASSUME NEW x PROVE x \in DOMAIN f2 <=> x = q \/ x = r \/ (x \in DOMAIN f /\ (x <= p \/ x >= r))
  <2>1. x \in DOMAIN f1 <=> x = q \/ (x \in DOMAIN f /\ (x <= p \/ x >= q))
    BY <1>1 DEF Laid
  <2>2. x \in DOMAIN f2 <=> x = r \/ (x \in DOMAIN f1 /\ (x <= q \/ x >= r))
    BY <1>1 DEF Laid
  <2> QED  BY <1>1, <2>1, <2>2
<1>4. h2[p] = Tag(q - p, c, h[p].pinuse) /\ h2[q] = Tag(r - q, d, c)
  BY <1>1 DEF Laid
<1>5. \A x \in DOMAIN h2 : x # p /\ x # q /\ x # r => h2[x] = h[x]
  BY <1>1, <1>2 DEF Laid
<1>6. f2[q] = Footer(c, q - p) /\ f2[r] = Footer(d, r - q)
  BY <1>1, <1>3 DEF Laid
<1>7. \A x \in DOMAIN f2 : x # q /\ x # r => f2[x] = f[x]
  BY <1>1, <1>3 DEF Laid
<1> QED  BY <1>2, <1>3, <1>4, <1>5, <1>6, <1>7 DEF Cut

(* The writes that make two chunks of a span, the second one first.        *)
LEMMA LaidCutBack ==
  ASSUME NEW h, NEW f, NEW h1, NEW f1, NEW h2, NEW f2, NEW p \in DOMAIN h, NEW q \in Int,
         NEW r \in DOMAIN h, NEW c, NEW d, NEW w, NEW s \in Int, NEW t \in Int,
         Words(h), DOMAIN f \subseteq Int, s > 0, t > 0, q = p + s, r = q + t,
         Laid(h, f, h1, f1, q, t, w, Footer(d, t)),
         Laid(h1, f1, h2, f2, p, s, Tag(s, c, h[p].pinuse), Footer(c, s)),
         q \in DOMAIN h2, h2[q] = Tag(t, d, c),
         r \in DOMAIN h1, h1[r] = Tag(h[r].size, h[r].cinuse, d)
  PROVE  Cut(h, f, h2, f2, p, q, r, c, d)
<1>1. p \in Int /\ r \in Int /\ p < q /\ q < r /\ DOMAIN h \subseteq Int /\ s = q - p /\ t = r - q
  BY DEF Words
<1> HIDE DEF Tag, Footer
<1>2. ASSUME NEW x
      PROVE  x \in DOMAIN h2 <=> x = p \/ x = q \/ x = r \/ (x \in DOMAIN h /\ (x < p \/ x > r))
  <2>1. x # r => (x \in DOMAIN h1 <=> x = q \/ (x \in DOMAIN h /\ (x <= q \/ x >= r)))
    BY Zenon DEF Laid
  <2>2. x # q => (x \in DOMAIN h2 <=> x = p \/ (x \in DOMAIN h1 /\ (x <= p \/ x >= q)))
    BY Zenon DEF Laid
  <2> QED  BY <1>1, <2>1, <2>2
<1>3. ASSUME NEW x PROVE x \in DOMAIN f2 <=> x = q \/ x = r \/ (x \in DOMAIN f /\ (x <= p \/ x >= r))
  <2>1. x \in DOMAIN f1 <=> x = r \/ (x \in DOMAIN f /\ (x <= q \/ x >= r))
    BY Zenon DEF Laid
  <2>2. x \in DOMAIN f2 <=> x = q \/ (x \in DOMAIN f1 /\ (x <= p \/ x >= q))
    BY Zenon DEF Laid
  <2> QED  BY <1>1, <2>1, <2>2
<1>4. h2[p] = Tag(q - p, c, h[p].pinuse) /\ h2[q] = Tag(r - q, d, c)
  <2>1. h2[p] = Tag(s, c, h[p].pinuse) /\ h2[q] = Tag(t, d, c)
    BY Zenon DEF Laid
  <2> QED  BY <1>1, <2>1, Zenon
<1>5. \A x \in DOMAIN h2 : x # p /\ x # q /\ x # r => h2[x] = h[x]
  BY <1>1, <1>2 DEF Laid
<1>6. f2[q] = Footer(c, q - p) /\ f2[r] = Footer(d, r - q)
  BY <1>1, <1>3 DEF Laid
<1>7. \A x \in DOMAIN f2 : x # q /\ x # r => f2[x] = f[x]
  BY <1>1, <1>3 DEF Laid
<1>8. h2[r] = Tag(h[r].size, h[r].cinuse, d)
  BY <1>1, <1>2 DEF Laid
<1> QED  BY <1>2, <1>3, <1>4, <1>5, <1>6, <1>7, <1>8 DEF Cut

(* The head after a chunk that was told of as free.                        *)
LEMMA ToldFree ==
  ASSUME NEW h, NEW h2, NEW r, Words(h), r \in DOMAIN h, Told(h, h2, r, FALSE)
  PROVE  r \in DOMAIN h2 /\ h2[r] = Tag(h[r].size, h[r].cinuse, FALSE)
BY Zenon DEF Told

(* The head after a chunk that was told of as in use.                      *)
LEMMA ToldInuse ==
  ASSUME NEW h, NEW h2, NEW r, Words(h), r \in DOMAIN h, Told(h, h2, r, TRUE)
  PROVE  r \in DOMAIN h2 /\ h2[r] = Tag(h[r].size, h[r].cinuse, TRUE)
BY Zenon DEF Told

(* The head after a chunk, left alone, that had told of a free one.        *)
LEMMA UntoldFree ==
  ASSUME NEW h, NEW h2, NEW r, Words(h), r \in DOMAIN h, Untold(h, h2, r), ~UsedBefore(h, r)
  PROVE  r \in DOMAIN h2 /\ h2[r] = Tag(h[r].size, h[r].cinuse, FALSE)
<1>1. h[r] = Tag(h[r].size, h[r].cinuse, FALSE)
  BY DEF Words, Tag, UsedBefore
<1> QED  BY <1>1, Zenon DEF Untold

(* The head after a chunk, left alone, that had told of one in use.        *)
LEMMA UntoldInuse ==
  ASSUME NEW h, NEW h2, NEW r, Words(h), r \in DOMAIN h, Untold(h, h2, r), UsedBefore(h, r)
  PROVE  r \in DOMAIN h2 /\ h2[r] = Tag(h[r].size, h[r].cinuse, TRUE)
<1>1. h[r] = Tag(h[r].size, h[r].cinuse, TRUE)
  BY DEF Words, Tag, UsedBefore
<1> QED  BY <1>1, Zenon DEF Untold
=============================================================================
